---------------------------- MODULE RequestReply ----------------------------
(***************************************************************************)
(* What the OpenFMB bus promises a requester, whatever transport carries   *)
(* it: a request is asked once and returns once, and what it returns is    *)
(* either nothing (the wait expired or the bus failed) or the status of an *)
(* event that was published for this very request.                         *)
(***************************************************************************)
CONSTANTS Request,   \* correlation ids
          NoEvent    \* the value of a request that returned nothing

Status == {"ok", "error"}

VARIABLES asked,     \* requests whose caller is, or was, waiting
          returned,  \* requests whose caller goes on
          answered,  \* events published so far, as <<request, status>>
          value      \* what each request returned

replyVars == <<asked, returned, answered, value>>

ReplyInit ==
    /\ asked = {} /\ returned = {} /\ answered = {}
    /\ value = [r \in Request |-> NoEvent]

Ask(r) ==
    /\ r \notin asked
    /\ asked' = asked \union {r}
    /\ UNCHANGED <<returned, answered, value>>

\* The transport raised although the command may have gone out.
AskFails(r) ==
    /\ r \notin asked
    /\ asked' = asked \union {r}
    /\ returned' = returned \union {r}
    /\ UNCHANGED <<answered, value>>

\* The peer may answer late, and may answer twice.
PeerAnswers(r, s) ==
    /\ r \in asked
    /\ answered' = answered \union {<<r, s>>}
    /\ UNCHANGED <<asked, returned, value>>

Return(r, v) ==
    /\ r \in asked \ returned
    /\ v = NoEvent \/ <<r, v>> \in answered
    /\ returned' = returned \union {r}
    /\ value' = [value EXCEPT ![r] = v]
    /\ UNCHANGED <<asked, answered>>

ReplyNext ==
    \E r \in Request :
       \/ Ask(r) \/ AskFails(r)
       \/ \E s \in Status : PeerAnswers(r, s)
       \/ \E v \in Status \union {NoEvent} : Return(r, v)

ReplySpec == ReplyInit /\ [][ReplyNext]_replyVars
=============================================================================
