---------------------------- MODULE BusRequests ----------------------------
(***************************************************************************)
(* One service on the bus (the simulation engine): BusParticipant over     *)
(* NatsTransport.  Commands and events are delivered into one FIFO of      *)
(* tasks that a bounded pool of threads serves.  A command's handler makes *)
(* requests of its own to a peer service (load engine, solver) and blocks  *)
(* its thread until the event arrives in the same pool, or the wait        *)
(* expires.  Waiters stay subscribed, so every event of the peer becomes   *)
(* one task per request made so far.                                       *)
(*                                                                         *)
(* Time is abstract: a wait may expire at any moment, also while its       *)
(* answer waits in the queue behind the very threads that wait.            *)
(***************************************************************************)
EXTENDS BusConnection, FiniteSets, SequencesExt

CONSTANTS Command,     \* commands sent to this service
          Requests,    \* requests made by a command's handler, in sequence
          Workers,     \* threads of the loop's default executor
          NoEvent

ASSUME RequestsAssumption ==
    /\ IsFiniteSet(Command)
    /\ Requests \in [Command -> Nat \ {0}]
    /\ Workers \in Nat \ {0}

Request == UNION {{<<c, n>> : n \in 1..Requests[c]} : c \in Command}
Status == {"ok", "error"}
Stage == {"sent", "queued", "subscribe", "publish", "wait", "reply", "fail",
          "done", "dropped", "unheard"}

CommandTask == [kind : {"command"}, cmd : Command]
EventTask == [kind : {"event"}, to : Request, corr : Request, status : Status]

VARIABLES alive,     \* the adopted connection has not been closed for good
          queue,     \* tasks handed to run_in_executor and not yet started
          active,    \* tasks that occupy a thread
          stage,     \* where each command's handler is; "dropped" before it began,
                     \* "unheard" when even its error event could not be published
          turn,      \* which of its requests it makes
          subs,      \* requests whose waiter is subscribed; never shrinks
          inbox,     \* result["msg"] of each waiter
          got,       \* what each request returned
          peer,      \* requests the peer holds: "idle", "asked", "half", "done"
          events,    \* events of the peer, as <<request, status>>
          outcome    \* events this service published for each command

reqVars == <<alive, queue, active, stage, turn, subs, inbox, got, peer, events, outcome>>
busVars == <<connVars, reqVars>>

TypeOK ==
    /\ ConnTypeOK
    /\ alive \in BOOLEAN
    /\ queue \in Seq(CommandTask \union EventTask)
    /\ active \subseteq CommandTask \union EventTask
    /\ stage \in [Command -> Stage]
    /\ \A c \in Command : turn[c] \in 1..Requests[c]
    /\ subs \subseteq Request
    /\ inbox \in [Request -> Status \union {NoEvent}]
    /\ got \in [Request -> Status \union {NoEvent}]
    /\ peer \in [Request -> {"idle", "asked", "half", "done"}]
    /\ events \subseteq Request \X Status
    /\ outcome \in [Command -> SUBSET Status]

Init ==
    /\ ConnInit
    /\ alive = TRUE
    /\ queue = <<>> /\ active = {}
    /\ stage = [c \in Command |-> "sent"]
    /\ turn = [c \in Command |-> 1]
    /\ subs = {} /\ events = {}
    /\ inbox = [r \in Request |-> NoEvent]
    /\ got = inbox
    /\ peer = [r \in Request |-> "idle"]
    /\ outcome = [c \in Command |-> {}]

-----------------------------------------------------------------------------
Current(c) == <<c, turn[c]>>
Task(c) == [kind |-> "command", cmd |-> c]
Usable == caller = "up" /\ alive

\* The command reaches the service's subscription, which drops a body it
\* cannot decode without a word.
Deliver(c) ==
    /\ Usable
    /\ stage[c] = "sent"
    /\ \/ stage' = [stage EXCEPT ![c] = "queued"] /\ queue' = Append(queue, Task(c))
       \/ stage' = [stage EXCEPT ![c] = "dropped"] /\ UNCHANGED queue
    /\ UNCHANGED <<alive, active, turn, subs, inbox, got, peer, events, outcome>>

\* A free thread takes the oldest task; a command's handler begins.
Take ==
    /\ queue # <<>>
    /\ Cardinality(active) < Workers
    /\ active' = active \union {Head(queue)}
    /\ queue' = Tail(queue)
    /\ stage' = [c \in Command |-> IF Head(queue) = Task(c) THEN "subscribe" ELSE stage[c]]
    /\ UNCHANGED <<alive, turn, subs, inbox, got, peer, events, outcome>>

\* A free thread takes a command whose action has no handler, and returns.
TakeUnknown ==
    /\ queue # <<>>
    /\ Cardinality(active) < Workers
    /\ Head(queue).kind = "command"
    /\ queue' = Tail(queue)
    /\ stage' = [stage EXCEPT ![Head(queue).cmd] = "dropped"]
    /\ UNCHANGED <<alive, active, turn, subs, inbox, got, peer, events, outcome>>

Subscribe(c) ==
    /\ stage[c] = "subscribe"
    /\ Usable
    /\ subs' = subs \union {Current(c)}
    /\ stage' = [stage EXCEPT ![c] = "publish"]
    /\ UNCHANGED <<alive, queue, active, turn, inbox, got, peer, events, outcome>>

Publish(c) ==
    /\ stage[c] = "publish"
    /\ Usable
    /\ peer' = [peer EXCEPT ![Current(c)] = "asked"]
    /\ stage' = [stage EXCEPT ![c] = "wait"]
    /\ UNCHANGED <<alive, queue, active, turn, subs, inbox, got, events, outcome>>

\* A scheduled subscribe or publish raises: the connection refuses it, or the
\* 5 s wait for the loop ends although the message went out.
Raise(c) ==
    /\ stage[c] \in {"subscribe", "publish"}
    /\ \/ UNCHANGED <<subs, peer>>
       \/ /\ Usable
          /\ IF stage[c] = "subscribe"
             THEN subs' = subs \union {Current(c)} /\ UNCHANGED peer
             ELSE peer' = [peer EXCEPT ![Current(c)] = "asked"] /\ UNCHANGED subs
    /\ stage' = [stage EXCEPT ![c] = "fail"]
    /\ UNCHANGED <<alive, queue, active, turn, inbox, got, events, outcome>>

\* The peer publishes an event: one task for every waiter ever subscribed.
\* When publishing the ok event raised after it went out, an error follows.
PeerAnswers(r, s) ==
    /\ Usable
    /\ \/ peer[r] = "asked"
       \/ peer[r] = "half" /\ s = "error"
    /\ peer' \in {[peer EXCEPT ![r] = p] : p \in {"done"} \union {h \in {"half"} : s = "ok"}}
    /\ events' = events \union {<<r, s>>}
    /\ queue' = queue \o SetToSeq({[kind |-> "event", to |-> w, corr |-> r, status |-> s] :
                                      w \in subs})
    /\ UNCHANGED <<alive, active, stage, turn, subs, inbox, got, outcome>>

\* Mutant: a waiter that does not compare the correlation id.
WaiterHearsAll(t) ==
    /\ t \in active
    /\ t.kind = "event"
    /\ active' = active \ {t}
    /\ inbox' = [inbox EXCEPT ![t.to] = t.status]
    /\ UNCHANGED <<alive, queue, stage, turn, subs, got, peer, events, outcome>>

\* The waiter of one request looks at one event.
Waiter(t) ==
    /\ t \in active
    /\ t.kind = "event"
    /\ active' = active \ {t}
    /\ inbox' = IF t.corr = t.to THEN [inbox EXCEPT ![t.to] = t.status] ELSE inbox
    /\ UNCHANGED <<alive, queue, stage, turn, subs, got, peer, events, outcome>>

\* Mutant: one request too many after the last answer.
ResumeOnce(c) ==
    /\ stage[c] = "wait"
    /\ inbox[Current(c)] # NoEvent
    /\ got' = [got EXCEPT ![Current(c)] = inbox[Current(c)]]
    /\ IF inbox[Current(c)] = "error" THEN stage' = [stage EXCEPT ![c] = "fail"] /\ UNCHANGED turn
       ELSE IF turn[c] <= Requests[c]
       THEN /\ stage' = [stage EXCEPT ![c] = "subscribe"]
            /\ turn' = [turn EXCEPT ![c] = @ + 1]
       ELSE stage' = [stage EXCEPT ![c] = "reply"] /\ UNCHANGED turn
    /\ UNCHANGED <<alive, queue, active, subs, inbox, peer, events, outcome>>

\* The event arrived: an ok leads on, an error is raised by the handler.
Resume(c) ==
    /\ stage[c] = "wait"
    /\ inbox[Current(c)] # NoEvent
    /\ got' = [got EXCEPT ![Current(c)] = inbox[Current(c)]]
    /\ IF inbox[Current(c)] = "error" THEN stage' = [stage EXCEPT ![c] = "fail"] /\ UNCHANGED turn
       ELSE IF turn[c] < Requests[c]
       THEN /\ stage' = [stage EXCEPT ![c] = "subscribe"]
            /\ turn' = [turn EXCEPT ![c] = @ + 1]
       ELSE stage' = [stage EXCEPT ![c] = "reply"] /\ UNCHANGED turn
    /\ UNCHANGED <<alive, queue, active, subs, inbox, peer, events, outcome>>

\* Mutant: done.wait() without its timeout.
WaitForever(c) == FALSE

\* request() returns None and the handler raises.
Expire(c) ==
    /\ stage[c] = "wait"
    /\ inbox[Current(c)] = NoEvent
    /\ stage' = [stage EXCEPT ![c] = "fail"]
    /\ UNCHANGED <<alive, queue, active, turn, subs, inbox, got, peer, events, outcome>>

Say(c, s) == Usable /\ outcome' = [outcome EXCEPT ![c] = @ \union {s}]

\* The handler returned: publish the ok event, or fail to (the event may have
\* gone out all the same).
Reply(c) ==
    /\ stage[c] = "reply"
    /\ \/ Say(c, "ok") /\ stage' = [stage EXCEPT ![c] = "done"] /\ active' = active \ {Task(c)}
       \/ (Say(c, "ok") \/ UNCHANGED outcome) /\ stage' = [stage EXCEPT ![c] = "fail"] /\ UNCHANGED active
    /\ UNCHANGED <<alive, queue, turn, subs, inbox, got, peer, events>>

\* The handler raised: publish the error event.  When that raises too, the
\* exception is lost in the pool's future and nobody hears of the command.
ReplyError(c) ==
    /\ stage[c] = "fail"
    /\ \/ Say(c, "error") /\ stage' = [stage EXCEPT ![c] = "done"]
       \/ UNCHANGED outcome /\ stage' = [stage EXCEPT ![c] = "unheard"]
    /\ active' = active \ {Task(c)}
    /\ UNCHANGED <<alive, queue, turn, subs, inbox, got, peer, events>>

\* The broker stays away longer than the client library reconnects.
LoseBroker ==
    /\ Usable
    /\ alive' = FALSE
    /\ UNCHANGED <<queue, active, stage, turn, subs, inbox, got, peer, events, outcome>>

Handler(c) ==
    \/ Subscribe(c) \/ Publish(c) \/ Raise(c)
    \/ Resume(c) \/ Expire(c) \/ Reply(c) \/ ReplyError(c)

\* Nothing is left to do: the bus is gone, or every command was handled.
Ended ==
    /\ \A i \in Attempt : link[i] \notin {"connecting", "connected"}
    /\ active = {} /\ queue = <<>>
    /\ caller = "down" \/ ~alive \/ \A c \in Command : stage[c] \in {"done", "dropped", "unheard"}
    /\ UNCHANGED busVars

ReqNext ==
    \/ Take \/ TakeUnknown \/ LoseBroker
    \/ \E c \in Command : Deliver(c) \/ Handler(c)
    \/ \E r \in Request, s \in Status : PeerAnswers(r, s)
    \/ \E t \in active : Waiter(t)

Next == (ConnNext /\ UNCHANGED reqVars) \/ (ReqNext /\ UNCHANGED connVars) \/ Ended

Spec == Init /\ [][Next]_busVars

\* The service's threads run, its loop delivers and its waits end; whether the
\* peer answers or the broker stays is not assumed.  No step can be undone, so
\* fairness of all these steps together is fairness of each.
ServiceStep ==
    \/ ConnNext /\ UNCHANGED reqVars
    \/ /\ UNCHANGED connVars
       /\ \/ Take \/ TakeUnknown
          \/ \E c \in Command : Deliver(c) \/ Handler(c)
          \/ \E t \in active : Waiter(t)

Fairness == WF_busVars(ServiceStep)

FairSpec == Spec /\ Fairness

-----------------------------------------------------------------------------
\* Requests made inside a pool thread obey the bus's promise: each returns
\* once, with an event of its own or with nothing, although all waiters hear
\* all events and answers may be doubled or late (participant.request).
Asked == {r \in Request : peer[r] # "idle"}
Returned == {r \in Asked : r[2] < turn[r[1]] \/ stage[r[1]] \in {"reply", "fail", "done", "unheard"}}
Promise == INSTANCE RequestReply WITH asked <- Asked, returned <- Returned,
                                     answered <- events, value <- got
ImplementsReply == Promise!ReplySpec

\* A full pool starves no command for good: even when every thread waits for
\* an event that only another thread could deliver, each command that reached
\* the pool ends.  It is answered by an event of its own, unless its action has
\* no handler or the publishing of its error event raised
\* (BusParticipant._on_command, request, NatsTransport.subscribe's executor).
CommandsAnswered ==
    \A c \in Command :
       (stage[c] = "queued") ~> (outcome[c] # {} \/ stage[c] \in {"dropped", "unheard"})
=============================================================================
