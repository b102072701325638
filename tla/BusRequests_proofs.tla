------------------------- MODULE BusRequests_proofs -------------------------
(***************************************************************************)
(* The bus for any number of commands, requests, attempts and threads: one *)
(* connection, and the promise of RequestReply kept by every request.      *)
(***************************************************************************)
EXTENDS BusRequests, FiniteSetTheorems, SequenceTheorems, TLAPS

-----------------------------------------------------------------------------
(* The connection.                                                         *)

\* The caller keeps the attempt it adopts, and no other.
RulingsInOrder ==
    /\ caller = "waiting" => tried # 0
    /\ \A i \in Attempt : ruling[i] = "keep" <=> i = adopted

ConnInv == ConnTypeOK /\ RulingsInOrder /\ OneConnection

LEMMA ConnEstablished == ConnInit => ConnInv
BY AttemptsAssumption DEF ConnInit, ConnInv, ConnTypeOK, RulingsInOrder, OneConnection, Attempt

\* An adopted connection is open or running, so no later end disturbs it.
LEMMA ConnKept == ConnInv /\ ConnNext => ConnInv'
<1> SUFFICES ASSUME ConnInv, ConnNext
             PROVE  ConnInv'
  OBVIOUS
<1> USE AttemptsAssumption DEF ConnInv, ConnTypeOK, RulingsInOrder, OneConnection, Attempt
<1>1. CASE StartAttempt
  BY <1>1 DEF StartAttempt
<1>2. CASE Adopt
  BY <1>2 DEF Adopt
<1>3. CASE PassOver
  BY <1>3 DEF PassOver
<1>4. ASSUME NEW i \in Attempt, AttemptEnds(i)
      PROVE  ConnInv'
  BY <1>4 DEF AttemptEnds
<1>5. ASSUME NEW i \in Attempt, Obey(i)
      PROVE  ConnInv'
  BY <1>5 DEF Obey
<1> QED
  BY <1>1, <1>2, <1>3, <1>4, <1>5 DEF ConnNext

LEMMA ConnStays == ConnInv /\ UNCHANGED connVars => ConnInv'
BY DEF ConnInv, ConnTypeOK, RulingsInOrder, OneConnection, connVars

\* For any number of attempts: no loop but the adopted one keeps running, and
\* that one is never closed by its own thread (NatsTransport.connect).
THEOREM ConnectionIsUnique == Spec => []OneConnection
<1>1. Init => ConnInv
  BY ConnEstablished DEF Init
<1>2. ConnInv /\ [Next]_busVars => ConnInv'
  BY ConnKept, ConnStays DEF Next, Ended, busVars
<1>3. ConnInv => OneConnection
  BY DEF ConnInv
<1> QED
  BY <1>1, <1>2, <1>3, PTL DEF Spec

-----------------------------------------------------------------------------
(* The invariant of the requests.                                          *)

\* A command waits in the queue once, and only before its handler began.
QueueInOrder ==
    /\ \A i \in 1..Len(queue) : queue[i].kind = "command" => stage[queue[i].cmd] = "queued"
    /\ \A i, j \in 1..Len(queue) : queue[i].kind = "command" /\ queue[i] = queue[j] => i = j

Before == {"sent", "queued", "subscribe", "publish"}

\* A handler's requests are made one after another, and return so.
InTurn(c, n) ==
    /\ n > turn[c] \/ (n = turn[c] /\ stage[c] \in Before) => peer[<<c, n>>] = "idle"
    /\ n > turn[c] \/ (n = turn[c] /\ stage[c] \in Before \union {"wait"}) => got[<<c, n>>] = NoEvent
    /\ n = turn[c] /\ stage[c] = "wait" => peer[<<c, n>>] # "idle"

AskedInTurn == \A c \in Command : \A n \in 1..Requests[c] : InTurn(c, n)

\* What reaches a waiter was published.
HeardWhatWasSaid ==
    /\ \A i \in 1..Len(queue) : queue[i].kind = "event" => <<queue[i].corr, queue[i].status>> \in events
    /\ \A t \in active : t.kind = "event" => <<t.corr, t.status>> \in events
    /\ \A r \in Request : inbox[r] # NoEvent => <<r, inbox[r]>> \in events

Counted == turn \in [Command -> Nat \ {0}] /\ IsFiniteSet(subs)

ReqInv == TypeOK /\ Counted /\ QueueInOrder /\ AskedInTurn /\ HeardWhatWasSaid

\* What a handler has asked and got keeps its turn when it neither goes back to
\* a request's beginning nor begins to wait.
LEMMA TurnStays ==
    ASSUME AskedInTurn, UNCHANGED <<turn, peer, got>>,
           \A c \in Command : /\ stage'[c] \in Before => stage[c] \in Before
                              /\ stage'[c] = "wait" => stage[c] = "wait"
    PROVE  AskedInTurn'
<1>. SUFFICES ASSUME NEW c \in Command, NEW n \in 1..Requests[c] PROVE InTurn(c, n)'
  BY DEF AskedInTurn
<1>1. InTurn(c, n)
  BY DEF AskedInTurn
<1>2. turn' = turn /\ peer' = peer /\ got' = got
  OBVIOUS
<1>3. stage'[c] \in Before \union {"wait"} => stage[c] \in Before \union {"wait"}
  OBVIOUS
<1>. QED  BY Zenon, <1>1, <1>2, <1>3 DEF InTurn

LEMMA RequestPairs ==
    /\ \A c \in Command : \A n \in 1..Requests[c] : <<c, n>> \in Request
    /\ \A r \in Request : r[1] \in Command /\ r[2] \in 1..Requests[r[1]] /\ r = <<r[1], r[2]>>
BY DEF Request

LEMMA CurrentIsRequest ==
    ASSUME TypeOK, NEW c \in Command
    PROVE  Current(c) \in Request /\ turn[c] \in 1..Requests[c] /\ Requests[c] \in Nat
BY RequestPairs, RequestsAssumption DEF TypeOK, Current

\* A command's current request is no other.
LEMMA EntryOf ==
    ASSUME NEW c \in Command, NEW d \in Command, NEW n \in 1..Requests[d]
    PROVE  <<d, n>> \in Request /\ (<<d, n>> = Current(c) <=> d = c /\ n = turn[c])
BY RequestPairs DEF Current

LEMMA ConnTypeStays == ConnTypeOK /\ UNCHANGED connVars => ConnTypeOK'
BY DEF ConnTypeOK, connVars

\* One task for every waiter, in some order.
EventTasks(r, s) == {[kind |-> "event", to |-> w, corr |-> r, status |-> s] : w \in subs}

LEMMA TasksInSomeOrder ==
    ASSUME IsFiniteSet(subs), NEW r, NEW s
    PROVE  SetToSeq(EventTasks(r, s)) \in Seq(EventTasks(r, s))
<1> DEFINE E == EventTasks(r, s)
<1> DEFINE f == [w \in subs |-> [kind |-> "event", to |-> w, corr |-> r, status |-> s]]
<1>1. f \in Surjection(subs, E)
  BY DEF Surjection, EventTasks
<1>2. IsFiniteSet(E)
  BY <1>1, FS_Surjection
<1> HIDE DEF E, f
<1>3. Cardinality(E) \in Nat /\ ExistsBijection(1..Cardinality(E), E)
  BY <1>2, FS_CardinalityType
<1>4. \E g \in [1..Cardinality(E) -> E] : IsInjective(g)
  BY <1>3 DEF ExistsBijection, Bijection, Injection
<1>5. SetToSeq(E) \in [1..Cardinality(E) -> E]
  BY <1>4 DEF SetToSeq
<1>6. SetToSeq(E) \in Seq(E)
  BY <1>3, <1>5
<1> QED
  BY <1>6 DEF E

LEMMA ReqEstablished == Init => ReqInv
<1> SUFFICES ASSUME Init
             PROVE  ReqInv
  OBVIOUS
<1>1. ConnTypeOK
  BY ConnEstablished DEF Init, ConnInv
<1>2. TypeOK
  BY <1>1, RequestsAssumption DEF Init, TypeOK, Stage, Status
<1>3. Counted
  BY FS_EmptySet DEF Init, Counted
<1>4. QueueInOrder /\ HeardWhatWasSaid
  BY DEF Init, QueueInOrder, HeardWhatWasSaid
<1>5. AskedInTurn
  BY RequestPairs DEF Init, AskedInTurn, InTurn
<1> QED
  BY <1>2, <1>3, <1>4, <1>5 DEF ReqInv

LEMMA ReqStays == ReqInv /\ UNCHANGED busVars => ReqInv'
<1> SUFFICES ASSUME ReqInv, UNCHANGED busVars
             PROVE  ReqInv'
  OBVIOUS
<1>1. TypeOK'
  BY ConnTypeStays DEF ReqInv, TypeOK, busVars, reqVars
<1>2. (Counted /\ QueueInOrder /\ HeardWhatWasSaid /\ AskedInTurn)'
  BY DEF ReqInv, Counted, QueueInOrder, HeardWhatWasSaid, AskedInTurn, InTurn, busVars, reqVars
<1> QED
  BY <1>1, <1>2 DEF ReqInv

LEMMA DeliverKeeps ==
    ASSUME ReqInv, UNCHANGED connVars, NEW c \in Command, Deliver(c), stage'[c] = "queued"
    PROVE  ReqInv'
<1> USE DEF Deliver, ReqInv
<1>0. queue' = Append(queue, Task(c)) /\ stage' = [stage EXCEPT ![c] = "queued"]
  BY DEF TypeOK, Stage
<1> DEFINE S == CommandTask \union EventTask
<1>1. /\ Task(c) \in S /\ Task(c).kind = "command" /\ Task(c).cmd = c
      /\ \A t \in S : t.kind = "command" => t = Task(t.cmd) /\ t.cmd \in Command
  BY DEF Task, CommandTask, EventTask
<1>2. queue \in Seq(S)
  BY DEF TypeOK
<1> HIDE DEF S
<1>3. /\ queue' \in Seq(S) /\ Len(queue') = Len(queue) + 1
      /\ queue'[Len(queue) + 1] = Task(c)
      /\ \A i \in 1..Len(queue) : queue'[i] = queue[i] /\ queue[i] \in S
  BY <1>0, <1>1, <1>2, AppendProperties, ElementOfSeq
<1>4. TypeOK'
  BY <1>0, <1>3, ConnTypeStays DEF TypeOK, S, Stage
<1>5. Counted'
  BY DEF Counted
<1>6. QueueInOrder'
  BY <1>0, <1>1, <1>2, <1>3, LenProperties DEF QueueInOrder, TypeOK
<1>7. AskedInTurn'
  <2>1. /\ \A d \in Command : stage'[d] = stage[d] \/ (stage[d] \in Before /\ stage'[d] = "queued")
        /\ AskedInTurn /\ UNCHANGED <<turn, peer, got>>
    BY <1>0 DEF TypeOK, Before
  <2>. QED  BY Zenon, <2>1, TurnStays DEF Before
<1>8. HeardWhatWasSaid'
  BY <1>1, <1>2, <1>3, LenProperties DEF HeardWhatWasSaid
<1> QED
  BY <1>4, <1>5, <1>6, <1>7, <1>8

\* Steps that leave the queue as it is.
LEMMA TaskKinds ==
    /\ \A t \in CommandTask \union EventTask : t.kind = "command" => t = Task(t.cmd) /\ t.cmd \in Command
    /\ \A t \in CommandTask \union EventTask : t.kind = "event" => t \in EventTask
    /\ \A t \in CommandTask \union EventTask : t.kind \in {"command", "event"}
    /\ \A c \in Command : Task(c) \in CommandTask /\ Task(c).kind = "command" /\ Task(c).cmd = c
BY DEF Task, CommandTask, EventTask

\* A handler's step does not touch commands that are still queued.
LEMMA QueueStays ==
    ASSUME QueueInOrder, queue' = queue, NEW c \in Command, TypeOK, stage[c] # "queued",
           \A d \in Command : d # c => stage'[d] = stage[d]
    PROVE  QueueInOrder'
<1>1. \A i \in 1..Len(queue) : queue[i] \in CommandTask \union EventTask
  BY ElementOfSeq DEF TypeOK
<1> QED
  BY <1>1, TaskKinds DEF QueueInOrder

\* A command whose body cannot be decoded never enters the queue.
LEMMA DropKeeps ==
    ASSUME ReqInv, UNCHANGED connVars, NEW c \in Command, Deliver(c), stage'[c] = "dropped"
    PROVE  ReqInv'
<1> USE DEF Deliver, ReqInv
<1>0. UNCHANGED queue /\ stage[c] = "sent" /\ stage' = [stage EXCEPT ![c] = "dropped"]
  BY DEF TypeOK, Stage
<1>1. TypeOK'
  BY <1>0, ConnTypeStays DEF TypeOK, Stage
<1>2. Counted'
  BY DEF Counted
<1>3. QueueInOrder'
  BY <1>0, QueueStays DEF TypeOK
<1>4. AskedInTurn'
  <2>1. /\ AskedInTurn /\ UNCHANGED <<peer, got, turn>>
        /\ \A d \in Command : stage'[d] = (IF d = c THEN "dropped" ELSE stage[d])
    BY <1>0 DEF TypeOK
  <2>2. ASSUME NEW d \in Command, NEW n \in 1..Requests[d]
        PROVE  InTurn(d, n)'
    <3>1. InTurn(d, n)
      BY <2>1 DEF AskedInTurn
    <3>2. UNCHANGED <<peer, got, turn>> /\ (stage'[d] = stage[d] \/ (stage[d] = "sent" /\ stage'[d] = "dropped"))
      BY <1>0, <2>1
    <3> QED
      BY ONLY <3>1, <3>2 DEF InTurn, Before
  <2> QED
    BY ONLY <2>2 DEF AskedInTurn
<1>5. HeardWhatWasSaid'
  BY <1>0 DEF HeardWhatWasSaid
<1> QED
  BY <1>1, <1>2, <1>3, <1>4, <1>5

LEMMA SubscribeKeeps ==
    ASSUME ReqInv, UNCHANGED connVars, NEW c \in Command, Subscribe(c)
    PROVE  ReqInv'
<1> USE DEF Subscribe, ReqInv
<1>1. TypeOK'
  BY ConnTypeStays, CurrentIsRequest DEF TypeOK, Stage
<1>2. Counted'
  BY FS_AddElement DEF Counted
<1>3. QueueInOrder'
  BY QueueStays DEF TypeOK
<1>4. AskedInTurn'
  <2>1. /\ \A d \in Command : stage'[d] = stage[d] \/ (stage[d] \in Before /\ stage'[d] = "publish")
        /\ AskedInTurn /\ UNCHANGED <<turn, peer, got>>
    BY DEF TypeOK, Before
  <2>. QED  BY Zenon, <2>1, TurnStays DEF Before
<1>5. HeardWhatWasSaid'
  BY DEF HeardWhatWasSaid
<1> QED
  BY <1>1, <1>2, <1>3, <1>4, <1>5

LEMMA PublishKeeps ==
    ASSUME ReqInv, UNCHANGED connVars, NEW c \in Command, Publish(c)
    PROVE  ReqInv'
<1> USE DEF Publish, ReqInv
<1>0. Current(c) \in Request /\ turn[c] \in 1..Requests[c] /\ Requests[c] \in Nat
  BY CurrentIsRequest
<1>1. TypeOK'
  BY <1>0, ConnTypeStays DEF TypeOK, Stage
<1>2. Counted'
  BY DEF Counted
<1>3. QueueInOrder'
  BY QueueStays DEF TypeOK
<1>4. AskedInTurn'
  <2>1. stage' = [stage EXCEPT ![c] = "wait"] /\ stage \in [Command -> Stage]
    BY DEF TypeOK
  <2>2. \A d \in Command : \A n \in 1..Requests[d] :
           peer'[<<d, n>>] = IF d = c /\ n = turn[c] THEN "asked" ELSE peer[<<d, n>>]
    <3>1. peer \in [Request -> {"idle", "asked", "half", "done"}] /\ peer' = [peer EXCEPT ![Current(c)] = "asked"]
      BY DEF TypeOK
    <3> QED
      BY ONLY <3>1, EntryOf, c \in Command
  <2>3. UNCHANGED <<turn, got>> /\ stage[c] = "publish"
    OBVIOUS
  <2>4. ASSUME NEW d \in Command, NEW n \in 1..Requests[d]
        PROVE  InTurn(d, n)'
    <3>1. CASE d = c
      BY <1>0, <2>4, <3>1, <2>1, <2>2, <2>3 DEF AskedInTurn, InTurn, Before
    <3>2. CASE d # c
      BY <2>4, <3>2, <2>1, <2>2, <2>3 DEF AskedInTurn, InTurn
    <3> QED
      BY <3>1, <3>2
  <2> QED
    BY <2>4 DEF AskedInTurn
<1>5. HeardWhatWasSaid'
  BY DEF HeardWhatWasSaid
<1> QED
  BY <1>1, <1>2, <1>3, <1>4, <1>5

LEMMA RaiseKeeps ==
    ASSUME ReqInv, UNCHANGED connVars, NEW c \in Command, Raise(c)
    PROVE  ReqInv'
<1> USE DEF Raise, ReqInv
<1>0. Current(c) \in Request /\ turn[c] \in 1..Requests[c] /\ Requests[c] \in Nat
  BY CurrentIsRequest
<1>1. TypeOK'
  BY <1>0, ConnTypeStays DEF TypeOK, Stage
<1>2. Counted'
  BY FS_AddElement DEF Counted
<1>3. QueueInOrder'
  BY QueueStays DEF TypeOK
<1>4. AskedInTurn'
  <2>1. stage' = [stage EXCEPT ![c] = "fail"] /\ stage \in [Command -> Stage]
    BY DEF TypeOK
  <2>2. CASE peer' = [peer EXCEPT ![Current(c)] = "asked"]
    <3>1. \A d \in Command : \A n \in 1..Requests[d] :
             peer'[<<d, n>>] = IF d = c /\ n = turn[c] THEN "asked" ELSE peer[<<d, n>>]
      <4>1. peer \in [Request -> {"idle", "asked", "half", "done"}]
        BY DEF TypeOK
      <4> QED
        BY ONLY <2>2, <4>1, EntryOf, c \in Command
    <3>2. UNCHANGED <<turn, got>> /\ stage[c] \in Before
      BY DEF Before
    <3>3. ASSUME NEW d \in Command, NEW n \in 1..Requests[d]
          PROVE  InTurn(d, n)'
      <4>1. CASE d = c
        BY <1>0, <3>3, <4>1, <2>1, <3>1, <3>2 DEF AskedInTurn, InTurn, Before
      <4>2. CASE d # c
        BY <3>3, <4>2, <2>1, <3>1, <3>2 DEF AskedInTurn, InTurn
      <4> QED
        BY <4>1, <4>2
    <3> QED
      BY <3>3 DEF AskedInTurn
  <2>3. CASE UNCHANGED peer
    BY ZenonT(30), <2>1, <2>3 DEF AskedInTurn, InTurn, Before
  <2> QED
    BY <2>2, <2>3
<1>5. HeardWhatWasSaid'
  BY DEF HeardWhatWasSaid
<1> QED
  BY <1>1, <1>2, <1>3, <1>4, <1>5

LEMMA ResumeKeeps ==
    ASSUME ReqInv, UNCHANGED connVars, NEW c \in Command, Resume(c)
    PROVE  ReqInv'
<1> USE DEF Resume, ReqInv
<1>0. Current(c) \in Request /\ turn[c] \in 1..Requests[c] /\ Requests[c] \in Nat
  BY CurrentIsRequest
<1>1. TypeOK'
  <2>1. inbox[Current(c)] \in Status \union {NoEvent}
    BY <1>0 DEF TypeOK
  <2>2. got' \in [Request -> Status \union {NoEvent}]
    BY <2>1 DEF TypeOK
  <2>3. stage' \in [Command -> Stage]
    BY DEF TypeOK, Stage
  <2>4. \A d \in Command : turn'[d] \in 1..Requests[d]
    <3>1. turn \in [Command -> Nat \ {0}] /\ \A d \in Command : turn[d] \in 1..Requests[d]
      BY DEF Counted, TypeOK
    <3>2. turn' = turn \/ (turn' = [turn EXCEPT ![c] = @ + 1] /\ turn[c] < Requests[c])
      BY ONLY Resume(c) DEF Resume
    <3> QED
      BY ONLY <1>0, <3>1, <3>2
  <2> QED
    BY <2>2, <2>3, <2>4, ConnTypeStays DEF TypeOK
<1>2. Counted'
  BY DEF Counted
<1>3. QueueInOrder'
  BY QueueStays DEF TypeOK
<1>4. AskedInTurn'
  <2>1. \A d \in Command : \A n \in 1..Requests[d] :
           got'[<<d, n>>] = IF d = c /\ n = turn[c] THEN inbox[Current(c)] ELSE got[<<d, n>>]
    <3>1. got \in [Request -> Status \union {NoEvent}] /\ got' = [got EXCEPT ![Current(c)] = inbox[Current(c)]]
      BY DEF TypeOK
    <3> QED
      BY ONLY ZenonT(30), <3>1, EntryOf, c \in Command
  <2>2. /\ \A d \in Command \ {c} : stage'[d] = stage[d] /\ turn'[d] = turn[d]
        /\ \/ stage'[c] \in {"fail", "reply"} /\ turn'[c] = turn[c]
           \/ stage'[c] = "subscribe" /\ turn'[c] = turn[c] + 1
        /\ turn[c] \in Nat
    BY <1>0 DEF TypeOK, Counted
  <2>3. ASSUME NEW d \in Command \ {c}, NEW n \in 1..Requests[d]
        PROVE  InTurn(d, n)'
    BY <2>1, <2>2, <2>3 DEF AskedInTurn, InTurn
  <2>4. ASSUME NEW n \in 1..Requests[c]
        PROVE  InTurn(c, n)'
    BY <1>0, <2>1, <2>2, <2>4 DEF AskedInTurn, InTurn, Before
  <2> QED
    BY <2>3, <2>4 DEF AskedInTurn
<1>5. HeardWhatWasSaid'
  BY DEF HeardWhatWasSaid
<1> QED
  BY <1>1, <1>2, <1>3, <1>4, <1>5

\* Steps that only end a handler's wait or the handler.
LEMMA EndKeeps ==
    ASSUME ReqInv, UNCHANGED connVars, NEW c \in Command,
           Expire(c) \/ Reply(c) \/ ReplyError(c)
    PROVE  ReqInv'
<1> USE DEF Expire, Reply, ReplyError, Say, ReqInv
<1>0. /\ UNCHANGED <<alive, queue, turn, subs, inbox, got, peer, events>>
      /\ stage[c] \in {"wait", "reply", "fail"} /\ active' \subseteq active
      /\ stage' \in {[stage EXCEPT ![c] = s] : s \in {"fail", "done", "unheard"}}
  OBVIOUS
<1>1. TypeOK'
  <2>1. outcome' \in [Command -> SUBSET Status]
    BY DEF TypeOK, Status
  <2>2. stage' \in [Command -> Stage]
    BY <1>0 DEF TypeOK, Stage
  <2>3. active' \subseteq CommandTask \union EventTask
    BY <1>0 DEF TypeOK
  <2> QED
    BY <1>0, <2>1, <2>2, <2>3, ConnTypeStays DEF TypeOK
<1>2. Counted'
  BY <1>0 DEF Counted
<1>3. QueueInOrder'
  BY <1>0, QueueStays DEF TypeOK
<1>4. AskedInTurn'
  <2>1. /\ \A d \in Command : stage'[d] = stage[d] \/ stage'[d] \in {"fail", "done", "unheard"}
        /\ AskedInTurn /\ UNCHANGED <<turn, peer, got>>
    BY <1>0 DEF TypeOK
  <2>. QED  BY Zenon, <2>1, TurnStays DEF Before
<1>5. HeardWhatWasSaid'
  BY <1>0 DEF HeardWhatWasSaid
<1> QED
  BY <1>1, <1>2, <1>3, <1>4, <1>5

LEMMA WaiterKeeps ==
    ASSUME ReqInv, UNCHANGED connVars, NEW t \in active, Waiter(t)
    PROVE  ReqInv'
<1> USE DEF Waiter, ReqInv
<1>0. t.to \in Request /\ t.status \in Status /\ active' \subseteq active
  BY TaskKinds DEF TypeOK, EventTask
<1>1. TypeOK'
  BY <1>0, ConnTypeStays DEF TypeOK
<1>2. Counted'
  BY DEF Counted
<1>3. QueueInOrder'
  BY DEF QueueInOrder
<1>4. AskedInTurn'
  BY DEF AskedInTurn, InTurn
<1>5. HeardWhatWasSaid'
  BY <1>0 DEF HeardWhatWasSaid, TypeOK
<1> QED
  BY <1>1, <1>2, <1>3, <1>4, <1>5

LEMMA LoseBrokerKeeps ==
    ASSUME ReqInv, UNCHANGED connVars, LoseBroker
    PROVE  ReqInv'
<1> USE DEF LoseBroker, ReqInv
<1>1. TypeOK'
  BY ConnTypeStays DEF TypeOK
<1>2. (Counted /\ QueueInOrder /\ AskedInTurn /\ HeardWhatWasSaid)'
  BY DEF Counted, QueueInOrder, AskedInTurn, InTurn, HeardWhatWasSaid
<1> QED
  BY <1>1, <1>2

\* The oldest task leaves the queue, and with it the only one of its command.
LEMMA TakeKeeps ==
    ASSUME ReqInv, UNCHANGED connVars, Take \/ TakeUnknown
    PROVE  ReqInv'
<1> USE DEF ReqInv
<1> DEFINE S == CommandTask \union EventTask
<1>0. /\ queue # <<>> /\ queue' = Tail(queue) /\ active' \subseteq active \union {Head(queue)}
      /\ UNCHANGED <<alive, turn, subs, inbox, got, peer, events, outcome>>
  BY DEF Take, TakeUnknown
<1>1. queue \in Seq(S) /\ queue # <<>> /\ Len(queue) \in Nat \ {0}
  BY <1>0, EmptySeq DEF TypeOK
<1>2. /\ Head(queue) \in S /\ Head(queue) = queue[1]
      /\ queue' \in Seq(S) /\ Len(queue') = Len(queue) - 1
      /\ \A i \in 1..Len(queue') : queue'[i] = queue[i + 1]
      /\ \A i \in 1..Len(queue) : queue[i] \in S
  BY <1>0, <1>1, HeadTailProperties, ElementOfSeq
<1> HIDE DEF S
<1>3. \A c \in Command : Head(queue) = Task(c) => stage[c] = "queued"
  BY <1>1, <1>2, TaskKinds DEF QueueInOrder
<1>s. /\ stage' \in [Command -> Stage]
      /\ \A c \in Command :
            \/ stage'[c] = stage[c]
            \/ Head(queue) = Task(c) /\ stage'[c] \in {"subscribe", "dropped"}
  <2>1. CASE Take
    BY <2>1 DEF Take, TypeOK, Stage
  <2>2. CASE TakeUnknown
    <3>1. Head(queue) = Task(Head(queue).cmd) /\ Head(queue).cmd \in Command
      BY <1>2, <2>2, TaskKinds DEF TakeUnknown, S
    <3> QED
      BY <2>2, <3>1 DEF TakeUnknown, TypeOK, Stage
  <2> QED
    BY <2>1, <2>2
<1>4. TypeOK'
  BY <1>0, <1>2, <1>s, ConnTypeStays DEF TypeOK, S
<1>5. Counted'
  BY <1>0 DEF Counted
<1>6. \A i \in 1..Len(queue') : i + 1 \in 1..Len(queue) /\ i + 1 # 1 /\ queue'[i] = queue[i + 1]
  BY <1>1, <1>2
<1>7. QueueInOrder'
  <2>1. ASSUME NEW i \in 1..Len(queue'), queue'[i].kind = "command"
        PROVE  stage'[queue'[i].cmd] = "queued"
    <3>1. /\ i + 1 \in 1..Len(queue) /\ queue'[i] = queue[i + 1] /\ queue[i + 1] # queue[1]
          /\ stage[queue'[i].cmd] = "queued"
      BY <1>1, <1>6, <2>1 DEF QueueInOrder
    <3>2. queue'[i] = Task(queue'[i].cmd) /\ queue'[i].cmd \in Command
      BY <1>2, <2>1, <3>1, TaskKinds DEF S
    <3> QED
      BY <1>2, <1>s, <3>1, <3>2
  <2>2. ASSUME NEW i \in 1..Len(queue'), NEW j \in 1..Len(queue'),
               queue'[i].kind = "command", queue'[i] = queue'[j]
        PROVE  i = j
    BY <1>1, <1>2, <1>6, <2>2 DEF QueueInOrder
  <2> QED
    BY <2>1, <2>2 DEF QueueInOrder
<1>8. AskedInTurn'
  BY <1>0, <1>3, <1>s DEF AskedInTurn, InTurn, Before
<1>9. HeardWhatWasSaid'
  BY <1>0, <1>1, <1>2, <1>6 DEF HeardWhatWasSaid
<1> QED
  BY <1>4, <1>5, <1>7, <1>8, <1>9

LEMMA PeerAnswersKeeps ==
    ASSUME ReqInv, UNCHANGED connVars, NEW r \in Request, NEW s \in Status, PeerAnswers(r, s)
    PROVE  ReqInv'
<1> USE DEF PeerAnswers, ReqInv
<1> DEFINE S == CommandTask \union EventTask
<1> DEFINE told == SetToSeq(EventTasks(r, s))
<1>1. queue \in Seq(S) /\ queue' = queue \o told
  BY DEF TypeOK, EventTasks
<1>2. EventTasks(r, s) \subseteq EventTask /\ \A t \in EventTasks(r, s) : t.kind = "event" /\ t.corr = r /\ t.status = s
  BY DEF EventTasks, EventTask, TypeOK
<1>3. told \in Seq(EventTasks(r, s))
  BY TasksInSomeOrder DEF Counted
<1>4. \A i \in 1..Len(told) : told[i] \in EventTasks(r, s)
  BY <1>3, ElementOfSeq
<1> HIDE DEF told
<1>5. told \in Seq(S)
  BY <1>2, <1>3, SeqMonotonic
<1> HIDE DEF S
<1>6. /\ queue' \in Seq(S) /\ Len(queue') = Len(queue) + Len(told)
      /\ \A i \in 1..Len(queue') : queue'[i] = IF i <= Len(queue) THEN queue[i] ELSE told[i - Len(queue)]
      /\ Len(queue) \in Nat /\ Len(told) \in Nat
  <2>1. /\ queue \o told \in Seq(S) /\ Len(queue \o told) = Len(queue) + Len(told)
        /\ \A i \in 1..Len(queue) + Len(told) :
              (queue \o told)[i] = IF i <= Len(queue) THEN queue[i] ELSE told[i - Len(queue)]
    BY <1>1, <1>5, ConcatProperties
  <2>2. Len(queue) \in Nat /\ Len(told) \in Nat
    BY <1>1, <1>5, LenProperties
  <2> QED
    BY <1>1, <2>1, <2>2
<1>7. \A i \in 1..Len(queue') :
         \/ i \in 1..Len(queue) /\ queue'[i] = queue[i]
         \/ i \notin 1..Len(queue) /\ queue'[i] \in EventTasks(r, s)
  BY SMTT(30), <1>4, <1>6
<1>8. TypeOK'
  <2>1. peer' \in [Request -> {"idle", "asked", "half", "done"}]
    BY DEF TypeOK
  <2>2. events' \subseteq Request \X Status
    BY DEF TypeOK
  <2>3. queue' \in Seq(CommandTask \union EventTask)
    BY <1>6 DEF S
  <2> QED
    BY <2>1, <2>2, <2>3, ConnTypeStays DEF TypeOK
<1>9. Counted'
  BY DEF Counted
<1>10. QueueInOrder'
  <2>1. ASSUME NEW i \in 1..Len(queue'), queue'[i].kind = "command"
        PROVE  i \in 1..Len(queue) /\ queue'[i] = queue[i]
    BY <1>2, <1>7, <2>1
  <2>2. UNCHANGED stage
    OBVIOUS
  <2> QED
    <3>1. ASSUME NEW i \in 1..Len(queue'), NEW j \in 1..Len(queue'),
                 queue'[i].kind = "command", queue'[i] = queue'[j]
          PROVE  i = j
      <4>1. i \in 1..Len(queue) /\ queue'[i] = queue[i]
        BY <2>1, <3>1
      <4>2. j \in 1..Len(queue) /\ queue'[j] = queue[j]
        BY <2>1, <3>1
      <4>3. QueueInOrder
        OBVIOUS
      <4> QED
        BY ONLY <3>1, <4>1, <4>2, <4>3 DEF QueueInOrder
    <3>2. ASSUME NEW i \in 1..Len(queue'), queue'[i].kind = "command"
          PROVE  stage'[queue'[i].cmd] = "queued"
      <4>1. QueueInOrder
        OBVIOUS
      <4> QED
        BY ONLY <2>1, <2>2, <3>2, <4>1 DEF QueueInOrder
    <3> QED
      BY ONLY <3>1, <3>2 DEF QueueInOrder
<1>11. AskedInTurn'
  <2>1. /\ peer[r] # "idle" /\ peer'[r] # "idle"
        /\ \A q \in Request \ {r} : peer'[q] = peer[q]
    BY DEF TypeOK
  <2>2. UNCHANGED <<stage, turn, got>>
    OBVIOUS
  <2>3. AskedInTurn
    OBVIOUS
  <2>. SUFFICES ASSUME NEW c \in Command, NEW n \in 1..Requests[c] PROVE InTurn(c, n)'
    BY Zenon DEF AskedInTurn
  <2>4. InTurn(c, n)
    BY Zenon, <2>3 DEF AskedInTurn
  <2>5. peer'[<<c, n>>] = "idle" <=> peer[<<c, n>>] = "idle"
    <3>1. <<c, n>> \in Request
      BY Zenon, RequestPairs
    <3>. QED  BY Zenon, <2>1, <3>1
  <2>6. stage' = stage /\ turn' = turn /\ got' = got
    BY Zenon, <2>2
  <2> QED
    BY ONLY Zenon, <2>4, <2>5, <2>6 DEF InTurn
<1>12. HeardWhatWasSaid'
  <2>1. events \subseteq events' /\ <<r, s>> \in events'
    OBVIOUS
  <2> QED
    BY <1>2, <1>7, <2>1 DEF HeardWhatWasSaid
<1> QED
  BY <1>8, <1>9, <1>10, <1>11, <1>12

BusInv == ConnInv /\ ReqInv

LEMMA BusKept == BusInv /\ [Next]_busVars => BusInv'
<1> SUFFICES ASSUME ConnInv, ReqInv, [Next]_busVars
             PROVE  ConnInv' /\ ReqInv'
  BY DEF BusInv
<1>0. ConnInv'
  BY ConnKept, ConnStays DEF Next, Ended, busVars
<1>1. ASSUME ConnNext, UNCHANGED reqVars
      PROVE  ReqInv'
  <2>1. ConnTypeOK' => ReqInv'
    BY <1>1 DEF ReqInv, TypeOK, Counted, QueueInOrder, AskedInTurn, InTurn, HeardWhatWasSaid, reqVars
  <2> QED
    BY <1>0, <2>1 DEF ConnInv
<1>2. ASSUME ReqNext, UNCHANGED connVars
      PROVE  ReqInv'
  <2>1. ASSUME NEW c \in Command, Handler(c)
        PROVE  ReqInv'
    BY <1>2, <2>1, SubscribeKeeps, PublishKeeps, RaiseKeeps, ResumeKeeps, EndKeeps DEF Handler
  <2>2. ASSUME NEW c \in Command, Deliver(c)
        PROVE  ReqInv'
    <3>1. stage'[c] \in {"queued", "dropped"}
      BY <2>2 DEF Deliver, ReqInv, TypeOK
    <3> QED
      BY <1>2, <2>2, <3>1, DeliverKeeps, DropKeeps
  <2>3. ASSUME NEW r \in Request, NEW s \in Status, PeerAnswers(r, s)
        PROVE  ReqInv'
    BY <1>2, <2>3, PeerAnswersKeeps
  <2>4. ASSUME NEW t \in active, Waiter(t)
        PROVE  ReqInv'
    BY <1>2, <2>4, WaiterKeeps
  <2>5. ASSUME Take \/ TakeUnknown \/ LoseBroker
        PROVE  ReqInv'
    BY <1>2, <2>5, TakeKeeps, LoseBrokerKeeps
  <2> QED
    BY <1>2, <2>1, <2>2, <2>3, <2>4, <2>5 DEF ReqNext
<1>3. ASSUME Ended \/ UNCHANGED busVars
      PROVE  ReqInv'
  <2>1. UNCHANGED busVars
    BY <1>3 DEF Ended
  <2> QED
    BY <2>1, ReqStays
<1> QED
  BY <1>0, <1>1, <1>2, <1>3 DEF Next

\* The bus's invariant holds for any commands, requests, threads and attempts.
THEOREM BusInvariant == Spec => []BusInv
<1>1. Init => BusInv
  BY ConnEstablished, ReqEstablished DEF Init, BusInv
<1> QED
  BY <1>1, BusKept, PTL DEF Spec

\* Every task in the queue or a thread is a command or an event of this service,
\* and no handler makes more requests than it has (participant.request).
THEOREM RequestsTypeCorrect == Spec => []TypeOK
<1>1. BusInv => TypeOK
  BY DEF BusInv, ReqInv
<1> QED
  BY <1>1, BusInvariant, PTL

-----------------------------------------------------------------------------
(* The promise of RequestReply.                                            *)

Over == {"reply", "fail", "done", "unheard"}

\* A handler's step that asks nothing, returns nothing and hears nothing.
LEMMA Unnoticed ==
    ASSUME UNCHANGED <<peer, turn, events, got>>,
           \A c \in Command : (stage'[c] \in Over) <=> (stage[c] \in Over)
    PROVE  UNCHANGED Promise!replyVars
<1>1. Asked' = Asked
  BY DEF Asked
<1>2. Returned' = Returned
  BY <1>1, RequestPairs DEF Returned, Asked, Over
<1> QED
  BY <1>1, <1>2 DEF Promise!replyVars

\* A handler that raised before its command went out returns nothing.
LEMMA UnaskedFailure ==
    ASSUME ReqInv, NEW c \in Command, UNCHANGED <<peer, turn, events, got>>,
           stage[c] \in Before, stage' = [stage EXCEPT ![c] = "fail"]
    PROVE  UNCHANGED Promise!replyVars
<1>1. Asked' = Asked
  BY DEF Asked
<1>2. ASSUME NEW r \in Asked
      PROVE  r \in Returned' <=> r \in Returned
  <2>1. r \in Request /\ r[1] \in Command /\ r[2] \in 1..Requests[r[1]] /\ r = <<r[1], r[2]>> /\ peer[r] # "idle"
    BY <1>2, RequestPairs DEF Asked
  <2>2. r \in Returned <=> r[2] < turn[r[1]] \/ stage[r[1]] \in Over
    BY <1>2 DEF Returned, Over
  <2>3. r \in Returned' <=> r[2] < turn[r[1]] \/ stage'[r[1]] \in Over
    BY <1>1, <1>2 DEF Returned, Over
  <2>4. CASE r[1] = c
    <3>1. ~(r[2] > turn[c] \/ r[2] = turn[c])
      BY <2>1, <2>4 DEF ReqInv, AskedInTurn, InTurn
    <3>2. r[2] \in Nat /\ turn[c] \in Nat
      BY <2>1, <2>4, CurrentIsRequest, RequestsAssumption DEF ReqInv
    <3> QED
      BY <2>2, <2>3, <2>4, <3>1, <3>2
  <2>5. CASE r[1] # c
    BY <2>1, <2>2, <2>3, <2>5 DEF ReqInv, TypeOK
  <2> QED
    BY <2>4, <2>5
<1>3. Returned' = Returned
  BY <1>1, <1>2 DEF Returned
<1> QED
  BY <1>1, <1>3 DEF Promise!replyVars

\* The command goes out: its request is asked, and is returned at once if the
\* publish raised all the same.
LEMMA Asking ==
    ASSUME ReqInv, NEW c \in Command, NEW s \in {"wait", "fail"},
           stage[c] = "publish", stage' = [stage EXCEPT ![c] = s],
           peer' = [peer EXCEPT ![Current(c)] = "asked"], UNCHANGED <<turn, events, got>>
    PROVE  IF s = "wait" THEN Promise!Ask(Current(c)) ELSE Promise!AskFails(Current(c))
<1> DEFINE now == Current(c)
<1>1. /\ now \in Request /\ now[1] = c /\ now[2] = turn[c] /\ turn[c] \in 1..Requests[c] /\ turn[c] \in Nat
      /\ \A r \in Request : r[1] = c /\ r[2] = turn[c] <=> r = now
  BY CurrentIsRequest, RequestPairs, RequestsAssumption DEF Current, ReqInv
<1>2. peer[now] = "idle"
  BY <1>1 DEF ReqInv, AskedInTurn, InTurn, Before, Current
<1>3. now \notin Asked /\ Asked' = Asked \union {now}
  BY <1>1, <1>2 DEF Asked, ReqInv, TypeOK
<1>4. ASSUME NEW r \in Asked
      PROVE  r \in Returned' <=> r \in Returned
  <2>1. r \in Request /\ r[1] \in Command /\ r[2] \in 1..Requests[r[1]] /\ r = <<r[1], r[2]>> /\ peer[r] # "idle"
    BY <1>4, RequestPairs DEF Asked
  <2>2. r \in Returned <=> r[2] < turn[r[1]] \/ stage[r[1]] \in Over
    BY <1>4 DEF Returned, Over
  <2>3. r \in Returned' <=> r[2] < turn[r[1]] \/ stage'[r[1]] \in Over
    BY <1>3, <1>4 DEF Returned, Over
  <2>4. CASE r[1] = c
    <3>1. ~(r[2] > turn[c] \/ r[2] = turn[c])
      BY <2>1, <2>4 DEF ReqInv, AskedInTurn, InTurn, Before
    <3>2. r[2] \in Nat
      BY <2>1, RequestsAssumption
    <3> QED
      BY <1>1, <2>2, <2>3, <2>4, <3>1, <3>2
  <2>5. CASE r[1] # c
    BY <2>1, <2>2, <2>3, <2>5 DEF ReqInv, TypeOK
  <2> QED
    BY <2>4, <2>5
<1>5. now \in Returned' <=> s = "fail"
  BY <1>1, <1>3 DEF Returned, ReqInv, TypeOK
<1>6. now \notin Returned
  BY <1>3 DEF Returned
<1>7. Returned' = IF s = "wait" THEN Returned ELSE Returned \union {now}
  BY <1>3, <1>4, <1>5, <1>6 DEF Returned
<1> QED
  BY <1>3, <1>7 DEF Promise!Ask, Promise!AskFails

\* The wait of the current request ends, with the event heard or with nothing.
LEMMA Returning ==
    ASSUME ReqInv, NEW c \in Command, NEW v, stage[c] = "wait",
           \A d \in Command \ {c} : stage'[d] = stage[d] /\ turn'[d] = turn[d],
           \/ stage'[c] \in Over /\ turn'[c] = turn[c]
           \/ stage'[c] = "subscribe" /\ turn'[c] = turn[c] + 1,
           UNCHANGED <<peer, events>>, got' = [got EXCEPT ![Current(c)] = v],
           v = NoEvent \/ <<Current(c), v>> \in events
    PROVE  Promise!Return(Current(c), v)
<1> DEFINE now == Current(c)
<1>1. /\ now \in Request /\ now[1] = c /\ now[2] = turn[c] /\ turn[c] \in 1..Requests[c] /\ turn[c] \in Nat
      /\ \A r \in Request : r[1] = c /\ r[2] = turn[c] <=> r = now
  BY CurrentIsRequest, RequestPairs, RequestsAssumption DEF Current, ReqInv
<1>2. peer[now] # "idle"
  BY <1>1 DEF ReqInv, AskedInTurn, InTurn, Current
<1>3. now \in Asked /\ now \notin Returned /\ Asked' = Asked
  BY <1>1, <1>2 DEF Asked, Returned
<1>4. ASSUME NEW r \in Asked
      PROVE  r \in Returned' <=> r \in Returned \/ r = now
  <2>1. r \in Request /\ r[1] \in Command /\ r[2] \in 1..Requests[r[1]] /\ r = <<r[1], r[2]>> /\ peer[r] # "idle"
    BY <1>4, RequestPairs DEF Asked
  <2>2. r \in Returned <=> r[2] < turn[r[1]] \/ stage[r[1]] \in Over
    BY <1>4 DEF Returned, Over
  <2>3. r \in Returned' <=> r[2] < turn'[r[1]] \/ stage'[r[1]] \in Over
    BY <1>3, <1>4 DEF Returned, Over
  <2>4. CASE r[1] = c
    <3>1. ~(r[2] > turn[c])
      BY <2>1, <2>4 DEF ReqInv, AskedInTurn, InTurn
    <3>2. r[2] \in Nat /\ (r = now <=> r[2] = turn[c])
      BY <1>1, <2>1, <2>4, RequestsAssumption
    <3> QED
      BY <1>1, <2>2, <2>3, <2>4, <3>1, <3>2 DEF Over
  <2>5. CASE r[1] # c
    BY <1>1, <2>1, <2>2, <2>3, <2>5
  <2> QED
    BY <2>4, <2>5
<1>5. Returned' = Returned \union {now}
  BY <1>3, <1>4 DEF Returned
<1> QED
  BY <1>3, <1>5 DEF Promise!Return

LEMMA HandlerStep ==
    ASSUME ReqInv, NEW c \in Command, Handler(c)
    PROVE  [Promise!ReplyNext]_(Promise!replyVars)
<1>0. Current(c) \in Request /\ stage \in [Command -> Stage]
  BY CurrentIsRequest DEF ReqInv, TypeOK
<1>1. CASE Subscribe(c) \/ Reply(c) \/ ReplyError(c)
  BY <1>0, <1>1, Unnoticed DEF Subscribe, Reply, ReplyError, Over
<1>2. CASE Publish(c)
  BY <1>0, <1>2, Asking DEF Publish, Promise!ReplyNext
<1>3. CASE Raise(c)
  <2>1. CASE UNCHANGED peer
    BY <1>3, <2>1, UnaskedFailure DEF Raise, Before
  <2>2. CASE stage[c] = "publish" /\ peer' = [peer EXCEPT ![Current(c)] = "asked"]
    BY <1>0, <1>3, <2>2, Asking DEF Raise, Promise!ReplyNext
  <2> QED
    BY <1>3, <2>1, <2>2 DEF Raise
<1>4. CASE Resume(c)
  <2>1. <<Current(c), inbox[Current(c)]>> \in events /\ inbox[Current(c)] \in Status \union {NoEvent}
    BY <1>0, <1>4 DEF Resume, ReqInv, HeardWhatWasSaid, TypeOK
  <2>2. /\ \A d \in Command \ {c} : stage'[d] = stage[d] /\ turn'[d] = turn[d]
        /\ \/ stage'[c] \in Over /\ turn'[c] = turn[c]
           \/ stage'[c] = "subscribe" /\ turn'[c] = turn[c] + 1
    BY <1>0, <1>4 DEF Resume, Over, ReqInv, Counted
  <2>3. Promise!Return(Current(c), inbox[Current(c)])
    BY <1>4, <2>1, <2>2, Returning DEF Resume
  <2> QED
    BY <1>0, <2>1, <2>3 DEF Promise!ReplyNext, Status, Promise!Status
<1>5. CASE Expire(c)
  <2>1. got[Current(c)] = NoEvent
    BY <1>5, CurrentIsRequest DEF Expire, ReqInv, AskedInTurn, InTurn, Before, Current
  <2>2. got' = [got EXCEPT ![Current(c)] = NoEvent]
    BY <1>0, <1>5, <2>1 DEF Expire, ReqInv, TypeOK
  <2>3. Promise!Return(Current(c), NoEvent)
    BY <1>0, <1>5, <2>2, Returning DEF Expire, Over
  <2> QED
    BY <1>0, <2>3 DEF Promise!ReplyNext
<1> QED
  BY <1>1, <1>2, <1>3, <1>4, <1>5 DEF Handler

LEMMA PromiseStep == BusInv /\ [Next]_busVars => [Promise!ReplyNext]_(Promise!replyVars)
<1> SUFFICES ASSUME ReqInv, [Next]_busVars
             PROVE  [Promise!ReplyNext]_(Promise!replyVars)
  BY DEF BusInv
<1>1. ASSUME UNCHANGED reqVars
      PROVE  UNCHANGED Promise!replyVars
  BY <1>1, Unnoticed DEF reqVars
<1>2. ASSUME NEW c \in Command, Deliver(c)
      PROVE  UNCHANGED Promise!replyVars
  BY <1>2, Unnoticed DEF Deliver, Over, ReqInv, TypeOK
<1>3. ASSUME Take \/ TakeUnknown
      PROVE  UNCHANGED Promise!replyVars
  <2>1. queue # <<>> /\ queue \in Seq(CommandTask \union EventTask)
    BY <1>3 DEF Take, TakeUnknown, ReqInv, TypeOK
  <2>2. Head(queue) = queue[1] /\ 1 \in 1..Len(queue) /\ queue[1] \in CommandTask \union EventTask
    BY <2>1, EmptySeq, ElementOfSeq
  <2>3. \A c \in Command : Head(queue) = Task(c) => stage[c] = "queued"
    BY <2>2, TaskKinds DEF ReqInv, QueueInOrder
  <2>4. CASE Take
    BY <2>3, <2>4, Unnoticed DEF Take, Over
  <2>5. CASE TakeUnknown
    <3>1. Head(queue) = Task(Head(queue).cmd) /\ Head(queue).cmd \in Command
      BY <2>2, <2>5, TaskKinds DEF TakeUnknown
    <3> QED
      BY <2>3, <2>5, <3>1, Unnoticed DEF TakeUnknown, Over, ReqInv, TypeOK
  <2> QED
    BY <1>3, <2>4, <2>5
<1>4. ASSUME LoseBroker \/ \E t \in active : Waiter(t)
      PROVE  UNCHANGED Promise!replyVars
  BY <1>4, Unnoticed DEF LoseBroker, Waiter
<1>5. ASSUME NEW r \in Request, NEW s \in Status, PeerAnswers(r, s)
      PROVE  Promise!PeerAnswers(r, s)
  <2>1. r \in Asked /\ Asked' = Asked
    BY <1>5 DEF PeerAnswers, Asked, ReqInv, TypeOK
  <2>2. Returned' = Returned
    BY <1>5, <2>1 DEF PeerAnswers, Returned
  <2> QED
    BY <1>5, <2>1, <2>2 DEF PeerAnswers, Promise!PeerAnswers
<1>6. ASSUME ReqNext
      PROVE  [Promise!ReplyNext]_(Promise!replyVars)
  <2>1. ASSUME NEW r \in Request, NEW s \in Status, PeerAnswers(r, s)
        PROVE  Promise!ReplyNext
    BY <1>5, <2>1 DEF Promise!ReplyNext, Status, Promise!Status
  <2> QED
    BY <1>2, <1>3, <1>4, <1>6, <2>1, HandlerStep DEF ReqNext
<1> QED
  BY <1>1, <1>6 DEF Next, Ended, busVars

\* Every request returns once, with an event of its own or with nothing, in
\* whatever order waiters and late or doubled events run (participant.request).
THEOREM RepliesAreTheirOwn == Spec => ImplementsReply
<1>1. Init => Promise!ReplyInit
  BY DEF Init, Promise!ReplyInit, Asked, Returned
<1> QED
  BY <1>1, PromiseStep, BusInvariant, PTL DEF Spec, ImplementsReply, Promise!ReplySpec
=============================================================================
