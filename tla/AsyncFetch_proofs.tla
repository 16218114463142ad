--------------------------- MODULE AsyncFetch_proofs ---------------------------
(***************************************************************************)
(* Theorems about AsyncFetch for every ring size, status set and bound.    *)
(*                                                                         *)
(* The two flags alone do not keep the tasks apart: the argument needs     *)
(* where each task is.  Handshake says what the flags and places tell of   *)
(* each other, CallOwner that calls are made only from the loops, and      *)
(* OneOnWire that at most one request is unanswered, its writer's last.    *)
(***************************************************************************)
EXTENDS AsyncFetch, SequenceTheorems, TLAPS

USE StatusAssumption, QueueSizeAssumption, BoundsAssumption

Handshake ==
  /\ fg \in FgSync \cup {"start"} => wk = "none"
  /\ fg \in FgLoop => worker_running
  /\ fg \in FgSync \cup {"start", "join", "close", "error", "done"} => ~worker_running
  /\ wk \in WkLoop \cup {"test", "leave", "error", "stuck"} => worker_alive
  /\ fg \in {"close", "error", "done"} => wk \notin WkLoop

CallOwner ==
  /\ todo["wk"] # <<>> => wk \in WkLoop
  /\ todo["fg"] # <<>> => fg \in FgSync

OneOnWire ==
  \/ wire = <<>>
  \/ \E t \in Tasks : /\ todo[t] # <<>>
                      /\ wire = <<[task |-> t, req |-> Head(todo[t])]>>

IInv == TypeOK /\ Handshake /\ CallOwner /\ OneOnWire

-----------------------------------------------------------------------------
\* The calls of a status byte, and those of a key, are requests.
LEMMA CallsAreRequests ==
  /\ \A status \in Statuses : StatusCalls(status) \in Seq(Requests)
  /\ KeyCalls \in Seq(Requests) /\ <<"x-w">> \in Seq(Requests)
<1>0. <<"x-ws">> \in Seq(Requests) /\ <<"x-who">> \in Seq(Requests)
       /\ <<"x-cmd-get">> \in Seq(Requests) /\ <<>> \in Seq(Requests)
  BY DEF Requests
<1>1. ASSUME NEW status \in Statuses PROVE StatusCalls(status) \in Seq(Requests)
  <2> DEFINE a == IF status \cap {"CLIENT_CHANGE", "FROZEN_TOGGLE", "OBJECT_CHANGE"} # {}
                    THEN <<"x-ws">> ELSE <<>>
             b == IF "CLIENT_CHANGE" \in status THEN <<"x-who">> ELSE <<>>
             c == IF "CLIENT_CMD" \in status THEN <<"x-cmd-get">> ELSE <<>>
  <2>1. a \in Seq(Requests)
    BY <1>0
  <2>2. b \in Seq(Requests)
    BY <1>0
  <2>3. c \in Seq(Requests)
    BY <1>0
  <2>4. StatusCalls(status) = (a \o b) \o c
    BY DEF StatusCalls
  <2> HIDE DEF a, b, c
  <2>5. QED BY <2>1, <2>2, <2>3, <2>4
<1>2. KeyCalls \in Seq(Requests) /\ <<"x-w">> \in Seq(Requests)
  BY DEF KeyCalls, Requests
<1>3. QED BY <1>1, <1>2

\* A step gives task t another list of calls, or changes no list.
TodoStep(t) == todo' = todo \/ \E s \in Seq(Requests) : todo' = [todo EXCEPT ![t] = s]

\* The lists of calls keep their type whichever task's list a step replaces.
LEMMA TodoTyped ==
  ASSUME todo \in [Tasks -> Seq(Requests)], NEW t \in Tasks, TodoStep(t)
  PROVE  todo' \in [Tasks -> Seq(Requests)]
<1>1. CASE todo' = todo
  BY <1>1
<1>2. ASSUME NEW s \in Seq(Requests), todo' = [todo EXCEPT ![t] = s]
      PROVE  todo' \in [Tasks -> Seq(Requests)]
  BY <1>2
<1>3. QED BY <1>1, <1>2 DEF TodoStep

\* The tasks by name, for the cases below.
LEMMA TasksAre == "fg" \in Tasks /\ "wk" \in Tasks /\ Tasks = {"fg", "wk"}
BY DEF Tasks

\* The variables whose type does not depend on todo or on the queue.
PlainTypes ==
  /\ fg \in FgStates /\ wk \in WkStates
  /\ worker_running \in BOOLEAN /\ worker_alive \in BOOLEAN
  /\ fetches \in Nat /\ published \in Nat /\ previous \in Nat /\ older \in Nat
  /\ frame \in Nat /\ keys \in Nat

QueueTypes ==
  /\ command_queue \in [Slots -> Nat] /\ command_head \in Slots /\ command_tail \in Slots
  /\ accepted \in Seq(Nat) /\ executed \in Seq(Nat)

TodoTypes == todo \in [Tasks -> Seq(Requests)]
WireTypes == wire \in Seq([task : Tasks, req : Requests])

\* TypeOK in four parts, each of which a step can be shown to keep by itself.
LEMMA TypeParts == TypeOK <=> PlainTypes /\ QueueTypes /\ TodoTypes /\ WireTypes
BY DEF TypeOK, PlainTypes, QueueTypes, TodoTypes, WireTypes

-----------------------------------------------------------------------------
\* Type correctness of the initial states and of every step.
LEMMA TypeInit == Init => TypeOK
BY DEF Init, TypeOK, FgStates, WkStates, Slots, Tasks

\* The places, flags, snapshots and counters keep their types in every step.
LEMMA PlainStep == TypeOK /\ Next => PlainTypes'
<1> SUFFICES ASSUME PlainTypes, Next PROVE PlainTypes'
  BY TypeParts
<1> USE DEF PlainTypes, FgStates, FgLoop, FgSync, WkStates, WkLoop,
            snapVars, flagVars, vars
<1>1. CASE Worker
  <2>1. CASE WkBegin \/ WkTest \/ WkPublish
    BY <2>1 DEF WkBegin, WkTest, WkPublish
  <2>2. CASE WkFetched
    BY <2>2 DEF WkFetched
  <2>3. CASE WkCommand \/ WkLeave
    BY <2>3 DEF WkCommand, WkLeave
  <2>4. QED BY <1>1, <2>1, <2>2, <2>3 DEF Worker
<1>2. CASE FgStart \/ FgFrame \/ FgKeyboard \/ FgJoin \/ FgClose
  <2>1. NetworkKey \/ NoNetworkKey => keys' \in Nat
    BY DEF NetworkKey, NoNetworkKey
  <2>2. CASE FgKeyboard
    BY <2>1, <2>2 DEF FgKeyboard
  <2>3. QED BY <1>2, <2>2 DEF FgStart, FgFrame, FgJoin, FgClose
<1>3. CASE SyncTop \/ SyncFetched \/ SyncKeyboard
  <2>1. NetworkKey \/ NoNetworkKey => keys' \in Nat
    BY DEF NetworkKey, NoNetworkKey
  <2>2. CASE SyncKeyboard
    BY <2>1, <2>2 DEF SyncKeyboard
  <2>3. QED BY <1>3, <2>2 DEF SyncTop, SyncFetched
<1>4. ASSUME NEW t \in Tasks, Calls(t) PROVE PlainTypes'
  BY <1>4 DEF Calls, Send, Receive, CallFails
<1>5. CASE Failed \/ FgJoinWaits \/ Ended
  BY <1>5 DEF Failed, FgErrorKey, WkErrorKey, WkErrorWaits, Exit, FgJoinWaits, Ended
<1>6. QED BY <1>1, <1>2, <1>3, <1>4, <1>5 DEF Next, Foreground

\* Only an accepted or a popped command changes the queue.
LEMMA QueueSteps == Next => \/ UNCHANGED queueVars
                            \/ PopCommand
                            \/ keys' = keys + 1 /\ QueueCommand(keys')
<1> SUFFICES ASSUME Next
             PROVE  \/ UNCHANGED queueVars
                    \/ PopCommand
                    \/ keys' = keys + 1 /\ QueueCommand(keys')
  OBVIOUS
<1>1. CASE Worker
  BY <1>1 DEF Worker, WkBegin, WkTest, WkFetched, WkPublish, WkCommand, WkLeave
<1>2. CASE FgStart \/ FgFrame \/ FgKeyboard \/ FgJoin \/ FgClose
  BY <1>2 DEF FgStart, FgFrame, FgKeyboard, FgJoin, FgClose, NetworkKey, NoNetworkKey
<1>3. CASE SyncTop \/ SyncFetched \/ SyncKeyboard
  BY <1>3 DEF SyncTop, SyncFetched, SyncKeyboard, NetworkKey, NoNetworkKey
<1>4. ASSUME NEW t \in Tasks, Calls(t) PROVE UNCHANGED queueVars
  BY <1>4 DEF Calls, Send, Receive, CallFails
<1>5. CASE Failed \/ FgJoinWaits \/ Ended
  BY <1>5 DEF Failed, FgErrorKey, WkErrorKey, WkErrorWaits, Exit, FgJoinWaits, Ended, vars
<1>6. QED BY <1>1, <1>2, <1>3, <1>4, <1>5 DEF Next, Foreground

\* The ring's indices stay inside command_queue (queue_command, pop_command).
LEMMA QueueTypesStep == TypeOK /\ Next => QueueTypes'
<1> SUFFICES ASSUME QueueTypes, keys \in Nat, Next PROVE QueueTypes'
  BY TypeParts DEF PlainTypes
<1>1. CASE UNCHANGED queueVars
  BY <1>1 DEF QueueTypes, queueVars
<1>2. CASE PopCommand
  BY <1>2 DEF QueueTypes, PopCommand, Slots
<1>3. CASE keys' = keys + 1 /\ QueueCommand(keys')
  <2>1. keys' \in Nat
    BY <1>3
  <2> DEFINE next == (command_head + 1) % QueueSize
  <2>2. next \in Slots
    BY DEF QueueTypes, Slots
  <2>3. CASE next # command_tail
    <3>1. /\ command_queue' = [command_queue EXCEPT ![command_head] = keys']
          /\ command_head' = next /\ command_tail' = command_tail
          /\ accepted' = Append(accepted, keys') /\ executed' = executed
      BY <1>3, <2>3 DEF QueueCommand
    <3> HIDE DEF next
    <3>2. command_queue' \in [Slots -> Nat]
      BY <3>1, <2>1 DEF QueueTypes
    <3>3. accepted' \in Seq(Nat)
      BY <3>1, <2>1 DEF QueueTypes
    <3>4. QED BY <3>1, <3>2, <3>3, <2>2 DEF QueueTypes
  <2>4. CASE next = command_tail
    BY <1>3, <2>4 DEF QueueTypes, QueueCommand, queueVars
  <2>5. QED BY <2>3, <2>4
<1>4. QED BY <1>1, <1>2, <1>3, QueueSteps

\* Every step but a failing call changes at most one task's list.
LEMMA TodoSteps == TypeOK /\ Next => \/ \E t \in Tasks : TodoStep(t)
                                     \/ todo' = [s \in Tasks |-> <<>>]
<1> SUFFICES ASSUME TodoTypes, WireTypes, Next
             PROVE  \/ \E t \in Tasks : TodoStep(t)
                    \/ todo' = [s \in Tasks |-> <<>>]
  BY TypeParts
<1> USE TasksAre
<1>1. CASE WkBegin \/ WkTest \/ WkPublish \/ WkCommand \/ WkLeave
  BY <1>1, CallsAreRequests
     DEF WkBegin, WkTest, WkPublish, WkCommand, WkLeave, TodoStep, connVars
<1>2. CASE WkFetched
  BY <1>2, CallsAreRequests DEF WkFetched, TodoStep
<1>3. CASE FgStart \/ FgFrame \/ FgJoin \/ FgClose
  BY <1>3 DEF FgStart, FgFrame, FgJoin, FgClose, TodoStep, connVars
<1>4. CASE FgKeyboard \/ SyncKeyboard
  BY <1>4, CallsAreRequests DEF FgKeyboard, SyncKeyboard, NetworkKey, NoNetworkKey, TodoStep
<1>5. CASE SyncTop \/ SyncFetched
  BY <1>5, CallsAreRequests DEF SyncTop, SyncFetched, TodoStep
<1>6. ASSUME NEW t \in Tasks, Send(t) PROVE TodoStep(t)
  BY <1>6 DEF Send, TodoStep
<1>7. ASSUME NEW t \in Tasks, Receive(t) PROVE TodoStep(t)
  <2>1. Tail(todo[t]) \in Seq(Requests)
    BY <1>7 DEF Receive, TodoTypes
  <2>2. <<"x-msg">> \in Seq(Requests)
    BY DEF Requests
  <2>3. <<"x-msg">> \o Tail(todo[t]) \in Seq(Requests)
    BY <2>1, <2>2
  <2>4. QED BY <1>7, <2>1, <2>3 DEF Receive, TodoStep
<1>8. ASSUME NEW t \in Tasks, CallFails(t) PROVE TodoStep(t)
  <2>1. <<>> \in Seq(Requests)
    OBVIOUS
  <2>2. QED BY <1>8, <2>1 DEF CallFails, TodoStep
<1>9. CASE Failed \/ FgJoinWaits \/ Ended
  BY <1>9 DEF Failed, FgErrorKey, WkErrorKey, WkErrorWaits, Exit, FgJoinWaits, Ended, vars, connVars, TodoStep
<1>10. QED
  BY <1>1, <1>2, <1>3, <1>4, <1>5, <1>6, <1>7, <1>8, <1>9 DEF Next, Worker, Foreground, Calls

\* What is sent and not yet answered stays a sequence of the two tasks' requests.
LEMMA WireTypesStep == TypeOK /\ Next => WireTypes'
<1> SUFFICES ASSUME TodoTypes, WireTypes, Next PROVE WireTypes'
  BY TypeParts
<1>1. CASE UNCHANGED wire
  BY <1>1 DEF WireTypes
<1>2. ASSUME NEW t \in Tasks, Send(t) PROVE WireTypes'
  <2>1. Head(todo[t]) \in Requests
    BY <1>2 DEF Send, TodoTypes
  <2>2. [task |-> t, req |-> Head(todo[t])] \in [task : Tasks, req : Requests]
    BY <2>1
  <2>3. QED BY <1>2, <2>2 DEF Send, WireTypes
<1>3. ASSUME NEW t \in Tasks, Receive(t) PROVE WireTypes'
  BY <1>3 DEF Receive, Waiting, WireTypes
<1>4. ASSUME NEW t \in Tasks, CallFails(t) PROVE WireTypes'
  BY <1>4 DEF CallFails, Waiting, WireTypes
<1>5. CASE Worker
  BY <1>5, <1>1
     DEF Worker, WkBegin, WkTest, WkFetched, WkPublish, WkCommand, WkLeave, connVars
<1>6. CASE Foreground
  BY <1>6, <1>1 DEF Foreground, FgStart, FgFrame, FgKeyboard, FgJoin, FgClose,
                    SyncTop, SyncFetched, SyncKeyboard, connVars
<1>7. CASE Failed \/ FgJoinWaits \/ Ended
  <2>1. CASE FgErrorKey \/ WkErrorKey
    <3>1. wire' = <<>>
      BY <2>1 DEF FgErrorKey, WkErrorKey, Exit
    <3>2. QED BY <3>1 DEF WireTypes
  <2>2. CASE WkErrorWaits \/ FgJoinWaits \/ Ended
    BY <2>2, <1>1 DEF WkErrorWaits, FgJoinWaits, Ended, vars, connVars
  <2>3. QED BY <1>7, <2>1, <2>2 DEF Failed
<1>8. QED BY <1>2, <1>3, <1>4, <1>5, <1>6, <1>7 DEF Next, Calls

\* Every step of either task keeps the types.
LEMMA TypeStep == TypeOK /\ [Next]_vars => TypeOK'
<1> SUFFICES ASSUME TypeOK, [Next]_vars PROVE TypeOK'
  OBVIOUS
<1>1. CASE Next
  <2>1. TodoTypes'
    <3>1. todo' = [s \in Tasks |-> <<>>] => TodoTypes'
      BY DEF TodoTypes
    <3>2. ASSUME NEW t \in Tasks, TodoStep(t) PROVE TodoTypes'
      BY <3>2, TodoTyped, TypeParts DEF TodoTypes
    <3>3. QED BY <1>1, <3>1, <3>2, TodoSteps
  <2>2. PlainTypes' /\ QueueTypes' /\ WireTypes'
    BY <1>1, PlainStep, QueueTypesStep, WireTypesStep
  <2>3. QED BY <2>1, <2>2 DEF TypeOK, PlainTypes, QueueTypes, TodoTypes, WireTypes
<1>2. CASE UNCHANGED vars
  BY <1>2 DEF TypeOK, vars, flagVars, connVars, snapVars, queueVars
<1>3. QED BY <1>1, <1>2

\* Every variable keeps its type: the tasks only ever are where run_simulation
\* and bwc_fetch_worker can be, and the ring indices stay inside command_queue.
THEOREM TypeCorrect == Spec => []TypeOK
BY TypeInit, TypeStep, PTL DEF Spec

-----------------------------------------------------------------------------
\* Who uses the connection.

\* At the start no task has a call to make and nothing is on the wire.
LEMMA ConnInit == Init => Handshake /\ CallOwner /\ OneOnWire
BY DEF Init, Handshake, CallOwner, OneOnWire, FgLoop, FgSync, WkLoop, Tasks

\* The flags and the places of the two tasks stay in step.
LEMMA HandshakeStep == TypeOK /\ Handshake /\ CallOwner /\ Next => Handshake'
<1> SUFFICES ASSUME TypeOK, Handshake, CallOwner, Next PROVE Handshake'
  OBVIOUS
<1> USE DEF Handshake, FgLoop, FgSync, WkLoop, flagVars
<1>1. CASE WkBegin
  BY <1>1 DEF WkBegin
<1>2. CASE WkTest
  BY <1>2 DEF WkTest
<1>3. CASE WkFetched
  BY <1>3 DEF WkFetched
<1>4. CASE WkPublish \/ WkCommand
  BY <1>4 DEF WkPublish, WkCommand
<1>5. CASE WkLeave
  BY <1>5 DEF WkLeave
<1>6. CASE FgStart
  BY <1>6 DEF FgStart
<1>7. CASE FgFrame \/ FgKeyboard
  BY <1>7 DEF FgFrame, FgKeyboard
<1>8. CASE FgJoin \/ FgClose
  BY <1>8 DEF FgJoin, FgClose
<1>9. CASE SyncTop \/ SyncFetched \/ SyncKeyboard
  BY <1>9 DEF SyncTop, SyncFetched, SyncKeyboard
<1>10. ASSUME NEW t \in Tasks, Calls(t) PROVE Handshake'
  BY <1>10 DEF Calls, Send, Receive, CallFails, CallOwner, Tasks
<1>11. CASE Failed \/ FgJoinWaits \/ Ended
  BY <1>11 DEF Failed, FgErrorKey, WkErrorKey, WkErrorWaits, Exit, FgJoinWaits, Ended, vars
<1>12. QED
  BY <1>1, <1>2, <1>3, <1>4, <1>5, <1>6, <1>7, <1>8, <1>9, <1>10, <1>11
     DEF Next, Worker, Foreground

\* Calls are made by the worker inside its loop and by the foreground in the
\* sequential loop only: a key never makes one in the frame loop.
LEMMA CallOwnerStep == TypeOK /\ Handshake /\ CallOwner /\ Next => CallOwner'
<1> SUFFICES ASSUME TodoTypes, Handshake, CallOwner, Next PROVE CallOwner'
  BY TypeParts
<1>a. \A t \in Tasks : \A s : [todo EXCEPT ![t] = s][t] = s
  BY DEF TodoTypes
<1>b. \A s : /\ [todo EXCEPT !["wk"] = s]["fg"] = todo["fg"]
             /\ [todo EXCEPT !["fg"] = s]["wk"] = todo["wk"]
  BY TasksAre DEF TodoTypes
<1> USE <1>a, <1>b, TasksAre DEF CallOwner, FgLoop, FgSync, WkLoop
<1>1. CASE WkBegin \/ WkTest \/ WkPublish \/ WkLeave
  BY <1>1 DEF WkBegin, WkTest, WkPublish, WkLeave, connVars
<1>2. CASE WkFetched
  BY <1>2 DEF WkFetched
<1>3. CASE WkCommand
  BY <1>3 DEF WkCommand
<1>4. CASE FgStart \/ FgFrame \/ FgJoin \/ FgClose
  BY <1>4 DEF FgStart, FgFrame, FgJoin, FgClose, connVars, Handshake
<1>5. CASE FgKeyboard
  BY <1>5 DEF FgKeyboard, NetworkKey, NoNetworkKey, Handshake
<1>6. CASE SyncTop \/ SyncFetched
  BY <1>6 DEF SyncTop, SyncFetched
<1>7. CASE SyncKeyboard
  BY <1>7 DEF SyncKeyboard, NetworkKey, NoNetworkKey
<1>8. ASSUME NEW t \in Tasks, Send(t) PROVE CallOwner'
  BY <1>8 DEF Send
<1>9. ASSUME NEW t \in Tasks, Receive(t) PROVE CallOwner'
  <2>1. todo[t] # <<>> /\ fg' = fg /\ wk' = wk
    BY <1>9 DEF Receive
  <2>2. \E s : todo' = [todo EXCEPT ![t] = s]
    BY <1>9 DEF Receive
  <2>3. QED BY <2>1, <2>2
<1>10. ASSUME NEW t \in Tasks, CallFails(t) PROVE CallOwner'
  <2>1. CASE t = "fg"
    <3>1. wk = "none"
      BY <1>10, <2>1 DEF CallFails, Handshake
    <3>2. QED BY <1>10, <2>1, <3>1 DEF CallFails
  <2>2. CASE t = "wk"
    BY <1>10, <2>2 DEF CallFails
  <2>3. QED BY <2>1, <2>2
<1>11. CASE Failed \/ FgJoinWaits \/ Ended
  BY <1>11 DEF Failed, FgErrorKey, WkErrorKey, WkErrorWaits, Exit, FgJoinWaits, Ended, vars, connVars
<1>12. QED
  BY <1>1, <1>2, <1>3, <1>4, <1>5, <1>6, <1>7, <1>8, <1>9, <1>10, <1>11
     DEF Next, Worker, Foreground, Calls

\* The two kinds of owner exclude each other.
LEMMA OneCaller ==
  ASSUME Handshake, CallOwner, NEW t \in Tasks, NEW u \in Tasks,
         todo[t] # <<>>, todo[u] # <<>>
  PROVE  t = u
BY DEF Handshake, CallOwner, Tasks, FgSync, WkLoop

\* A step leaves at most one request unanswered: only a task whose call is next sends,
\* and the two never have calls at once.
LEMMA OneOnWireStep == IInv /\ Next => OneOnWire'
<1> SUFFICES ASSUME IInv, Next PROVE OneOnWire'
  OBVIOUS
<1>a. Handshake /\ CallOwner /\ OneOnWire /\ TodoTypes /\ WireTypes
  BY TypeParts DEF IInv
<1>b. ASSUME UNCHANGED <<todo, wire>> PROVE OneOnWire'
  BY <1>a, <1>b DEF OneOnWire

\* a task with no call to make gets new ones: the waiting one is the other
<1>c. ASSUME NEW t \in Tasks, todo[t] = <<>>, UNCHANGED wire, TodoStep(t)
      PROVE  OneOnWire'
  <2>1. \A u \in Tasks : u # t => todo'[u] = todo[u]
    BY <1>a, <1>c DEF TodoStep, TodoTypes
  <2>2. QED BY <1>a, <1>c, <2>1 DEF OneOnWire
<1> USE TasksAre
<1>1. CASE WkBegin \/ WkPublish \/ WkLeave \/ FgStart \/ FgFrame \/ FgJoin \/ FgClose
          \/ FgJoinWaits \/ Ended
  BY <1>1, <1>b DEF WkBegin, WkPublish, WkLeave, FgStart, FgFrame, FgJoin, FgClose,
                    FgJoinWaits, Ended, vars, connVars
<1>2. CASE WkTest
  <2>1. todo["wk"] = <<>>
    BY <1>2, <1>a DEF WkTest, CallOwner, WkLoop
  <2>2. TodoStep("wk") /\ UNCHANGED wire
    BY <1>2, CallsAreRequests DEF WkTest, TodoStep
  <2>3. QED BY <2>1, <2>2, <1>c
<1>3. CASE WkFetched \/ WkCommand
  <2>1. todo["wk"] = <<>> /\ UNCHANGED wire
    BY <1>3 DEF WkFetched, WkCommand
  <2>2. TodoStep("wk")
    BY <1>3, CallsAreRequests DEF WkFetched, WkCommand, TodoStep
  <2>3. QED BY <2>1, <2>2, <1>c
<1>4. CASE FgKeyboard
  <2>1. todo' = todo /\ wire' = wire
    BY <1>4, <1>a DEF FgKeyboard, NetworkKey, NoNetworkKey, Handshake, FgLoop
  <2>2. QED BY <2>1, <1>b
<1>5. CASE SyncTop \/ SyncFetched \/ SyncKeyboard
  <2>1. todo["fg"] = <<>> /\ UNCHANGED wire
    BY <1>5 DEF SyncTop, SyncFetched, SyncKeyboard
  <2>2. TodoStep("fg")
    BY <1>5, CallsAreRequests
       DEF SyncTop, SyncFetched, SyncKeyboard, NetworkKey, NoNetworkKey, TodoStep
  <2>3. QED BY <2>1, <2>2, <1>c
<1>6. ASSUME NEW t \in Tasks, Send(t) PROVE OneOnWire'
  <2>1. wire = <<>>
    <3>1. SUFFICES ASSUME NEW u \in Tasks, todo[u] # <<>>,
                          wire = <<[task |-> u, req |-> Head(todo[u])]>>
                   PROVE  FALSE
      BY <1>a DEF OneOnWire
    <3>2. u = t
      BY <1>6, <1>a, <3>1, OneCaller DEF Send
    <3>3. Len(wire) = 1 /\ wire[1].task = t
      BY <3>1, <3>2
    <3>4. Waiting(t)
      BY <3>3 DEF Waiting
    <3>5. QED BY <1>6, <3>4 DEF Send
  <2>2. wire' = <<[task |-> t, req |-> Head(todo[t])]>> /\ todo' = todo /\ todo[t] # <<>>
    BY <1>6, <2>1 DEF Send
  <2>3. QED BY <2>2 DEF OneOnWire
<1>7. ASSUME NEW t \in Tasks, Receive(t) PROVE OneOnWire'
  <2>1. Len(wire) > 0
    BY <1>7, <1>a DEF Receive, Waiting, WireTypes
  <2>2. PICK u \in Tasks : wire = <<[task |-> u, req |-> Head(todo[u])]>>
    BY <1>a, <2>1 DEF OneOnWire
  <2>3. wire' = <<>>
    BY <1>7, <2>2 DEF Receive
  <2>4. QED BY <2>3 DEF OneOnWire
\* the only call under way is the one that failed
<1>8. ASSUME NEW t \in Tasks, CallFails(t) PROVE OneOnWire'
  <2>1. CASE wire = <<>>
    <3>1. ~Waiting(t)
      BY <2>1 DEF Waiting
    <3>2. QED BY <1>8, <2>1, <3>1 DEF CallFails, OneOnWire
  <2>2. ASSUME NEW u \in Tasks, todo[u] # <<>>,
               wire = <<[task |-> u, req |-> Head(todo[u])]>>
        PROVE  OneOnWire'
    <3>1. u = t
      BY <1>8, <1>a, <2>2, OneCaller DEF CallFails
    <3>2. Len(wire) = 1 /\ wire[1].task = t /\ Tail(wire) = <<>>
      BY <2>2, <3>1
    <3>3. Waiting(t)
      BY <3>2 DEF Waiting
    <3>4. QED BY <1>8, <3>2, <3>3 DEF CallFails, OneOnWire
  <2>3. QED BY <1>a, <2>1, <2>2 DEF OneOnWire
<1>9. CASE Failed
  <2>1. CASE WkErrorWaits
    BY <2>1, <1>b DEF WkErrorWaits, connVars
  <2>2. CASE FgErrorKey \/ WkErrorKey
    BY <2>2 DEF FgErrorKey, WkErrorKey, Exit, OneOnWire
  <2>3. QED BY <1>9, <2>1, <2>2 DEF Failed
<1>10. QED
  BY <1>1, <1>2, <1>3, <1>4, <1>5, <1>6, <1>7, <1>8, <1>9 DEF Next, Worker, Foreground, Calls

\* The inductive invariant.
THEOREM ConnectionInvariant == Spec => []IInv
<1>1. Init => IInv
  BY TypeInit, ConnInit DEF IInv
<1>2. IInv /\ [Next]_vars => IInv'
  <2>1. IInv /\ Next => IInv'
    BY TypeStep, HandshakeStep, CallOwnerStep, OneOnWireStep DEF IInv
  <2>2. IInv /\ UNCHANGED vars => IInv'
    BY TypeStep DEF IInv, Handshake, CallOwner, OneOnWire, vars, flagVars, connVars
  <2>3. QED BY <2>1, <2>2
<1>3. QED BY <1>1, <1>2, PTL DEF Spec

\* Foreground and worker never use the connection at the same time, whatever
\* the ring size and however long they run: the stop flag, the alive flag and
\* the key queue are enough, with no lock (run_simulation's join loop).
THEOREM ConnectionIsExclusive == Spec => []ConnectionExclusive
<1>1. IInv => ConnectionExclusive
  BY DEF IInv, Handshake, CallOwner, ConnectionExclusive, UsesConnection, FgSync, WkLoop
<1>2. QED BY <1>1, ConnectionInvariant, PTL

\* The worker makes no call once disconnect_service closed the handle.
THEOREM NothingAfterClose == Spec => []NoCallAfterClose
<1>1. IInv => NoCallAfterClose
  <2> SUFFICES ASSUME IInv, fg = "done" PROVE todo["wk"] = <<>> /\ wire = <<>>
    BY DEF NoCallAfterClose
  <2>1. todo["wk"] = <<>> /\ todo["fg"] = <<>>
    BY DEF IInv, Handshake, CallOwner, FgSync
  <2>2. QED BY <2>1 DEF IInv, OneOnWire, Tasks
<1>2. QED BY <1>1, ConnectionInvariant, PTL

\* Answers are matched to requests by order alone, and each reader gets the
\* answer to its own last request.
THEOREM AnswersAreOwn == Spec => []AnswerIsOwn
<1>1. IInv => AnswerIsOwn
  <2> SUFFICES ASSUME IInv, NEW t \in Tasks, Waiting(t)
               PROVE  /\ todo[t] # <<>>
                      /\ wire = <<[task |-> t, req |-> Head(todo[t])]>>
    BY DEF AnswerIsOwn
  <2>1. PICK i \in 1 .. Len(wire) : wire[i].task = t
    BY DEF Waiting
  <2>2. wire # <<>>
    BY <2>1
  <2>3. PICK u \in Tasks : /\ todo[u] # <<>>
                           /\ wire = <<[task |-> u, req |-> Head(todo[u])]>>
    BY <2>2 DEF IInv, OneOnWire
  <2>4. u = t
    BY <2>1, <2>3
  <2>5. QED BY <2>3, <2>4
<1>2. QED BY <1>1, ConnectionInvariant, PTL

-----------------------------------------------------------------------------
(* The command ring.                                                       *)

Wrap(i) == i % QueueSize

\* The ring between two indices of the array q.
Ring(q, head, tail) ==
  [i \in 1 .. Wrap(head - tail) |-> q[Wrap(tail + i - 1)]]

\* How many commands lie between the indices.
Apart(head, tail) == IF head >= tail THEN head - tail ELSE head - tail + QueueSize

\* The index arithmetic of bwc_async_fetch_queue_command and pop_command.
LEMMA Wraps ==
  ASSUME NEW i \in Int, -QueueSize < i, i < 2 * QueueSize
  PROVE  Wrap(i) = IF i < 0 THEN i + QueueSize
                   ELSE IF i < QueueSize THEN i ELSE i - QueueSize
BY DEF Wrap

\* What the ring holds is a sequence, as long as the indices are apart.
LEMMA RingIsSeq ==
  ASSUME NEW q \in [Slots -> Nat], NEW head \in Slots, NEW tail \in Slots
  PROVE  /\ Apart(head, tail) \in 0 .. QueueSize - 1
         /\ Ring(q, head, tail) \in Seq(Nat)
         /\ Len(Ring(q, head, tail)) = Apart(head, tail)
         /\ \A i \in 1 .. Apart(head, tail) :
              /\ Wrap(tail + i - 1) \in Slots
              /\ Ring(q, head, tail)[i] = q[Wrap(tail + i - 1)]
<1> DEFINE n == Apart(head, tail)
<1> USE DEF Apart
<1>1. n \in 0 .. QueueSize - 1
  BY DEF Slots
<1>2. Wrap(head - tail) = n
  BY Wraps DEF Slots
<1>3. ASSUME NEW i \in 1 .. n PROVE Wrap(tail + i - 1) \in Slots
  BY <1>1, Wraps DEF Slots
<1>4. Ring(q, head, tail) = [i \in 1 .. n |-> q[Wrap(tail + i - 1)]]
  BY <1>2 DEF Ring
<1> HIDE DEF n
<1>5. Ring(q, head, tail) \in [1 .. n -> Nat]
  BY <1>3, <1>4
<1>6. Ring(q, head, tail) \in Seq(Nat) /\ Len(Ring(q, head, tail)) = n
  BY <1>1, <1>5
<1> QED
  BY <1>1, <1>3, <1>4, <1>6 DEF n

\* pop_command takes the oldest command of the ring.
LEMMA PopTakesFirst ==
  ASSUME NEW q \in [Slots -> Nat], NEW head \in Slots, NEW tail \in Slots, head # tail
  PROVE  /\ Wrap(tail + 1) \in Slots
         /\ Ring(q, head, tail) = <<q[tail]>> \o Ring(q, head, Wrap(tail + 1))
<1> DEFINE n == Apart(head, tail)
           next == IF tail + 1 = QueueSize THEN 0 ELSE tail + 1
           s == Ring(q, head, tail)
           rest == Ring(q, head, next)
<1>1. Wrap(tail + 1) = next /\ next \in Slots
  BY Wraps DEF Slots
<1>2. n \in Nat /\ n # 0 /\ n - 1 = Apart(head, next)
  BY DEF Apart, Slots
<1>3. /\ s \in Seq(Nat) /\ Len(s) = n
      /\ \A i \in 1 .. n : s[i] = q[Wrap(tail + i - 1)]
  BY RingIsSeq
<1>4. /\ rest \in Seq(Nat) /\ Len(rest) = n - 1
      /\ \A i \in 1 .. n - 1 : rest[i] = q[Wrap(next + i - 1)]
  <2> HIDE DEF next, n
  <2>1. /\ rest \in Seq(Nat) /\ Len(rest) = Apart(head, next)
        /\ \A i \in 1 .. Apart(head, next) : rest[i] = q[Wrap(next + i - 1)]
    BY <1>1, RingIsSeq
  <2> QED
    BY <1>2, <2>1
<1>5. Wrap(tail + 1 - 1) = tail
  BY Wraps DEF Slots
<1>6. ASSUME NEW i \in 1 .. n - 1 PROVE Wrap(next + i - 1) = Wrap(tail + (i + 1) - 1)
  BY <1>2, Wraps DEF Apart, Slots
<1>7. q[tail] \in Nat
  OBVIOUS
<1> HIDE DEF n, next, s, rest
<1>8. /\ <<q[tail]>> \o rest \in Seq(Nat) /\ Len(<<q[tail]>> \o rest) = n
      /\ \A i \in 1 .. n : (<<q[tail]>> \o rest)[i] = IF i <= 1 THEN q[tail] ELSE rest[i - 1]
  BY <1>2, <1>4, <1>7
<1>9. \A i \in 1 .. n : s[i] = (<<q[tail]>> \o rest)[i]
  <2> SUFFICES ASSUME NEW i \in 1 .. n PROVE s[i] = (<<q[tail]>> \o rest)[i]
    OBVIOUS
  <2>1. CASE i = 1
    BY <2>1, <1>3, <1>5, <1>8
  <2>2. CASE i # 1
    <3>1. i - 1 \in 1 .. n - 1 /\ (i - 1) + 1 = i
      BY <2>2, <1>2
    <3>2. rest[i - 1] = q[Wrap(tail + i - 1)]
      BY <3>1, <1>4, <1>6
    <3>3. (<<q[tail]>> \o rest)[i] = rest[i - 1]
      BY <2>2, <1>2, <1>8
    <3> QED
      BY <3>2, <3>3, <1>3
  <2> QED
    BY <2>1, <2>2
<1>10. s = <<q[tail]>> \o rest
  BY <1>3, <1>8, <1>9, SeqEqual
<1> QED
  BY <1>1, <1>10 DEF s, rest

\* A command that the full-ring test lets in goes to the end of the ring.
LEMMA QueuePutsLast ==
  ASSUME NEW q \in [Slots -> Nat], NEW head \in Slots, NEW tail \in Slots,
         NEW c \in Nat, Wrap(head + 1) # tail
  PROVE  Ring([q EXCEPT ![head] = c], Wrap(head + 1), tail) = Append(Ring(q, head, tail), c)
<1> DEFINE n == Apart(head, tail)
           next == IF head + 1 = QueueSize THEN 0 ELSE head + 1
           new == [q EXCEPT ![head] = c]
           s == Ring(q, head, tail)
           longer == Ring(new, next, tail)
<1>1. Wrap(head + 1) = next /\ next \in Slots /\ next # tail
  BY Wraps DEF Slots
<1>2. n \in 0 .. QueueSize - 1 /\ n + 1 = Apart(next, tail)
  BY <1>1 DEF Apart, Slots
<1>3. /\ s \in Seq(Nat) /\ Len(s) = n
      /\ \A i \in 1 .. n : s[i] = q[Wrap(tail + i - 1)]
  BY RingIsSeq
<1>4. new \in [Slots -> Nat] /\ new[head] = c /\ \A i \in Slots \ {head} : new[i] = q[i]
  OBVIOUS
<1>5. /\ longer \in Seq(Nat) /\ Len(longer) = n + 1
      /\ \A i \in 1 .. n + 1 : longer[i] = new[Wrap(tail + i - 1)]
  <2> HIDE DEF new, next, n
  <2>1. /\ longer \in Seq(Nat) /\ Len(longer) = Apart(next, tail)
        /\ \A i \in 1 .. Apart(next, tail) : longer[i] = new[Wrap(tail + i - 1)]
    BY <1>1, <1>4, RingIsSeq
  <2> QED
    BY <1>2, <2>1
<1>6. Wrap(tail + (n + 1) - 1) = head
  BY <1>2, Wraps DEF Apart, Slots
<1>7. ASSUME NEW i \in 1 .. n PROVE Wrap(tail + i - 1) \in Slots \ {head}
  BY <1>2, Wraps DEF Apart, Slots
<1> HIDE DEF n, next, new, s, longer
<1>8. /\ Append(s, c) \in Seq(Nat) /\ Len(Append(s, c)) = n + 1
      /\ \A i \in 1 .. n : Append(s, c)[i] = s[i]
      /\ Append(s, c)[n + 1] = c
  BY <1>2, <1>3
<1>9. \A i \in 1 .. n + 1 : longer[i] = Append(s, c)[i]
  <2> SUFFICES ASSUME NEW i \in 1 .. n + 1 PROVE longer[i] = Append(s, c)[i]
    OBVIOUS
  <2>1. CASE i = n + 1
    BY <2>1, <1>4, <1>5, <1>6, <1>8
  <2>2. CASE i # n + 1
    <3>1. i \in 1 .. n
      BY <2>2, <1>2
    <3> QED
      BY <3>1, <1>3, <1>4, <1>5, <1>7, <1>8
  <2> QED
    BY <2>1, <2>2
<1>10. longer = Append(s, c)
  BY <1>5, <1>8, <1>9, SeqEqual
<1> QED
  BY <1>1, <1>10 DEF s, longer, new

\* The ring is a FIFO for every size of command_queue: what the worker has taken out
\* and what is still in it are the accepted commands in order, none lost, doubled or
\* overtaken, at whatever point Exec switches the tasks.
THEOREM RingIsAFifo == Spec => []RingIsFifo
<1> DEFINE contents == Ring(command_queue, command_head, command_tail)
<1>a. RingContents = contents
  BY DEF RingContents, RingLen, Ring, Wrap
<1>b. QueueTypes => contents \in Seq(Nat)
  BY RingIsSeq DEF QueueTypes
<1>1. Init => RingIsFifo
  <2> SUFFICES ASSUME Init PROVE accepted = executed \o contents
    BY <1>a DEF RingIsFifo
  <2>1. QueueTypes
    BY TypeInit, TypeParts
  <2>2. contents \in Seq(Nat) /\ Len(contents) = 0
    <3>1. Apart(command_head, command_tail) = 0
      BY DEF Init, Apart
    <3>2. Len(contents) = Apart(command_head, command_tail)
      BY <2>1, RingIsSeq DEF QueueTypes
    <3> QED
      BY <2>1, <1>b, <3>1, <3>2
  <2>3. contents = <<>>
    BY <2>2
  <2> HIDE DEF contents
  <2> QED
    BY <2>3 DEF Init
<1>2. ASSUME QueueTypes, keys \in Nat, RingIsFifo, [Next]_vars PROVE RingIsFifo'
  <2> USE <1>2
  <2>a. accepted = executed \o contents
    BY <1>a DEF RingIsFifo
  <2>b. executed \in Seq(Nat) /\ contents \in Seq(Nat)
    BY <1>b DEF QueueTypes
  <2>c. RingContents' = contents'
    BY DEF RingContents, RingLen, Ring, Wrap
  <2> SUFFICES accepted' = executed' \o contents'
    BY <2>c DEF RingIsFifo
  <2>1. CASE UNCHANGED queueVars
    BY <2>1, <2>a DEF queueVars
  <2>2. CASE PopCommand
    <3> DEFINE x == command_queue[command_tail]
    <3>1. contents = <<x>> \o contents' /\ contents' \in Seq(Nat)
      BY <2>2, PopTakesFirst, RingIsSeq DEF PopCommand, QueueTypes, Wrap
    <3>2. executed' = Append(executed, x) /\ accepted' = accepted
      BY <2>2 DEF PopCommand
    <3>3. x \in Nat
      BY DEF QueueTypes
    <3> HIDE DEF x, contents
    <3>4. Append(executed, x) \o contents' = executed \o (<<x>> \o contents')
      <4>1. Append(executed, x) = executed \o <<x>> /\ <<x>> \in Seq(Nat)
        BY <2>b, <3>3, AppendIsConcat
      <4> QED
        BY <2>b, <3>1, <4>1, ConcatAssociative
    <3> QED
      BY <2>a, <3>1, <3>2, <3>4
  <2>3. CASE keys' = keys + 1 /\ QueueCommand(keys')
    <3> DEFINE c == keys + 1
    <3>0. c \in Nat /\ QueueCommand(c)
      BY <2>3
    <3>1. CASE Wrap(command_head + 1) = command_tail
      BY <3>0, <3>1, <2>1 DEF QueueCommand, Wrap
    <3>2. CASE Wrap(command_head + 1) # command_tail
      <4>1. /\ command_queue' = [command_queue EXCEPT ![command_head] = c]
            /\ command_head' = Wrap(command_head + 1) /\ command_tail' = command_tail
            /\ accepted' = Append(accepted, c) /\ executed' = executed
        BY <3>0, <3>2 DEF QueueCommand, Wrap
      <4>2. contents' = Append(contents, c)
        BY <3>0, <3>2, <4>1, QueuePutsLast DEF QueueTypes
      <4> HIDE DEF contents, c
      <4>3. Append(executed \o contents, c) = executed \o Append(contents, c)
        <5>1. <<c>> \in Seq(Nat) /\ executed \o contents \in Seq(Nat)
          BY <2>b, <3>0
        <5>2. /\ Append(executed \o contents, c) = (executed \o contents) \o <<c>>
              /\ Append(contents, c) = contents \o <<c>>
          BY <2>b, <3>0, <5>1, AppendIsConcat
        <5> QED
          BY <2>b, <5>1, <5>2, ConcatAssociative
      <4> QED
        BY <2>a, <4>1, <4>2, <4>3
    <3> QED
      BY <3>1, <3>2
  <2> QED
    BY <2>1, <2>2, <2>3, QueueSteps DEF vars
<1>3. TypeOK => QueueTypes /\ keys \in Nat
  BY TypeParts DEF PlainTypes
<1> QED
  BY <1>1, <1>2, <1>3, TypeCorrect, PTL DEF Spec

-----------------------------------------------------------------------------
(* The snapshots.                                                          *)

\* Which snapshots there are where the worker is: it publishes the one it decoded
\* before it fetches another, and none is decoded before the tasks are chosen.
Rotation ==
  /\ wk = "none" => published = 0 /\ previous = 0 /\ older = 0
  /\ fg = "start" => fetches = 0
  /\ wk \in {"born", "test", "fetch", "commands"} => fetches = published
  /\ wk = "status" => fetches = published + 1

\* A step changes the snapshots by decoding one or by publishing the one decoded.
LEMMA SnapshotsStep ==
  ASSUME TypeOK, Handshake, Rotation, SnapshotsConsecutive, Next
  PROVE  Rotation' /\ SnapshotsConsecutive'
<1> USE DEF Rotation, SnapshotsConsecutive, snapVars, flagVars
<1> PlainTypes
  BY TypeParts
<1> USE DEF PlainTypes
<1>1. CASE WkBegin \/ WkTest \/ WkCommand \/ WkLeave
  BY <1>1 DEF WkBegin, WkTest, WkCommand, WkLeave
<1>2. CASE WkFetched
  <2>1. fg # "start"
    BY <1>2 DEF WkFetched, Handshake
  <2> QED
    BY <1>2, <2>1 DEF WkFetched
<1>3. CASE WkPublish
  BY <1>3 DEF WkPublish
<1>4. CASE FgStart
  <2>1. wk = "none"
    BY <1>4 DEF FgStart, Handshake
  <2> QED
    BY <1>4, <2>1 DEF FgStart
<1>5. CASE FgFrame \/ FgKeyboard \/ FgJoin \/ FgClose
  BY <1>5 DEF FgFrame, FgKeyboard, FgJoin, FgClose
<1>6. CASE SyncTop \/ SyncFetched \/ SyncKeyboard
  <2>1. wk = "none"
    BY <1>6 DEF SyncTop, SyncFetched, SyncKeyboard, Handshake, FgSync
  <2> QED
    BY <1>6, <2>1 DEF SyncTop, SyncFetched, SyncKeyboard
<1>7. ASSUME NEW t \in Tasks, Calls(t) PROVE Rotation' /\ SnapshotsConsecutive'
  BY <1>7 DEF Calls, Send, Receive, CallFails
<1>8. CASE Failed \/ FgJoinWaits \/ Ended
  BY <1>8 DEF Failed, FgErrorKey, WkErrorKey, WkErrorWaits, Exit, FgJoinWaits, Ended, vars
<1> QED
  BY <1>1, <1>2, <1>3, <1>4, <1>5, <1>6, <1>7, <1>8 DEF Next, Worker, Foreground

\* The snapshots a frame blends are consecutive, and none is published twice,
\* however the worker's fetches fall between the frames.
THEOREM SnapshotsAreConsecutive == Spec => []SnapshotsConsecutive
<1>1. Init => Rotation /\ SnapshotsConsecutive
  BY DEF Init, Rotation, SnapshotsConsecutive
<1>2. IInv /\ Rotation /\ SnapshotsConsecutive /\ [Next]_vars
        => Rotation' /\ SnapshotsConsecutive'
  BY SnapshotsStep DEF IInv, Rotation, SnapshotsConsecutive, vars, snapVars
<1> QED
  BY <1>1, <1>2, ConnectionInvariant, PTL DEF Spec
=============================================================================
