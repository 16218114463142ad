------------------------------ MODULE AsyncFetch ------------------------------
(***************************************************************************)
(* The two Exec tasks of the Amiga client (src/amiga/interpolation.c and   *)
(* src/common/run_simulation.c).  The foreground task draws a frame per    *)
(* vertical blank and reads the keyboard; the worker task fetches world    *)
(* snapshots, runs the server's status events and the queued keyboard      *)
(* commands, and so owns the one connection, its buffers and its stream    *)
(* offsets, which nothing locks.  When the worker task cannot be created   *)
(* the foreground runs the sequential loop of the other platforms instead. *)
(*                                                                         *)
(* A server call is a request followed by its answer; between the two the  *)
(* other task may run.  Exec preempts between any two steps here; a        *)
(* Forbid/Permit section is one step.                                      *)
(***************************************************************************)
EXTENDS Integers, Sequences

CONSTANTS
  QueueSize,    \* sizeof(command_queue), 8 in the source
  MaxFetches,   \* bound: x-w responses that carry a snapshot
  MaxKeys,      \* bound: key presses
  Statuses      \* app-status values a server response may carry

ASSUME QueueSizeAssumption == QueueSize \in Nat /\ QueueSize > 1
ASSUME BoundsAssumption == MaxFetches \in Nat /\ MaxKeys \in Nat
ASSUME StatusAssumption ==
  Statuses \subseteq SUBSET {"CLIENT_CHANGE", "FROZEN_TOGGLE", "OBJECT_CHANGE", "CLIENT_CMD"}

VARIABLES
  fg,             \* where the foreground task is
  wk,             \* where the worker task is
  worker_running, \* written by the foreground, read by the worker
  worker_alive,   \* written by the worker, read by the foreground
  todo,           \* per task: the server calls it is in the middle of
  wire,           \* requests the server has not answered, in order
  fetches,        \* snapshots decoded so far: the newest one's number
  published,      \* snapshot numbers, 0 for none
  previous,
  older,
  frame,          \* the snapshot drawn last
  command_queue, command_head, command_tail,
  keys,           \* key presses so far
  accepted,       \* history: commands put into the queue
  executed        \* history: commands the worker took out

connVars  == <<todo, wire>>
snapVars  == <<fetches, published, previous, older>>
queueVars == <<command_queue, command_head, command_tail, accepted, executed>>
flagVars  == <<worker_running, worker_alive>>
vars == <<fg, wk, flagVars, connVars, snapVars, frame, queueVars, keys>>

Tasks == {"fg", "wk"}
Requests == {"x-w", "x-ws", "x-who", "x-cmd-get", "x-msg", "x-key"}
Slots == 0 .. QueueSize - 1

FgLoop  == {"frame", "kb"}                      \* the asynchronous frame loop
FgSync  == {"sync-top", "sync-fetch", "sync-kb"}  \* the sequential loop
FgStates == {"start", "join", "close", "done", "error", "exited"} \cup FgLoop \cup FgSync

WkLoop == {"fetch", "status", "commands"}       \* inside while (worker_running)
WkStates == {"none", "born", "test", "leave", "ended", "error", "stuck"} \cup WkLoop

Init ==
  /\ fg = "start" /\ wk = "none"
  /\ worker_running = FALSE /\ worker_alive = FALSE
  /\ todo = [t \in Tasks |-> <<>>] /\ wire = <<>>
  /\ fetches = 0 /\ published = 0 /\ previous = 0 /\ older = 0 /\ frame = 0
  /\ command_queue = [s \in Slots |-> 0] /\ command_head = 0 /\ command_tail = 0
  /\ keys = 0 /\ accepted = <<>> /\ executed = <<>>

-----------------------------------------------------------------------------
(* Server calls.  todo[t] lists the calls still to make; its head is the   *)
(* one being made, and is on the wire once its request was written.        *)

\* The calls handle_app_status makes for a status byte, in order.
StatusCalls(status) ==
    (IF status \cap {"CLIENT_CHANGE", "FROZEN_TOGGLE", "OBJECT_CHANGE"} # {}
       THEN <<"x-ws">> ELSE <<>>)
 \o (IF "CLIENT_CHANGE" \in status THEN <<"x-who">> ELSE <<>>)
 \o (IF "CLIENT_CMD" \in status THEN <<"x-cmd-get">> ELSE <<>>)

\* do_command and add_body: the command itself, then get_world_state.
KeyCalls == <<"x-key", "x-ws">>

Waiting(t) == \E i \in 1 .. Len(wire) : wire[i].task = t

\* send_command / request_client_data: one write, the request is on its way.
Send(t) ==
  /\ todo[t] # <<>> /\ ~Waiting(t)
  /\ wire' = Append(wire, [task |-> t, req |-> Head(todo[t])])
  /\ UNCHANGED <<fg, wk, flagVars, todo, snapVars, frame, queueVars, keys>>

\* read_response_*: a task that waits takes the next answer of the stream,
\* whoever asked for it.  x-cmd-get may name a broadcast, fetched with x-msg.
Receive(t) ==
  /\ todo[t] # <<>> /\ Waiting(t)
  /\ wire' = Tail(wire)
  /\ \/ todo' = [todo EXCEPT ![t] = Tail(@)]
     \/ /\ Head(todo[t]) = "x-cmd-get"
        /\ todo' = [todo EXCEPT ![t] = <<"x-msg">> \o Tail(@)]
  /\ UNCHANGED <<fg, wk, flagVars, snapVars, frame, queueVars, keys>>

\* handle_err in the middle of a call: the message is drawn, and the task
\* that failed waits for a key in cgetc while the other one goes on.
CallFails(t) ==
  /\ todo[t] # <<>>
  /\ todo' = [todo EXCEPT ![t] = <<>>]
  /\ wire' = IF Waiting(t) THEN Tail(wire) ELSE wire
  /\ IF t = "fg" THEN fg' = "error" /\ UNCHANGED wk ELSE wk' = "error" /\ UNCHANGED fg
  /\ UNCHANGED <<flagVars, snapVars, frame, queueVars, keys>>

\* exit(1) ends the program, both tasks.
Exit ==
  /\ fg' = "exited"
  /\ wk' = IF wk = "none" THEN "none" ELSE "ended"
  /\ todo' = [s \in Tasks |-> <<>>] /\ wire' = <<>>
  /\ UNCHANGED <<flagVars, snapVars, frame, queueVars, keys>>

\* The key handle_err waits for: of the foreground, and of the worker if a
\* key message already is in the window's port.
FgErrorKey == fg = "error" /\ Exit
WkErrorKey == wk = "error" /\ Exit

\* An empty port: cgetc Waits for the port's signal bit, which Intuition
\* sends to the task that opened the window and never to the worker.
WkErrorWaits ==
  /\ wk = "error" /\ wk' = "stuck"
  /\ UNCHANGED <<fg, flagVars, connVars, snapVars, frame, queueVars, keys>>

-----------------------------------------------------------------------------
(* The worker task: bwc_fetch_worker.                                      *)

\* (mutant) the worker does not announce itself
WkBegin_Silent ==
  /\ wk = "born" /\ wk' = "test"
  /\ UNCHANGED <<fg, flagVars, connVars, snapVars, frame, queueVars, keys>>

WkBegin ==
  /\ wk = "born" /\ wk' = "test" /\ worker_alive' = TRUE
  /\ UNCHANGED <<fg, worker_running, connVars, snapVars, frame, queueVars, keys>>

\* while (worker_running): start the next fetch, or leave the loop.
WkTest ==
  /\ wk = "test"
  /\ IF worker_running
       THEN wk' = "fetch" /\ todo' = [todo EXCEPT !["wk"] = <<"x-w">>]
       ELSE wk' = "leave" /\ UNCHANGED todo
  /\ UNCHANGED <<fg, flagVars, wire, snapVars, frame, queueVars, keys>>

\* (mutant) a fetch without a snapshot goes straight on to the next fetch
WkFetched_NoCommands ==
  /\ wk = "fetch" /\ todo["wk"] = <<>>
  /\ \/ /\ ~worker_running
        /\ wk' = "leave" /\ UNCHANGED <<todo, fetches>>
     \/ /\ worker_running /\ fetches < MaxFetches
        /\ fetches' = fetches + 1
        /\ \E status \in Statuses : todo' = [todo EXCEPT !["wk"] = StatusCalls(status)]
        /\ wk' = "status"
     \/ /\ worker_running
        /\ wk' = "test" /\ UNCHANGED <<todo, fetches>>
  /\ UNCHANGED <<fg, flagVars, wire, published, previous, older, frame, queueVars, keys>>

\* fetch_client_state returned: n > 0 decodes a snapshot and handles its
\* status before it is published; n <= 0 goes on to the command queue.
WkFetched ==
  /\ wk = "fetch" /\ todo["wk"] = <<>>
  /\ \/ /\ ~worker_running
        /\ wk' = "leave" /\ UNCHANGED <<todo, fetches>>
     \/ /\ worker_running /\ fetches < MaxFetches
        /\ fetches' = fetches + 1
        /\ \E status \in Statuses : todo' = [todo EXCEPT !["wk"] = StatusCalls(status)]
        /\ wk' = "status"
     \/ /\ worker_running
        /\ wk' = "commands" /\ UNCHANGED <<todo, fetches>>
  /\ UNCHANGED <<fg, flagVars, wire, published, previous, older, frame, queueVars, keys>>

\* (mutant) previous is taken after the new snapshot was stored
WkPublish_Order ==
  /\ wk = "status" /\ todo["wk"] = <<>>
  /\ older' = previous /\ previous' = fetches /\ published' = fetches
  /\ wk' = "commands"
  /\ UNCHANGED <<fg, flagVars, connVars, fetches, frame, queueVars, keys>>

WkPublish ==
  /\ wk = "status" /\ todo["wk"] = <<>>
  /\ older' = previous /\ previous' = published /\ published' = fetches
  /\ wk' = "commands"
  /\ UNCHANGED <<fg, flagVars, connVars, fetches, frame, queueVars, keys>>

\* while (pop_command(&command)) handle_kb_command(command);
PopCommand ==
  /\ command_head # command_tail
  /\ executed' = Append(executed, command_queue[command_tail])
  /\ command_tail' = (command_tail + 1) % QueueSize
  /\ UNCHANGED <<command_queue, command_head, accepted>>

WkCommand ==
  /\ wk = "commands" /\ todo["wk"] = <<>>
  /\ \/ PopCommand /\ todo' = [todo EXCEPT !["wk"] = KeyCalls] /\ UNCHANGED wk
     \/ command_head = command_tail /\ wk' = "test" /\ UNCHANGED <<queueVars, todo>>
  /\ UNCHANGED <<fg, flagVars, wire, snapVars, frame, keys>>

WkLeave ==
  /\ wk = "leave" /\ wk' = "ended" /\ worker_alive' = FALSE
  /\ UNCHANGED <<fg, worker_running, connVars, snapVars, frame, queueVars, keys>>

-----------------------------------------------------------------------------
(* The foreground task: run_simulation.                                    *)

\* bwc_async_fetch_start; without a worker task the sequential loop runs.
FgStart ==
  /\ fg = "start"
  /\ worker_alive' = FALSE
  /\ \/ worker_running' = TRUE /\ wk' = "born" /\ fg' = "frame"
     \/ worker_running' = FALSE /\ fg' = "sync-top" /\ UNCHANGED wk
  /\ UNCHANGED <<connVars, snapVars, frame, queueVars, keys>>

\* bwc_async_fetch_copy and amiga_show_screen_shapes.
FgFrame ==
  /\ fg = "frame" /\ fg' = "kb"
  /\ frame' = published
  /\ UNCHANGED <<wk, flagVars, connVars, snapVars, queueVars, keys>>

\* (mutants) the index is not wrapped; a full ring is not noticed
QueueCommand_NoWrap(c) ==
  LET next == command_head + 1
  IN  IF next # command_tail
        THEN /\ command_queue' = [command_queue EXCEPT ![command_head] = c]
             /\ command_head' = next
             /\ accepted' = Append(accepted, c)
             /\ UNCHANGED <<command_tail, executed>>
        ELSE UNCHANGED queueVars
QueueCommand_Full(c) ==
  /\ command_queue' = [command_queue EXCEPT ![command_head] = c]
  /\ command_head' = (command_head + 1) % QueueSize
  /\ accepted' = Append(accepted, c)
  /\ UNCHANGED <<command_tail, executed>>

\* bwc_async_fetch_queue_command: a full ring drops the command.
QueueCommand(c) ==
  LET next == (command_head + 1) % QueueSize
  IN  IF next # command_tail
        THEN /\ command_queue' = [command_queue EXCEPT ![command_head] = c]
             /\ command_head' = next
             /\ accepted' = Append(accepted, c)
             /\ UNCHANGED <<command_tail, executed>>
        ELSE UNCHANGED queueVars

\* (mutant) handle_kb does not ask whether the worker is active
NetworkKey_Direct ==
  /\ keys < MaxKeys /\ keys' = keys + 1
  /\ todo' = [todo EXCEPT !["fg"] = KeyCalls] /\ UNCHANGED queueVars

\* handle_kb for a key that makes server calls: queued while the worker runs,
\* made by the foreground itself otherwise.
NetworkKey ==
  /\ keys < MaxKeys /\ keys' = keys + 1
  /\ IF worker_running
       THEN QueueCommand(keys') /\ UNCHANGED todo
       ELSE todo' = [todo EXCEPT !["fg"] = KeyCalls] /\ UNCHANGED queueVars

NoNetworkKey == UNCHANGED <<keys, queueVars, todo>>

\* (mutant) the loop ends without bwc_async_fetch_stop
FgKeyboard_NoStop ==
  /\ fg = "kb"
  /\ \/ fg' = "frame" /\ (NetworkKey \/ NoNetworkKey) /\ UNCHANGED worker_running
     \/ fg' = "join" /\ UNCHANGED worker_running /\ NoNetworkKey
  /\ UNCHANGED <<wk, worker_alive, wire, snapVars, frame>>

FgKeyboard ==
  /\ fg = "kb"
  /\ \/ fg' = "frame" /\ (NetworkKey \/ NoNetworkKey) /\ UNCHANGED worker_running
     \/ fg' = "join" /\ worker_running' = FALSE /\ NoNetworkKey   \* 'q': loop ends, stop
  /\ UNCHANGED <<wk, worker_alive, wire, snapVars, frame>>

\* (mutant) the foreground does not wait for the worker
FgJoin_NoWait ==
  /\ fg = "join"
  /\ fg' = "close"
  /\ UNCHANGED <<wk, flagVars, connVars, snapVars, frame, queueVars, keys>>

\* while (bwc_async_fetch_alive()) wait_vsync();
FgJoin ==
  /\ fg = "join" /\ ~worker_alive
  /\ fg' = "close"
  /\ UNCHANGED <<wk, flagVars, connVars, snapVars, frame, queueVars, keys>>

\* One more round of the join loop's wait_vsync.
FgJoinWaits == fg = "join" /\ worker_alive /\ UNCHANGED vars

\* disconnect_service: "close <id>" is written (a failure is handle_err),
\* then the handle is closed.
FgClose ==
  /\ fg = "close" /\ todo["fg"] = <<>>
  /\ fg' \in {"done", "error"}
  /\ UNCHANGED <<wk, flagVars, connVars, snapVars, frame, queueVars, keys>>

\* The sequential loop: fetch, status, draw, keyboard.
SyncTop ==
  /\ fg = "sync-top" /\ todo["fg"] = <<>>
  /\ fg' = "sync-fetch" /\ todo' = [todo EXCEPT !["fg"] = <<"x-w">>]
  /\ UNCHANGED <<wk, flagVars, wire, snapVars, frame, queueVars, keys>>

SyncFetched ==
  /\ fg = "sync-fetch" /\ todo["fg"] = <<>>
  /\ \/ /\ fetches < MaxFetches
        /\ fetches' = fetches + 1
        /\ \E status \in Statuses : todo' = [todo EXCEPT !["fg"] = StatusCalls(status)]
        /\ fg' = "sync-kb"
     \/ fg' = "sync-top" /\ UNCHANGED <<todo, fetches>>     \* n <= 0: re-poll
  /\ UNCHANGED <<wk, flagVars, wire, published, previous, older, frame, queueVars, keys>>

SyncKeyboard ==
  /\ fg = "sync-kb" /\ todo["fg"] = <<>>
  /\ frame' = fetches
  /\ \/ fg' = "sync-top" /\ (NetworkKey \/ NoNetworkKey)
     \/ fg' = "close" /\ NoNetworkKey
  /\ UNCHANGED <<wk, flagVars, wire, snapVars>>

\* Nothing is left to run: the program has ended.
Ended ==
  /\ fg \in {"done", "exited"} /\ wk \in {"none", "ended"}
  /\ UNCHANGED vars

Worker == WkBegin \/ WkTest \/ WkFetched \/ WkPublish \/ WkCommand \/ WkLeave
Foreground == \/ FgStart \/ FgFrame \/ FgKeyboard \/ FgJoin \/ FgClose
              \/ SyncTop \/ SyncFetched \/ SyncKeyboard
Failed == FgErrorKey \/ WkErrorKey \/ WkErrorWaits
Calls(t) == Send(t) \/ Receive(t) \/ CallFails(t)

Next == \/ Worker \/ Foreground \/ Failed \/ FgJoinWaits \/ Ended
        \/ \E t \in Tasks : Calls(t)

Spec == Init /\ [][Next]_vars

\* Both tasks have the same priority and Exec time-slices them; the server
\* answers what it is asked.  No fairness on FgErrorKey: it is the player's.
FairSpec ==
  /\ Spec
  /\ WF_vars(Worker) /\ WF_vars(Foreground) /\ WF_vars(WkErrorKey \/ WkErrorWaits)
  /\ \A t \in Tasks : WF_vars(Send(t) \/ Receive(t))

-----------------------------------------------------------------------------
(* Properties.                                                             *)

\* The ring from command_tail up to command_head.
RingLen == (command_head - command_tail) % QueueSize
RingContents == [i \in 1 .. RingLen |-> command_queue[(command_tail + i - 1) % QueueSize]]

TypeOK ==
  /\ fg \in FgStates /\ wk \in WkStates
  /\ worker_running \in BOOLEAN /\ worker_alive \in BOOLEAN
  /\ todo \in [Tasks -> Seq(Requests)]
  /\ wire \in Seq([task : Tasks, req : Requests])
  /\ fetches \in Nat /\ published \in Nat /\ previous \in Nat /\ older \in Nat
  /\ frame \in Nat
  /\ command_queue \in [Slots -> Nat] /\ command_head \in Slots /\ command_tail \in Slots
  /\ keys \in Nat /\ accepted \in Seq(Nat) /\ executed \in Seq(Nat)

UsesConnection(t) == todo[t] # <<>> \/ (t = "fg" /\ fg = "close")

\* The two tasks never use the connection at the same time: not while the
\* foreground disconnects, not for a key it handles itself
\* (interpolation.c's worker_running / worker_alive, handle_kb's queueing).
ConnectionExclusive == ~(UsesConnection("fg") /\ UsesConnection("wk"))

\* Once the handle is closed the worker makes no further call on it.
NoCallAfterClose == fg = "done" => todo["wk"] = <<>> /\ wire = <<>>

\* The answer a task reads is the answer to the request it wrote last: the
\* stream has no request ids, only order, and the readers of connection.c
\* would take another call's answer as their own.
AnswerIsOwn ==
  \A t \in Tasks : Waiting(t) => /\ todo[t] # <<>>
                                 /\ wire = <<[task |-> t, req |-> Head(todo[t])]>>

\* The command ring is a FIFO: what the worker ran, then what is in the
\* ring, is what was accepted, in order (pop_command, queue_command).
RingIsFifo == accepted = executed \o RingContents

\* The two snapshots a frame may blend are consecutive, and none is
\* published twice (the rotation older <- previous <- published).
SnapshotsConsecutive ==
  /\ published > 0 => previous = published - 1
  /\ previous > 0 => older = previous - 1
  /\ published <= fetches

\* 'q' ends the program, or leaves it where an error message waits for a key.
QuitCompletes == (fg = "join") ~> (fg \in {"done", "error", "exited"} \/ wk = "stuck")

\* An accepted command is run unless the player quits or a call fails first.
CommandsRun ==
  \A k \in 1 .. MaxKeys :
    (\E i \in 1 .. Len(accepted) : accepted[i] = k)
      ~> \/ \E i \in 1 .. Len(executed) : executed[i] = k
         \/ fg \notin FgLoop \/ wk \in {"error", "stuck"}

\* README: "Quitting returns to the CLI."  The join loop is left after 'q'.
QuittingReturns == (fg = "join") ~> (fg # "join")
=============================================================================
