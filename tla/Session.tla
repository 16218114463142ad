-------------------------------- MODULE Session --------------------------------
(***************************************************************************)
(* One client from connect_service to disconnect_service with the          *)
(* foreground loop of run_simulation (every platform; on the Amiga when    *)
(* the worker could not be started), against the server it polls.          *)
(*                                                                         *)
(* A request or an answer is one unit here: module Framing models how the  *)
(* bytes of an answer arrive.  The positions of bwc_tcp_write are kept     *)
(* relative: `ahead` says that the device has already accepted a request   *)
(* at write_offset, so that a repeated write there delivers nothing.       *)
(***************************************************************************)
EXTENDS Integers, Sequences, FiniteSets

CONSTANTS
  Configs,   \* the builds and worlds to look at
  RowsMax    \* CLIENT_ROWS_MAX

\* ignore: BWC_IGNORE_TRANSIENT_CLIENT_IO (MS-DOS)
\* atari: main loops back to the title after a session
\* commands: those the server may queue for this client
\* steps: world steps the polls may come upon, as the bytes they are sent in
\* clients, changes, keys: bounds on the clients in the world, on its changes
\* and on the keys typed
ASSUME ConfigAssumption ==
  \A c \in Configs :
    /\ c.ignore \in BOOLEAN /\ c.atari \in BOOLEAN /\ c.commands \subseteq 1 .. 8
    /\ c.steps \subseteq 0 .. 255
    /\ c.clients \in Nat \ {0} /\ {c.changes, c.keys} \subseteq Nat
ASSUME BoundAssumption == RowsMax \in Nat \ {0}

MaxAttempts == 3
BroadcastCommands == {5, 6}
TextByte == 65         \* first byte of a message or of a client's name

Flags == {"CLIENT_CHANGE", "OBJECT_CHANGE", "FROZEN_TOGGLE", "CLIENT_CMD"}
Requests == {"x-add-client", "x-w", "x-ws", "x-who", "x-cmd-get", "x-msg", "x-key", "close"}

VARIABLES
  config,     \* constant
  world,      \* server: number of clients, and a version of all else in x-ws
  step,       \* server: the world step
  pending,    \* server: status bits this client has not been told
  cmds,       \* server: commands queued for this client
  inbox,      \* requests on their way to the server
  answers,    \* answers on their way to the client
  ahead,      \* a request is accepted that the client does not know to be
  key, typed, \* the key waiting in the keyboard buffer, and how many were typed
  pc,         \* where main and run_simulation continue when todo is done
  todo,       \* requests the running handler still makes, the first one now
  calling,    \* the first one was written; its answer is awaited
  attempt,    \* failed writes of this x-w
  app_byte,   \* app_payload[0]
  view, rows, \* world globals; rows in clients_buffer
  current_step, is_running_sim,
  fetched, shown, drawn  \* history: step of the last x-w answer, of the frame on
                         \* the screen; whether this round of the loop redrew it

server == <<config, world, step, pending, cmds>>
wire == <<inbox, answers, ahead>>
user == <<key, typed>>
call == <<todo, calling, attempt>>
globals == <<app_byte, view, rows>>
screen == <<current_step, fetched, shown, drawn>>
vars == <<server, wire, user, pc, call, globals, screen, is_running_sim>>

NoStep == 255          \* current_step before the first frame: a byte like any other
NoFrame == 256         \* (history) no frame was fetched, or is on the screen
StartWorld == [clients |-> 1, version |-> 0]

Init ==
  /\ config \in Configs
  /\ world = StartWorld /\ step \in config.steps /\ pending = {} /\ cmds = <<>>
  /\ inbox = <<>> /\ answers = <<>> /\ ahead = FALSE
  /\ key = "none" /\ typed = 0
  /\ pc = "connect" /\ todo = <<>> /\ calling = FALSE /\ attempt = 0
  /\ app_byte = 0 /\ view = StartWorld /\ rows = 0
  /\ current_step = NoStep /\ is_running_sim = TRUE
  /\ fetched = NoFrame /\ shown = NoFrame /\ drawn = FALSE

-----------------------------------------------------------------------------
(* The server and the user.                                                *)

MayChange == world.version < config.changes

ClientsChange ==
  /\ MayChange
  /\ \E n \in 1 .. config.clients : n # world.clients
       /\ world' = [clients |-> n, version |-> world.version + 1]
  /\ pending' = pending \union {"CLIENT_CHANGE"}
  /\ UNCHANGED <<config, step, cmds, wire, user, pc, call, globals, screen, is_running_sim>>

ObjectsChange ==
  /\ MayChange
  /\ world' = [world EXCEPT !.version = @ + 1]
  /\ \E f \in {"OBJECT_CHANGE", "FROZEN_TOGGLE"} : pending' = pending \union {f}
  /\ UNCHANGED <<config, step, cmds, wire, user, pc, call, globals, screen, is_running_sim>>

CommandQueued ==
  /\ cmds = <<>>
  /\ \E c \in config.commands : cmds' = <<c>>
  /\ pending' = pending \union {"CLIENT_CMD"}
  /\ UNCHANGED <<config, world, step, wire, user, pc, call, globals, screen, is_running_sim>>

\* Any number of steps may go by between two polls.
WorldStep ==
  /\ step' \in config.steps \ {step}
  /\ UNCHANGED <<config, world, pending, cmds, wire, user, pc, call, globals, screen, is_running_sim>>

UserTypes ==
  /\ key = "none" /\ typed < config.keys /\ typed' = typed + 1
  /\ key' \in {"command", "q"}
  /\ UNCHANGED <<server, wire, pc, call, globals, screen, is_running_sim>>

\* The server takes request r and answers it.
Take(r) ==
  /\ inbox # <<>> /\ Head(inbox) = r /\ inbox' = Tail(inbox)
  /\ UNCHANGED <<config, step, ahead, user, pc, call, globals, screen, is_running_sim>>

Answer(a) == answers' = Append(answers, a)

\* A poll is answered with the step and the status bits, or with an empty frame.
ServeFrame ==
  /\ Take("x-w")
  /\ Answer([req |-> "x-w", empty |-> FALSE, step |-> step, status |-> pending])
  /\ pending' = {} /\ UNCHANGED <<world, cmds>>

ServeEmpty ==
  /\ Take("x-w") /\ Answer([req |-> "x-w", empty |-> TRUE])
  /\ UNCHANGED <<world, pending, cmds>>

ServeClient ==
  /\ Take("x-add-client")
  /\ \E ok \in BOOLEAN : Answer([req |-> "x-add-client", ok |-> ok])
  /\ UNCHANGED <<world, pending, cmds>>

ServeWorld ==
  /\ \/ Take("x-ws") /\ Answer([req |-> "x-ws", world |-> world])
     \/ Take("x-who") /\ Answer([req |-> "x-who", clients |-> world.clients])
     \/ Take("x-msg") /\ \E e \in BOOLEAN : Answer([req |-> "x-msg", empty |-> e])
  /\ UNCHANGED <<world, pending, cmds>>

ServeCommands ==
  /\ Take("x-cmd-get")
  /\ Answer([req |-> "x-cmd-get", cmds |-> cmds]) /\ cmds' = <<>>
  /\ UNCHANGED <<world, pending>>

ServeKey ==
  /\ Take("x-key") /\ Answer([req |-> "x-key"])
  /\ \/ UNCHANGED world
     \/ MayChange /\ world' = [world EXCEPT !.version = @ + 1]
  /\ UNCHANGED <<pending, cmds>>

\* Nobody would read an answer to "close".
ServeClose == Take("close") /\ UNCHANGED <<world, pending, cmds, answers>>

Serve == ServeClient \/ ServeWorld \/ ServeCommands \/ ServeKey \/ ServeClose

-----------------------------------------------------------------------------
(* Requests: send_command and request_client_data.                         *)

Requesting(r) == todo # <<>> /\ ~calling /\ Head(todo) = r

\* (mutant) a repeated write goes to a new position
WriteSucceeds_Again(r) ==
  /\ inbox' = Append(inbox, r) /\ ahead' = FALSE /\ UNCHANGED answers

\* bwc_tcp_write at write_offset, which advances only when it reports success.
\* A write that fails may have been accepted all the same.
WriteSucceeds(r) ==
  /\ inbox' = IF ahead THEN inbox ELSE Append(inbox, r)
  /\ ahead' = FALSE /\ UNCHANGED answers

WriteFails(r) ==
  /\ \/ UNCHANGED <<inbox, ahead>>
     \/ ~ahead /\ ahead' = TRUE /\ inbox' = Append(inbox, r)
  /\ UNCHANGED answers

\* handle_err with err set: exit(1).
Exit == pc' = "exited" /\ todo' = <<>> /\ calling' = FALSE /\ attempt' = 0

SendCommand ==
  /\ \E r \in Requests \ {"x-w", "close"} :
       /\ Requesting(r)
       /\ \/ WriteSucceeds(r) /\ calling' = TRUE /\ UNCHANGED <<pc, todo, attempt>>
          \/ WriteFails(r) /\ Exit
  /\ UNCHANGED <<server, user, globals, screen, is_running_sim>>

\* disconnect_service sends "close", reads nothing and closes the handle.
Disconnect ==
  /\ Requesting("close")
  /\ \/ /\ WriteSucceeds("close")
        /\ pc' = IF config.atari THEN "connect" ELSE "done"
        /\ todo' = <<>> /\ UNCHANGED <<calling, attempt>>
     \/ WriteFails("close") /\ Exit
  /\ UNCHANGED <<server, user, globals, screen, is_running_sim>>

Poll == /\ todo' = <<"x-w">> /\ app_byte' = 0

PollSent ==
  /\ Requesting("x-w") /\ WriteSucceeds("x-w")
  /\ calling' = TRUE /\ attempt' = 0 /\ UNCHANGED <<pc, todo>>
  /\ UNCHANGED <<server, user, globals, screen, is_running_sim>>

PollRetried ==
  /\ Requesting("x-w") /\ WriteFails("x-w")
  /\ attempt < MaxAttempts - 1 /\ attempt' = attempt + 1
  /\ UNCHANGED <<server, user, pc, todo, calling, globals, screen, is_running_sim>>

\* fetch_client_state returned nothing: run_simulation polls again.
NothingReceived ==
  /\ todo' = <<>> /\ calling' = FALSE /\ attempt' = 0
  /\ pc' = IF pc = "frame" THEN "fetch" ELSE pc

\* The third transient error, or any other.
PollAbandoned ==
  /\ Requesting("x-w") /\ WriteFails("x-w")
  /\ \/ Exit
     \/ config.ignore /\ attempt = MaxAttempts - 1 /\ NothingReceived
  /\ UNCHANGED <<server, user, globals, screen, is_running_sim>>

-----------------------------------------------------------------------------
(* Answers, each in the reader that asked for it.                          *)

Returned(rest) == todo' = rest /\ calling' = FALSE /\ UNCHANGED attempt

Min2(a, b) == IF a < b THEN a ELSE b

\* (mutants) a freeze asks nothing; a command waits behind another change
StatusCalls_NoFreeze(status) ==
  (IF status \intersect {"CLIENT_CHANGE", "OBJECT_CHANGE"} # {} THEN <<"x-ws">> ELSE <<>>)
  \o (IF "CLIENT_CHANGE" \in status THEN <<"x-who">> ELSE <<>>)
  \o (IF "CLIENT_CMD" \in status THEN <<"x-cmd-get">> ELSE <<>>)

StatusCalls_ElseIf(status) ==
  IF "CLIENT_CHANGE" \in status THEN <<"x-ws", "x-who">>
  ELSE IF status \intersect {"FROZEN_TOGGLE", "OBJECT_CHANGE"} # {} THEN <<"x-ws">>
  ELSE IF "CLIENT_CMD" \in status THEN <<"x-cmd-get">> ELSE <<>>

\* handle_app_status: what the status bits make the client ask.
StatusCalls(status) ==
  (IF status \intersect {"CLIENT_CHANGE", "FROZEN_TOGGLE", "OBJECT_CHANGE"} # {}
     THEN <<"x-ws">> ELSE <<>>)
  \o (IF "CLIENT_CHANGE" \in status THEN <<"x-who">> ELSE <<>>)
  \o (IF "CLIENT_CMD" \in status THEN <<"x-cmd-get">> ELSE <<>>)

ClientRegistered(a) ==
  /\ a.req = "x-add-client"
  /\ \/ a.ok /\ Returned(<<>>) /\ pc' = "preview"
     \/ ~a.ok /\ Exit
  /\ UNCHANGED <<globals, fetched>>

\* The preview ignores what it fetches.
StateFetched(a) ==
  /\ a.req = "x-w"
  /\ \/ /\ a.empty \/ pc = "preview"
        /\ NothingReceived /\ UNCHANGED <<app_byte, fetched>>
     \/ /\ ~a.empty /\ pc = "frame"
        /\ app_byte' = a.step /\ fetched' = a.step
        /\ Returned(StatusCalls(a.status)) /\ pc' = "redraw"
  /\ UNCHANGED <<view, rows>>

WorldStateRead(a) ==
  /\ a.req = "x-ws"
  /\ view' = a.world
  /\ Returned(Tail(todo)) /\ UNCHANGED <<pc, app_byte, rows, fetched>>

\* Rows beyond the buffer are drained into app_data.
ClientsRead(a) ==
  /\ a.req = "x-who"
  /\ rows' = Min2(view.clients, Min2(a.clients, RowsMax))
  /\ app_byte' = IF a.clients > RowsMax THEN TextByte ELSE app_byte
  /\ Returned(Tail(todo)) /\ UNCHANGED <<pc, view, fetched>>

\* The commands replace the fetched state in app_data, and so does the message.
CommandsRead(a) ==
  /\ a.req = "x-cmd-get"
  /\ app_byte' = IF a.cmds = <<>> THEN app_byte ELSE Head(a.cmds)
  /\ Returned(IF \E i \in DOMAIN a.cmds : a.cmds[i] \in BroadcastCommands
                THEN <<"x-msg">> ELSE <<>>)
  /\ UNCHANGED <<pc, view, rows, fetched>>

MessageRead(a) ==
  /\ a.req = "x-msg"
  /\ app_byte' = IF a.empty THEN app_byte ELSE TextByte
  /\ Returned(Tail(todo)) /\ UNCHANGED <<pc, view, rows, fetched>>

KeyAnswerRead(a) ==
  /\ a.req = "x-key"
  /\ Returned(Tail(todo)) /\ UNCHANGED <<pc, globals, fetched>>

Read(a) ==
  \/ ClientRegistered(a) \/ StateFetched(a) \/ WorldStateRead(a) \/ ClientsRead(a)
  \/ CommandsRead(a) \/ MessageRead(a) \/ KeyAnswerRead(a)

\* An answer to another request has another size: read_response_wait exits.
Receive ==
  /\ calling /\ answers # <<>>
  /\ answers' = Tail(answers)
  /\ IF Head(answers).req = Head(todo)
       THEN Read(Head(answers))
       ELSE Exit /\ UNCHANGED <<globals, fetched>>
  /\ UNCHANGED <<server, inbox, ahead, user, current_step, shown, drawn, is_running_sim>>

\* The stream ended or the transport failed.
ReceiveFails ==
  /\ calling /\ Exit
  /\ UNCHANGED <<server, wire, user, globals, screen, is_running_sim>>

-----------------------------------------------------------------------------
(* main and run_simulation: at pc, once the requests to make are made.     *)

At(place) == pc = place /\ todo = <<>>

Connect ==
  /\ At("connect")
  /\ \/ /\ pc' = "register" /\ todo' = <<"x-add-client">>
        /\ inbox' = <<>> /\ answers' = <<>> /\ ahead' = FALSE
        /\ UNCHANGED <<calling, attempt>>
     \/ Exit /\ UNCHANGED wire
  /\ UNCHANGED <<server, user, globals, screen, is_running_sim>>

\* One round of show_shapes_preview's loop.
Preview ==
  /\ At("preview")
  /\ \/ key = "none" /\ Poll /\ UNCHANGED <<pc, key>>
     \/ /\ key # "none" /\ key' = "none"
        /\ pc' = "world" /\ todo' = <<"x-ws">> /\ UNCHANGED app_byte
  /\ UNCHANGED <<server, wire, typed, calling, attempt, view, rows, screen, is_running_sim>>

\* run_simulation up to its loop; init_screen leaves no frame on the screen.
StartSimulation ==
  /\ At("world")
  /\ is_running_sim' = TRUE /\ shown' = NoFrame
  /\ pc' = "fetch" /\ todo' = <<"x-who">>
  /\ UNCHANGED <<server, wire, user, calling, attempt, globals, current_step, fetched, drawn>>

LoopTop ==
  /\ At("fetch")
  /\ \/ is_running_sim /\ pc' = "frame" /\ Poll
     \/ /\ ~is_running_sim /\ pc' = "closing" /\ todo' = <<"close">>
        /\ UNCHANGED app_byte
  /\ UNCHANGED <<server, wire, user, calling, attempt, view, rows, screen, is_running_sim>>

ShowScreen == current_step' = app_byte /\ shown' = fetched /\ drawn' = TRUE

\* (mutants) a frame with the old step goes back to polling; a step that wrapped
\* around is not an advance
Redraw_Continue ==
  /\ At("redraw")
  /\ \/ app_byte # current_step /\ ShowScreen /\ pc' = "keyboard"
     \/ app_byte = current_step /\ pc' = "fetch" /\ UNCHANGED <<current_step, shown, drawn>>
  /\ UNCHANGED <<server, wire, user, call, globals, fetched, is_running_sim>>

Redraw_Later ==
  /\ At("redraw") /\ pc' = "keyboard"
  /\ \/ (current_step = NoStep \/ app_byte > current_step) /\ ShowScreen
     \/ app_byte <= current_step /\ UNCHANGED <<current_step, shown, drawn>>
  /\ UNCHANGED <<server, wire, user, call, globals, fetched, is_running_sim>>

Redraw ==
  /\ At("redraw") /\ pc' = "keyboard"
  /\ \/ app_byte # current_step /\ ShowScreen
     \/ app_byte = current_step /\ UNCHANGED <<current_step, shown, drawn>>
  /\ UNCHANGED <<server, wire, user, call, globals, fetched, is_running_sim>>

\* handle_kb.  Keys that only change how the screen looks are left out.
Keyboard ==
  /\ At("keyboard") /\ pc' = "fetch" /\ key' = "none" /\ drawn' = FALSE
  /\ \/ key = "none" /\ UNCHANGED <<todo, is_running_sim>>
     \/ key = "command" /\ todo' = <<"x-key", "x-ws">> /\ UNCHANGED is_running_sim
     \/ key = "q" /\ is_running_sim' = FALSE /\ UNCHANGED todo
  /\ UNCHANGED <<server, wire, typed, calling, attempt, globals, current_step, fetched, shown>>

-----------------------------------------------------------------------------
Requester == SendCommand \/ Disconnect \/ PollSent \/ PollRetried \/ PollAbandoned
Reader == Receive \/ ReceiveFails
Program == Connect \/ Preview \/ StartSimulation \/ LoopTop \/ Redraw \/ Keyboard
World == ClientsChange \/ ObjectsChange \/ CommandQueued \/ WorldStep

Finished == pc \in {"done", "exited"} /\ UNCHANGED vars

Next ==
  \/ World \/ UserTypes
  \/ ServeFrame \/ ServeEmpty \/ Serve
  \/ Requester \/ Reader \/ Program
  \/ Finished

Spec == Init /\ [][Next]_vars

\* The client runs on; the server answers, and not every poll with an empty
\* frame; and a poll that is repeated for ever is written some time.
FairSpec ==
  /\ Spec
  /\ WF_vars(Requester) /\ WF_vars(Receive) /\ WF_vars(Program)
  /\ WF_vars(Serve) /\ WF_vars(ServeFrame \/ ServeEmpty)
  /\ SF_vars(ServeFrame) /\ SF_vars(PollSent)

-----------------------------------------------------------------------------
(* Properties.                                                             *)

InFlight == [i \in DOMAIN answers |-> answers[i].req] \o inbox

\* A client that awaits an answer has exactly one request on the way, in either
\* direction, and it is the one it made: a retried poll is delivered once, and
\* no answer is left unread to be taken for the next one.  Not on MS-DOS, where
\* a poll that was given up may have been accepted.
AnswerIsOwn == ~config.ignore /\ calling => InFlight = <<Head(todo)>>

\* What the client shows of the world is what the server last changed, or a
\* status bit that makes it ask again is pending or on its way.
Untold ==
  pending \union UNION {answers[i].status : i \in
    {j \in DOMAIN answers : answers[j].req = "x-w" /\ ~answers[j].empty}}

ViewIsFresh ==
  At("fetch") =>
    /\ view = world \/ Untold \intersect {"CLIENT_CHANGE", "OBJECT_CHANGE", "FROZEN_TOGGLE"} # {}
    /\ rows = Min2(world.clients, RowsMax) \/ "CLIENT_CHANGE" \in Untold

\* While neither a command of the server nor a row that is drained interferes (both
\* overwrite the step in app_data), the frame on the screen is the one fetched
\* last.  A session may begin with the step that current_step already has: 0xff,
\* which is its initial value, and on the Atari the step the session before ended
\* with, because current_step is never reset.  Its screen then stays empty until
\* the step changes.
ScreenIsCurrent ==
  config.commands = {} /\ config.clients <= RowsMax /\ At("keyboard")
    => shown = fetched \/ (shown = NoFrame /\ (config.atari \/ fetched = NoStep))

\* "Only redraw when the world step has advanced" (run_simulation.c).
RedrawIsAdvance == [][~drawn /\ drawn' => fetched # shown]_vars

Simulating == pc \in {"fetch", "frame", "redraw", "keyboard"}

\* A quit typed during the simulation ends it.
QuitEnds == (key = "q" /\ Simulating) ~> ~Simulating

\* Commands the simulation can still be told of are fetched.
CommandsFetched ==
  (Simulating /\ cmds # <<>> /\ "CLIENT_CMD" \in pending) ~> (cmds = <<>> \/ ~Simulating)
=============================================================================
