----------------------------- MODULE Session_proofs -----------------------------
(***************************************************************************)
(* Proofs about Session, for every set of builds, every bound on what the  *)
(* world and the user do, and every modulus of the world step: a client    *)
(* reads the answer it asked for, what it shows of the world is fresh, and *)
(* so is the frame on its screen.                                          *)
(***************************************************************************)
EXTENDS Session, SequenceTheorems, TLAPS

USE ConfigAssumption, BoundAssumption

-----------------------------------------------------------------------------
(* Types.                                                                  *)

Places == {"connect", "register", "preview", "world", "fetch", "frame", "redraw",
           "keyboard", "closing", "done", "exited"}

Worlds == [clients : Nat, version : Nat]

\* What the answers carry.
Replies ==
  [req : {"x-w"}, empty : {FALSE}, step : Nat, status : SUBSET Flags]
    \union [req : {"x-w"}, empty : {TRUE}] \union [req : {"x-add-client"}, ok : BOOLEAN]
    \union [req : {"x-ws"}, world : Worlds] \union [req : {"x-who"}, clients : Nat]
    \union [req : {"x-msg"}, empty : BOOLEAN] \union [req : {"x-key"}]
    \union [req : {"x-cmd-get"}, cmds : Seq(1 .. 8)]

FlagsOK == ahead \in BOOLEAN /\ calling \in BOOLEAN /\ is_running_sim \in BOOLEAN

ValuesOK ==
  /\ config \in Configs /\ step \in Nat /\ pending \subseteq Flags
  /\ world \in Worlds /\ world.clients <= config.clients /\ view \in Worlds /\ rows \in Nat

SeqsOK ==
  /\ inbox \in Seq(Requests) /\ answers \in Seq(Replies) /\ cmds \in Seq(1 .. 8)

TypeOK == FlagsOK /\ ValuesOK /\ SeqsOK

-----------------------------------------------------------------------------
(* What is left to ask at each place.                                      *)

\* Some of x-ws, x-who and x-cmd-get, in this order; or the message.
StatusQueues ==
  {<<>>, <<"x-ws">>, <<"x-who">>, <<"x-cmd-get">>, <<"x-ws", "x-who">>,
   <<"x-ws", "x-cmd-get">>, <<"x-who", "x-cmd-get">>, <<"x-ws", "x-who", "x-cmd-get">>,
   <<"x-msg">>}

FetchQueues == {<<>>, <<"x-who">>, <<"x-key", "x-ws">>, <<"x-ws">>}

Asks(queue, r) == \E i \in DOMAIN queue : queue[i] = r

Place ==
  /\ pc \in Places
  /\ pc = "register" => todo = <<"x-add-client">>
  /\ pc = "preview" => todo \in {<<>>, <<"x-w">>}
  /\ pc = "world" => todo \in {<<>>, <<"x-ws">>}
  /\ pc = "fetch" => todo \in FetchQueues
  /\ pc = "frame" => todo = <<"x-w">>
  /\ pc = "redraw" => todo \in StatusQueues
  /\ pc = "closing" => todo = <<"close">>
  /\ pc \in {"connect", "keyboard", "done", "exited"} => todo = <<>>
  /\ calling => todo # <<>> /\ Head(todo) # "close"

-----------------------------------------------------------------------------
(* What is on the way.                                                     *)

InSession == pc \notin {"connect", "done", "exited"}

\* Polls that were given up, and behind them the request whose answer is awaited.
Wire ==
  InSession =>
    /\ \A i \in DOMAIN inbox : inbox[i] # "x-w" =>
         calling /\ i = Len(inbox) /\ inbox[i] = Head(todo)
    /\ \A i \in DOMAIN answers : answers[i].req # "x-w" =>
         calling /\ i = Len(answers) /\ inbox = <<>> /\ answers[i].req = Head(todo)

Alone(r) ==
  \/ answers = <<>> /\ Len(inbox) = 1 /\ inbox[1] = r
  \/ inbox = <<>> /\ Len(answers) = 1 /\ answers[1].req = r

\* Where no poll is given up, nothing else is on the way.
Own ==
  ~config.ignore /\ InSession =>
    IF calling THEN ~ahead /\ Alone(Head(todo))
    ELSE IF ahead THEN todo = <<"x-w">> /\ Alone("x-w")
    ELSE inbox = <<>> /\ answers = <<>>

-----------------------------------------------------------------------------
(* How old the client's picture of the world is.                           *)

\* One of the bits in `bits` is pending, or on its way.
Tells(bits) ==
  \/ pending \intersect bits # {}
  \/ \E i \in DOMAIN answers :
       /\ answers[i].req = "x-w" /\ ~answers[i].empty
       /\ answers[i].status \intersect bits # {}

Changes == {"CLIENT_CHANGE", "OBJECT_CHANGE", "FROZEN_TOGGLE"}
ChangesOfClients == {"CLIENT_CHANGE"}

Watching == pc \in {"world", "fetch", "frame", "redraw", "keyboard"}

Fresh ==
  Watching =>
    /\ view = world \/ Tells(Changes) \/ Asks(todo, "x-ws")
    /\ \A i \in DOMAIN answers : answers[i].req = "x-ws" =>
         answers[i].world = world \/ Tells(Changes)

FreshClients ==
  Watching =>
    /\ view.clients = world.clients \/ Tells(ChangesOfClients) \/ Asks(todo, "x-ws")
    /\ \A i \in DOMAIN answers : answers[i].req = "x-ws" =>
         answers[i].world.clients = world.clients \/ Tells(ChangesOfClients)
    /\ \A i \in DOMAIN answers : answers[i].req = "x-who" =>
         answers[i].clients = world.clients \/ Tells(ChangesOfClients)
    /\ pc = "world" \/ rows = Min2(world.clients, RowsMax)
         \/ Tells(ChangesOfClients) \/ Asks(todo, "x-who")

-----------------------------------------------------------------------------
(* The frame on the screen.                                                *)

Undisturbed == config.commands = {} /\ config.clients <= RowsMax

NothingQueued ==
  Undisturbed =>
    /\ cmds = <<>> /\ ~Asks(todo, "x-msg")
    /\ \A i \in DOMAIN answers : answers[i].req = "x-cmd-get" => answers[i].cmds = <<>>
    /\ \A i \in DOMAIN answers : answers[i].req = "x-who" => answers[i].clients <= RowsMax

\* No frame was drawn, because of the step that current_step had.
EmptyBy(byte) == shown = NoFrame /\ (config.atari \/ byte = NoStep)

Shown ==
  Undisturbed =>
    /\ pc \in {"redraw", "keyboard"} => app_byte = fetched
    /\ pc = "keyboard" => shown = fetched \/ EmptyBy(fetched)
    /\ Simulating => current_step = shown \/ EmptyBy(current_step)
    /\ ~config.atari /\ pc \in {"connect", "register", "preview", "world"} =>
         current_step = NoStep

IInv ==
  TypeOK /\ Place /\ Wire /\ Own /\ Fresh /\ FreshClients /\ NothingQueued /\ Shown

-----------------------------------------------------------------------------
(* Sequences.                                                              *)

\* What Append does to the indices.
LEMMA AppendFacts ==
  ASSUME NEW S, NEW s \in Seq(S), NEW x \in S
  PROVE  /\ Append(s, x) \in Seq(S) /\ Len(Append(s, x)) = Len(s) + 1
         /\ Append(s, x)[Len(s) + 1] = x
         /\ \A i \in DOMAIN s : i \in DOMAIN Append(s, x) /\ Append(s, x)[i] = s[i]
         /\ \A i \in DOMAIN Append(s, x) :
              i = Len(s) + 1 \/ (i \in DOMAIN s /\ Append(s, x)[i] = s[i])
  BY AppendProperties

\* What Tail does to the indices.
LEMMA TailFacts ==
  ASSUME NEW S, NEW s \in Seq(S), s # <<>>
  PROVE  /\ Tail(s) \in Seq(S) /\ Len(Tail(s)) = Len(s) - 1 /\ Len(s) \in Nat \ {0}
         /\ 1 \in DOMAIN s /\ Head(s) = s[1] /\ Head(s) \in S
         /\ \A i \in DOMAIN Tail(s) : i + 1 \in DOMAIN s /\ Tail(s)[i] = s[i + 1]
         /\ \A i \in DOMAIN s : i = 1 \/ (i - 1 \in DOMAIN Tail(s) /\ Tail(s)[i - 1] = s[i])
  BY HeadTailProperties

\* What is asked by a queue that is written out, and what its tail is.
LEMMA ShortQueues ==
  /\ \A r : ~Asks(<<>>, r)
  /\ \A x, r : Asks(<<x>>, r) <=> r = x
  /\ \A x, y, r : Asks(<<x, y>>, r) <=> r \in {x, y}
  /\ \A x, y, z, r : Asks(<<x, y, z>>, r) <=> r \in {x, y, z}
  BY DEF Asks

\* Head and Tail of such a queue.
LEMMA ShortTails ==
  /\ \A x : Head(<<x>>) = x /\ Tail(<<x>>) = <<>> /\ <<x>> # <<>>
  /\ \A x, y : Head(<<x, y>>) = x /\ Tail(<<x, y>>) = <<y>> /\ <<x, y>> # <<>>
  /\ \A x, y, z : Head(<<x, y, z>>) = x /\ Tail(<<x, y, z>>) = <<y, z>> /\ <<x, y, z>> # <<>>
  OBVIOUS

\* Joining such queues.
LEMMA ShortConcats ==
  /\ <<>> \o <<>> = <<>> /\ \A x : <<>> \o <<x>> = <<x>> /\ <<x>> \o <<>> = <<x>>
  /\ \A x, y : <<x>> \o <<y>> = <<x, y>> /\ <<x, y>> \o <<>> = <<x, y>>
  /\ \A x, y, z : <<x, y>> \o <<z>> = <<x, y, z>>
<1>1. <<>> \o <<>> = <<>>
  OBVIOUS
<1>2. \A x : <<>> \o <<x>> = <<x>> /\ <<x>> \o <<>> = <<x>>
  OBVIOUS
<1>3. ASSUME NEW x, NEW y
      PROVE  <<x>> \o <<y>> = <<x, y>> /\ <<x, y>> \o <<>> = <<x, y>>
  <2> DEFINE S == {x, y}
  <2>1. <<x>> \in Seq(S) /\ <<x, y>> \in Seq(S) /\ y \in S
    OBVIOUS
  <2> DEFINE s == Append(<<x>>, y)
             t == <<x, y>>
  <2>a. Len(<<x>>) = 1 /\ <<x>>[1] = x /\ t \in Seq(S) /\ Len(t) = 2 /\ t[1] = x /\ t[2] = y
    OBVIOUS
  <2> HIDE DEF S, t
  <2>b. s \in Seq(S) /\ Len(s) = 2 /\ s[1] = x /\ s[2] = y
    BY <2>1, <2>a, AppendProperties
  <2> HIDE DEF s
  <2>c. \A i \in 1 .. 2 : s[i] = t[i]
    BY <2>a, <2>b
  <2>d. s = t
    BY <2>a, <2>b, <2>c, SeqEqual
  <2>2. Append(<<x>>, y) = <<x, y>>
    BY <2>d DEF s, t
  <2>3. <<x>> \o <<y>> = Append(<<x>>, y)
    BY <2>1, AppendIsConcat
  <2>4. <<x, y>> \o <<>> = <<x, y>>
    BY <2>1, ConcatEmptySeq
  <2> QED
    BY <2>2, <2>3, <2>4
<1>4. ASSUME NEW x, NEW y, NEW z
      PROVE  <<x, y>> \o <<z>> = <<x, y, z>>
  <2> DEFINE S == {x, y, z}
  <2>1. <<x, y>> \in Seq(S) /\ z \in S
    OBVIOUS
  <2> DEFINE s == Append(<<x, y>>, z)
             t == <<x, y, z>>
  <2>a. /\ Len(<<x, y>>) = 2 /\ <<x, y>>[1] = x /\ <<x, y>>[2] = y
        /\ t \in Seq(S) /\ Len(t) = 3 /\ t[1] = x /\ t[2] = y /\ t[3] = z
    OBVIOUS
  <2> HIDE DEF S, t
  <2>b. s \in Seq(S) /\ Len(s) = 3 /\ s[1] = x /\ s[2] = y /\ s[3] = z
    BY <2>1, <2>a, AppendProperties
  <2> HIDE DEF s
  <2>c. \A i \in 1 .. 3 : s[i] = t[i]
    BY <2>a, <2>b
  <2>d. s = t
    BY <2>a, <2>b, <2>c, SeqEqual
  <2>2. Append(<<x, y>>, z) = <<x, y, z>>
    BY <2>d DEF s, t
  <2>3. <<x, y>> \o <<z>> = Append(<<x, y>>, z)
    BY <2>1, AppendIsConcat
  <2> QED
    BY <2>2, <2>3
<1> QED
  BY <1>1, <1>2, <1>3, <1>4

\* The requests that are left when the first one of a queue is answered.
LEMMA FetchTail ==
  ASSUME NEW t \in FetchQueues, t # <<>>
  PROVE  /\ Tail(t) \in FetchQueues /\ Head(t) \in {"x-who", "x-key", "x-ws"}
         /\ Head(t) = "x-key" => Asks(Tail(t), "x-ws")
         /\ Head(t) = "x-who" => ~Asks(t, "x-ws")
         /\ Head(t) # "x-who" => ~Asks(t, "x-who")
         /\ Head(t) = "x-ws" => ~Asks(Tail(t), "x-ws")
         /\ ~Asks(t, "x-msg") /\ ~Asks(Tail(t), "x-msg")
<1>1. CASE t = <<"x-who">>
  BY <1>1, ShortQueues, ShortTails DEF FetchQueues
<1>2. CASE t = <<"x-key", "x-ws">>
  BY <1>2, ShortQueues, ShortTails DEF FetchQueues
<1>3. CASE t = <<"x-ws">>
  BY <1>3, ShortQueues, ShortTails DEF FetchQueues
<1> QED
  BY <1>1, <1>2, <1>3 DEF FetchQueues

\* The same behind a status word.
LEMMA StatusTail ==
  ASSUME NEW t \in StatusQueues, t # <<>>
  PROVE  /\ Tail(t) \in StatusQueues /\ Head(t) \in {"x-ws", "x-who", "x-cmd-get", "x-msg"}
         /\ Head(t) \in {"x-who", "x-cmd-get", "x-msg"} => ~Asks(t, "x-ws")
         /\ Head(t) \in {"x-cmd-get", "x-msg"} => ~Asks(t, "x-who")
         /\ Head(t) = "x-ws" /\ Asks(t, "x-who") => Asks(Tail(t), "x-who")
         /\ Head(t) # "x-msg" => ~Asks(t, "x-msg")
         /\ ~Asks(Tail(t), "x-msg")
<1>1. CASE t = <<"x-ws">>
  BY <1>1, ShortQueues, ShortTails DEF StatusQueues
<1>6. CASE t = <<"x-who">>
  BY <1>6, ShortQueues, ShortTails DEF StatusQueues
<1>7. CASE t = <<"x-cmd-get">>
  BY <1>7, ShortQueues, ShortTails DEF StatusQueues
<1>8. CASE t = <<"x-msg">>
  BY <1>8, ShortQueues, ShortTails DEF StatusQueues
<1>2. CASE t = <<"x-ws", "x-who">>
  BY <1>2, ShortQueues, ShortTails DEF StatusQueues
<1>3. CASE t = <<"x-ws", "x-cmd-get">>
  BY <1>3, ShortQueues, ShortTails DEF StatusQueues
<1>4. CASE t = <<"x-who", "x-cmd-get">>
  BY <1>4, ShortQueues, ShortTails DEF StatusQueues
<1>5. CASE t = <<"x-ws", "x-who", "x-cmd-get">>
  BY <1>5, ShortQueues, ShortTails DEF StatusQueues
<1> QED
  BY <1>1, <1>2, <1>3, <1>4, <1>5, <1>6, <1>7, <1>8 DEF StatusQueues

\* handle_app_status queues a known selection of requests, x-ws for a change, x-who for
\* a change of the clients, and never the message.
LEMMA CallsAreQueues ==
  ASSUME NEW status
  PROVE  /\ StatusCalls(status) \in StatusQueues
         /\ status \intersect Changes # {} => Asks(StatusCalls(status), "x-ws")
         /\ status \intersect ChangesOfClients # {} =>
              Asks(StatusCalls(status), "x-ws") /\ Asks(StatusCalls(status), "x-who")
         /\ ~Asks(StatusCalls(status), "x-msg")
<1> DEFINE ws == status \intersect {"CLIENT_CHANGE", "FROZEN_TOGGLE", "OBJECT_CHANGE"} # {}
           who == "CLIENT_CHANGE" \in status
           cmd == "CLIENT_CMD" \in status
<1>1. StatusCalls(status) =
        (IF ws THEN <<"x-ws">> ELSE <<>>) \o (IF who THEN <<"x-who">> ELSE <<>>)
          \o (IF cmd THEN <<"x-cmd-get">> ELSE <<>>)
  BY DEF StatusCalls
<1>2. /\ status \intersect Changes # {} <=> ws
      /\ status \intersect ChangesOfClients # {} <=> who
      /\ who => ws
  BY DEF Changes, ChangesOfClients
<1> HIDE DEF ws, who, cmd
<1>3. CASE ~ws
  <2>1. CASE cmd
    <3>1. StatusCalls(status) = <<"x-cmd-get">>
      BY ShortConcats, <1>1, <1>2, <1>3, <2>1
    <3> QED
      BY <1>2, <1>3, <3>1, ShortQueues DEF StatusQueues
  <2>2. CASE ~cmd
    <3>1. StatusCalls(status) = <<>>
      BY ShortConcats, <1>1, <1>2, <1>3, <2>2
    <3> QED
      BY <1>2, <1>3, <3>1, ShortQueues DEF StatusQueues
  <2> QED
    BY <2>1, <2>2
<1>4. CASE ws /\ ~who
  <2>1. CASE cmd
    <3>1. StatusCalls(status) = <<"x-ws", "x-cmd-get">>
      BY ShortConcats, <1>1, <1>4, <2>1
    <3> QED
      BY <1>2, <1>4, <3>1, ShortQueues DEF StatusQueues
  <2>2. CASE ~cmd
    <3>1. StatusCalls(status) = <<"x-ws">>
      BY ShortConcats, <1>1, <1>4, <2>2
    <3> QED
      BY <1>2, <1>4, <3>1, ShortQueues DEF StatusQueues
  <2> QED
    BY <2>1, <2>2
<1>5. CASE ws /\ who
  <2>1. CASE cmd
    <3>0. StatusCalls(status) = (<<"x-ws">> \o <<"x-who">>) \o <<"x-cmd-get">>
      BY <1>1, <1>5, <2>1
    <3>a. <<"x-ws">> \o <<"x-who">> = <<"x-ws", "x-who">>
      BY ShortConcats
    <3>b. <<"x-ws", "x-who">> \o <<"x-cmd-get">> = <<"x-ws", "x-who", "x-cmd-get">>
      BY ShortConcats, Zenon
    <3>1. StatusCalls(status) = <<"x-ws", "x-who", "x-cmd-get">>
      BY <3>0, <3>a, <3>b, Zenon
    <3> QED
      BY <1>2, <1>5, <3>1, ShortQueues DEF StatusQueues
  <2>2. CASE ~cmd
    <3>1. StatusCalls(status) = <<"x-ws", "x-who">>
      BY ShortConcats, <1>1, <1>5, <2>2
    <3> QED
      BY <1>2, <1>5, <3>1, ShortQueues DEF StatusQueues
  <2> QED
    BY <2>1, <2>2
<1> QED
  BY <1>3, <1>4, <1>5

-----------------------------------------------------------------------------
(* Answers.                                                                *)

\* What is in an answer depends on the request.
LEMMA ReplyFields ==
  ASSUME NEW a \in Replies
  PROVE  /\ a.req \in Requests \ {"close"}
         /\ a.req = "x-ws" => a.world \in Worlds
         /\ a.req = "x-who" => a.clients \in Nat
         /\ a.req = "x-cmd-get" => a.cmds \in Seq(1 .. 8)
  BY DEF Replies, Requests

\* The request that came first is answered with a.
AnswersWith(a) ==
  /\ a \in Replies /\ inbox # <<>> /\ a.req = Head(inbox)
  /\ inbox' = Tail(inbox) /\ answers' = Append(answers, a)

ServesFrame(a) ==
  /\ a.req = "x-w" /\ ~a.empty /\ a.status = pending
  /\ pending' = {} /\ UNCHANGED <<world, cmds>>
ServesUnchanged(a) ==
  /\ \/ a.req = "x-w" /\ a.empty
     \/ a.req \in {"x-add-client", "x-msg"}
     \/ a.req = "x-ws" /\ a.world = world
     \/ a.req = "x-who" /\ a.clients = world.clients
  /\ UNCHANGED <<world, pending, cmds>>
ServesCommands(a) ==
  a.req = "x-cmd-get" /\ a.cmds = cmds /\ cmds' = <<>> /\ UNCHANGED <<world, pending>>
ServesKey(a) ==
  /\ a.req = "x-key" /\ world' \in Worlds /\ world'.clients = world.clients
  /\ UNCHANGED <<pending, cmds>>

Serves(a) == ServesFrame(a) \/ ServesUnchanged(a) \/ ServesCommands(a) \/ ServesKey(a)

Serving == ServeFrame \/ ServeEmpty \/ Serve

\* The server answers the request that came first, "close" excepted, and its answer says
\* what it knows at that moment.
LEMMA ServeAnswers ==
  ASSUME TypeOK, Serving
  PROVE  /\ UNCHANGED <<config, step, ahead, user, pc, call, globals, screen, is_running_sim>>
         /\ ServeClose \/ \E a : AnswersWith(a) /\ Serves(a)
<1> USE DEF TypeOK, ValuesOK, SeqsOK, Take, Answer, AnswersWith, Serves
<1>1. CASE ServeFrame
  <2> DEFINE a == [req |-> "x-w", empty |-> FALSE, step |-> step, status |-> pending]
  <2>1. a \in Replies
    BY DEF Replies
  <2>2. AnswersWith(a) /\ ServesFrame(a)
    BY <1>1, <2>1 DEF ServeFrame, ServesFrame
  <2> QED
    BY <1>1, <2>2 DEF ServeFrame
<1>2. CASE ServeEmpty
  <2> DEFINE a == [req |-> "x-w", empty |-> TRUE]
  <2>1. a \in Replies
    BY DEF Replies
  <2>2. AnswersWith(a) /\ ServesUnchanged(a)
    BY <1>2, <2>1 DEF ServeEmpty, ServesUnchanged
  <2> QED
    BY <1>2, <2>2 DEF ServeEmpty
<1>3. CASE ServeClient
  <2>1. PICK ok \in BOOLEAN : answers' = Append(answers, [req |-> "x-add-client", ok |-> ok])
    BY <1>3 DEF ServeClient
  <2> DEFINE a == [req |-> "x-add-client", ok |-> ok]
  <2>2. a \in Replies
    BY DEF Replies
  <2>3. AnswersWith(a) /\ ServesUnchanged(a)
    BY <1>3, <2>1, <2>2 DEF ServeClient, ServesUnchanged
  <2> QED
    BY <1>3, <2>3 DEF ServeClient
<1>4. CASE ServeWorld
  <2>1. CASE Take("x-ws") /\ Answer([req |-> "x-ws", world |-> world])
    <3> DEFINE a == [req |-> "x-ws", world |-> world]
    <3>1. a \in Replies
      BY DEF Replies
    <3>2. AnswersWith(a) /\ ServesUnchanged(a)
      BY <1>4, <2>1, <3>1 DEF ServeWorld, ServesUnchanged
    <3> QED
      BY <2>1, <3>2
  <2>2. CASE Take("x-who") /\ Answer([req |-> "x-who", clients |-> world.clients])
    <3> DEFINE a == [req |-> "x-who", clients |-> world.clients]
    <3>1. a \in Replies
      BY DEF Replies, Worlds
    <3>2. AnswersWith(a) /\ ServesUnchanged(a)
      BY <1>4, <2>2, <3>1 DEF ServeWorld, ServesUnchanged
    <3> QED
      BY <2>2, <3>2
  <2>3. CASE Take("x-msg") /\ \E e \in BOOLEAN : Answer([req |-> "x-msg", empty |-> e])
    <3>0. PICK e \in BOOLEAN : Answer([req |-> "x-msg", empty |-> e])
      BY <2>3
    <3> DEFINE a == [req |-> "x-msg", empty |-> e]
    <3>1. a \in Replies
      BY DEF Replies
    <3>2. AnswersWith(a) /\ ServesUnchanged(a)
      BY <1>4, <2>3, <3>0, <3>1 DEF ServeWorld, ServesUnchanged
    <3> QED
      BY <2>3, <3>2
  <2> QED
    BY <1>4, <2>1, <2>2, <2>3 DEF ServeWorld
<1>5. CASE ServeCommands
  <2> DEFINE a == [req |-> "x-cmd-get", cmds |-> cmds]
  <2>1. a \in Replies
    BY DEF Replies
  <2>2. AnswersWith(a) /\ ServesCommands(a)
    BY <1>5, <2>1 DEF ServeCommands, ServesCommands
  <2> QED
    BY <1>5, <2>2 DEF ServeCommands
<1>6. CASE ServeKey
  <2> DEFINE a == [req |-> "x-key"]
  <2>1. a \in Replies
    BY DEF Replies
  <2>2. world' \in Worlds /\ world'.clients = world.clients
    <3>1. CASE UNCHANGED world
      BY <3>1
    <3>2. CASE world' = [world EXCEPT !.version = @ + 1]
      <4>1. world \in [clients : Nat, version : Nat]
        BY DEF Worlds
      <4> QED
        BY ONLY <3>2, <4>1 DEF Worlds
    <3> QED
      BY <1>6, <3>1, <3>2 DEF ServeKey
  <2>3. AnswersWith(a) /\ ServesKey(a)
    BY <1>6, <2>1, <2>2 DEF ServeKey, ServesKey
  <2> QED
    BY <1>6, <2>3 DEF ServeKey
<1>7. CASE ServeClose
  BY <1>7 DEF ServeClose
<1> QED
  BY <1>1, <1>2, <1>3, <1>4, <1>5, <1>6, <1>7 DEF Serving, Serve

-----------------------------------------------------------------------------
(* Every step keeps the types.                                             *)

\* A step keeps the flags Boolean.
LEMMA FlagsStep ==
  ASSUME TypeOK, [Next]_vars
  PROVE  FlagsOK'
<1> USE DEF FlagsOK, server, wire, user, call, globals, screen
<1>1. CASE ClientsChange
  BY <1>1 DEF ClientsChange, TypeOK
<1>2. CASE ObjectsChange
  BY <1>2 DEF ObjectsChange, TypeOK
<1>3. CASE CommandQueued
  BY <1>3 DEF CommandQueued, TypeOK
<1>4. CASE WorldStep
  BY <1>4 DEF WorldStep, TypeOK
<1>5. CASE UserTypes
  BY <1>5 DEF UserTypes, TypeOK
<1>6. CASE Serving
  BY <1>6, ServeAnswers DEF TypeOK
<1>7. CASE SendCommand
  BY <1>7 DEF SendCommand, WriteSucceeds, WriteFails, Exit, Requesting, TypeOK
<1>8. CASE Disconnect
  BY <1>8 DEF Disconnect, WriteSucceeds, WriteFails, Exit, Requesting, TypeOK
<1>9. CASE PollSent
  BY <1>9 DEF PollSent, WriteSucceeds, Requesting, TypeOK
<1>10. CASE PollRetried
  BY <1>10 DEF PollRetried, WriteFails, Requesting, TypeOK
<1>11. CASE PollAbandoned
  BY <1>11 DEF PollAbandoned, WriteFails, Exit, Requesting, NothingReceived, TypeOK
<1>12. CASE Receive
  BY <1>12 DEF Receive, Read, Returned, NothingReceived, Exit, ClientRegistered, StateFetched, WorldStateRead, ClientsRead, CommandsRead, MessageRead, KeyAnswerRead, TypeOK
<1>13. CASE ReceiveFails
  BY <1>13 DEF ReceiveFails, Exit, TypeOK
<1>14. CASE Connect
  BY <1>14 DEF Connect, Exit, At, TypeOK
<1>15. CASE Preview
  BY <1>15 DEF Preview, Poll, At, TypeOK
<1>16. CASE StartSimulation
  BY <1>16 DEF StartSimulation, At, TypeOK
<1>17. CASE LoopTop
  BY <1>17 DEF LoopTop, Poll, At, TypeOK
<1>18. CASE Redraw
  BY <1>18 DEF Redraw, ShowScreen, At, TypeOK
<1>19. CASE Keyboard
  BY <1>19 DEF Keyboard, At, TypeOK
<1>20. CASE UNCHANGED vars
  BY <1>20 DEF vars, TypeOK
<1> QED
  BY <1>1, <1>2, <1>3, <1>4, <1>5, <1>6, <1>7, <1>8, <1>9, <1>10, <1>11, <1>12, <1>13, <1>14,
     <1>15, <1>16, <1>17, <1>18, <1>19, <1>20
     DEF Next, World, Serving, Requester, Reader, Program, Finished

\* A step keeps the queues sequences of requests, answers and commands.
LEMMA SeqsStep ==
  ASSUME TypeOK, [Next]_vars
  PROVE  SeqsOK'
<1> USE DEF SeqsOK, server, wire, user, call, globals, screen
<1>t. inbox \in Seq(Requests) /\ answers \in Seq(Replies) /\ cmds \in Seq(1 .. 8)
  BY DEF TypeOK
<1>e. <<>> \in Seq(Requests) /\ <<>> \in Seq(Replies) /\ <<>> \in Seq(1 .. 8)
  BY EmptySeq
<1>a. \A r \in Requests : Append(inbox, r) \in Seq(Requests)
  BY <1>t, AppendFacts
<1>1. CASE ClientsChange
  BY <1>1, <1>t DEF ClientsChange
<1>2. CASE ObjectsChange
  BY <1>2, <1>t DEF ObjectsChange
<1>3. CASE CommandQueued
  <2>1. PICK c \in config.commands : cmds' = <<c>>
    BY <1>3 DEF CommandQueued
  <2>2. c \in 1 .. 8
    BY <2>1 DEF TypeOK, ValuesOK
  <2>3. cmds' \in Seq(1 .. 8)
    BY <2>1, <2>2
  <2> QED
    BY <1>3, <1>t, <2>3 DEF CommandQueued
<1>4. CASE WorldStep
  BY <1>4, <1>t DEF WorldStep
<1>5. CASE UserTypes
  BY <1>5, <1>t DEF UserTypes
<1>6. CASE Serving
  <2>1. CASE \E a : AnswersWith(a) /\ Serves(a)
    <3>1. PICK a : AnswersWith(a) /\ Serves(a)
      BY <2>1
    <3>2. inbox' \in Seq(Requests)
      BY <1>t, <3>1, TailFacts DEF AnswersWith
    <3>3. answers' \in Seq(Replies)
      BY <1>t, <3>1, AppendFacts DEF AnswersWith
    <3>4. cmds' = cmds \/ cmds' = <<>>
      BY <3>1 DEF Serves, ServesFrame, ServesUnchanged, ServesCommands, ServesKey
    <3> QED
      BY <1>t, <1>e, <3>2, <3>3, <3>4
  <2>2. CASE ServeClose
    <3>1. inbox' \in Seq(Requests)
      BY <1>t, <2>2, TailFacts DEF ServeClose, Take
    <3> QED
      BY <1>t, <2>2, <3>1 DEF ServeClose
  <2>3. \/ ServeClose \/ \E a : AnswersWith(a) /\ Serves(a)
    BY <1>6, ServeAnswers
  <2> QED
    BY <2>1, <2>2, <2>3
<1>7. CASE SendCommand
  <2>1. PICK r \in Requests : WriteSucceeds(r) \/ WriteFails(r)
    BY <1>7 DEF SendCommand, Requests
  <2> QED
    BY <1>7, <2>1, <1>t, <1>a DEF SendCommand, WriteSucceeds, WriteFails
<1>8. CASE Disconnect
  <2>1. PICK r \in Requests : WriteSucceeds(r) \/ WriteFails(r)
    BY <1>8 DEF Disconnect, Requests
  <2> QED
    BY <1>8, <2>1, <1>t, <1>a DEF Disconnect, WriteSucceeds, WriteFails
<1>9. CASE PollSent
  <2>1. PICK r \in Requests : WriteSucceeds(r) \/ WriteFails(r)
    BY <1>9 DEF PollSent, Requests
  <2> QED
    BY <1>9, <2>1, <1>t, <1>a DEF PollSent, WriteSucceeds, WriteFails
<1>10. CASE PollRetried
  <2>1. PICK r \in Requests : WriteSucceeds(r) \/ WriteFails(r)
    BY <1>10 DEF PollRetried, Requests
  <2> QED
    BY <1>10, <2>1, <1>t, <1>a DEF PollRetried, WriteSucceeds, WriteFails
<1>11. CASE PollAbandoned
  <2>1. PICK r \in Requests : WriteSucceeds(r) \/ WriteFails(r)
    BY <1>11 DEF PollAbandoned, Requests
  <2> QED
    BY <1>11, <2>1, <1>t, <1>a DEF PollAbandoned, WriteSucceeds, WriteFails
<1>12. CASE Receive
  <2>1. answers' \in Seq(Replies)
    BY <1>12, <1>t, TailFacts DEF Receive
  <2> QED
    BY <1>12, <1>t, <2>1 DEF Receive
<1>13. CASE ReceiveFails
  BY <1>13, <1>t DEF ReceiveFails
<1>14. CASE Connect
  <2>1. inbox' \in {inbox, <<>>} /\ answers' \in {answers, <<>>} /\ UNCHANGED cmds
    BY <1>14 DEF Connect
  <2> QED
    BY <1>t, <1>e, <2>1
<1>15. CASE Preview
  BY <1>15, <1>t DEF Preview
<1>16. CASE StartSimulation
  BY <1>16, <1>t DEF StartSimulation
<1>17. CASE LoopTop
  BY <1>17, <1>t DEF LoopTop
<1>18. CASE Redraw
  BY <1>18, <1>t DEF Redraw
<1>19. CASE Keyboard
  BY <1>19, <1>t DEF Keyboard
<1>20. CASE UNCHANGED vars
  BY <1>20, <1>t DEF vars
<1> QED
  BY <1>1, <1>2, <1>3, <1>4, <1>5, <1>6, <1>7, <1>8, <1>9, <1>10, <1>11, <1>12, <1>13, <1>14,
     <1>15, <1>16, <1>17, <1>18, <1>19, <1>20
     DEF Next, World, Serving, Requester, Reader, Program, Finished

\* A step keeps the types of the world's and the client's values, and the world within
\* its bound.
LEMMA ValuesStep ==
  ASSUME TypeOK, [Next]_vars
  PROVE  ValuesOK'
<1> USE DEF ValuesOK, server, wire, user, call, globals, screen
<1>t. ValuesOK
  BY DEF TypeOK
<1>u. step \in Nat /\ config.steps \subseteq 0 .. 255 /\ RowsMax \in Nat /\ config.clients \in Nat
  BY DEF TypeOK
<1>1. CASE ClientsChange
  <2>1. PICK n \in 1 .. config.clients : world' = [clients |-> n, version |-> world.version + 1]
    BY <1>1 DEF ClientsChange
  <2>2. world' \in Worlds /\ world'.clients <= config.clients
    BY <1>t, <1>u, <2>1 DEF Worlds
  <2>3. pending' \subseteq Flags
    BY <1>1, <1>t DEF ClientsChange, Flags
  <2> QED
    BY <1>1, <1>t, <2>2, <2>3 DEF ClientsChange
<1>2. CASE ObjectsChange
  <2>1. world' \in Worlds /\ world'.clients = world.clients
    BY <1>2, <1>t DEF ObjectsChange, Worlds
  <2>2. pending' \subseteq Flags
    BY <1>2, <1>t DEF ObjectsChange, Flags
  <2> QED
    BY <1>2, <1>t, <2>1, <2>2 DEF ObjectsChange
<1>3. CASE CommandQueued
  <2>1. pending' \subseteq Flags
    BY <1>3, <1>t DEF CommandQueued, Flags
  <2> QED
    BY <1>3, <1>t, <2>1 DEF CommandQueued
<1>4. CASE WorldStep
  <2>1. step' \in Nat
    BY <1>4, <1>u DEF WorldStep
  <2> QED
    BY <1>4, <1>t, <2>1 DEF WorldStep
<1>5. CASE UserTypes
  BY <1>5, <1>t DEF UserTypes
<1>6. CASE Serving
  <2>1. UNCHANGED <<config, step, view, rows>>
    BY <1>6, ServeAnswers
  <2>2. CASE ServeClose
    BY <1>t, <2>1, <2>2 DEF ServeClose
  <2>3. CASE \E a : AnswersWith(a) /\ Serves(a)
    <3>1. PICK a : AnswersWith(a) /\ Serves(a)
      BY <2>3
    <3>2. /\ world' = world \/ (world' \in Worlds /\ world'.clients = world.clients)
          /\ pending' = pending \/ pending' = {}
      BY <3>1 DEF Serves, ServesFrame, ServesUnchanged, ServesCommands, ServesKey
    <3> QED
      BY <1>t, <2>1, <3>2
  <2> QED
    BY <1>6, <2>2, <2>3, ServeAnswers
<1>7. CASE SendCommand
  BY <1>7, <1>t DEF SendCommand, Exit
<1>8. CASE Disconnect
  BY <1>8, <1>t DEF Disconnect, Exit
<1>9. CASE PollSent
  BY <1>9, <1>t DEF PollSent
<1>10. CASE PollRetried
  BY <1>10, <1>t DEF PollRetried
<1>11. CASE PollAbandoned
  BY <1>11, <1>t DEF PollAbandoned, Exit, NothingReceived
<1>12. CASE Receive
  <2> DEFINE a == Head(answers)
  <2>1. a \in Replies
    BY <1>12, TailFacts DEF Receive, TypeOK, SeqsOK
  <2> HIDE DEF a
  <2>2. UNCHANGED <<config, world, step, pending>>
    BY <1>12 DEF Receive
  <2>3. CASE Read(a)
    <3>1. view' = view \/ (a.req = "x-ws" /\ view' = a.world)
      BY <2>3 DEF Read, ClientRegistered, StateFetched, WorldStateRead, ClientsRead,
                  CommandsRead, MessageRead, KeyAnswerRead
    <3>2. rows' = rows \/ (a.req = "x-who" /\ rows' = Min2(view.clients, Min2(a.clients, RowsMax)))
      BY <2>3 DEF Read, ClientRegistered, StateFetched, WorldStateRead, ClientsRead,
                  CommandsRead, MessageRead, KeyAnswerRead
    <3>3. view' \in Worlds
      BY <1>t, <2>1, <3>1, ReplyFields
    <3>4. a.req = "x-who" => a.clients \in Nat
      BY <2>1, ReplyFields
    <3>5. view.clients \in Nat
      BY <1>t DEF Worlds
    <3>6. rows' \in Nat
      BY <1>t, <1>u, <3>2, <3>4, <3>5 DEF Min2
    <3> QED
      BY <1>t, <2>2, <3>3, <3>6
  <2>4. CASE UNCHANGED <<globals, fetched>>
    BY <1>t, <2>2, <2>4
  <2> QED
    BY <1>12, <2>3, <2>4 DEF Receive, a
<1>13. CASE ReceiveFails
  BY <1>13, <1>t DEF ReceiveFails, Exit
<1>14. CASE Connect
  BY <1>14, <1>t DEF Connect, Exit
<1>15. CASE Preview
  BY <1>15, <1>t DEF Preview, Poll
<1>16. CASE StartSimulation
  BY <1>16, <1>t DEF StartSimulation
<1>17. CASE LoopTop
  BY <1>17, <1>t DEF LoopTop, Poll
<1>18. CASE Redraw
  BY <1>18, <1>t DEF Redraw, ShowScreen
<1>19. CASE Keyboard
  BY <1>19, <1>t DEF Keyboard
<1>20. CASE UNCHANGED vars
  BY <1>20, <1>t DEF vars
<1> QED
  BY <1>1, <1>2, <1>3, <1>4, <1>5, <1>6, <1>7, <1>8, <1>9, <1>10, <1>11, <1>12, <1>13, <1>14,
     <1>15, <1>16, <1>17, <1>18, <1>19, <1>20
     DEF Next, World, Serving, Requester, Reader, Program, Finished

-----------------------------------------------------------------------------
(* Every step keeps the queue of requests one of its place.                *)

\* Where a request can be the next one, and what is left behind it.
LEMMA HeadPlace ==
  ASSUME Place, todo # <<>>
  PROVE  /\ pc \in {"register", "preview", "world", "fetch", "frame", "redraw", "closing"}
         /\ Head(todo) = "x-add-client" => pc = "register"
         /\ Head(todo) = "x-w" => pc \in {"preview", "frame"} /\ todo = <<"x-w">>
         /\ Head(todo) = "x-ws" => pc \in {"world", "fetch", "redraw"}
         /\ Head(todo) = "x-who" => pc \in {"fetch", "redraw"}
         /\ Head(todo) = "x-key" => pc = "fetch"
         /\ Head(todo) \in {"x-cmd-get", "x-msg"} => pc = "redraw"
         /\ Head(todo) = "close" => pc = "closing"
<1> USE DEF Place
<1>1. CASE pc = "register"
  BY <1>1, ShortTails
<1>2. CASE pc = "preview"
  BY <1>2, ShortTails
<1>3. CASE pc = "world"
  BY <1>3, ShortTails
<1>4. CASE pc = "fetch"
  BY <1>4, FetchTail
<1>5. CASE pc = "frame"
  BY <1>5, ShortTails
<1>6. CASE pc = "redraw"
  BY <1>6, StatusTail
<1>7. CASE pc = "closing"
  BY <1>7, ShortTails
<1> QED
  BY <1>1, <1>2, <1>3, <1>4, <1>5, <1>6, <1>7 DEF Places

\* The queue without its first request is one of its place as well.
LEMMA TailPlace ==
  ASSUME Place, todo # <<>>, Head(todo) \notin {"x-w", "x-add-client", "close"}
  PROVE  /\ pc = "world" => Tail(todo) = <<>>
         /\ pc = "fetch" => Tail(todo) \in FetchQueues
         /\ pc = "redraw" => Tail(todo) \in StatusQueues
         /\ pc \in {"world", "fetch", "redraw"}
<1> USE DEF Place
<1>1. pc \in {"world", "fetch", "redraw"}
  <2>1. pc \notin {"register", "preview", "frame", "closing"}
    BY ShortTails
  <2> QED
    BY <2>1, HeadPlace
<1>2. CASE pc = "world"
  <2>1. todo = <<"x-ws">>
    BY <1>2
  <2>2. Tail(todo) = <<>>
    BY ONLY <2>1, ShortTails
  <2> QED
    BY <1>2, <2>2
<1>3. CASE pc = "fetch"
  BY <1>3, FetchTail
<1>4. CASE pc = "redraw"
  BY <1>4, StatusTail
<1> QED
  BY <1>1, <1>2, <1>3, <1>4

\* A step of the program, of a request or of an answer goes to a place that has the
\* requests which are then queued.
LEMMA PlaceStep ==
  ASSUME TypeOK, Place, [Next]_vars
  PROVE  Place'
<1> USE DEF server, wire, user, call, globals, screen
<1>f. <<>> \in FetchQueues /\ <<>> \in StatusQueues /\ <<"x-msg">> \in StatusQueues
  BY DEF FetchQueues, StatusQueues
<1>s. ASSUME UNCHANGED <<pc, todo, calling>> PROVE Place'
  BY <1>s DEF Place
<1>c. ASSUME UNCHANGED <<pc, todo>>, calling', todo # <<>>, Head(todo) # "close" PROVE Place'
  BY <1>c DEF Place
<1>x. ASSUME Exit PROVE Place'
  BY <1>x DEF Exit, Place, Places
<1>1. CASE ClientsChange
  <2>1. UNCHANGED <<pc, todo, calling>>
    BY <1>1 DEF ClientsChange
  <2> QED
    BY <1>s, <2>1
<1>2. CASE ObjectsChange
  <2>1. UNCHANGED <<pc, todo, calling>>
    BY <1>2 DEF ObjectsChange
  <2> QED
    BY <1>s, <2>1
<1>3. CASE CommandQueued
  <2>1. UNCHANGED <<pc, todo, calling>>
    BY <1>3 DEF CommandQueued
  <2> QED
    BY <1>s, <2>1
<1>4. CASE WorldStep
  <2>1. UNCHANGED <<pc, todo, calling>>
    BY <1>4 DEF WorldStep
  <2> QED
    BY <1>s, <2>1
<1>5. CASE UserTypes
  <2>1. UNCHANGED <<pc, todo, calling>>
    BY <1>5 DEF UserTypes
  <2> QED
    BY <1>s, <2>1
<1>6. CASE Serving
  <2>1. UNCHANGED <<pc, todo, calling>>
    BY <1>6, ServeAnswers
  <2> QED
    BY <1>s, <2>1
<1>7. CASE SendCommand
  <2>1. PICK r \in Requests \ {"x-w", "close"} :
          /\ Requesting(r)
          /\ \/ WriteSucceeds(r) /\ calling' = TRUE /\ UNCHANGED <<pc, todo, attempt>>
             \/ WriteFails(r) /\ Exit
    BY <1>7 DEF SendCommand
  <2>2. CASE Exit
    BY <1>x, <2>2
  <2>3. CASE calling' = TRUE /\ UNCHANGED <<pc, todo, attempt>>
    BY <1>c, <2>1, <2>3 DEF Requesting
  <2> QED
    BY <2>1, <2>2, <2>3
<1>8. CASE Disconnect
  <2>1. CASE Exit
    BY <1>x, <2>1
  <2>2. CASE pc' \in {"connect", "done"} /\ todo' = <<>> /\ UNCHANGED calling
    <3>1. ~calling
      BY <1>8 DEF Disconnect, Requesting
    <3> QED
      BY <2>2, <3>1 DEF Place, Places
  <2> QED
    BY <1>8, <2>1, <2>2 DEF Disconnect
<1>9. CASE PollSent
  <2>1. UNCHANGED <<pc, todo>> /\ calling' /\ todo # <<>> /\ Head(todo) # "close"
    BY <1>9 DEF PollSent, Requesting
  <2> QED
    BY <1>c, <2>1
<1>10. CASE PollRetried
  <2>1. UNCHANGED <<pc, todo, calling>>
    BY <1>10 DEF PollRetried
  <2> QED
    BY <1>s, <2>1
<1>11. CASE PollAbandoned
  <2>1. CASE Exit
    BY <1>x, <2>1
  <2>2. CASE NothingReceived
    <3>1. pc \in {"preview", "frame"}
      BY <1>11, HeadPlace DEF PollAbandoned, Requesting
    <3> QED
      BY <1>f, <2>2, <3>1 DEF NothingReceived, Place, Places
  <2> QED
    BY <1>11, <2>1, <2>2 DEF PollAbandoned
<1>12. CASE Receive
  <2> DEFINE a == Head(answers)
  <2>0. todo # <<>>
    BY <1>12 DEF Receive, Place
  <2>1. CASE Exit
    BY <1>x, <2>1
  <2>2. CASE a.req = Head(todo) /\ Read(a)
    <3> HIDE DEF a
    <3>1. CASE ClientRegistered(a)
      <4>1. CASE Exit
        BY <1>x, <4>1
      <4>2. CASE Returned(<<>>) /\ pc' = "preview"
        BY <4>2 DEF Returned, Place, Places
      <4> QED
        BY <3>1, <4>1, <4>2 DEF ClientRegistered
    <3>2. CASE StateFetched(a)
      <4>1. pc \in {"preview", "frame"}
        BY <2>0, <2>2, <3>2, HeadPlace DEF StateFetched
      <4>2. CASE NothingReceived
        BY <1>f, <4>1, <4>2 DEF NothingReceived, Place, Places
      <4>3. CASE Returned(StatusCalls(a.status)) /\ pc' = "redraw"
        BY <4>3, CallsAreQueues DEF Returned, Place, Places
      <4> QED
        BY <3>2, <4>2, <4>3 DEF StateFetched
    <3>3. CASE Returned(Tail(todo)) /\ UNCHANGED pc /\ a.req \in {"x-ws", "x-who", "x-msg", "x-key"}
      <4>1. /\ pc = "world" => Tail(todo) = <<>>
            /\ pc = "fetch" => Tail(todo) \in FetchQueues
            /\ pc = "redraw" => Tail(todo) \in StatusQueues
            /\ pc \in {"world", "fetch", "redraw"}
        BY <2>0, <2>2, <3>3, TailPlace
      <4> QED
        BY <3>3, <4>1 DEF Returned, Place, Places
    <3>4. CASE CommandsRead(a)
      <4>1. pc = "redraw"
        BY <2>0, <2>2, <3>4, HeadPlace DEF CommandsRead
      <4>2. pc' = "redraw" /\ ~calling' /\ todo' \in {<<>>, <<"x-msg">>}
        BY <3>4, <4>1 DEF CommandsRead, Returned
      <4> QED
        BY <1>f, <4>2 DEF Place, Places
    <3> QED
      BY <2>2, <3>1, <3>2, <3>3, <3>4
         DEF Read, WorldStateRead, ClientsRead, MessageRead, KeyAnswerRead
  <2> QED
    BY <1>12, <2>1, <2>2 DEF Receive
<1>13. CASE ReceiveFails
  BY <1>x, <1>13 DEF ReceiveFails
<1>14. CASE Connect
  <2>1. CASE Exit
    BY <1>x, <2>1
  <2>2. CASE pc' = "register" /\ todo' = <<"x-add-client">> /\ UNCHANGED calling
    <3>1. ~calling
      BY <1>14 DEF Connect, At, Place
    <3> QED
      BY <2>2, <3>1 DEF Place, Places
  <2> QED
    BY <1>14, <2>1, <2>2 DEF Connect
<1>15. CASE Preview
  <2>1. ~calling /\ todo = <<>>
    BY <1>15 DEF Preview, At, Place
  <2> QED
    BY <1>15, <1>f, <2>1 DEF Preview, At, Poll, Place, Places, FetchQueues
<1>16. CASE StartSimulation
  <2>1. ~calling /\ todo = <<>>
    BY <1>16 DEF StartSimulation, At, Place
  <2> QED
    BY <1>16, <1>f, <2>1 DEF StartSimulation, At, Poll, Place, Places, FetchQueues
<1>17. CASE LoopTop
  <2>1. ~calling /\ todo = <<>>
    BY <1>17 DEF LoopTop, At, Place
  <2> QED
    BY <1>17, <1>f, <2>1 DEF LoopTop, At, Poll, Place, Places, FetchQueues
<1>18. CASE Redraw
  <2>1. ~calling /\ todo = <<>>
    BY <1>18 DEF Redraw, At, Place
  <2> QED
    BY <1>18, <1>f, <2>1 DEF Redraw, At, Poll, Place, Places, FetchQueues
<1>19. CASE Keyboard
  <2>1. ~calling /\ todo = <<>>
    BY <1>19 DEF Keyboard, At, Place
  <2> QED
    BY <1>19, <1>f, <2>1 DEF Keyboard, At, Poll, Place, Places, FetchQueues
<1>20. CASE UNCHANGED vars
  BY <1>s, <1>20 DEF vars
<1> QED
  BY <1>1, <1>2, <1>3, <1>4, <1>5, <1>6, <1>7, <1>8, <1>9, <1>10, <1>11, <1>12, <1>13, <1>14,
     <1>15, <1>16, <1>17, <1>18, <1>19, <1>20
     DEF Next, World, Serving, Requester, Reader, Program, Finished

-----------------------------------------------------------------------------
(* Every step keeps the order of what is on the way.                       *)

OnlyPolls ==
  /\ \A i \in DOMAIN inbox : inbox[i] = "x-w"
  /\ \A i \in DOMAIN answers : answers[i].req = "x-w"

\* An answer that was read leaves only polls that were given up.
LEMMA ReadLeavesPolls ==
  ASSUME TypeOK, Place, Wire, Receive, Head(answers).req = Head(todo)
  PROVE  OnlyPolls'
<1>1. /\ inbox' = inbox /\ answers' = Tail(answers) /\ answers # <<>> /\ calling
  BY DEF Receive
<1>2. /\ \A i \in DOMAIN answers' : i + 1 \in DOMAIN answers /\ answers'[i] = answers[i + 1]
      /\ 1 \in DOMAIN answers /\ Head(answers) = answers[1] /\ Len(answers) \in Nat \ {0}
      /\ Len(answers') = Len(answers) - 1 /\ DOMAIN answers' = 1 .. Len(answers')
      /\ DOMAIN answers = 1 .. Len(answers)
  BY <1>1, TailFacts DEF TypeOK, SeqsOK
<1>3. InSession
  BY <1>1, HeadPlace DEF Place, InSession
<1>4. CASE Head(todo) = "x-w"
  <2>1. \A i \in DOMAIN answers : answers[i].req = "x-w"
    BY <1>3, <1>4 DEF Wire
  <2>2. \A i \in DOMAIN inbox : inbox[i] = "x-w"
    BY <1>3, <1>4 DEF Wire
  <2> QED
    BY <1>1, <1>2, <2>1, <2>2 DEF OnlyPolls
<1>5. CASE Head(todo) # "x-w"
  <2>1. 1 = Len(answers) /\ inbox = <<>>
    BY <1>2, <1>3, <1>5 DEF Wire
  <2>2. Len(answers') = Len(answers) - 1 /\ DOMAIN answers' = 1 .. Len(answers')
    BY <1>2
  <2>3. Len(answers') = 0
    BY ONLY <2>1, <2>2
  <2>4. DOMAIN answers' = {}
    BY ONLY <2>2, <2>3
  <2>5. DOMAIN inbox' = {}
    BY ONLY <1>1, <2>1
  <2> QED
    BY <2>4, <2>5 DEF OnlyPolls
<1> QED
  BY <1>4, <1>5

\* What is answered is not "close" while the session lasts, and only polls came before it.
LEMMA ServedInOrder ==
  ASSUME TypeOK, Place, Wire, InSession
  PROVE  /\ inbox # <<>> => Head(inbox) # "close" /\ \A i \in DOMAIN answers : answers[i].req = "x-w"
         /\ inbox # <<>> /\ Head(inbox) # "x-w" =>
              calling /\ Head(inbox) = Head(todo) /\ Len(inbox) = 1
<1>1. inbox # <<>> => 1 \in DOMAIN inbox /\ Head(inbox) = inbox[1]
  BY TailFacts DEF TypeOK, SeqsOK
<1> QED
  BY <1>1 DEF Wire, Place

\* No step overtakes: behind the polls that were given up there is the awaited request or
\* its answer, and nothing else.
LEMMA WireStep ==
  ASSUME TypeOK, Place, Wire, Place', [Next]_vars
  PROVE  Wire'
<1> USE DEF server, wire, user, call, globals, screen
<1>t. inbox \in Seq(Requests) /\ answers \in Seq(Replies)
  BY DEF TypeOK, SeqsOK
<1>s. ASSUME UNCHANGED <<inbox, answers, pc, todo, calling>> PROVE Wire'
  BY <1>s DEF Wire, InSession
<1>x. ASSUME Exit PROVE Wire'
  BY <1>x DEF Exit, Wire, InSession
<1>p. OnlyPolls' => Wire'
  BY DEF OnlyPolls, Wire
<1>q. InSession /\ ~calling => OnlyPolls
  BY DEF OnlyPolls, Wire
<1>i. todo # <<>> => InSession
  BY HeadPlace DEF InSession
<1>u. ASSUME UNCHANGED <<inbox, answers>>, OnlyPolls PROVE Wire'
  BY <1>p, <1>u DEF OnlyPolls
<1>a. ASSUME NEW r \in Requests, Requesting(r), UNCHANGED <<answers, todo>>,
             inbox' = inbox \/ inbox' = Append(inbox, r), calling' \/ r = "x-w"
      PROVE  Wire'
  <2>1. OnlyPolls /\ Head(todo) = r
    BY <1>a, <1>i, <1>q DEF Requesting
  <2>2. CASE inbox' = inbox
    BY <1>a, <1>u, <2>1, <2>2
  <2>3. CASE inbox' = Append(inbox, r)
    <3>1. \A i \in DOMAIN inbox' : inbox'[i] = "x-w" \/ (i = Len(inbox') /\ inbox'[i] = r)
      BY <1>t, <2>1, <2>3, AppendFacts DEF OnlyPolls
    <3>2. \A i \in DOMAIN answers' : answers'[i].req = "x-w"
      BY <1>a, <2>1 DEF OnlyPolls
    <3> QED
      BY <1>a, <2>1, <3>1, <3>2 DEF Wire
  <2> QED
    BY <1>a, <2>2, <2>3
<1>1. CASE ClientsChange
  <2>1. UNCHANGED <<inbox, answers, pc, todo, calling>>
    BY <1>1 DEF ClientsChange
  <2> QED
    BY <1>s, <2>1
<1>2. CASE ObjectsChange
  <2>1. UNCHANGED <<inbox, answers, pc, todo, calling>>
    BY <1>2 DEF ObjectsChange
  <2> QED
    BY <1>s, <2>1
<1>3. CASE CommandQueued
  <2>1. UNCHANGED <<inbox, answers, pc, todo, calling>>
    BY <1>3 DEF CommandQueued
  <2> QED
    BY <1>s, <2>1
<1>4. CASE WorldStep
  <2>1. UNCHANGED <<inbox, answers, pc, todo, calling>>
    BY <1>4 DEF WorldStep
  <2> QED
    BY <1>s, <2>1
<1>5. CASE UserTypes
  <2>1. UNCHANGED <<inbox, answers, pc, todo, calling>>
    BY <1>5 DEF UserTypes
  <2> QED
    BY <1>s, <2>1
<1>6. CASE Serving
  <2>0. UNCHANGED <<pc, todo, calling>>
    BY <1>6, ServeAnswers
  <2>1. CASE ~InSession
    BY <2>0, <2>1 DEF Wire, InSession
  <2>2. CASE InSession
    <3>1. PICK a : AnswersWith(a)
      BY <1>6, <2>2, ServeAnswers, ServedInOrder DEF ServeClose, Take
    <3>2. /\ inbox # <<>> /\ inbox' = Tail(inbox) /\ answers' = Append(answers, a)
          /\ a \in Replies /\ a.req = Head(inbox)
      BY <3>1 DEF AnswersWith
    <3>3. /\ \A i \in DOMAIN answers : answers[i].req = "x-w"
          /\ a.req # "x-w" => calling /\ a.req = Head(todo) /\ Len(inbox) = 1
      BY <2>2, <3>2, ServedInOrder
    <3>4. ASSUME NEW i \in DOMAIN inbox', inbox'[i] # "x-w"
          PROVE  calling /\ i = Len(inbox') /\ inbox'[i] = Head(todo)
      <4>1. /\ i + 1 \in DOMAIN inbox /\ inbox'[i] = inbox[i + 1]
            /\ Len(inbox') = Len(inbox) - 1 /\ Len(inbox) \in Nat
        BY <1>t, <3>2, TailFacts
      <4>2. calling /\ i + 1 = Len(inbox) /\ inbox[i + 1] = Head(todo)
        BY <2>2, <3>4, <4>1 DEF Wire
      <4>3. i \in Nat
        BY <1>t, <3>2
      <4> QED
        BY <4>1, <4>2, <4>3
    <3>5. ASSUME NEW i \in DOMAIN answers', answers'[i].req # "x-w"
          PROVE  calling /\ i = Len(answers') /\ inbox' = <<>> /\ answers'[i].req = Head(todo)
      <4>1. i = Len(answers) + 1 /\ Len(answers') = Len(answers) + 1 /\ answers'[i] = a
        BY <1>t, <3>2, <3>3, <3>5, AppendFacts
      <4>2. Len(inbox) = 1 /\ calling /\ a.req = Head(todo)
        BY <3>3, <3>5, <4>1
      <4>3. inbox' \in Seq(Requests) /\ Len(inbox') = 0
        BY <1>t, <3>2, <4>2, TailFacts
      <4>4. inbox' = <<>>
        BY <4>3
      <4> QED
        BY <4>1, <4>2, <4>4
    <3> QED
      BY <2>0, <3>4, <3>5 DEF Wire
  <2> QED
    BY <2>1, <2>2
<1>7. CASE SendCommand
  <2>1. PICK r \in Requests \ {"x-w", "close"} :
          /\ Requesting(r)
          /\ \/ WriteSucceeds(r) /\ calling' = TRUE /\ UNCHANGED <<pc, todo, attempt>>
             \/ WriteFails(r) /\ Exit
    BY <1>7 DEF SendCommand
  <2>2. CASE Exit
    BY <1>x, <2>2
  <2>3. CASE WriteSucceeds(r) /\ calling' = TRUE /\ UNCHANGED <<pc, todo, attempt>>
    BY <1>a, <2>1, <2>3 DEF WriteSucceeds
  <2> QED
    BY <2>1, <2>2, <2>3
<1>8. CASE Disconnect
  BY <1>8 DEF Disconnect, Exit, Wire, InSession
<1>9. CASE PollSent
  <2>1. "x-w" \in Requests
    BY DEF Requests
  <2> QED
    BY <1>a, <1>9, <2>1 DEF PollSent, WriteSucceeds
<1>10. CASE PollRetried
  <2>1. "x-w" \in Requests
    BY DEF Requests
  <2> QED
    BY <1>a, <1>10, <2>1 DEF PollRetried, WriteFails
<1>11. CASE PollAbandoned
  <2>1. CASE Exit
    BY <1>x, <2>1
  <2>2. Requesting("x-w") /\ WriteFails("x-w") /\ "x-w" \in Requests
    BY <1>11 DEF PollAbandoned, Requests
  <2>3. OnlyPolls
    BY <1>i, <1>q, <2>2 DEF Requesting
  <2>4. CASE inbox' = Append(inbox, "x-w") /\ UNCHANGED answers
    <3>1. \A i \in DOMAIN inbox' : inbox'[i] = "x-w"
      BY <1>t, <2>2, <2>3, <2>4, AppendFacts DEF OnlyPolls
    <3> QED
      BY <1>p, <2>3, <2>4, <3>1 DEF OnlyPolls
  <2>5. CASE UNCHANGED <<inbox, answers>>
    BY <1>u, <2>3, <2>5
  <2> QED
    BY <2>2, <2>4, <2>5 DEF WriteFails
<1>12. CASE Receive
  <2>1. CASE Head(answers).req = Head(todo)
    BY <1>p, <1>12, <2>1, ReadLeavesPolls
  <2>2. CASE Head(answers).req # Head(todo)
    BY <1>x, <1>12, <2>2 DEF Receive
  <2> QED
    BY <2>1, <2>2
<1>13. CASE ReceiveFails
  BY <1>x, <1>13 DEF ReceiveFails
<1>14. CASE Connect
  <2>1. CASE Exit
    BY <1>x, <2>1
  <2>2. CASE inbox' = <<>> /\ answers' = <<>>
    BY <1>p, <2>2 DEF OnlyPolls
  <2> QED
    BY <1>14, <2>1, <2>2 DEF Connect
<1>15. CASE Preview
  <2>1. ~calling /\ InSession /\ UNCHANGED <<inbox, answers>>
    BY <1>15 DEF Preview, At, Place, InSession
  <2> QED
    BY <1>q, <1>u, <2>1
<1>16. CASE StartSimulation
  <2>1. ~calling /\ InSession /\ UNCHANGED <<inbox, answers>>
    BY <1>16 DEF StartSimulation, At, Place, InSession
  <2> QED
    BY <1>q, <1>u, <2>1
<1>17. CASE LoopTop
  <2>1. ~calling /\ InSession /\ UNCHANGED <<inbox, answers>>
    BY <1>17 DEF LoopTop, At, Place, InSession
  <2> QED
    BY <1>q, <1>u, <2>1
<1>18. CASE Redraw
  <2>1. ~calling /\ InSession /\ UNCHANGED <<inbox, answers>>
    BY <1>18 DEF Redraw, At, Place, InSession
  <2> QED
    BY <1>q, <1>u, <2>1
<1>19. CASE Keyboard
  <2>1. ~calling /\ InSession /\ UNCHANGED <<inbox, answers>>
    BY <1>19 DEF Keyboard, At, Place, InSession
  <2> QED
    BY <1>q, <1>u, <2>1
<1>20. CASE UNCHANGED vars
  BY <1>s, <1>20 DEF vars
<1> QED
  BY <1>1, <1>2, <1>3, <1>4, <1>5, <1>6, <1>7, <1>8, <1>9, <1>10, <1>11, <1>12, <1>13, <1>14,
     <1>15, <1>16, <1>17, <1>18, <1>19, <1>20
     DEF Next, World, Serving, Requester, Reader, Program, Finished

-----------------------------------------------------------------------------
(* Every step keeps the request on the way the client's own.               *)

\* The server turns the only request into the only answer.
LEMMA AloneServed ==
  ASSUME TypeOK, NEW r, Alone(r), NEW a, AnswersWith(a)
  PROVE  Alone(r)'
<1>t. inbox \in Seq(Requests) /\ answers \in Seq(Replies)
  BY DEF TypeOK, SeqsOK
<1>1. /\ inbox # <<>> /\ inbox' = Tail(inbox) /\ answers' = Append(answers, a)
      /\ a \in Replies /\ a.req = Head(inbox)
  BY DEF AnswersWith
<1>2. answers = <<>> /\ Len(inbox) = 1 /\ inbox[1] = r
  BY <1>1 DEF Alone
<1>3. inbox' \in Seq(Requests) /\ Len(inbox') = Len(inbox) - 1 /\ Head(inbox) = inbox[1]
  BY <1>t, <1>1, TailFacts
<1>4. Len(inbox') = 0
  BY <1>2, <1>3
<1>5. inbox' = <<>>
  BY <1>3, <1>4
<1>6. Len(answers) = 0
  BY <1>2
<1>7. Len(answers') = Len(answers) + 1 /\ answers'[Len(answers) + 1] = a
  BY <1>t, <1>1, AppendFacts
<1>8. Len(answers') = 1 /\ answers'[1] = a
  BY <1>6, <1>7
<1> QED
  BY <1>1, <1>2, <1>3, <1>5, <1>8 DEF Alone

\* A request that is written is the only one on the way, at whichever attempt.
LEMMA AloneWritten ==
  ASSUME TypeOK, Own, ~config.ignore, InSession, NEW r \in Requests, Requesting(r),
         UNCHANGED answers,
         \/ ahead /\ inbox' = inbox
         \/ ~ahead /\ inbox' = Append(inbox, r)
  PROVE  Alone(r)'
<1>1. ~calling /\ Head(todo) = r
  BY DEF Requesting
<1>2. CASE ahead
  <2>1. todo = <<"x-w">> /\ Alone("x-w") /\ inbox' = inbox
    BY <1>1, <1>2 DEF Own
  <2>2. r = "x-w"
    BY <1>1, <2>1, ShortTails
  <2> QED
    BY <2>1, <2>2 DEF Alone
<1>3. CASE ~ahead
  <2>1. inbox = <<>> /\ answers = <<>> /\ inbox' = Append(inbox, r)
    BY <1>1, <1>3 DEF Own
  <2>2. Len(inbox) = 0 /\ inbox \in Seq(Requests)
    BY <2>1 DEF TypeOK, SeqsOK
  <2>3. Len(inbox') = Len(inbox) + 1 /\ inbox'[Len(inbox) + 1] = r
    BY <2>1, <2>2, AppendFacts
  <2>4. Len(inbox') = 1 /\ inbox'[1] = r
    BY <2>2, <2>3
  <2> QED
    BY <2>1, <2>4 DEF Alone
<1> QED
  BY <1>2, <1>3

\* A retried poll is delivered once, and no answer is left to be taken for the next one.
LEMMA OwnStep ==
  ASSUME TypeOK, Place, Wire, Own, [Next]_vars
  PROVE  Own'
<1> USE DEF server, wire, user, call, globals, screen
<1>b. ahead \in BOOLEAN /\ calling \in BOOLEAN
  BY DEF TypeOK, FlagsOK
<1>s. ASSUME UNCHANGED <<config, inbox, answers, ahead, pc, todo, calling>> PROVE Own'
  BY <1>s DEF Own, Alone, InSession
<1>x. ASSUME Exit PROVE Own'
  BY <1>x DEF Exit, Own, InSession
<1>i. todo # <<>> => InSession
  BY HeadPlace DEF InSession
<1>w. ASSUME NEW r \in Requests, Requesting(r), WriteSucceeds(r), calling',
             UNCHANGED <<config, todo>>
      PROVE  Own'
  <2>1. CASE ~config.ignore
    <3>1. InSession
      BY <1>i, <1>w DEF Requesting
    <3>2. Alone(r)'
      BY <1>b, <1>w, <2>1, <3>1, AloneWritten DEF WriteSucceeds
    <3>3. ~ahead' /\ Head(todo') = r
      BY <1>w DEF WriteSucceeds, Requesting
    <3> QED
      BY <1>w, <3>2, <3>3 DEF Own, Alone
  <2>2. CASE config.ignore
    BY <1>w, <2>2 DEF Own
  <2> QED
    BY <2>1, <2>2
<1>1. CASE ClientsChange
  <2>1. UNCHANGED <<config, inbox, answers, ahead, pc, todo, calling>>
    BY <1>1 DEF ClientsChange
  <2> QED
    BY <1>s, <2>1
<1>2. CASE ObjectsChange
  <2>1. UNCHANGED <<config, inbox, answers, ahead, pc, todo, calling>>
    BY <1>2 DEF ObjectsChange
  <2> QED
    BY <1>s, <2>1
<1>3. CASE CommandQueued
  <2>1. UNCHANGED <<config, inbox, answers, ahead, pc, todo, calling>>
    BY <1>3 DEF CommandQueued
  <2> QED
    BY <1>s, <2>1
<1>4. CASE WorldStep
  <2>1. UNCHANGED <<config, inbox, answers, ahead, pc, todo, calling>>
    BY <1>4 DEF WorldStep
  <2> QED
    BY <1>s, <2>1
<1>5. CASE UserTypes
  <2>1. UNCHANGED <<config, inbox, answers, ahead, pc, todo, calling>>
    BY <1>5 DEF UserTypes
  <2> QED
    BY <1>s, <2>1
<1>6. CASE Serving
  <2>0. UNCHANGED <<config, ahead, pc, todo, calling>>
    BY <1>6, ServeAnswers
  <2>1. CASE ~(~config.ignore /\ InSession)
    BY <2>0, <2>1 DEF Own, InSession
  <2>2. CASE ~config.ignore /\ InSession
    <3>1. PICK a : AnswersWith(a)
      BY <1>6, <2>2, ServeAnswers, ServedInOrder DEF ServeClose, Take
    <3>2. inbox # <<>>
      BY <3>1 DEF AnswersWith
    <3>3. CASE calling
      <4>1. ~ahead /\ Alone(Head(todo))
        BY <2>2, <3>3 DEF Own
      <4>2. PICK r : r = Head(todo)
        OBVIOUS
      <4>3. Alone(r)
        BY <4>1, <4>2
      <4>4. Alone(r)'
        BY <3>1, <4>3, AloneServed
      <4> QED
        BY <2>0, <3>3, <4>1, <4>2, <4>4 DEF Own, Alone
    <3>4. CASE ~calling
      <4>1. ahead /\ todo = <<"x-w">> /\ Alone("x-w")
        BY <2>2, <3>2, <3>4 DEF Own
      <4>2. Alone("x-w")'
        BY <3>1, <4>1, AloneServed
      <4> QED
        BY <2>0, <3>4, <4>1, <4>2 DEF Own
    <3> QED
      BY <3>3, <3>4
  <2> QED
    BY <2>1, <2>2
<1>7. CASE SendCommand
  <2>1. PICK r \in Requests \ {"x-w", "close"} :
          /\ Requesting(r)
          /\ \/ WriteSucceeds(r) /\ calling' = TRUE /\ UNCHANGED <<pc, todo, attempt>>
             \/ WriteFails(r) /\ Exit
    BY <1>7 DEF SendCommand
  <2>2. CASE Exit
    BY <1>x, <2>2
  <2>3. CASE WriteSucceeds(r) /\ calling' = TRUE /\ UNCHANGED <<pc, todo, attempt>>
    BY <1>w, <1>7, <2>1, <2>3 DEF SendCommand
  <2> QED
    BY <2>1, <2>2, <2>3
<1>8. CASE Disconnect
  BY <1>8 DEF Disconnect, Exit, Own, InSession
<1>9. CASE PollSent
  <2>1. "x-w" \in Requests
    BY DEF Requests
  <2> QED
    BY <1>w, <1>9, <2>1 DEF PollSent
<1>10. CASE PollRetried
  <2>1. Requesting("x-w") /\ "x-w" \in Requests /\ InSession /\ ~calling
    BY <1>i, <1>10 DEF PollRetried, Requests, Requesting
  <2>2. todo = <<"x-w">>
    BY <2>1, HeadPlace DEF Requesting
  <2>3. UNCHANGED <<config, pc, todo, calling>>
    BY <1>10 DEF PollRetried
  <2>4. CASE UNCHANGED <<inbox, ahead, answers>>
    BY <1>s, <2>3, <2>4
  <2>5. CASE ~ahead /\ ahead' = TRUE /\ inbox' = Append(inbox, "x-w") /\ UNCHANGED answers
    <3>1. CASE config.ignore
      BY <2>3, <3>1 DEF Own
    <3>2. CASE ~config.ignore
      <4>1. Alone("x-w")'
        BY <2>1, <2>5, <3>2, AloneWritten
      <4> QED
        BY <2>1, <2>2, <2>3, <2>5, <4>1 DEF Own
    <3> QED
      BY <3>1, <3>2
  <2> QED
    BY <1>10, <2>4, <2>5 DEF PollRetried, WriteFails
<1>11. CASE PollAbandoned
  <2>1. CASE Exit
    BY <1>x, <2>1
  <2>2. CASE config.ignore /\ UNCHANGED config
    BY <2>2 DEF Own
  <2> QED
    BY <1>11, <2>1, <2>2 DEF PollAbandoned
<1>12. CASE Receive
  <2>0. UNCHANGED <<config, inbox, ahead>> /\ calling /\ answers # <<>> /\ answers' = Tail(answers)
    BY <1>12 DEF Receive
  <2>1. InSession
    BY <1>i, <2>0 DEF Place
  <2>2. CASE config.ignore
    BY <2>0, <2>2 DEF Own
  <2>3. CASE ~config.ignore
    <3>1. ~ahead /\ inbox = <<>> /\ Len(answers) = 1
      BY <2>0, <2>1, <2>3 DEF Own, Alone
    <3>2. answers' \in Seq(Replies) /\ Len(answers') = Len(answers) - 1
      BY <2>0, TailFacts DEF TypeOK, SeqsOK
    <3>3. Len(answers') = 0
      BY <3>1, <3>2
    <3>4. answers' = <<>> /\ inbox' = <<>>
      BY <2>0, <3>1, <3>2, <3>3
    <3>5. ~calling' /\ ~ahead'
      BY <2>0, <3>1, <1>12 DEF Receive, Read, ClientRegistered, StateFetched, WorldStateRead, ClientsRead,
         CommandsRead, MessageRead, KeyAnswerRead, Returned, NothingReceived, Exit
    <3> QED
      BY <3>4, <3>5 DEF Own
  <2> QED
    BY <2>2, <2>3
<1>13. CASE ReceiveFails
  BY <1>x, <1>13 DEF ReceiveFails
<1>14. CASE Connect
  <2>1. CASE Exit
    BY <1>x, <2>1
  <2>2. CASE inbox' = <<>> /\ answers' = <<>> /\ ahead' = FALSE /\ UNCHANGED calling
    <3>1. ~calling
      BY <1>14 DEF Connect, At, Place
    <3> QED
      BY <2>2, <3>1 DEF Own
  <2> QED
    BY <1>14, <2>1, <2>2 DEF Connect
<1>15. CASE Preview
  <2>1. /\ ~calling /\ ~calling' /\ InSession /\ todo = <<>>
        /\ UNCHANGED <<config, inbox, answers, ahead>>
    BY <1>15 DEF Preview, At, Place, InSession
  <2>2. ~config.ignore => ~ahead /\ inbox = <<>> /\ answers = <<>>
    BY <2>1 DEF Own
  <2> QED
    BY <2>1, <2>2 DEF Own
<1>16. CASE StartSimulation
  <2>1. /\ ~calling /\ ~calling' /\ InSession /\ todo = <<>>
        /\ UNCHANGED <<config, inbox, answers, ahead>>
    BY <1>16 DEF StartSimulation, At, Place, InSession
  <2>2. ~config.ignore => ~ahead /\ inbox = <<>> /\ answers = <<>>
    BY <2>1 DEF Own
  <2> QED
    BY <2>1, <2>2 DEF Own
<1>17. CASE LoopTop
  <2>1. /\ ~calling /\ ~calling' /\ InSession /\ todo = <<>>
        /\ UNCHANGED <<config, inbox, answers, ahead>>
    BY <1>17 DEF LoopTop, At, Place, InSession
  <2>2. ~config.ignore => ~ahead /\ inbox = <<>> /\ answers = <<>>
    BY <2>1 DEF Own
  <2> QED
    BY <2>1, <2>2 DEF Own
<1>18. CASE Redraw
  <2>1. /\ ~calling /\ ~calling' /\ InSession /\ todo = <<>>
        /\ UNCHANGED <<config, inbox, answers, ahead>>
    BY <1>18 DEF Redraw, At, Place, InSession
  <2>2. ~config.ignore => ~ahead /\ inbox = <<>> /\ answers = <<>>
    BY <2>1 DEF Own
  <2> QED
    BY <2>1, <2>2 DEF Own
<1>19. CASE Keyboard
  <2>1. /\ ~calling /\ ~calling' /\ InSession /\ todo = <<>>
        /\ UNCHANGED <<config, inbox, answers, ahead>>
    BY <1>19 DEF Keyboard, At, Place, InSession
  <2>2. ~config.ignore => ~ahead /\ inbox = <<>> /\ answers = <<>>
    BY <2>1 DEF Own
  <2> QED
    BY <2>1, <2>2 DEF Own
<1>20. CASE UNCHANGED vars
  BY <1>s, <1>20 DEF vars
<1> QED
  BY <1>1, <1>2, <1>3, <1>4, <1>5, <1>6, <1>7, <1>8, <1>9, <1>10, <1>11, <1>12, <1>13, <1>14,
     <1>15, <1>16, <1>17, <1>18, <1>19, <1>20
     DEF Next, World, Serving, Requester, Reader, Program, Finished

-----------------------------------------------------------------------------
(* Every step keeps what is shown of the world fresh.                      *)

\* A change the client is not told of yet stays one that it will be told of.
LEMMA TellsMore ==
  ASSUME NEW bits, Tells(bits), pending \subseteq pending', UNCHANGED answers
  PROVE  Tells(bits)'
  BY DEF Tells

\* A poll takes the pending bits with it.
LEMMA TellsServed ==
  ASSUME TypeOK, NEW bits, Tells(bits), NEW a, AnswersWith(a), Serves(a)
  PROVE  Tells(bits)'
<1>1. /\ \A i \in DOMAIN answers : i \in DOMAIN answers' /\ answers'[i] = answers[i]
      /\ Len(answers) + 1 \in DOMAIN answers' /\ answers'[Len(answers) + 1] = a
  <2>1. answers \in Seq(Replies) /\ a \in Replies /\ answers' = Append(answers, a)
    BY DEF AnswersWith, TypeOK, SeqsOK
  <2>2. /\ answers' \in Seq(Replies) /\ Len(answers') = Len(answers) + 1 /\ Len(answers) \in Nat
        /\ \A i \in DOMAIN answers : i \in DOMAIN answers' /\ answers'[i] = answers[i]
        /\ answers'[Len(answers) + 1] = a
    BY <2>1, AppendFacts
  <2> QED
    BY <2>2
<1>2. CASE pending \intersect bits # {}
  <2>1. CASE ServesFrame(a)
    <3>1. a.req = "x-w" /\ ~a.empty /\ a.status \intersect bits # {}
      BY <1>2, <2>1 DEF ServesFrame
    <3> QED
      BY <1>1, <3>1 DEF Tells
  <2>2. CASE UNCHANGED pending
    BY <1>2, <2>2 DEF Tells
  <2> QED
    BY <2>1, <2>2 DEF Serves, ServesUnchanged, ServesCommands, ServesKey
<1>3. CASE \E i \in DOMAIN answers :
             answers[i].req = "x-w" /\ ~answers[i].empty /\ answers[i].status \intersect bits # {}
  BY <1>1, <1>3 DEF Tells
<1> QED
  BY <1>2, <1>3 DEF Tells

\* Only reading a poll's answer takes bits off the way.
LEMMA TellsRead ==
  ASSUME TypeOK, NEW bits, Tells(bits), answers # <<>>, answers' = Tail(answers),
         UNCHANGED pending
  PROVE  \/ Tells(bits)'
         \/ /\ Head(answers).req = "x-w" /\ ~Head(answers).empty
            /\ Head(answers).status \intersect bits # {}
<1>1. /\ Head(answers) = answers[1]
      /\ \A i \in DOMAIN answers : i = 1 \/ (i - 1 \in DOMAIN answers' /\ answers'[i - 1] = answers[i])
  BY TailFacts DEF TypeOK, SeqsOK
<1>2. CASE pending \intersect bits # {}
  BY <1>2 DEF Tells
<1>3. CASE \E i \in DOMAIN answers :
             answers[i].req = "x-w" /\ ~answers[i].empty /\ answers[i].status \intersect bits # {}
  BY <1>1, <1>3 DEF Tells
<1> QED
  BY <1>2, <1>3 DEF Tells

\* x-ws is asked first of all, but for a key.
LEMMA AsksWorldFirst ==
  ASSUME Place, todo # <<>>, Asks(todo, "x-ws")
  PROVE  \/ Head(todo) = "x-ws"
         \/ Head(todo) = "x-key" /\ Asks(Tail(todo), "x-ws")
<1> USE DEF Place
<1>1. CASE pc = "fetch"
  BY <1>1, FetchTail
<1>2. CASE pc = "redraw"
  BY <1>2, StatusTail
<1>3. CASE pc = "world"
  BY <1>3, ShortTails
<1>4. CASE pc \in {"register", "preview", "frame", "closing"}
  BY <1>4, ShortQueues
<1> QED
  BY <1>1, <1>2, <1>3, <1>4, HeadPlace

\* x-who is asked first of all, but for x-ws.
LEMMA AsksClientsNext ==
  ASSUME Place, todo # <<>>, Asks(todo, "x-who")
  PROVE  \/ Head(todo) = "x-who"
         \/ Head(todo) = "x-ws" /\ Asks(Tail(todo), "x-who")
<1> USE DEF Place
<1>1. CASE pc = "fetch"
  BY <1>1, FetchTail
<1>2. CASE pc = "redraw"
  BY <1>2, StatusTail
<1>3. CASE pc \in {"register", "preview", "frame", "closing", "world"}
  BY <1>3, ShortQueues
<1> QED
  BY <1>1, <1>2, <1>3, HeadPlace

\* When x-who is answered x-ws is not asked any more.
LEMMA AsksClientsLast ==
  ASSUME Place, todo # <<>>, Head(todo) = "x-who"
  PROVE  ~Asks(todo, "x-ws")
  BY HeadPlace, FetchTail, StatusTail DEF Place

\* What the client shows of the world is current, or it will be told, or asks.
LEMMA FreshStep ==
  ASSUME TypeOK, Place, Wire, Fresh, [Next]_vars
  PROVE  Fresh'
<1> USE DEF server, wire, user, call, globals, screen
<1>i. Watching => InSession
  BY DEF Watching, InSession
<1>p. pending \subseteq pending' /\ UNCHANGED answers /\ Tells(Changes) => Tells(Changes)'
  BY TellsMore
<1>g. ASSUME UNCHANGED <<view, world, answers>>, pending \subseteq pending',
             Watching' => Watching, Asks(todo, "x-ws") => Asks(todo, "x-ws")'
      PROVE  Fresh'
  BY <1>g, <1>p DEF Fresh
<1>x. ASSUME Exit PROVE Fresh'
  BY <1>x DEF Exit, Fresh, Watching
<1>c. ASSUME Tells(Changes)' PROVE Fresh'
  BY <1>c DEF Fresh
<1>o. InSession /\ ~calling => OnlyPolls
  BY DEF OnlyPolls, Wire
<1>1. CASE ClientsChange
  <2>1. "CLIENT_CHANGE" \in pending'
    BY <1>1 DEF ClientsChange
  <2> QED
    BY <1>c, <2>1 DEF Tells, Changes
<1>2. CASE ObjectsChange
  <2>1. "OBJECT_CHANGE" \in pending' \/ "FROZEN_TOGGLE" \in pending'
    BY <1>2 DEF ObjectsChange
  <2> QED
    BY <1>c, <2>1 DEF Tells, Changes
<1>3. CASE CommandQueued
  <2>1. UNCHANGED <<view, world, answers, pc, todo>> /\ pending \subseteq pending'
    BY <1>3 DEF CommandQueued
  <2> QED
    BY <1>g, <2>1 DEF Watching
<1>4. CASE WorldStep
  <2>1. UNCHANGED <<view, world, answers, pc, todo>> /\ pending \subseteq pending'
    BY <1>4 DEF WorldStep
  <2> QED
    BY <1>g, <2>1 DEF Watching
<1>5. CASE UserTypes
  <2>1. UNCHANGED <<view, world, answers, pc, todo>> /\ pending \subseteq pending'
    BY <1>5 DEF UserTypes
  <2> QED
    BY <1>g, <2>1 DEF Watching
<1>6. CASE Serving
  <2>0. UNCHANGED <<view, rows, pc, todo, calling>>
    BY <1>6, ServeAnswers
  <2>1. CASE ~Watching
    BY <2>0, <2>1 DEF Fresh, Watching
  <2>2. CASE Watching
    <3>1. PICK a : AnswersWith(a) /\ Serves(a)
      BY <1>6, <2>2, <1>i, ServeAnswers, ServedInOrder DEF ServeClose, Take
    <3>2. /\ \A i \in DOMAIN answers : answers[i].req = "x-w"
          /\ a.req # "x-w" => Head(todo) = a.req /\ calling
      BY <1>i, <2>2, <3>1, ServedInOrder DEF AnswersWith
    <3>3. \A i \in DOMAIN answers' : answers'[i].req = "x-w" \/ answers'[i] = a
      BY <3>1, <3>2, AppendFacts DEF AnswersWith, TypeOK, SeqsOK
    <3>4. Tells(Changes) => Tells(Changes)'
      BY <3>1, TellsServed
    <3>5. a.req = "x-ws" => a.world = world'
      BY <3>1 DEF Serves, ServesFrame, ServesUnchanged, ServesCommands, ServesKey
    <3>6. UNCHANGED world \/ Asks(todo, "x-ws")'
      <4>1. CASE a.req = "x-key"
        <5>1. Head(todo) = "x-key" /\ todo # <<>>
          BY <3>2, <4>1 DEF Place
        <5>2. pc = "fetch" /\ todo \in FetchQueues
          BY <5>1, HeadPlace DEF Place
        <5>3. todo = <<"x-key", "x-ws">>
          BY <5>1, <5>2, ShortTails DEF FetchQueues
        <5>4. Asks(todo, "x-ws")
          BY <5>3, ShortQueues
        <5> QED
          BY <2>0, <5>4
      <4>2. CASE a.req # "x-key"
        BY <3>1, <4>2 DEF Serves, ServesFrame, ServesUnchanged, ServesCommands, ServesKey
      <4> QED
        BY <4>1, <4>2
    <3>7. \/ view' = world' \/ Tells(Changes)' \/ Asks(todo, "x-ws")'
      BY <2>0, <2>2, <3>4, <3>6 DEF Fresh
    <3>8. \A i \in DOMAIN answers' : answers'[i].req = "x-ws" => answers'[i].world = world'
      BY <3>3, <3>5
    <3> QED
      BY <3>7, <3>8 DEF Fresh
  <2> QED
    BY <2>1, <2>2
<1>7. CASE SendCommand
  <2>1. \/ Exit
        \/ UNCHANGED <<view, rows, world, answers, pending, pc, todo>>
    BY <1>7 DEF SendCommand, WriteSucceeds
  <2>2. CASE UNCHANGED <<view, rows, world, answers, pending, pc, todo>>
    BY <1>g, <2>2 DEF Watching
  <2> QED
    BY <1>x, <2>1, <2>2
<1>8. CASE Disconnect
  BY <1>8 DEF Disconnect, Exit, Fresh, Watching
<1>9. CASE PollSent
  <2>1. UNCHANGED <<view, world, answers, pc, todo>> /\ pending \subseteq pending'
    BY <1>9 DEF PollSent, WriteSucceeds
  <2> QED
    BY <1>g, <2>1 DEF Watching
<1>10. CASE PollRetried
  <2>1. UNCHANGED <<view, world, answers, pc, todo>> /\ pending \subseteq pending'
    BY <1>10 DEF PollRetried, WriteFails
  <2> QED
    BY <1>g, <2>1 DEF Watching
<1>11. CASE PollAbandoned
  <2>1. CASE Exit
    BY <1>x, <2>1
  <2>2. UNCHANGED <<view, rows, world, answers, pending>>
    BY <1>11 DEF PollAbandoned, WriteFails
  <2>3. CASE NothingReceived
    <3>1. pc \in {"preview", "frame"} /\ todo = <<"x-w">>
      BY <1>11, HeadPlace DEF PollAbandoned, Requesting
    <3>2. ~Asks(todo, "x-ws") /\ ~Asks(todo, "x-who")
      BY <3>1, ShortQueues
    <3>3. (Watching' => Watching) /\ (pc' = "world" => pc = "world")
      BY <2>3, <3>1 DEF NothingReceived, Watching
    <3> QED
      BY <1>g, <2>2, <3>2, <3>3
  <2> QED
    BY <1>11, <2>1, <2>3 DEF PollAbandoned
<1>12. CASE Receive
  <2> DEFINE a == Head(answers)
  <2>1. CASE Exit
    BY <1>x, <2>1
  <2>2. CASE a.req = Head(todo) /\ Read(a)
    <3>1. OnlyPolls'
      BY <1>12, <2>2, ReadLeavesPolls
    <3>2. /\ UNCHANGED <<world, pending>> /\ todo # <<>> /\ answers # <<>>
          /\ answers' = Tail(answers)
      BY <1>12 DEF Receive, Place
    <3>3. 1 \in DOMAIN answers /\ a = answers[1]
      BY <3>2, TailFacts DEF TypeOK, SeqsOK
    <3>4. Tells(Changes) => \/ Tells(Changes)'
                            \/ a.req = "x-w" /\ ~a.empty /\ a.status \intersect Changes # {}
      BY <3>2, TellsRead
    <3> HIDE DEF a
    <3>5. ASSUME Watching', view' = world' \/ Tells(Changes)' \/ Asks(todo, "x-ws")'
          PROVE  Fresh'
      BY <3>1, <3>5 DEF Fresh, OnlyPolls
    <3>6. CASE ClientRegistered(a)
      BY <1>x, <3>6 DEF ClientRegistered, Fresh, Watching
    <3>7. CASE StateFetched(a)
      <4>0. pc \in {"preview", "frame"} /\ todo = <<"x-w">> /\ UNCHANGED view
        BY <2>2, <3>2, <3>7, HeadPlace DEF StateFetched
      <4>1. ~Asks(todo, "x-ws")
        BY <4>0, ShortQueues
      <4>2. CASE pc = "preview"
        BY <3>7, <4>2 DEF StateFetched, NothingReceived, Fresh, Watching
      <4>3. CASE pc = "frame"
        <5>1. view = world \/ Tells(Changes)
          BY <4>1, <4>3 DEF Fresh, Watching
        <5>2. CASE a.empty
          BY <3>2, <3>4, <3>5, <4>0, <5>1, <5>2 DEF Fresh
        <5>3. CASE ~a.empty
          <6>1. todo' = StatusCalls(a.status)
            BY <3>7, <4>3, <5>3 DEF StateFetched, Returned
          <6>2. a.status \intersect Changes # {} => Asks(todo, "x-ws")'
            BY <6>1, CallsAreQueues
          <6> QED
            BY <3>2, <3>4, <3>5, <4>0, <5>1, <6>2 DEF Fresh
        <5> QED
          BY <5>2, <5>3
      <4> QED
        BY <4>0, <4>2, <4>3
    <3>8. CASE WorldStateRead(a)
      <4>1. view' = a.world /\ pc' = pc /\ a.req = "x-ws"
        BY <3>8 DEF WorldStateRead
      <4>2. CASE Watching
        <5>1. a.world = world \/ Tells(Changes)
          BY <3>3, <4>1, <4>2 DEF Fresh
        <5> QED
          BY <3>2, <3>4, <3>5, <4>1, <5>1 DEF Fresh
      <4>3. CASE ~Watching
        BY <4>1, <4>3 DEF Fresh, Watching
      <4> QED
        BY <4>2, <4>3
    <3>9. CASE ClientsRead(a) \/ CommandsRead(a) \/ MessageRead(a) \/ KeyAnswerRead(a)
      <4>1. UNCHANGED <<view, pc>> /\ a.req \in {"x-who", "x-cmd-get", "x-msg", "x-key"}
        BY <3>9 DEF ClientsRead, CommandsRead, MessageRead, KeyAnswerRead
      <4>2. Asks(todo, "x-ws") => Asks(todo, "x-ws")'
        <5>1. Asks(todo, "x-ws") => a.req = "x-key" /\ Asks(Tail(todo), "x-ws")
          BY <2>2, <3>2, <4>1, AsksWorldFirst
        <5>2. a.req = "x-key" => todo' = Tail(todo)
          BY <3>9 DEF ClientsRead, CommandsRead, MessageRead, KeyAnswerRead, Returned
        <5> QED
          BY <5>1, <5>2
      <4>3. Tells(Changes) => Tells(Changes)'
        BY <3>4, <4>1
      <4>4. CASE Watching
        BY <3>2, <3>5, <4>1, <4>2, <4>3, <4>4 DEF Fresh
      <4>5. CASE ~Watching
        BY <4>1, <4>5 DEF Fresh, Watching
      <4> QED
        BY <4>4, <4>5
    <3> QED
      BY <2>2, <3>6, <3>7, <3>8, <3>9 DEF Read
  <2> QED
    BY <1>12, <2>1, <2>2 DEF Receive
<1>13. CASE ReceiveFails
  BY <1>x, <1>13 DEF ReceiveFails
<1>14. CASE Connect
  BY <1>14 DEF Connect, Exit, Fresh, Watching
<1>15. CASE Preview
  <2>1. CASE pc' = "world" /\ todo' = <<"x-ws">>
    <3>1. Asks(todo, "x-ws")'
      BY <2>1, ShortQueues
    <3>2. OnlyPolls /\ UNCHANGED answers
      BY <1>15, <1>o DEF Preview, At, Place, InSession
    <3> QED
      BY <3>1, <3>2 DEF Fresh, OnlyPolls
  <2>2. CASE UNCHANGED pc
    BY <1>15, <2>2 DEF Preview, At, Fresh, Watching
  <2> QED
    BY <1>15, <2>1, <2>2 DEF Preview
<1>16. CASE StartSimulation
  <2>1. /\ UNCHANGED <<view, rows, world, answers, pending>> /\ todo = <<>>
        /\ (Watching' => Watching)
    BY <1>16 DEF StartSimulation, At, Poll, Watching
  <2>2. ~Asks(todo, "x-ws") /\ ~Asks(todo, "x-who")
    BY <2>1, ShortQueues
  <2> QED
    BY <1>g, <2>1, <2>2
<1>17. CASE LoopTop
  <2>1. /\ UNCHANGED <<view, rows, world, answers, pending>> /\ todo = <<>>
        /\ (Watching' => Watching) /\ pc # "world" /\ pc' # "world"
    BY <1>17 DEF LoopTop, At, Poll, Watching
  <2>2. ~Asks(todo, "x-ws") /\ ~Asks(todo, "x-who")
    BY <2>1, ShortQueues
  <2> QED
    BY <1>g, <2>1, <2>2
<1>18. CASE Redraw
  <2>1. /\ UNCHANGED <<view, rows, world, answers, pending>> /\ todo = <<>>
        /\ (Watching' => Watching) /\ pc # "world" /\ pc' # "world"
    BY <1>18 DEF Redraw, At, Poll, Watching
  <2>2. ~Asks(todo, "x-ws") /\ ~Asks(todo, "x-who")
    BY <2>1, ShortQueues
  <2> QED
    BY <1>g, <2>1, <2>2
<1>19. CASE Keyboard
  <2>1. /\ UNCHANGED <<view, rows, world, answers, pending>> /\ todo = <<>>
        /\ (Watching' => Watching) /\ pc # "world" /\ pc' # "world"
    BY <1>19 DEF Keyboard, At, Poll, Watching
  <2>2. ~Asks(todo, "x-ws") /\ ~Asks(todo, "x-who")
    BY <2>1, ShortQueues
  <2> QED
    BY <1>g, <2>1, <2>2
<1>20. CASE UNCHANGED vars
  BY <1>g, <1>20 DEF vars, Watching
<1> QED
  BY <1>1, <1>2, <1>3, <1>4, <1>5, <1>6, <1>7, <1>8, <1>9, <1>10, <1>11, <1>12, <1>13, <1>14,
     <1>15, <1>16, <1>17, <1>18, <1>19, <1>20
     DEF Next, World, Serving, Requester, Reader, Program, Finished

\* So do the clients it knows of, and the rows it shows of them.
LEMMA FreshClientsStep ==
  ASSUME TypeOK, Place, Wire, FreshClients, [Next]_vars
  PROVE  FreshClients'
<1> USE DEF server, wire, user, call, globals, screen
<1> DEFINE T == Tells(ChangesOfClients)
<1>i. Watching => InSession
  BY DEF Watching, InSession
<1>p. pending \subseteq pending' /\ UNCHANGED answers /\ T => T'
  BY TellsMore
<1> HIDE DEF T
<1>g. ASSUME UNCHANGED <<view, rows, answers>>, world'.clients = world.clients,
             pending \subseteq pending',
             Watching' => Watching, pc = "world" => pc' = "world" \/ Asks(todo, "x-who")',
             Asks(todo, "x-ws") => Asks(todo, "x-ws")',
             Asks(todo, "x-who") => Asks(todo, "x-who")'
      PROVE  FreshClients'
  BY <1>g, <1>p DEF FreshClients, T
<1>x. ASSUME Exit PROVE FreshClients'
  BY <1>x DEF Exit, FreshClients, Watching
<1>c. ASSUME T' PROVE FreshClients'
  BY <1>c DEF FreshClients, T
<1>o. InSession /\ ~calling => OnlyPolls
  BY DEF OnlyPolls, Wire
<1>1. CASE ClientsChange
  <2>1. "CLIENT_CHANGE" \in pending'
    BY <1>1 DEF ClientsChange
  <2> QED
    BY <1>c, <2>1 DEF Tells, ChangesOfClients, T
<1>2. CASE ObjectsChange
  <2>1. UNCHANGED <<view, rows, answers, pc, todo>> /\ pending \subseteq pending'
    BY <1>2 DEF ObjectsChange
  <2>2. world'.clients = world.clients
    BY <1>2 DEF ObjectsChange, TypeOK, ValuesOK, Worlds
  <2> QED
    BY <1>g, <2>1, <2>2 DEF Watching
<1>3. CASE CommandQueued
  <2>1. UNCHANGED <<view, rows, world, answers, pc, todo>> /\ pending \subseteq pending'
    BY <1>3 DEF CommandQueued
  <2> QED
    BY <1>g, <2>1 DEF Watching
<1>4. CASE WorldStep
  <2>1. UNCHANGED <<view, rows, world, answers, pc, todo>> /\ pending \subseteq pending'
    BY <1>4 DEF WorldStep
  <2> QED
    BY <1>g, <2>1 DEF Watching
<1>5. CASE UserTypes
  <2>1. UNCHANGED <<view, rows, world, answers, pc, todo>> /\ pending \subseteq pending'
    BY <1>5 DEF UserTypes
  <2> QED
    BY <1>g, <2>1 DEF Watching
<1>6. CASE Serving
  <2>0. UNCHANGED <<view, rows, pc, todo, calling>>
    BY <1>6, ServeAnswers
  <2>1. CASE ~Watching
    BY <2>0, <2>1 DEF FreshClients, Watching
  <2>2. CASE Watching
    <3>1. PICK a : AnswersWith(a) /\ Serves(a)
      BY <1>6, <2>2, <1>i, ServeAnswers, ServedInOrder DEF ServeClose, Take
    <3>2. \A i \in DOMAIN answers : answers[i].req = "x-w"
      BY <1>i, <2>2, <3>1, ServedInOrder DEF AnswersWith
    <3>3. \A i \in DOMAIN answers' : answers'[i].req = "x-w" \/ answers'[i] = a
      BY <3>1, <3>2, AppendFacts DEF AnswersWith, TypeOK, SeqsOK
    <3>4. T => T'
      BY <3>1, TellsServed DEF T
    <3>5. /\ world'.clients = world.clients
          /\ a.req = "x-ws" => a.world.clients = world'.clients
          /\ a.req = "x-who" => a.clients = world'.clients
      BY <3>1 DEF Serves, ServesFrame, ServesUnchanged, ServesCommands, ServesKey
    <3>6. \A i \in DOMAIN answers' :
            /\ answers'[i].req = "x-ws" => answers'[i].world.clients = world'.clients
            /\ answers'[i].req = "x-who" => answers'[i].clients = world'.clients
      BY <3>3, <3>5
    <3>7. /\ view.clients = world.clients \/ T \/ Asks(todo, "x-ws")
          /\ pc = "world" \/ rows = Min2(world.clients, RowsMax) \/ T \/ Asks(todo, "x-who")
      BY <2>2 DEF FreshClients, T
    <3> QED
      BY <2>0, <3>4, <3>5, <3>6, <3>7 DEF FreshClients, T
  <2> QED
    BY <2>1, <2>2
<1>7. CASE SendCommand
  <2>1. \/ Exit
        \/ UNCHANGED <<view, rows, world, answers, pending, pc, todo>>
    BY <1>7 DEF SendCommand, WriteSucceeds
  <2>2. CASE UNCHANGED <<view, rows, world, answers, pending, pc, todo>>
    BY <1>g, <2>2 DEF Watching
  <2> QED
    BY <1>x, <2>1, <2>2
<1>8. CASE Disconnect
  BY <1>8 DEF Disconnect, Exit, FreshClients, Watching
<1>9. CASE PollSent
  <2>1. UNCHANGED <<view, rows, world, answers, pc, todo>> /\ pending \subseteq pending'
    BY <1>9 DEF PollSent, WriteSucceeds
  <2> QED
    BY <1>g, <2>1 DEF Watching
<1>10. CASE PollRetried
  <2>1. UNCHANGED <<view, rows, world, answers, pc, todo>> /\ pending \subseteq pending'
    BY <1>10 DEF PollRetried, WriteFails
  <2> QED
    BY <1>g, <2>1 DEF Watching
<1>11. CASE PollAbandoned
  <2>1. CASE Exit
    BY <1>x, <2>1
  <2>2. UNCHANGED <<view, rows, world, answers, pending>>
    BY <1>11 DEF PollAbandoned, WriteFails
  <2>3. CASE NothingReceived
    <3>1. pc \in {"preview", "frame"} /\ todo = <<"x-w">>
      BY <1>11, HeadPlace DEF PollAbandoned, Requesting
    <3>2. ~Asks(todo, "x-ws") /\ ~Asks(todo, "x-who")
      BY <3>1, ShortQueues
    <3>3. (Watching' => Watching) /\ (pc' = "world" => pc = "world")
      BY <2>3, <3>1 DEF NothingReceived, Watching
    <3> QED
      BY <1>g, <2>2, <3>1, <3>2, <3>3
  <2> QED
    BY <1>11, <2>1, <2>3 DEF PollAbandoned
<1>12. CASE Receive
  <2> DEFINE a == Head(answers)
  <2>1. CASE Exit
    BY <1>x, <2>1
  <2>2. CASE a.req = Head(todo) /\ Read(a)
    <3>1. OnlyPolls'
      BY <1>12, <2>2, ReadLeavesPolls
    <3>2. /\ UNCHANGED <<world, pending>> /\ todo # <<>> /\ answers # <<>>
          /\ answers' = Tail(answers)
      BY <1>12 DEF Receive, Place
    <3>3. 1 \in DOMAIN answers /\ a = answers[1] /\ a \in Replies
      BY <3>2, TailFacts DEF TypeOK, SeqsOK
    <3>4. T => \/ T'
               \/ a.req = "x-w" /\ ~a.empty /\ a.status \intersect ChangesOfClients # {}
      BY <3>2, TellsRead DEF T
    <3>t. view.clients \in Nat /\ RowsMax \in Nat /\ (a.req = "x-who" => a.clients \in Nat)
      BY <3>3, ReplyFields DEF TypeOK, ValuesOK, Worlds
    <3> HIDE DEF a
    <3>5. ASSUME Watching', view'.clients = world.clients \/ T' \/ Asks(todo, "x-ws")',
                 \/ pc' = "world" \/ rows' = Min2(world.clients, RowsMax) \/ T'
                 \/ Asks(todo, "x-who")'
          PROVE  FreshClients'
      BY <3>1, <3>2, <3>5 DEF FreshClients, OnlyPolls, T
    <3>v. Watching =>
            /\ view.clients = world.clients \/ T \/ Asks(todo, "x-ws")
            /\ a.req = "x-ws" => a.world.clients = world.clients \/ T
            /\ a.req = "x-who" => a.clients = world.clients \/ T
            /\ pc = "world" \/ rows = Min2(world.clients, RowsMax) \/ T \/ Asks(todo, "x-who")
      BY <3>3 DEF FreshClients, T
    <3>w. ~Watching' => FreshClients'
      BY DEF FreshClients
    <3>6. CASE ClientRegistered(a)
      BY <1>x, <3>6 DEF ClientRegistered, FreshClients, Watching
    <3>7. CASE StateFetched(a)
      <4>0. pc \in {"preview", "frame"} /\ todo = <<"x-w">> /\ UNCHANGED <<view, rows>>
        BY <2>2, <3>2, <3>7, HeadPlace DEF StateFetched
      <4>1. ~Asks(todo, "x-ws") /\ ~Asks(todo, "x-who")
        BY <4>0, ShortQueues
      <4>2. CASE pc = "preview"
        BY <3>7, <4>2 DEF StateFetched, NothingReceived, FreshClients, Watching
      <4>3. CASE pc = "frame"
        <5>1. /\ view.clients = world.clients \/ T
              /\ rows = Min2(world.clients, RowsMax) \/ T
          BY <3>v, <4>1, <4>3 DEF Watching
        <5>2. CASE a.empty
          BY <3>4, <3>5, <3>w, <4>0, <5>1, <5>2
        <5>3. CASE ~a.empty
          <6>1. todo' = StatusCalls(a.status)
            BY <3>7, <4>3, <5>3 DEF StateFetched, Returned
          <6>2. a.status \intersect ChangesOfClients # {} =>
                  Asks(todo, "x-ws")' /\ Asks(todo, "x-who")'
            BY <6>1, CallsAreQueues
          <6> QED
            BY <3>4, <3>5, <3>w, <4>0, <5>1, <6>2
        <5> QED
          BY <5>2, <5>3
      <4> QED
        BY <4>0, <4>2, <4>3
    <3>8. CASE WorldStateRead(a)
      <4>1. view' = a.world /\ pc' = pc /\ a.req = "x-ws" /\ rows' = rows /\ todo' = Tail(todo)
        BY <3>8 DEF WorldStateRead, Returned
      <4>2. Asks(todo, "x-who") => Asks(todo, "x-who")'
        BY <2>2, <3>2, <4>1, AsksClientsNext
      <4>3. T => T'
        BY <3>4, <4>1
      <4>4. Watching' => Watching
        BY <4>1 DEF Watching
      <4> QED
        BY <3>v, <3>5, <3>w, <4>1, <4>2, <4>3, <4>4
    <3>9. CASE ClientsRead(a)
      <4>1. /\ rows' = Min2(view.clients, Min2(a.clients, RowsMax)) /\ a.req = "x-who"
            /\ UNCHANGED <<view, pc>>
        BY <3>9 DEF ClientsRead
      <4>2. ~Asks(todo, "x-ws")
        BY <2>2, <3>2, <4>1, AsksClientsLast
      <4>3. T => T'
        BY <3>4, <4>1
      <4>4. Watching' => Watching
        BY <4>1 DEF Watching
      <4>5. view.clients = world.clients /\ a.clients = world.clients =>
              rows' = Min2(world.clients, RowsMax)
        BY <3>t, <4>1 DEF Min2
      <4> QED
        BY <3>v, <3>5, <3>w, <4>1, <4>2, <4>3, <4>4, <4>5
    <3>10. CASE CommandsRead(a) \/ MessageRead(a) \/ KeyAnswerRead(a)
      <4>1. UNCHANGED <<view, rows, pc>> /\ a.req \in {"x-cmd-get", "x-msg", "x-key"}
        BY <3>10 DEF CommandsRead, MessageRead, KeyAnswerRead
      <4>2. Asks(todo, "x-ws") => Asks(todo, "x-ws")'
        <5>1. Asks(todo, "x-ws") => a.req = "x-key" /\ Asks(Tail(todo), "x-ws")
          BY <2>2, <3>2, <4>1, AsksWorldFirst
        <5>2. a.req = "x-key" => todo' = Tail(todo)
          BY <3>10 DEF CommandsRead, MessageRead, KeyAnswerRead, Returned
        <5> QED
          BY <5>1, <5>2
      <4>3. ~Asks(todo, "x-who")
        BY <2>2, <3>2, <4>1, AsksClientsNext
      <4>4. T => T'
        BY <3>4, <4>1
      <4>5. Watching' => Watching
        BY <4>1 DEF Watching
      <4> QED
        BY <3>v, <3>5, <3>w, <4>1, <4>2, <4>3, <4>4, <4>5
    <3> QED
      BY <2>2, <3>6, <3>7, <3>8, <3>9, <3>10 DEF Read
  <2> QED
    BY <1>12, <2>1, <2>2 DEF Receive
<1>13. CASE ReceiveFails
  BY <1>x, <1>13 DEF ReceiveFails
<1>14. CASE Connect
  BY <1>14 DEF Connect, Exit, FreshClients, Watching
<1>15. CASE Preview
  <2>1. CASE pc' = "world" /\ todo' = <<"x-ws">>
    <3>1. Asks(todo, "x-ws")' /\ pc' = "world"
      BY <2>1, ShortQueues
    <3>2. OnlyPolls /\ UNCHANGED answers
      BY <1>15, <1>o DEF Preview, At, Place, InSession
    <3> QED
      BY <3>1, <3>2 DEF FreshClients, OnlyPolls
  <2>2. CASE UNCHANGED pc
    BY <1>15, <2>2 DEF Preview, At, FreshClients, Watching
  <2> QED
    BY <1>15, <2>1, <2>2 DEF Preview
<1>16. CASE StartSimulation
  <2>1. /\ UNCHANGED <<view, rows, world, answers, pending>> /\ todo = <<>>
        /\ Watching /\ todo' = <<"x-who">>
    BY <1>16 DEF StartSimulation, At, Watching
  <2>2. ~Asks(todo, "x-ws") /\ Asks(todo, "x-who")'
    BY <2>1, ShortQueues
  <2> QED
    BY <1>g, <2>1, <2>2
<1>17. CASE LoopTop
  <2>1. /\ UNCHANGED <<view, rows, world, answers, pending>> /\ todo = <<>>
        /\ (Watching' => Watching) /\ pc # "world" /\ pc' # "world"
    BY <1>17 DEF LoopTop, At, Poll, Watching
  <2>2. ~Asks(todo, "x-ws") /\ ~Asks(todo, "x-who")
    BY <2>1, ShortQueues
  <2> QED
    BY <1>g, <2>1, <2>2
<1>18. CASE Redraw
  <2>1. /\ UNCHANGED <<view, rows, world, answers, pending>> /\ todo = <<>>
        /\ (Watching' => Watching) /\ pc # "world" /\ pc' # "world"
    BY <1>18 DEF Redraw, At, Poll, Watching
  <2>2. ~Asks(todo, "x-ws") /\ ~Asks(todo, "x-who")
    BY <2>1, ShortQueues
  <2> QED
    BY <1>g, <2>1, <2>2
<1>19. CASE Keyboard
  <2>1. /\ UNCHANGED <<view, rows, world, answers, pending>> /\ todo = <<>>
        /\ (Watching' => Watching) /\ pc # "world" /\ pc' # "world"
    BY <1>19 DEF Keyboard, At, Poll, Watching
  <2>2. ~Asks(todo, "x-ws") /\ ~Asks(todo, "x-who")
    BY <2>1, ShortQueues
  <2> QED
    BY <1>g, <2>1, <2>2
<1>20. CASE UNCHANGED vars
  BY <1>g, <1>20 DEF vars, Watching
<1> QED
  BY <1>1, <1>2, <1>3, <1>4, <1>5, <1>6, <1>7, <1>8, <1>9, <1>10, <1>11, <1>12, <1>13, <1>14,
     <1>15, <1>16, <1>17, <1>18, <1>19, <1>20
     DEF Next, World, Serving, Requester, Reader, Program, Finished

-----------------------------------------------------------------------------
(* The frame on the screen is the one fetched last.                        *)

\* The build stays what it is.
LEMMA ConfigKept ==
  ASSUME TypeOK, [Next]_vars
  PROVE  config' = config
<1> USE DEF server
<1>1. CASE ClientsChange
  BY <1>1 DEF ClientsChange
<1>2. CASE ObjectsChange
  BY <1>2 DEF ObjectsChange
<1>3. CASE CommandQueued
  BY <1>3 DEF CommandQueued
<1>4. CASE WorldStep
  BY <1>4 DEF WorldStep
<1>5. CASE UserTypes
  BY <1>5 DEF UserTypes
<1>6. CASE Serving
  BY <1>6, ServeAnswers
<1>7. CASE SendCommand
  BY <1>7 DEF SendCommand
<1>8. CASE Disconnect
  BY <1>8 DEF Disconnect
<1>9. CASE PollSent
  BY <1>9 DEF PollSent
<1>10. CASE PollRetried
  BY <1>10 DEF PollRetried
<1>11. CASE PollAbandoned
  BY <1>11 DEF PollAbandoned
<1>12. CASE Receive
  BY <1>12 DEF Receive
<1>13. CASE ReceiveFails
  BY <1>13 DEF ReceiveFails
<1>14. CASE Connect
  BY <1>14 DEF Connect, Exit, At
<1>15. CASE Preview
  BY <1>15 DEF Preview
<1>16. CASE StartSimulation
  BY <1>16 DEF StartSimulation
<1>17. CASE LoopTop
  BY <1>17 DEF LoopTop
<1>18. CASE Redraw
  BY <1>18 DEF Redraw
<1>19. CASE Keyboard
  BY <1>19 DEF Keyboard
<1>20. CASE UNCHANGED vars
  BY <1>20 DEF vars
<1> QED
  BY <1>1, <1>2, <1>3, <1>4, <1>5, <1>6, <1>7, <1>8, <1>9, <1>10, <1>11, <1>12, <1>13, <1>14,
     <1>15, <1>16, <1>17, <1>18, <1>19, <1>20
     DEF Next, World, Serving, Requester, Reader, Program, Finished

\* The message is asked for only when commands were read.
LEMMA TailAsks ==
  ASSUME Place, todo # <<>>
  PROVE  ~Asks(Tail(todo), "x-msg")
<1> USE DEF Place
<1>1. CASE pc = "fetch"
  BY <1>1, FetchTail
<1>2. CASE pc = "redraw"
  BY <1>2, StatusTail
<1>3. CASE pc \in {"register", "preview", "world", "frame", "closing"}
  <2>1. todo \in {<<"x-add-client">>, <<"x-w">>, <<"x-ws">>, <<"close">>}
    BY <1>3
  <2>2. PICK x : todo = <<x>>
    BY ONLY <2>1
  <2>3. Tail(todo) = <<>>
    BY ONLY <2>2, ShortTails
  <2>4. \A i \in DOMAIN Tail(todo) : FALSE
    BY ONLY <2>3
  <2> QED
    BY ONLY <2>4 DEF Asks
<1> QED
  BY <1>1, <1>2, <1>3, HeadPlace

\* Where the server queues no command and every client has a row, no answer of the server
\* overwrites the step that was fetched.
LEMMA NothingQueuedStep ==
  ASSUME TypeOK, Place, Wire, NothingQueued, [Next]_vars
  PROVE  NothingQueued'
<1> USE DEF server, wire, user, call, globals, screen
<1> DEFINE Quiet(a) == /\ a.req = "x-cmd-get" => a.cmds = <<>>
                       /\ a.req = "x-who" => a.clients <= RowsMax
           Msg == Asks(todo, "x-msg")
<1>u. SUFFICES ASSUME Undisturbed PROVE NothingQueued'
  BY ConfigKept DEF NothingQueued, Undisturbed
<1>q. cmds = <<>> /\ ~Msg /\ \A i \in DOMAIN answers : Quiet(answers[i])
  BY <1>u DEF NothingQueued
<1>p. ASSUME cmds' = <<>>, ~Msg', \A i \in DOMAIN answers' : Quiet(answers'[i])
      PROVE  NothingQueued'
  BY <1>p DEF NothingQueued
<1>e. ~Asks(<<>>, "x-msg") /\ ~Asks(<<"x-w">>, "x-msg") /\ ~Asks(<<"close">>, "x-msg")
      /\ ~Asks(<<"x-add-client">>, "x-msg") /\ ~Asks(<<"x-ws">>, "x-msg")
      /\ ~Asks(<<"x-who">>, "x-msg") /\ ~Asks(<<"x-key", "x-ws">>, "x-msg")
  BY ShortQueues
<1> HIDE DEF Quiet
<1>g. ASSUME UNCHANGED <<cmds, answers>>, ~Msg'
      PROVE  NothingQueued'
  BY <1>g, <1>p, <1>q
<1>m. UNCHANGED todo => ~Msg'
  BY <1>q
<1>x. todo' \in {<<>>, <<"x-w">>, <<"close">>, <<"x-add-client">>, <<"x-ws">>, <<"x-who">>,
                 <<"x-key", "x-ws">>} => ~Msg'
  BY <1>e
<1> HIDE DEF Msg
<1>1. CASE ClientsChange
  BY <1>1, <1>g, <1>m DEF ClientsChange
<1>2. CASE ObjectsChange
  BY <1>2, <1>g, <1>m DEF ObjectsChange
<1>3. CASE CommandQueued
  BY <1>3, <1>u DEF CommandQueued, Undisturbed
<1>4. CASE WorldStep
  BY <1>4, <1>g, <1>m DEF WorldStep
<1>5. CASE UserTypes
  BY <1>5, <1>g, <1>m DEF UserTypes
<1>6. CASE Serving
  <2>0. UNCHANGED todo
    BY <1>6, ServeAnswers
  <2>1. CASE ServeClose
    BY <1>g, <1>m, <2>0, <2>1 DEF ServeClose
  <2>2. CASE \E a : AnswersWith(a) /\ Serves(a)
    <3>1. PICK a : AnswersWith(a) /\ Serves(a)
      BY <2>2
    <3>2. a.req = "x-cmd-get" => a.cmds = <<>>
      BY <1>q, <3>1 DEF Serves, ServesFrame, ServesUnchanged, ServesCommands, ServesKey
    <3>3. a.req = "x-who" => a.clients = world.clients
      BY <3>1 DEF Serves, ServesFrame, ServesUnchanged, ServesCommands, ServesKey
    <3>4. world.clients \in Nat /\ config.clients \in Nat /\ RowsMax \in Nat
          /\ world.clients <= config.clients /\ config.clients <= RowsMax
      BY <1>u DEF TypeOK, ValuesOK, Worlds, Undisturbed
    <3>5. world.clients <= RowsMax
      BY <3>4
    <3>6. Quiet(a)
      BY <3>2, <3>3, <3>5 DEF Quiet
    <3>7. \A i \in DOMAIN answers' :
            (i \in DOMAIN answers /\ answers'[i] = answers[i]) \/ answers'[i] = a
      BY <3>1, AppendFacts DEF AnswersWith, TypeOK, SeqsOK
    <3>8. \A i \in DOMAIN answers' : Quiet(answers'[i])
      BY <1>q, <3>6, <3>7
    <3>9. cmds' = <<>>
      BY <1>q, <3>1 DEF Serves, ServesFrame, ServesUnchanged, ServesCommands, ServesKey
    <3> QED
      BY <1>m, <1>p, <2>0, <3>8, <3>9
  <2> QED
    BY <1>6, <2>1, <2>2, ServeAnswers
<1>7. CASE SendCommand
  <2>1. UNCHANGED <<cmds, answers>>
    BY <1>7 DEF SendCommand, WriteSucceeds, WriteFails, Exit
  <2>2. UNCHANGED todo \/ todo' \in {<<>>, <<"x-w">>, <<"close">>, <<"x-ws">>, <<"x-who">>,
                                     <<"x-key", "x-ws">>}
    BY <1>7 DEF SendCommand, WriteSucceeds, WriteFails, Exit
  <2> QED
    BY <1>g, <1>m, <1>x, <2>1, <2>2
<1>8. CASE Disconnect
  <2>1. UNCHANGED <<cmds, answers>>
    BY <1>8 DEF Disconnect, WriteSucceeds, WriteFails, Exit
  <2>2. UNCHANGED todo \/ todo' \in {<<>>, <<"x-w">>, <<"close">>, <<"x-ws">>, <<"x-who">>,
                                     <<"x-key", "x-ws">>}
    BY <1>8 DEF Disconnect, WriteSucceeds, WriteFails, Exit
  <2> QED
    BY <1>g, <1>m, <1>x, <2>1, <2>2
<1>9. CASE PollSent
  <2>1. UNCHANGED <<cmds, answers>>
    BY <1>9 DEF PollSent, WriteSucceeds
  <2>2. UNCHANGED todo \/ todo' \in {<<>>, <<"x-w">>, <<"close">>, <<"x-ws">>, <<"x-who">>,
                                     <<"x-key", "x-ws">>}
    BY <1>9 DEF PollSent, WriteSucceeds
  <2> QED
    BY <1>g, <1>m, <1>x, <2>1, <2>2
<1>10. CASE PollRetried
  <2>1. UNCHANGED <<cmds, answers>>
    BY <1>10 DEF PollRetried, WriteFails
  <2>2. UNCHANGED todo \/ todo' \in {<<>>, <<"x-w">>, <<"close">>, <<"x-ws">>, <<"x-who">>,
                                     <<"x-key", "x-ws">>}
    BY <1>10 DEF PollRetried, WriteFails
  <2> QED
    BY <1>g, <1>m, <1>x, <2>1, <2>2
<1>11. CASE PollAbandoned
  <2>1. UNCHANGED <<cmds, answers>>
    BY <1>11 DEF PollAbandoned, WriteFails, Exit, NothingReceived
  <2>2. UNCHANGED todo \/ todo' \in {<<>>, <<"x-w">>, <<"close">>, <<"x-ws">>, <<"x-who">>,
                                     <<"x-key", "x-ws">>}
    BY <1>11 DEF PollAbandoned, WriteFails, Exit, NothingReceived
  <2> QED
    BY <1>g, <1>m, <1>x, <2>1, <2>2
<1>12. CASE Receive
  <2> DEFINE a == Head(answers)
  <2>0. cmds' = <<>> /\ answers # <<>> /\ answers' = Tail(answers) /\ todo # <<>>
    BY <1>12, <1>q DEF Receive, Place
  <2>1. /\ \A i \in DOMAIN answers' : i + 1 \in DOMAIN answers /\ answers'[i] = answers[i + 1]
        /\ a = answers[1] /\ 1 \in DOMAIN answers
    BY <2>0, TailFacts DEF TypeOK, SeqsOK
  <2>2. (\A i \in DOMAIN answers' : Quiet(answers'[i])) /\ Quiet(a)
    BY <1>q, <2>1
  <2> HIDE DEF a
  <2>3. CASE Exit
    BY <1>p, <1>x, <2>0, <2>2, <2>3 DEF Exit
  <2>4. CASE a.req = Head(todo) /\ Read(a)
    <3>t. todo' = Tail(todo) => ~Msg'
      BY <2>0, TailAsks DEF Msg
    <3>1. CASE ClientRegistered(a)
      BY <1>p, <1>x, <2>0, <2>2, <3>1 DEF ClientRegistered, Returned, Exit
    <3>2. CASE StateFetched(a)
      <4>1. todo' = <<>> \/ todo' = StatusCalls(a.status)
        BY <3>2 DEF StateFetched, Returned, NothingReceived
      <4>2. ~Msg'
        BY <1>x, <4>1, CallsAreQueues DEF Msg
      <4> QED
        BY <1>p, <2>0, <2>2, <4>2
    <3>3. CASE CommandsRead(a)
      <4>1. a.cmds = <<>>
        BY <2>2, <3>3 DEF CommandsRead, Quiet
      <4>2. todo' = <<>>
        BY <3>3, <4>1 DEF CommandsRead, Returned
      <4> QED
        BY <1>p, <1>x, <2>0, <2>2, <4>2
    <3>4. CASE WorldStateRead(a) \/ ClientsRead(a) \/ MessageRead(a) \/ KeyAnswerRead(a)
      <4>1. todo' = Tail(todo)
        BY <3>4 DEF WorldStateRead, ClientsRead, MessageRead, KeyAnswerRead, Returned
      <4> QED
        BY <1>p, <2>0, <2>2, <3>t, <4>1
    <3> QED
      BY <2>4, <3>1, <3>2, <3>3, <3>4 DEF Read
  <2> QED
    BY <1>12, <2>3, <2>4 DEF Receive, a
<1>13. CASE ReceiveFails
  <2>1. UNCHANGED <<cmds, answers>>
    BY <1>13 DEF ReceiveFails, Exit
  <2>2. UNCHANGED todo \/ todo' \in {<<>>, <<"x-w">>, <<"close">>, <<"x-ws">>, <<"x-who">>,
                                     <<"x-key", "x-ws">>}
    BY <1>13 DEF ReceiveFails, Exit
  <2> QED
    BY <1>g, <1>m, <1>x, <2>1, <2>2
<1>14. CASE Connect
  <2>1. cmds' = <<>> /\ (answers' = <<>> \/ UNCHANGED answers)
    BY <1>14, <1>q DEF Connect
  <2>2. todo' \in {<<>>, <<"x-add-client">>}
    BY <1>14 DEF Connect, Exit
  <2>3. \A i \in DOMAIN answers' : Quiet(answers'[i])
    BY <1>q, <2>1
  <2> QED
    BY <1>p, <1>x, <2>1, <2>2, <2>3
<1>15. CASE Preview
  <2>1. UNCHANGED <<cmds, answers>>
    BY <1>15 DEF Preview, Poll
  <2>2. UNCHANGED todo \/ todo' \in {<<>>, <<"x-w">>, <<"close">>, <<"x-ws">>, <<"x-who">>,
                                     <<"x-key", "x-ws">>}
    BY <1>15 DEF Preview, Poll
  <2> QED
    BY <1>g, <1>m, <1>x, <2>1, <2>2
<1>16. CASE StartSimulation
  <2>1. UNCHANGED <<cmds, answers>>
    BY <1>16 DEF StartSimulation
  <2>2. UNCHANGED todo \/ todo' \in {<<>>, <<"x-w">>, <<"close">>, <<"x-ws">>, <<"x-who">>,
                                     <<"x-key", "x-ws">>}
    BY <1>16 DEF StartSimulation
  <2> QED
    BY <1>g, <1>m, <1>x, <2>1, <2>2
<1>17. CASE LoopTop
  <2>1. UNCHANGED <<cmds, answers>>
    BY <1>17 DEF LoopTop, Poll
  <2>2. UNCHANGED todo \/ todo' \in {<<>>, <<"x-w">>, <<"close">>, <<"x-ws">>, <<"x-who">>,
                                     <<"x-key", "x-ws">>}
    BY <1>17 DEF LoopTop, Poll
  <2> QED
    BY <1>g, <1>m, <1>x, <2>1, <2>2
<1>18. CASE Redraw
  BY <1>18, <1>g, <1>m DEF Redraw
<1>19. CASE Keyboard
  <2>1. UNCHANGED <<cmds, answers>>
    BY <1>19 DEF Keyboard, At
  <2>2. UNCHANGED todo \/ todo' \in {<<>>, <<"x-w">>, <<"close">>, <<"x-ws">>, <<"x-who">>,
                                     <<"x-key", "x-ws">>}
    BY <1>19 DEF Keyboard, At
  <2> QED
    BY <1>g, <1>m, <1>x, <2>1, <2>2
<1>20. CASE UNCHANGED vars
  BY <1>20, <1>g, <1>m DEF vars
<1> QED
  BY <1>1, <1>2, <1>3, <1>4, <1>5, <1>6, <1>7, <1>8, <1>9, <1>10, <1>11, <1>12, <1>13, <1>14,
     <1>15, <1>16, <1>17, <1>18, <1>19, <1>20
     DEF Next, World, Serving, Requester, Reader, Program, Finished

\* The request that is made now is one of the queue.
LEMMA HeadAsked ==
  ASSUME Place, todo # <<>>
  PROVE  Head(todo) \in {todo[i] : i \in DOMAIN todo}
<1> USE DEF Place
<1>1. PICK x, y, z : todo \in {<<x>>, <<x, y>>, <<x, y, z>>}
  <2>1. CASE pc = "fetch"
    BY <2>1 DEF FetchQueues
  <2>2. CASE pc = "redraw"
    <3>1. todo \in StatusQueues
      BY <2>2
    <3> QED
      BY ONLY todo # <<>>, <3>1 DEF StatusQueues
  <2>3. CASE pc \in {"register", "preview", "world", "frame", "closing"}
    BY <2>3
  <2> QED
    BY <2>1, <2>2, <2>3, HeadPlace
<1>2. Head(todo) = todo[1] /\ 1 \in DOMAIN todo
  BY ONLY <1>1
<1> QED
  BY ONLY <1>2

\* What is on the screen is the frame whose step run_simulation compares with, and the
\* step it compares is the fetched one.
LEMMA ShownStep ==
  ASSUME TypeOK, Place, NothingQueued, Shown, [Next]_vars
  PROVE  Shown'
<1> USE DEF server, wire, user, call, globals, screen
<1>k. config' = config
  BY ConfigKept
<1>u. SUFFICES ASSUME Undisturbed PROVE Shown'
  BY <1>k DEF Shown, Undisturbed
<1>s. /\ pc \in {"redraw", "keyboard"} => app_byte = fetched
      /\ pc = "keyboard" => shown = fetched \/ EmptyBy(fetched)
      /\ Simulating => current_step = shown \/ EmptyBy(current_step)
      /\ ~config.atari /\ pc \in {"connect", "register", "preview", "world"} =>
           current_step = NoStep
  BY <1>u DEF Shown
<1>g. ASSUME UNCHANGED <<pc, app_byte, current_step, shown, fetched>> PROVE Shown'
  BY <1>g, <1>k, <1>s DEF Shown, EmptyBy, Simulating
<1>x. ASSUME Exit PROVE Shown'
  BY <1>x DEF Exit, Shown, Simulating
<1>n. ASSUME NothingReceived, pc \in {"preview", "frame"}, UNCHANGED <<current_step, shown>>
      PROVE  Shown'
  <2>1. pc' \in {"preview", "fetch"} /\ (pc' = "preview" => pc = "preview")
        /\ (pc' = "fetch" => pc = "frame")
    BY <1>n DEF NothingReceived
  <2> QED
    BY <1>k, <1>n, <1>s, <2>1 DEF Shown, EmptyBy, Simulating
<1>1. CASE ClientsChange
  BY <1>1, <1>g DEF ClientsChange
<1>2. CASE ObjectsChange
  BY <1>2, <1>g DEF ObjectsChange
<1>3. CASE CommandQueued
  BY <1>3, <1>g DEF CommandQueued
<1>4. CASE WorldStep
  BY <1>4, <1>g DEF WorldStep
<1>5. CASE UserTypes
  BY <1>5, <1>g DEF UserTypes
<1>6. CASE Serving
  BY <1>6, <1>g, ServeAnswers
<1>7. CASE SendCommand
  BY <1>7, <1>g, <1>x DEF SendCommand
<1>8. CASE Disconnect
  <2>1. CASE Exit
    BY <1>x, <2>1
  <2>2. CASE pc' = IF config.atari THEN "connect" ELSE "done"
    BY <1>k, <2>2 DEF Shown, Simulating
  <2> QED
    BY <1>8, <2>1, <2>2 DEF Disconnect
<1>9. CASE PollSent
  BY <1>9, <1>g DEF PollSent
<1>10. CASE PollRetried
  BY <1>10, <1>g DEF PollRetried
<1>11. CASE PollAbandoned
  <2>1. pc \in {"preview", "frame"}
    BY <1>11, HeadPlace DEF PollAbandoned, Requesting
  <2> QED
    BY <1>11, <1>n, <1>x, <2>1 DEF PollAbandoned
<1>12. CASE Receive
  <2> DEFINE a == Head(answers)
  <2>0. /\ answers # <<>> /\ todo # <<>> /\ UNCHANGED <<current_step, shown>>
    BY <1>12 DEF Receive, Place
  <2>1. a = answers[1] /\ 1 \in DOMAIN answers
    BY <2>0, TailFacts DEF TypeOK, SeqsOK
  <2>2. /\ a.req = "x-cmd-get" => a.cmds = <<>>
        /\ a.req = "x-who" => a.clients <= RowsMax
    BY <1>u, <2>1 DEF NothingQueued
  <2>3. a.req = "x-who" => a.clients \in Nat
    BY <2>1, ReplyFields DEF TypeOK, SeqsOK
  <2> HIDE DEF a
  <2>4. CASE Exit
    BY <1>x, <2>4
  <2>5. CASE a.req = Head(todo) /\ Read(a)
    <3>1. CASE ClientRegistered(a)
      <4>1. pc = "register"
        BY <2>0, <2>5, <3>1, HeadPlace DEF ClientRegistered
      <4>2. Exit \/ pc' = "preview"
        BY <3>1 DEF ClientRegistered
      <4> QED
        BY <1>k, <1>s, <1>x, <2>0, <4>1, <4>2 DEF Shown, Simulating
    <3>2. CASE StateFetched(a)
      <4>1. pc \in {"preview", "frame"}
        BY <2>0, <2>5, <3>2, HeadPlace DEF StateFetched
      <4>2. CASE NothingReceived
        BY <1>n, <2>0, <4>1, <4>2
      <4>3. CASE pc = "frame" /\ pc' = "redraw" /\ app_byte' = a.step /\ fetched' = a.step
        BY <1>k, <1>s, <2>0, <4>3 DEF Shown, EmptyBy, Simulating
      <4> QED
        BY <3>2, <4>2, <4>3 DEF StateFetched
    <3>3. CASE ClientsRead(a)
      <4>1. ~(a.clients > RowsMax)
        BY <2>2, <2>3, <3>3 DEF ClientsRead
      <4>2. UNCHANGED <<pc, app_byte, fetched>>
        BY <3>3, <4>1 DEF ClientsRead
      <4> QED
        BY <1>g, <2>0, <4>2
    <3>4. CASE CommandsRead(a)
      <4>1. UNCHANGED <<pc, app_byte, fetched>>
        BY <2>2, <3>4 DEF CommandsRead
      <4> QED
        BY <1>g, <2>0, <4>1
    <3>5. CASE MessageRead(a)
      <4>1. Head(todo) = "x-msg" /\ Head(todo) \in {todo[i] : i \in DOMAIN todo}
        BY <2>0, <2>5, <3>5, HeadAsked DEF MessageRead
      <4>2. Asks(todo, "x-msg")
        BY <4>1 DEF Asks
      <4> QED
        BY <1>u, <4>2 DEF NothingQueued
    <3>6. CASE WorldStateRead(a) \/ KeyAnswerRead(a)
      <4>1. UNCHANGED <<pc, app_byte, fetched>>
        BY <3>6 DEF WorldStateRead, KeyAnswerRead
      <4> QED
        BY <1>g, <2>0, <4>1
    <3> QED
      BY <2>5, <3>1, <3>2, <3>3, <3>4, <3>5, <3>6 DEF Read
  <2> QED
    BY <1>12, <2>4, <2>5 DEF Receive, a
<1>13. CASE ReceiveFails
  BY <1>13, <1>x DEF ReceiveFails
<1>14. CASE Connect
  BY <1>14, <1>k, <1>s, <1>x DEF Connect, At, Shown, Simulating
<1>15. CASE Preview
  <2>1. pc = "preview" /\ pc' \in {"preview", "world"} /\ current_step' = current_step
    BY <1>15 DEF Preview, At
  <2> QED
    BY <1>k, <1>s, <2>1 DEF Shown, Simulating
<1>16. CASE StartSimulation
  <2>1. pc = "world" /\ pc' = "fetch" /\ shown' = NoFrame /\ current_step' = current_step
    BY <1>16 DEF StartSimulation, At
  <2> QED
    BY <1>k, <1>s, <2>1 DEF Shown, EmptyBy
<1>17. CASE LoopTop
  <2>1. pc = "fetch" /\ pc' \in {"frame", "closing"} /\ UNCHANGED <<shown, current_step>>
    BY <1>17 DEF LoopTop, At
  <2> QED
    BY <1>k, <1>s, <2>1 DEF Shown, EmptyBy, Simulating
<1>18. CASE Redraw
  <2>1. pc = "redraw" /\ pc' = "keyboard" /\ UNCHANGED <<app_byte, fetched>>
    BY <1>18 DEF Redraw, At
  <2>2. app_byte = fetched /\ (current_step = shown \/ EmptyBy(current_step))
    BY <1>s, <2>1 DEF Simulating
  <2>3. CASE app_byte # current_step /\ ShowScreen
    BY <2>1, <2>2, <2>3 DEF ShowScreen, Shown
  <2>4. CASE app_byte = current_step /\ UNCHANGED <<current_step, shown, drawn>>
    BY <1>k, <2>1, <2>2, <2>4 DEF Shown, EmptyBy
  <2> QED
    BY <1>18, <2>3, <2>4 DEF Redraw
<1>19. CASE Keyboard
  <2>1. pc = "keyboard" /\ pc' = "fetch" /\ UNCHANGED <<shown, current_step>>
    BY <1>19 DEF Keyboard, At
  <2> QED
    BY <1>k, <1>s, <2>1 DEF Shown, EmptyBy, Simulating
<1>20. CASE UNCHANGED vars
  BY <1>20, <1>g DEF vars
<1> QED
  BY <1>1, <1>2, <1>3, <1>4, <1>5, <1>6, <1>7, <1>8, <1>9, <1>10, <1>11, <1>12, <1>13, <1>14,
     <1>15, <1>16, <1>17, <1>18, <1>19, <1>20
     DEF Next, World, Serving, Requester, Reader, Program, Finished

-----------------------------------------------------------------------------
(* The invariant, and what it says.                                        *)

\* It holds before the first connection.
LEMMA InitIInv ==
  Init => IInv
<1> SUFFICES ASSUME Init PROVE IInv
  OBVIOUS
<1> USE DEF Init
<1>1. FlagsOK /\ ValuesOK /\ SeqsOK
  <2>1. FlagsOK
    BY DEF FlagsOK
  <2>2. SeqsOK
    BY EmptySeq DEF SeqsOK
  <2>3. config.clients \in Nat \ {0} /\ world.clients = 1 /\ step \in Nat
    <3>1. config.clients \in Nat \ {0} /\ world.clients = 1
      BY DEF StartWorld
    <3>2. config.steps \subseteq 0 .. 255 /\ step \in config.steps
      OBVIOUS
    <3>3. step \in Nat
      BY ONLY <3>2
    <3> QED
      BY <3>1, <3>3
  <2>4. ValuesOK
    BY <2>3 DEF ValuesOK, Worlds, StartWorld
  <2> QED
    BY <2>1, <2>2, <2>4
<1>2. Place /\ Wire /\ Own
  BY DEF Place, Places, Wire, Own, InSession
<1>3. Fresh /\ FreshClients
  BY DEF Fresh, FreshClients, Watching
<1>4. NothingQueued
  BY ShortQueues DEF NothingQueued
<1>5. Shown
  BY DEF Shown, Simulating
<1> QED
  BY <1>1, <1>2, <1>3, <1>4, <1>5 DEF IInv, TypeOK

\* Every step of the server, of the user and of the client keeps it.
LEMMA InvariantStep ==
  IInv /\ [Next]_vars => IInv'
<1> SUFFICES ASSUME IInv, [Next]_vars PROVE IInv'
  OBVIOUS
<1>1. TypeOK /\ Place /\ Wire /\ Own /\ Fresh /\ FreshClients /\ NothingQueued /\ Shown
  BY DEF IInv
<1>2. TypeOK'
  BY <1>1, FlagsStep, ValuesStep, SeqsStep DEF TypeOK
<1>3. Place' /\ Wire' /\ Own'
  BY <1>1, PlaceStep, WireStep, OwnStep
<1>4. Fresh' /\ FreshClients'
  BY <1>1, FreshStep, FreshClientsStep
<1>5. NothingQueued' /\ Shown'
  BY <1>1, NothingQueuedStep, ShownStep
<1> QED
  BY <1>2, <1>3, <1>4, <1>5 DEF IInv

\* The inductive invariant of a session: the types, what is left to ask at each place of
\* the loop, what is on the way, how old the client's picture of the world is, and what
\* became of the step that was fetched.
THEOREM SessionInvariant == Spec => []IInv
  BY InitIInv, InvariantStep, PTL DEF Spec

\* A client that awaits an answer has exactly its own request on the way: send_command
\* never puts a retried poll on the wire twice, and no reader finds the answer to another
\* request (on MS-DOS a poll that was given up may be answered later).
THEOREM AnswersAreOwn == Spec => []AnswerIsOwn
<1>1. ASSUME TypeOK, Place, Own PROVE AnswerIsOwn
  <2> SUFFICES ASSUME ~config.ignore, calling PROVE InFlight = <<Head(todo)>>
    BY DEF AnswerIsOwn
  <2> DEFINE r == Head(todo)
  <2>1. InSession
    BY <1>1, HeadPlace DEF Place, InSession
  <2>2. Alone(r)
    BY <1>1, <2>1 DEF Own
  <2>3. inbox \in Seq(Requests) /\ answers \in Seq(Replies)
    BY <1>1 DEF TypeOK, SeqsOK
  <2> HIDE DEF r
  <2>4. CASE answers = <<>> /\ Len(inbox) = 1 /\ inbox[1] = r
    <3>1. [i \in DOMAIN answers |-> answers[i].req] = <<>>
      BY ONLY <2>4
    <3>2. InFlight = inbox
      BY <2>3, <3>1, ConcatEmptySeq DEF InFlight
    <3>3. inbox = <<r>>
      BY ONLY <2>3, <2>4
    <3> QED
      BY <3>2, <3>3 DEF r
  <2>5. CASE inbox = <<>> /\ Len(answers) = 1 /\ answers[1].req = r
    <3>1. DOMAIN answers = 1 .. 1
      BY ONLY <2>3, <2>5
    <3>2. [i \in DOMAIN answers |-> answers[i].req] = <<r>>
      BY ONLY <2>5, <3>1
    <3>3. InFlight = <<r>>
      BY ONLY <2>5, <3>2, ShortConcats DEF InFlight
    <3> QED
      BY <3>3 DEF r
  <2> QED
    BY <2>2, <2>4, <2>5 DEF Alone
<1> QED
  BY <1>1, SessionInvariant, PTL DEF IInv

\* When run_simulation is about to poll, its picture of the world and its client rows are
\* what the server last changed, or a status bit that makes handle_app_status ask again is
\* pending or on its way.
THEOREM ViewStaysFresh == Spec => []ViewIsFresh
<1>1. ASSUME Fresh, FreshClients PROVE ViewIsFresh
  <2> SUFFICES ASSUME At("fetch")
               PROVE  /\ \/ view = world
                         \/ Untold \intersect {"CLIENT_CHANGE", "OBJECT_CHANGE", "FROZEN_TOGGLE"} # {}
                      /\ rows = Min2(world.clients, RowsMax) \/ "CLIENT_CHANGE" \in Untold
    BY DEF ViewIsFresh
  <2>1. pc = "fetch" /\ todo = <<>>
    BY DEF At
  <2>2. ~Asks(todo, "x-ws") /\ ~Asks(todo, "x-who")
    BY <2>1, ShortQueues
  <2>3. \A bits : Tells(bits) => Untold \intersect bits # {}
    BY DEF Tells, Untold
  <2>4. view = world \/ Tells(Changes)
    BY <1>1, <2>1, <2>2 DEF Fresh, Watching
  <2>5. rows = Min2(world.clients, RowsMax) \/ Tells(ChangesOfClients)
    BY <1>1, <2>1, <2>2 DEF FreshClients, Watching
  <2> QED
    BY <2>3, <2>4, <2>5 DEF Changes, ChangesOfClients
<1> QED
  BY <1>1, SessionInvariant, PTL DEF IInv

\* At the keyboard the frame on the screen is the one that was fetched last, though
\* run_simulation draws only when the step in app_data differs from the one it drew;
\* or none was drawn yet because the first one came with the step current_step began with.
THEOREM ScreenStaysCurrent == Spec => []ScreenIsCurrent
<1>1. Shown => ScreenIsCurrent
  BY DEF Shown, Undisturbed, ScreenIsCurrent, At, EmptyBy
<1> QED
  BY <1>1, SessionInvariant, PTL DEF IInv
=============================================================================
