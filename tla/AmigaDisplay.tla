------------------------------- MODULE AmigaDisplay -------------------------------
(***************************************************************************)
(* The display of a program from its start to its end.  On the Amiga the   *)
(* constructor of src/amiga/conio.c opens a screen with two buffers, the   *)
(* welcome screen (get_info.c) with its line editor (get_line.c) runs on   *)
(* the console in the visible buffer, then the frame loop of Screen, and   *)
(* close_all gives everything back.  The other builds only have the loop.  *)
(*                                                                         *)
(* One field of the welcome screen is modelled; what is stored and how the *)
(* program is started with it is in Setup.                                 *)
(***************************************************************************)
EXTENDS Screen, Console, FiniteSets

CONSTANTS
  StartX, Row,    \* where the field is
  MaxLen,         \* its length
  EditKey,        \* the menu's letter
  Messages,       \* key messages: [code, shift, up]
  MaxPort,        \* bound: messages waiting in the window's port
  StoredTexts     \* what the field may start with

ASSUME FieldAssumption ==
  /\ StartX \in Nat /\ MaxLen \in Nat \ {0, 1} /\ StartX + MaxLen < Columns
  /\ Row \in 1 .. Rows - 1 /\ EditKey # None
ASSUME MessageAssumption == Messages \subseteq [code : 0 .. 127, shift : BOOLEAN, up : BOOLEAN]
ASSUME PortAssumption == MaxPort \in Nat
\* What get_line has stored is printable, and fits.
ASSUME StoredAssumption ==
  \A s \in StoredTexts : s \in Seq(Range(s)) /\ Len(s) <= MaxLen /\ NewLine \notin Range(s)

VARIABLES
  stage,     \* "open", "abandon", "start", "menu", "line", "loop", "closing", "ended"
  held,      \* what close_all has to give back
  con,       \* the console
  text,      \* the field's string
  port,      \* win->UserPort
  pushed,    \* pushed_key
  meant      \* history: what the keys pressed so far ask for

setup == <<con, text, port, pushed, meant>>
dvars == <<vars, stage, held, setup>>

-----------------------------------------------------------------------------
(* Opening and closing.                                                    *)

\* amiga_screen_open looks at each group after having tried all of it.
Groups == <<{"intuition", "graphics"}, {"screen"}, {"font"}, {"sbuf0", "sbuf1"},
            {"safe_port", "display_port"}, {"window"}>>
Everything == UNION {Groups[k] : k \in 1 .. Len(Groups)}
Missing == {k \in 1 .. Len(Groups) : Groups[k] \cap held = {}}
Now == CHOOSE k \in Missing : \A n \in Missing : k <= n

Open ==
  /\ stage = "open"
  /\ \E got \in SUBSET Groups[Now] :
       /\ held' = held \cup got
       /\ stage' = IF got # Groups[Now] THEN "abandon"
                   ELSE IF held' = Everything THEN "start" ELSE "open"
       /\ con' = [con EXCEPT !.ready = (stage' = "start")]
  /\ UNCHANGED <<vars, text, port, pushed, meant>>

\* (mutant) the ports go before the buffers that reply to them
CloseOrder_PortsFirst == <<"window", "display_port", "safe_port", "sbuf1", "sbuf0", "font",
                           "screen", "intuition", "graphics">>

CloseOrder == <<"window", "sbuf1", "sbuf0", "display_port", "safe_port", "font", "screen",
                "intuition", "graphics">>
NextToClose == CloseOrder[CHOOSE k \in 1 .. Len(CloseOrder) :
                      /\ CloseOrder[k] \in held
                      /\ \A n \in 1 .. k - 1 : CloseOrder[n] \notin held]

\* close_all, when opening failed and at exit; a pending flip is awaited first.
CloseSwap ==
  /\ stage = "closing" /\ flip = "done" /\ flip' = "none" /\ cur' = Other(cur)
  /\ UNCHANGED <<flags, drawn, bar, visible, double_buffer_started, pc,
                 stage, held, setup>>

CloseAwaits == stage = "closing" /\ flip \notin {"none", "done"} /\ UNCHANGED dvars

CloseOne ==
  /\ stage \in {"abandon", "closing"} /\ flip = "none" /\ held # {}
  /\ held' = held \ {NextToClose}
  /\ UNCHANGED <<vars, stage, setup>>

\* Without a display the program goes on; nothing was left to atexit.
AllClosed ==
  /\ stage \in {"abandon", "closing"} /\ held = {}
  /\ stage' = IF stage = "abandon" THEN "start" ELSE "ended"
  /\ con' = [con EXCEPT !.ready = FALSE]
  /\ UNCHANGED <<vars, held, text, port, pushed, meant>>

-----------------------------------------------------------------------------
(* The welcome screen.                                                     *)

HasWindow == "window" \in held

\* show_header, show_server.
Welcome ==
  /\ stage = "start" /\ stage' = "menu"
  /\ \E stored \in StoredTexts :
       /\ text' = stored
       /\ con' = PutSXY(Clear(con), StartX, Row, stored)
       /\ meant' = [stage |-> "menu", text |-> stored,
                    last |-> IF Len(stored) = MaxLen THEN stored[MaxLen] ELSE Space]
  /\ UNCHANGED <<vars, held, port, pushed>>

\* What a key asks for, by what it says on it: the menu's letter empties the
\* field for a new line; there a full line takes a further character for its
\* last one.
Meaning(m, ch) ==
  CASE ch = None \/ m.stage = "loop" -> m
    [] m.stage = "menu" /\ ch = EditKey -> [m EXCEPT !.stage = "line", !.text = <<>>]
    [] m.stage = "menu" /\ ch \notin {None, EditKey} /\ m.text # <<>> -> [m EXCEPT !.stage = "loop"]
    [] m.stage = "line" /\ ch = "enter" -> [m EXCEPT !.stage = "menu"]
    [] m.stage = "line" /\ ch = "del" /\ m.text # <<>> ->
         [m EXCEPT !.text = Front(@), !.last = IF Len(m.text) = MaxLen THEN Space ELSE @]
    [] m.stage = "line" /\ IsPrint(ch) ->
         LET kept == IF Len(m.text) = MaxLen THEN Front(m.text) ELSE m.text
         IN  [m EXCEPT !.text = Append(kept, ch), !.last = IF Len(kept) = MaxLen - 1 THEN ch ELSE @]
    [] OTHER -> m

\* Intuition sends a message.  The window has no close gadget.
KeyArrives ==
  /\ stage \in {"menu", "line"} /\ HasWindow /\ Len(port) < MaxPort
  /\ \E msg \in Messages :
       /\ port' = Append(port, msg)
       /\ meant' = Meaning(meant, RawKey(msg))
  /\ UNCHANGED <<vars, stage, held, con, text, pushed>>

\* kbhit, in get_info_changes' loop: 0 for ever without a window.
KbHit ==
  /\ stage = "menu" /\ HasWindow /\ pushed = None /\ port # <<>>
  /\ pushed' = IF FromKey(port) = <<>> THEN None ELSE RawKey(Head(FromKey(port)))
  /\ port' = IF FromKey(port) = <<>> THEN <<>> ELSE Tail(FromKey(port))
  /\ UNCHANGED <<vars, stage, held, con, text, meant>>

MenuWaits == stage = "menu" /\ (port = <<>> \/ ~HasWindow) /\ pushed = None /\ UNCHANGED dvars

\* cgetc returns ch: the key kbhit has seen, or else the next of the port.
TakePushed(ch) == pushed # None /\ ch = pushed /\ pushed' = None /\ UNCHANGED port

TakeMessage(ch) ==
  /\ pushed = None /\ FromKey(port) # <<>>
  /\ ch = RawKey(Head(FromKey(port))) /\ port' = Tail(FromKey(port))
  /\ UNCHANGED pushed

\* cgetc has thrown away what is no character, and Waits.
CGetCWaits ==
  /\ stage = "line" /\ FromKey(port) = <<>>
  /\ port' = <<>>
  /\ UNCHANGED <<vars, stage, held, con, text, pushed, meant>>

\* get_input up to get_line's loop: the field is blanked but for the last
\* place, which still holds the last character of a full line.
Field(old) == [k \in 1 .. MaxLen - 1 |-> Space]
                \o (IF Len(old) = MaxLen THEN <<old[MaxLen]>> ELSE <<>>)
GetInput(c, old) == Cursor(GotoXY(PutSXY(c, StartX, Row, Field(old)), StartX, Row), TRUE)

\* The main program leaves the menu once the fields are filled.  Keys still in
\* the port are the game's.
MenuKey(ch) ==
  /\ stage = "menu" /\ TakePushed(ch)
  /\ \/ /\ ch = EditKey /\ stage' = "line"
        /\ text' = <<>> /\ con' = GetInput(con, text)
        /\ UNCHANGED <<vars, meant>>
     \/ /\ ch # EditKey /\ text = <<>> /\ UNCHANGED <<vars, stage, con, text, meant>>
  /\ UNCHANGED held

RunSimulation ==
  /\ stage = "menu" /\ pushed \notin {None, EditKey} /\ text # <<>>
  /\ stage' = "loop" /\ is_running_sim' = TRUE
  /\ con' = Clear(con) /\ text' = <<>> /\ port' = <<>> /\ pushed' = None
  /\ meant' = [stage |-> "loop", text |-> <<>>, last |-> Space]
  /\ UNCHANGED <<platform, texts, view, is_showing_info, bwc_overlay_enabled, changes,
                 suppressed, drawn, buffers, pc, held>>

-----------------------------------------------------------------------------
(* get_line, one character.                                                *)

Full == Len(text) = MaxLen
Index == IF Full THEN MaxLen - 1 ELSE Len(text)

TypeAt(c, ch) ==
  LET last == Index = MaxLen - 1
  IN  PutC(Cursor(Revers(GotoX(c, StartX + Index), last), ~last), ch)

EraseBefore(c) ==
  LET there == GotoX(c, c.x - 1)
      plain == IF Full THEN Cursor(Revers(there, FALSE), TRUE) ELSE there
  IN  GotoX(PutC(plain, Space), c.x - 1)

\* The end of get_line, clear_cursor, show_server.
LeaveLine(c) ==
  LET shown == Cursor(PutS(GotoX(Revers(Cursor(c, FALSE), FALSE), StartX), text), FALSE)
  IN  PutSXY(PutC(GotoXY(shown, 0, 0), Space), StartX, Row, text)

LineKey(ch) ==
  /\ stage = "line" /\ TakeMessage(ch)
  /\ \/ /\ IsPrint(ch)
        /\ text' = Append(IF Full THEN Front(text) ELSE text, ch)
        /\ con' = TypeAt(con, ch) /\ UNCHANGED stage
     \/ /\ ch = "del" /\ text # <<>>
        /\ text' = Front(text) /\ con' = EraseBefore(con) /\ UNCHANGED stage
     \/ /\ ch = "enter"
        /\ stage' = "menu" /\ con' = LeaveLine(con) /\ UNCHANGED text
     \/ ~IsPrint(ch) /\ ch # "enter" /\ (ch = "del" => text = <<>>) /\ UNCHANGED <<stage, con, text>>
  /\ UNCHANGED <<vars, held, meant>>

-----------------------------------------------------------------------------
(* The program.                                                            *)

DisplayInit ==
  /\ Start
  /\ stage = (IF platform.queued THEN "open" ELSE "loop")
  /\ is_running_sim = ~platform.queued
  /\ held = {} /\ con = Closed /\ text = <<>> /\ port = <<>> /\ pushed = None
  /\ meant = [stage |-> stage, text |-> <<>>, last |-> Space]

Loop == stage = "loop" /\ Next /\ UNCHANGED <<stage, held, setup>>

\* run_simulation has returned, or a call failed between two frames.
Exit ==
  /\ platform.queued /\ stage = "loop" /\ pc = "idle" /\ stage' = "closing"
  /\ is_running_sim' = FALSE
  /\ UNCHANGED <<platform, texts, view, is_showing_info, bwc_overlay_enabled, changes,
                 suppressed, drawn, buffers, pc, held, setup>>

\* Intuition goes on while close_all waits; the other builds just end.
FlipAtExit == stage = "closing" /\ FlipDone /\ UNCHANGED <<stage, held, setup>>
End == (stage = "ended" \/ (~platform.queued /\ ~is_running_sim)) /\ UNCHANGED dvars

Keys == {ch \in {pushed} \cup {RawKey(m) : m \in Messages} : ch # None}
SetupStep == \/ Welcome \/ KeyArrives \/ KbHit \/ MenuWaits \/ CGetCWaits \/ RunSimulation
          \/ \E ch \in Keys : MenuKey(ch) \/ LineKey(ch)
Close == CloseSwap \/ CloseAwaits \/ CloseOne \/ AllClosed \/ FlipAtExit

DisplayNext == Open \/ SetupStep \/ Loop \/ Exit \/ Close \/ End

DisplaySpec ==
  /\ DisplayInit /\ [][DisplayNext]_dvars
  /\ WF_dvars(Loop /\ Frame) /\ WF_dvars(Loop /\ FlipDone) /\ SF_dvars(Loop /\ FlipAsked)

-----------------------------------------------------------------------------
(* Properties.                                                             *)

\* What the row shows of a line: its characters, the last place reversed while
\* it is edited, the cursor block after them, and in the last place what an
\* earlier full line had there.
Shows(m) ==
  [k \in 1 .. MaxLen |->
     LET n == Len(m.text)
         edited == m.stage = "line"
     IN  CASE k <= n -> <<m.text[k], edited /\ k = MaxLen>>
           [] k = n + 1 /\ edited -> Block
           [] OTHER -> <<IF k = MaxLen THEN m.last ELSE Space, FALSE>>]

\* What was typed is what is shown, in the buffer on display: once no key is
\* waiting, the menu or the line the keys ask for is there, character by
\* character, and no cursor block was left behind (draw_char, cursor_draw,
\* cursor_erase, get_line, kbhit, cgetc).
TypedIsShown ==
  stage \in {"menu", "line"} /\ HasWindow /\ port = <<>> /\ pushed = None =>
    /\ stage = meant.stage /\ text = meant.text /\ cur = visible
    /\ [k \in 1 .. MaxLen |-> con.px[<<StartX + k - 1, Row>>]] = Shows(meant)
    /\ \A p \in Grid : p[2] # Row \/ p[1] \notin StartX .. StartX + MaxLen - 1 => con.px[p] = Blank

\* close_all gives everything back that was opened, wherever opening stopped:
\* a screen after its window and buffers, a buffer before the ports it replies
\* to, the libraries last, and nothing while Intuition still owes a reply.
Dependents(r) ==
  CASE r = "screen" -> {"window", "sbuf0", "sbuf1"}
    [] r \in {"safe_port", "display_port"} -> {"sbuf0", "sbuf1"}
    [] r \in {"intuition", "graphics"} -> Everything \ {"intuition", "graphics", "safe_port", "display_port"}
    [] OTHER -> {}

ReleasedInOrder ==
  [][/\ \A r \in held \ held' : Dependents(r) \cap held = {} /\ flip = "none"
     /\ stage # stage' /\ stage' \in {"start", "ended"} => held' \in {{}, Everything}
     /\ stage' = "ended" => held' = {}]_dvars
=============================================================================
