--------------------------------- MODULE Screen ---------------------------------
(***************************************************************************)
(* The info bar on a double-buffered screen: show_screen and               *)
(* amiga_show_screen_shapes of src/common/display.c, the double buffers of *)
(* the platforms, and the handlers that reset info_display_count.          *)
(*                                                                         *)
(* The bar is drawn only while info_display_count < 2, once into each      *)
(* buffer; later frames clear the playfield around it.  A buffer is        *)
(* abstracted to what its info rows show: nothing, a version of the        *)
(* world's data, the list of clients or a broadcast message that reaches   *)
(* so far down (show_clients, broadcast), or the Amiga's performance       *)
(* overlay, which is drawn over them after the buffer was handed to        *)
(* Intuition.                                                              *)
(***************************************************************************)
EXTENDS Integers

CONSTANTS
  Platforms,      \* the builds to look at
  MaxChanges      \* bound: changes of the world data and of the flags

\* buffers: 2, or 1 where there is nothing to swap
\* keeps: playfield_clr leaves the info rows (Atari, BBC)
\* queued: Intuition flips later, or refuses to (Amiga)
\* worker: status events are handled by another task (Amiga)
\* (only the queued build has the overlay; where the info rows are left, a
\* frame is shown at once and the loop itself handles the events)
ASSUME PlatformAssumption ==
  /\ Platforms \subseteq
       [buffers : {1, 2}, keeps : BOOLEAN, queued : BOOLEAN, worker : BOOLEAN]
  /\ \A p \in Platforms : p.keeps => ~p.queued /\ ~p.worker
ASSUME BoundAssumption == MaxChanges \in Nat

VARIABLES
  platform,              \* constant
  view,                  \* version of the world globals show_info prints
  is_running_sim,        \* the frame loop runs
  is_showing_info, is_showing_broadcast, is_showing_clients, bwc_overlay_enabled,
  long_list,             \* the list of clients reaches the info rows: 19 names of at most 20
  long_message,          \* broadcast_message does: 17 lines of its words
  info_display_count,
  bar,                   \* per buffer: the version its info rows show, NoBar, Covered, Overlay
  cur, visible,          \* the buffer drawn into, and the one on display
  flip,                  \* "none", "asked" (swap_pending), "done" (both replies)
  double_buffer_started,
  pc,                    \* foreground: "idle", "count", "present", "overlay"
  changes,
  suppressed,            \* history: the bar was toggled under a broadcast
  overdrawn              \* history: a text was drawn over the info rows since the last reset

modes == <<platform, is_running_sim>>
texts == <<is_showing_clients, is_showing_broadcast, long_list, long_message>>
flags == <<modes, texts, view, is_showing_info, bwc_overlay_enabled, changes, suppressed>>
drawn == <<info_display_count, overdrawn>>
buffers == <<bar, cur, visible, flip, double_buffer_started>>
vars == <<flags, drawn, buffers, pc>>

NoBar == -1
Overlay == -2
Covered == -3
Buffers == 1 .. platform.buffers
Other(b) == platform.buffers + 1 - b

\* Twenty names end at row 23, above the info rows of the Amiga's 32.
Lists == IF platform.queued THEN {FALSE} ELSE BOOLEAN

\* The setup screens are drawn into the visible buffer.
Start ==
  /\ platform \in Platforms
  /\ view = 0 /\ is_showing_info = FALSE /\ is_showing_broadcast = FALSE
  /\ is_showing_clients = FALSE /\ long_list \in Lists /\ long_message = FALSE
  /\ bwc_overlay_enabled = FALSE /\ info_display_count = 0
  /\ bar = [b \in Buffers |-> NoBar] /\ visible = 1 /\ cur = 1
  /\ flip = "none" /\ double_buffer_started = FALSE /\ pc = "idle"
  /\ changes = 0 /\ suppressed = FALSE /\ overdrawn = FALSE

\* run_simulation, which asks for the list of clients.
Init == Start /\ is_running_sim = TRUE

-----------------------------------------------------------------------------
(* Handlers.  In the foreground they run between frames; the worker runs   *)
(* them at any time.                                                       *)

Change == is_running_sim /\ changes < MaxChanges /\ changes' = changes + 1
ByHandler == platform.worker \/ pc = "idle"

Reset == info_display_count' = 0 /\ overdrawn' = FALSE

\* get_world_state, and get_world_clients where the clients have changed.
World == /\ view' = view + 1 /\ long_list' \in Lists
         /\ UNCHANGED <<is_showing_clients, is_showing_broadcast, long_message>>

\* (mutant) a status event does not ask for the bar to be drawn again
StatusEvent_NoReset ==
  /\ ByHandler /\ Change /\ World
  /\ UNCHANGED <<modes, is_showing_info, bwc_overlay_enabled, suppressed, drawn, buffers, pc>>

\* The requests and the reset between them, in handle_app_status, do_command
\* and add_body.
StatusEvent ==
  /\ ByHandler /\ Change /\ World
  /\ Reset /\ suppressed' = FALSE
  /\ UNCHANGED <<modes, is_showing_info, bwc_overlay_enabled, buffers, pc>>

\* toggle_info, for the key and for server commands 7 and 8, which turn the
\* flag the other way first: it may stay what it was.
ToggleInfo ==
  /\ ByHandler /\ Change
  /\ is_showing_info' \in BOOLEAN
  /\ \/ ~is_showing_broadcast /\ Reset /\ suppressed' = FALSE
     \/ /\ is_showing_broadcast /\ UNCHANGED drawn
        /\ suppressed' = (suppressed \/ is_showing_info' # is_showing_info)
  /\ UNCHANGED <<modes, texts, view, bwc_overlay_enabled, buffers, pc>>

\* The W key and server commands 3 and 4: nothing is reset.
ToggleClients ==
  /\ ByHandler /\ Change
  /\ is_showing_clients' = ~is_showing_clients
  /\ UNCHANGED <<modes, is_showing_broadcast, long_list, long_message, view, is_showing_info,
                bwc_overlay_enabled, suppressed, drawn, buffers, pc>>

\* Server commands 5 and 6 fetch the message, then show or hide it.
Broadcast ==
  /\ ByHandler /\ Change
  /\ is_showing_broadcast' \in BOOLEAN /\ long_message' \in BOOLEAN
  /\ UNCHANGED <<modes, is_showing_clients, long_list, view, is_showing_info,
                bwc_overlay_enabled, suppressed, drawn, buffers, pc>>

\* The O key (bwc_perf_overlay_toggle) and the Q key, after a frame.
ToggleOverlay ==
  /\ platform.queued /\ pc = "idle" /\ Change
  /\ bwc_overlay_enabled' = ~bwc_overlay_enabled
  /\ UNCHANGED <<modes, texts, view, is_showing_info, suppressed, drawn, buffers, pc>>

Quit ==
  /\ is_running_sim /\ pc = "idle" /\ is_running_sim' = FALSE
  /\ UNCHANGED <<platform, texts, view, is_showing_info, bwc_overlay_enabled, changes,
                suppressed, drawn, buffers, pc>>

-----------------------------------------------------------------------------
(* A frame.                                                                *)

\* swap_buffer.
SwapBuffer ==
  ~platform.queued /\ cur' = Other(cur) /\ UNCHANGED <<flip, double_buffer_started>>

BecomesOffScreen == ~double_buffer_started \/ flip # "none"

\* (mutant) the replies to the last flip are not awaited
SwapQueued_NoWait ==
  /\ platform.queued
  /\ cur' = IF BecomesOffScreen THEN Other(cur) ELSE cur
  /\ flip' = "none" /\ double_buffer_started' = TRUE

\* On the Amiga the first frame takes the second buffer; later the buffers
\* change roles only after a flip that was asked for is done.
SwapQueued ==
  /\ platform.queued /\ flip \in {"none", "done"}
  /\ cur' = IF BecomesOffScreen THEN Other(cur) ELSE cur
  /\ flip' = "none" /\ double_buffer_started' = TRUE

BarIsDue == info_display_count < 2

\* wait_for_buffer_message.
AwaitFlip == is_running_sim /\ pc = "idle" /\ flip \notin {"none", "done"} /\ UNCHANGED vars

\* show_info prints what is known of the world.
InfoBar == IF is_showing_info THEN view ELSE NoBar

\* The border below the last line of show_clients or broadcast is at row 22
\* or further down; on the BBC, which draws them straight into the screen, the
\* playfield's rows are copied over them afterwards, the last two with them
\* when there is no bar.
TextOver ==
  /\ \/ is_showing_clients /\ long_list
     \/ is_showing_broadcast /\ long_message
  /\ platform.keeps /\ platform.buffers = 1 => is_showing_info

\* The info rows of the frame: what clearing made of them, or the texts.
InfoRows(cleared) == bar' = [bar EXCEPT ![cur'] = IF TextOver THEN Covered ELSE cleared]

FullRedraw ==
  /\ BarIsDue
  /\ InfoRows(InfoBar)
  /\ pc' = "count"

\* (mutant) the info rows are left alone everywhere
PlayfieldRedraw_Keeps ==
  /\ ~BarIsDue
  /\ InfoRows(IF is_showing_info THEN bar[cur'] ELSE NoBar)
  /\ pc' = "present"

PlayfieldRedraw ==
  /\ ~BarIsDue
  /\ InfoRows(IF platform.keeps /\ is_showing_info THEN bar[cur'] ELSE NoBar)
  /\ pc' = "present"

Draw ==
  /\ is_running_sim /\ pc = "idle" /\ (SwapBuffer \/ SwapQueued)
  /\ FullRedraw \/ PlayfieldRedraw
  /\ overdrawn' = (overdrawn \/ TextOver)
  /\ UNCHANGED <<flags, info_display_count, visible>>

CountFrame ==
  /\ pc = "count" /\ pc' = "present"
  /\ info_display_count' = info_display_count + 1
  /\ UNCHANGED <<flags, overdrawn, buffers>>

\* show_other_screen.
ShowOther ==
  /\ ~platform.queued /\ pc = "present" /\ pc' = "idle"
  /\ visible' = cur
  /\ UNCHANGED <<flags, drawn, bar, cur, flip, double_buffer_started>>

Presented == platform.queued /\ pc = "present" /\ pc' = "overlay"

FlipAsked ==
  /\ Presented /\ flip' = "asked"
  /\ UNCHANGED <<flags, drawn, bar, cur, visible, double_buffer_started>>

\* (mutant) a refused flip is awaited like an accepted one
FlipRefused_Pending ==
  /\ Presented /\ flip' = "lost"
  /\ UNCHANGED <<flags, drawn, bar, cur, visible, double_buffer_started>>

\* ChangeScreenBuffer returned 0.
FlipRefused == Presented /\ UNCHANGED <<flags, drawn, buffers>>

\* bwc_perf_overlay_draw, into the buffer just presented; its four rows
\* cover the bar's.
OverlayDraw ==
  /\ pc = "overlay" /\ pc' = "idle"
  /\ bar' = IF bwc_overlay_enabled THEN [bar EXCEPT ![cur] = Overlay] ELSE bar
  /\ UNCHANGED <<flags, drawn, cur, visible, flip, double_buffer_started>>

\* Intuition shows the buffer and sends both messages.
FlipDone ==
  /\ flip = "asked" /\ flip' = "done" /\ visible' = cur
  /\ UNCHANGED <<flags, drawn, bar, cur, double_buffer_started, pc>>

-----------------------------------------------------------------------------
Handler == StatusEvent \/ ToggleInfo \/ ToggleClients \/ Broadcast \/ ToggleOverlay \/ Quit
Frame == Draw \/ CountFrame \/ ShowOther \/ FlipAsked \/ FlipRefused \/ OverlayDraw

Next == Handler \/ Frame \/ AwaitFlip \/ FlipDone

Spec == Init /\ [][Next]_vars

\* The loop draws on, Intuition does what it accepted, and not every flip is
\* refused.
FairSpec == Spec /\ WF_vars(Frame) /\ WF_vars(FlipDone) /\ SF_vars(FlipAsked)

-----------------------------------------------------------------------------
(* Properties.                                                             *)

\* No frame is drawn into the buffer on display; the overlay may be.
DrawsOffScreen == platform.buffers = 2 /\ pc \in {"count", "present"} => cur # visible

\* Once a frame was drawn after a change, the info rows on display show the
\* world data of now, or nothing when the bar is off.  A bar switched on or off
\* under a broadcast waits for the next change, and so does one that a long
\* list or message was drawn over since the last change (show_clients,
\* broadcast, playfield_clr); a change before that has nothing left of them.
Expected == IF is_showing_info THEN view ELSE NoBar
BarIsCurrent ==
  platform.keeps /\ pc = "idle" /\ info_display_count >= 1
    => \/ bar[visible] = Expected \/ suppressed
       \/ bar[visible] = Covered /\ overdrawn

\* When nothing changes any more, the bar that was asked for comes to the display
\* and stays there where playfield_clr "clears the screen minus the info rows when
\* is_showing_info is set" (playfield_clr.s), or what was drawn over it does; where
\* it clears them all, a bar that shows old data leaves, although the worker's reset
\* may be lost, and so do the overlay, the list and the message once they are
\* switched off.
BarSettles ==
  \/ <>[]~is_running_sim
  \/ <>[](IF platform.keeps
          THEN \/ bar[visible] = Expected \/ suppressed
               \/ bar[visible] = Covered /\ overdrawn /\ (is_showing_info \/ TextOver)
          ELSE \/ bar[visible] \in {NoBar, view}
               \/ bar[visible] = Overlay /\ bwc_overlay_enabled
               \/ bar[visible] = Covered /\ TextOver)

\* No frame waits for ever for a flip.
FramesGoOn == <>[]~is_running_sim \/ ([]<>(pc = "idle") /\ []<>(pc = "present"))
=============================================================================
