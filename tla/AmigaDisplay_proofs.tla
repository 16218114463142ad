--------------------------- MODULE AmigaDisplay_proofs ---------------------------
(***************************************************************************)
(* Proofs about Screen and AmigaDisplay, for every set of builds and every *)
(* number of changes: no frame is drawn into the buffer on display, the    *)
(* info bar is the world's where the playfield's clearing leaves it alone, *)
(* close_all releases in order what opening has got, and what was typed on *)
(* the welcome screen is what is shown there.                              *)
(***************************************************************************)
EXTENDS AmigaDisplay, FiniteSetTheorems, SequenceTheorems, WellFoundedInduction, TLAPS

USE PlatformAssumption

Stages == {"open", "abandon", "start", "menu", "line", "loop", "closing", "ended"}
Places == {"idle", "count", "present", "overlay"}

TypeOK ==
  /\ platform \in Platforms /\ info_display_count \in Nat /\ view \in Int
  /\ cur \in Buffers /\ visible \in Buffers /\ bar \in [Buffers -> Int]
  /\ flip \in {"none", "asked", "done"} /\ pc \in Places

FlagsOK ==
  /\ is_showing_info \in BOOLEAN /\ suppressed \in BOOLEAN /\ overdrawn \in BOOLEAN
  /\ double_buffer_started \in BOOLEAN

-----------------------------------------------------------------------------
(* The inductive invariant.                                                *)

Drawing == pc \in {"count", "present"}

\* swap_buffer and show_other_screen: between frames one buffer is both, in a
\* frame the other one is drawn.
Swapped ==
  ~platform.queued =>
    /\ pc # "overlay" /\ flip = "none"
    /\ pc = "idle" => visible = cur
    /\ Drawing => visible = Other(cur)

\* The Amiga's buffers are one until the first frame and after every flip
\* that is done; a frame is drawn while no flip is pending.
Queued ==
  platform.queued =>
    /\ ~double_buffer_started => flip = "none" /\ cur = visible /\ pc = "idle"
    /\ flip = "done" => cur = visible
    /\ double_buffer_started /\ flip # "done" => visible = Other(cur)
    /\ Drawing => double_buffer_started /\ flip = "none"

\* What a buffer shows when nothing was drawn over its info rows, or when a text
\* was since the last reset.
Shows1(b) == bar[b] = Expected \/ (bar[b] = Covered /\ overdrawn)
ShowsAll == \A b \in Buffers : Shows1(b)

\* How many of the buffers show the bar, by the frames counted.
BarDrawn ==
  /\ pc = "count" => info_display_count < 2
  /\ platform.keeps /\ ~suppressed =>
       /\ pc = "count" => Shows1(cur) /\ (info_display_count >= 1 => ShowsAll)
       /\ pc = "present" =>
            info_display_count >= 1 /\ Shows1(cur) /\ (info_display_count >= 2 => ShowsAll)
       /\ pc = "idle" =>
            /\ info_display_count >= 1 => Shows1(cur)
            /\ info_display_count >= 2 => ShowsAll

\* What the opening has got, group by group.
Whole(k) == Groups[k] \subseteq held \/ Groups[k] \cap held = {}
Opened ==
  /\ stage \in Stages
  /\ held \subseteq Everything
  /\ stage = "open" => held # Everything /\ \A k \in 1 .. Len(Groups) : Whole(k)
  /\ stage = "ended" => held = {}

ScreenInv == TypeOK /\ FlagsOK /\ Swapped /\ Queued /\ BarDrawn
IInv == ScreenInv /\ Opened

-----------------------------------------------------------------------------
\* The builds: where the info rows are left nothing is queued and no worker runs;
\* only with two buffers is there another one.
LEMMA BuildFacts ==
  ASSUME platform \in Platforms
  PROVE  /\ platform.buffers \in {1, 2} /\ platform.keeps \in BOOLEAN
         /\ platform.queued \in BOOLEAN /\ platform.worker \in BOOLEAN
         /\ platform.keeps => ~platform.queued /\ ~platform.worker
<1>1. platform \in [buffers : {1, 2}, keeps : BOOLEAN, queued : BOOLEAN, worker : BOOLEAN]
  BY PlatformAssumption
<1> QED
  BY <1>1, PlatformAssumption

\* swap_buffer twice is where it was, and two buffers are all there are.
LEMMA OtherFacts ==
  ASSUME platform \in Platforms, NEW b \in Buffers
  PROVE  /\ Other(b) \in Buffers /\ Other(Other(b)) = b
         /\ platform.buffers = 2 => Other(b) # b
         /\ \A c \in Buffers : c = b \/ c = Other(b)
<1>1. platform.buffers \in {1, 2}
  BY BuildFacts
<1>2. b \in 1 .. platform.buffers
  BY DEF Buffers
<1>3. CASE platform.buffers = 1
  BY <1>2, <1>3 DEF Buffers, Other
<1>4. CASE platform.buffers = 2
  BY <1>2, <1>4 DEF Buffers, Other
<1> QED
  BY <1>1, <1>3, <1>4

\* The state the program starts in (Start) satisfies the invariant.
LEMMA StartInv ==
  ASSUME Start
  PROVE  ScreenInv
<1>1. platform \in Platforms /\ platform.buffers \in {1, 2}
  BY BuildFacts DEF Start
<1>2. 1 \in Buffers
  BY <1>1 DEF Buffers
<1>3. TypeOK
  <2>1. bar \in [Buffers -> Int]
    BY DEF Start, NoBar
  <2> QED
    BY <1>1, <1>2, <2>1 DEF Start, TypeOK, Places
<1>4. FlagsOK
  BY DEF Start, FlagsOK
<1>5. Swapped /\ Queued
  BY DEF Start, Swapped, Queued, Drawing
<1>6. BarDrawn
  BY DEF Start, BarDrawn
<1> QED
  BY <1>3, <1>4, <1>5, <1>6 DEF ScreenInv

-----------------------------------------------------------------------------
(* The steps of Screen.                                                    *)

\* What no handler does: touch the buffers or the frame.
LEMMA HandlerKeepsBuffers ==
  ASSUME ScreenInv, UNCHANGED <<platform, buffers, pc>>
  PROVE  Swapped' /\ Queued' /\ (platform \in Platforms)' /\ (cur \in Buffers)'
         /\ (visible \in Buffers)' /\ (bar \in [Buffers -> Int])'
         /\ (flip \in {"none", "asked", "done"})' /\ (pc \in Places)'
         /\ (double_buffer_started \in BOOLEAN)'
<1> USE DEF buffers
<1>1. Buffers' = Buffers
  BY DEF Buffers
<1>2. Other(cur)' = Other(cur) /\ Drawing' = Drawing
  BY DEF Other, Drawing
<1>3. Swapped'
  BY <1>2 DEF Swapped, ScreenInv
<1>4. Queued'
  BY <1>2 DEF Queued, ScreenInv
<1> QED
  BY <1>1, <1>3, <1>4 DEF ScreenInv, TypeOK, FlagsOK

\* A handler that asks for the bar again (info_display_count = 0).
LEMMA ResetDrawsAgain ==
  ASSUME ScreenInv, ByHandler, Reset, suppressed' = FALSE, UNCHANGED <<platform, buffers, pc>>
  PROVE  BarDrawn' /\ (info_display_count \in Nat)' /\ (suppressed \in BOOLEAN)'
         /\ (overdrawn \in BOOLEAN)'
<1>1. platform.keeps => pc = "idle"
  BY BuildFacts DEF ByHandler, ScreenInv, TypeOK
<1>2. /\ info_display_count' = 0 /\ overdrawn' = FALSE /\ suppressed' = FALSE
      /\ pc' = pc /\ platform' = platform
  BY DEF Reset
<1>3. BarDrawn'
  BY <1>1, <1>2 DEF BarDrawn
<1> QED
  BY <1>2, <1>3

\* A status event (handle_app_status and the others that read the world).
LEMMA StatusEventInv ==
  ASSUME ScreenInv, StatusEvent
  PROVE  ScreenInv'
<1>1. ByHandler /\ Reset /\ UNCHANGED <<platform, buffers, pc>> /\ view' = view + 1
      /\ suppressed' = FALSE /\ UNCHANGED <<is_showing_info>>
  BY DEF StatusEvent, World, modes
<1>2. (view \in Int)'
  BY <1>1 DEF ScreenInv, TypeOK
<1>3. (is_showing_info \in BOOLEAN)'
  BY <1>1 DEF ScreenInv, FlagsOK
<1> QED
  BY <1>1, <1>2, <1>3, HandlerKeepsBuffers, ResetDrawsAgain DEF ScreenInv, TypeOK, FlagsOK

\* What the bar depends on: a step that leaves all of it alone.
LEMMA BarStays ==
  ASSUME ScreenInv,
         UNCHANGED <<platform, buffers, pc, view, is_showing_info, suppressed,
                     info_display_count, overdrawn>>
  PROVE  ScreenInv'
<1>1. Expected' = Expected /\ Buffers' = Buffers
  BY DEF Expected, Buffers
<1>2. Shows1(cur)' = Shows1(cur) /\ ShowsAll' = ShowsAll
  BY <1>1 DEF Shows1, ShowsAll, buffers
<1>3. BarDrawn'
  BY <1>2 DEF BarDrawn, ScreenInv
<1> QED
  BY <1>3, HandlerKeepsBuffers DEF ScreenInv, TypeOK, FlagsOK

\* toggle_info: under a broadcast the bar is not asked for.
LEMMA ToggleInfoInv ==
  ASSUME ScreenInv, ToggleInfo
  PROVE  ScreenInv'
<1>1. ByHandler /\ UNCHANGED <<platform, buffers, pc, view>>
      /\ (is_showing_info \in BOOLEAN)'
  BY DEF ToggleInfo, modes
<1>2. (view \in Int)'
  BY <1>1 DEF ScreenInv, TypeOK
<1>3. CASE Reset /\ suppressed' = FALSE
  BY <1>1, <1>2, <1>3, HandlerKeepsBuffers, ResetDrawsAgain DEF ScreenInv, TypeOK, FlagsOK
<1>4. CASE /\ suppressed' = (suppressed \/ is_showing_info' # is_showing_info)
           /\ UNCHANGED <<info_display_count, overdrawn>>
  <2>1. (info_display_count \in Nat)' /\ (suppressed \in BOOLEAN)' /\ (overdrawn \in BOOLEAN)'
    BY <1>4 DEF ScreenInv, TypeOK, FlagsOK
  <2>2. CASE suppressed'
    <3>1. BarDrawn'
      BY <1>1, <1>4, <2>2 DEF BarDrawn, ScreenInv
    <3> QED
      BY <1>1, <1>2, <2>1, <3>1, HandlerKeepsBuffers DEF ScreenInv, TypeOK, FlagsOK
  <2>3. CASE ~suppressed'
    <3>1. suppressed' = suppressed /\ is_showing_info' = is_showing_info
      BY <1>4, <2>1, <2>3 DEF ScreenInv, FlagsOK
    <3> QED
      BY <1>1, <1>4, <3>1, BarStays
  <2> QED
    BY <2>2, <2>3
<1> QED
  BY <1>3, <1>4 DEF ToggleInfo, drawn

\* Broadcasts, the keys of the client list and the overlay and the quit key
\* change none of it.
LEMMA OtherHandlersInv ==
  ASSUME ScreenInv, ToggleClients \/ Broadcast \/ ToggleOverlay \/ Quit \/ AwaitFlip
  PROVE  ScreenInv'
<1>1. UNCHANGED <<platform, buffers, pc, view, is_showing_info, suppressed, info_display_count,
                  overdrawn>>
  BY DEF ToggleClients, Broadcast, ToggleOverlay, Quit, AwaitFlip, vars, flags, drawn, modes
<1> QED
  BY <1>1, BarStays

\* Where a frame is drawn: not into the buffer on display.
LEMMA DrawnInto ==
  ASSUME ScreenInv, pc = "idle", SwapBuffer \/ SwapQueued, UNCHANGED <<platform, visible>>
  PROVE  /\ cur' \in Buffers /\ visible = Other(cur') 
         /\ platform.keeps => cur' = Other(cur) /\ ~platform.queued
         /\ platform.queued => double_buffer_started' = TRUE
         /\ flip' = "none" /\ double_buffer_started' \in BOOLEAN
<1>1. platform \in Platforms /\ cur \in Buffers /\ visible \in Buffers
  BY DEF ScreenInv, TypeOK
<1>2. Other(cur) \in Buffers /\ Other(Other(cur)) = cur
  BY <1>1, OtherFacts
<1>3. platform.keeps => ~platform.queued
  BY <1>1, BuildFacts
<1>4. CASE SwapBuffer
  <2>1. visible = cur
    BY <1>4 DEF SwapBuffer, ScreenInv, Swapped
  <2> QED
    BY <1>2, <1>3, <1>4, <2>1 DEF SwapBuffer, ScreenInv, TypeOK, FlagsOK, Swapped
<1>5. CASE SwapQueued
  <2>1. CASE BecomesOffScreen
    <3>1. visible = cur
      BY <1>5, <2>1 DEF SwapQueued, BecomesOffScreen, ScreenInv, Queued
    <3> QED
      BY <1>2, <1>3, <1>5, <2>1, <3>1 DEF SwapQueued
  <2>2. CASE ~BecomesOffScreen
    <3>1. visible = Other(cur)
      BY <1>5, <2>2 DEF SwapQueued, BecomesOffScreen, ScreenInv, Queued
    <3> QED
      BY <1>1, <1>3, <1>5, <2>2, <3>1 DEF SwapQueued
  <2> QED
    BY <2>1, <2>2
<1> QED
  BY <1>4, <1>5

\* One frame is drawn: all of it while the bar is due, else around the bar.
LEMMA DrawInv ==
  ASSUME ScreenInv, Draw
  PROVE  ScreenInv'
<1>1. /\ pc = "idle" /\ UNCHANGED <<platform, view, is_showing_info, suppressed>>
      /\ UNCHANGED <<info_display_count, visible>> /\ overdrawn' = (overdrawn \/ TextOver)
  BY DEF Draw, flags, modes
<1>2. SwapBuffer \/ SwapQueued
  BY DEF Draw
<1>3. platform \in Platforms /\ cur \in Buffers /\ visible \in Buffers /\ view \in Int
      /\ info_display_count \in Nat /\ bar \in [Buffers -> Int]
  BY DEF ScreenInv, TypeOK
<1>4. /\ cur' \in Buffers /\ visible = Other(cur')
      /\ platform.keeps => cur' = Other(cur) /\ ~platform.queued
      /\ platform.queued => double_buffer_started' = TRUE
      /\ flip' = "none" /\ double_buffer_started' \in BOOLEAN
  BY <1>1, <1>2, DrawnInto
<1>5. Buffers' = Buffers /\ Expected' = Expected /\ Other(cur)' = Other(cur')
  BY <1>1 DEF Buffers, Expected, Other
<1>6. Expected \in Int /\ NoBar \in Int /\ Covered \in Int
  BY <1>3 DEF Expected, NoBar, Covered
<1>7. FlagsOK'
  BY <1>1, <1>4 DEF FlagsOK, ScreenInv
<1>8. pc' \in {"count", "present"}
  BY DEF Draw, FullRedraw, PlayfieldRedraw
<1>9. Swapped'
  BY <1>1, <1>4, <1>5, <1>8 DEF Swapped, Drawing
<1>10. Queued'
  BY <1>1, <1>4, <1>5, <1>8 DEF Queued, Drawing
<1>11. ASSUME NEW b \in Buffers, Shows1(b), bar'[b] = bar[b] PROVE Shows1(b)'
  BY <1>1, <1>5, <1>11 DEF Shows1, Covered
<1>12. ASSUME NEW rows \in Int, InfoRows(rows), rows = Expected \/ (Shows1(cur') /\ rows = bar[cur'])
       PROVE  /\ bar' \in [Buffers -> Int] /\ Shows1(cur)'
              /\ \A b \in Buffers : b # cur' => bar'[b] = bar[b]
  <2>1. bar' = [bar EXCEPT ![cur'] = IF TextOver THEN Covered ELSE rows]
    BY <1>12 DEF InfoRows
  <2>2. bar' \in [Buffers -> Int] /\ bar'[cur'] = (IF TextOver THEN Covered ELSE rows)
    BY <1>3, <1>4, <1>6, <1>12, <2>1
  <2>3. CASE TextOver
    BY <1>1, <1>3, <2>1, <2>2, <2>3 DEF Shows1, Covered
  <2>4. CASE ~TextOver
    BY <1>1, <1>3, <1>5, <1>12, <2>1, <2>2, <2>4 DEF Shows1, Covered
  <2> QED
    BY <2>3, <2>4, <2>2, <2>1, <1>3
<1>13. CASE FullRedraw
  <2>1. info_display_count < 2 /\ pc' = "count" /\ InfoRows(Expected)
    BY <1>13 DEF FullRedraw, BarIsDue, InfoBar, Expected
  <2>2. /\ bar' \in [Buffers -> Int] /\ Shows1(cur)'
        /\ \A b \in Buffers : b # cur' => bar'[b] = bar[b]
    BY <1>6, <1>12, <2>1
  <2>3. TypeOK'
    BY <1>1, <1>3, <1>4, <1>5, <1>8, <2>2 DEF TypeOK, Places
  <2>4. platform.keeps /\ ~suppressed /\ info_display_count >= 1 => ShowsAll'
    <3> SUFFICES ASSUME platform.keeps, ~suppressed, info_display_count >= 1,
                        NEW b \in Buffers
                 PROVE  Shows1(b)'
      BY <1>5 DEF ShowsAll
    <3>1. Shows1(cur)
      BY <1>1 DEF ScreenInv, BarDrawn
    <3>2. b = cur \/ b = cur'
      BY <1>3, <1>4, OtherFacts
    <3>3. CASE b = cur'
      BY <2>2, <3>3 DEF Shows1
    <3>4. CASE b # cur'
      BY <1>3, <1>11, <2>2, <3>1, <3>2, <3>4
    <3> QED
      BY <3>3, <3>4
  <2>5. BarDrawn'
    BY <1>1, <2>1, <2>2, <2>4 DEF BarDrawn
  <2> QED
    BY <1>7, <1>9, <1>10, <2>3, <2>5 DEF ScreenInv
<1>14. CASE PlayfieldRedraw
  <2> DEFINE rows == IF platform.keeps /\ is_showing_info THEN bar[cur'] ELSE NoBar
  <2>1. info_display_count >= 2 /\ pc' = "present" /\ InfoRows(rows)
    BY <1>3, <1>14 DEF PlayfieldRedraw, BarIsDue
  <2>2. rows \in Int
    BY <1>3, <1>4, <1>6
  <2>3. bar' \in [Buffers -> Int]
    <3>1. bar' = [bar EXCEPT ![cur'] = IF TextOver THEN Covered ELSE rows]
      BY <2>1 DEF InfoRows
    <3>2. (IF TextOver THEN Covered ELSE rows) \in Int
      BY <1>6, <2>2
    <3> HIDE DEF rows
    <3> QED
      BY <1>3, <1>4, <3>1, <3>2
  <2>4. TypeOK'
    BY <1>1, <1>3, <1>4, <1>5, <1>8, <2>3 DEF TypeOK, Places
  <2>5. platform.keeps /\ ~suppressed => Shows1(cur)' /\ ShowsAll'
    <3> SUFFICES ASSUME platform.keeps, ~suppressed PROVE Shows1(cur)' /\ ShowsAll'
      OBVIOUS
    <3>1. \A b \in Buffers : Shows1(b)
      BY <1>1, <2>1 DEF ScreenInv, BarDrawn, ShowsAll
    <3>2. rows = Expected \/ (Shows1(cur') /\ rows = bar[cur'])
      BY <1>4, <3>1 DEF Expected
    <3>3. Shows1(cur)' /\ \A b \in Buffers : b # cur' => bar'[b] = bar[b]
      BY <1>12, <2>1, <2>2, <3>2
    <3>4. ASSUME NEW b \in Buffers PROVE Shows1(b)'
      <4>1. CASE b = cur'
        BY <3>3, <4>1 DEF Shows1
      <4>2. CASE b # cur'
        BY <1>11, <3>1, <3>3, <4>2
      <4> QED
        BY <4>1, <4>2
    <3> QED
      BY <1>5, <3>3, <3>4 DEF ShowsAll
  <2>6. info_display_count >= 1
    BY <1>3, <2>1
  <2>7. BarDrawn'
    BY <1>1, <2>1, <2>5, <2>6 DEF BarDrawn
  <2> QED
    BY <1>7, <1>9, <1>10, <2>4, <2>7 DEF ScreenInv
<1> QED
  BY <1>13, <1>14 DEF Draw

\* A frame with the bar is counted.
LEMMA CountFrameInv ==
  ASSUME ScreenInv, CountFrame
  PROVE  ScreenInv'
<1>1. /\ pc = "count" /\ pc' = "present" /\ info_display_count' = info_display_count + 1
      /\ UNCHANGED <<platform, view, is_showing_info, suppressed, overdrawn, buffers>>
  BY DEF CountFrame, flags, drawn, modes
<1>2. Buffers' = Buffers /\ Expected' = Expected /\ Other(cur)' = Other(cur)
      /\ Drawing /\ Drawing'
  BY <1>1 DEF Buffers, Expected, Other, buffers, Drawing
<1>3. Shows1(cur)' = Shows1(cur) /\ ShowsAll' = ShowsAll
  BY <1>1, <1>2 DEF Shows1, ShowsAll, buffers
<1>4. info_display_count \in Nat
  BY DEF ScreenInv, TypeOK
<1>5. TypeOK'
  BY <1>1, <1>2, <1>4 DEF ScreenInv, TypeOK, Places, buffers
<1>6. FlagsOK'
  BY <1>1 DEF ScreenInv, FlagsOK, buffers
<1>7. Swapped' /\ Queued'
  BY <1>1, <1>2 DEF ScreenInv, Swapped, Queued, buffers
<1>8. BarDrawn'
  <2>1. info_display_count' >= 1 /\ (info_display_count' >= 2 => info_display_count >= 1)
    BY <1>1, <1>4
  <2>2. platform.keeps /\ ~suppressed =>
          Shows1(cur) /\ (info_display_count >= 1 => ShowsAll)
    BY <1>1 DEF ScreenInv, BarDrawn
  <2> QED
    BY <1>1, <1>3, <2>1, <2>2 DEF BarDrawn
<1> QED
  BY <1>5, <1>6, <1>7, <1>8 DEF ScreenInv

\* show_other_screen: what was drawn is shown.
LEMMA ShowOtherInv ==
  ASSUME ScreenInv, ShowOther
  PROVE  ScreenInv'
<1>1. /\ pc = "present" /\ pc' = "idle" /\ visible' = cur /\ ~platform.queued
      /\ UNCHANGED <<platform, view, is_showing_info, suppressed, info_display_count, overdrawn>>
      /\ UNCHANGED <<bar, cur, flip, double_buffer_started>>
  BY DEF ShowOther, flags, drawn, modes
<1>2. Buffers' = Buffers /\ Expected' = Expected
  BY <1>1 DEF Buffers, Expected
<1>3. Shows1(cur)' = Shows1(cur) /\ ShowsAll' = ShowsAll
  BY <1>1, <1>2 DEF Shows1, ShowsAll
<1>4. TypeOK'
  BY <1>1, <1>2 DEF ScreenInv, TypeOK, Places
<1>5. FlagsOK'
  BY <1>1 DEF ScreenInv, FlagsOK
<1>6. Swapped' /\ Queued'
  BY <1>1 DEF Swapped, Queued, Drawing, ScreenInv
<1>7. BarDrawn'
  BY <1>1, <1>3 DEF ScreenInv, BarDrawn
<1> QED
  BY <1>4, <1>5, <1>6, <1>7 DEF ScreenInv

\* Where a flip is queued the bar is not what is kept.
LEMMA QueuedBar ==
  ASSUME platform \in Platforms, platform.queued, pc # "count" 
  PROVE  BarDrawn
<1>1. ~platform.keeps
  BY BuildFacts
<1> QED
  BY <1>1 DEF BarDrawn

\* ChangeScreenBuffer, accepted or not, and the overlay drawn after it.
LEMMA PresentInv ==
  ASSUME ScreenInv, FlipAsked \/ FlipRefused \/ OverlayDraw
  PROVE  ScreenInv'
<1>1. platform \in Platforms /\ UNCHANGED <<platform, view, is_showing_info, suppressed,
                    info_display_count, overdrawn, cur, visible, double_buffer_started>>
  BY DEF FlipAsked, FlipRefused, OverlayDraw, flags, drawn, modes, buffers, ScreenInv, TypeOK
<1>2. Buffers' = Buffers /\ Other(cur)' = Other(cur)
  BY <1>1 DEF Buffers, Other
<1>3. platform.queued
  BY BuildFacts, <1>1 DEF FlipAsked, FlipRefused, Presented, OverlayDraw, ScreenInv, Swapped
<1>4. pc' \in {"overlay", "idle"} /\ pc \in {"present", "overlay"}
  BY DEF FlipAsked, FlipRefused, Presented, OverlayDraw
<1>5. flip' \in {"none", "asked", "done"}
  BY DEF FlipAsked, FlipRefused, OverlayDraw, buffers, ScreenInv, TypeOK
<1>6. bar' \in [Buffers -> Int]
  BY DEF FlipAsked, FlipRefused, OverlayDraw, buffers, ScreenInv, TypeOK, Overlay
<1>7. TypeOK'
  BY <1>1, <1>2, <1>4, <1>5, <1>6 DEF ScreenInv, TypeOK, Places
<1>8. FlagsOK'
  BY <1>1 DEF ScreenInv, FlagsOK
<1>9. Swapped'
  BY <1>1, <1>3 DEF Swapped
<1>10. double_buffer_started
  BY <1>3, <1>4 DEF ScreenInv, Queued
<1>11. Queued'
  <2>1. (flip' = "asked" /\ pc = "present") \/ flip' = flip
    BY DEF FlipAsked, FlipRefused, Presented, OverlayDraw, buffers
  <2>2. pc = "present" => flip = "none"
    BY <1>3 DEF ScreenInv, Queued, Drawing
  <2>3. flip' = "done" => cur = visible
    BY <1>3, <2>1 DEF ScreenInv, Queued
  <2>4. flip' # "done" => visible = Other(cur)
    BY <1>3, <1>10, <2>1, <2>2 DEF ScreenInv, Queued
  <2> QED
    BY <1>1, <1>2, <1>4, <1>10, <2>3, <2>4 DEF Queued, Drawing
<1>12. BarDrawn'
  <2>1. ~platform.keeps
    BY <1>1, <1>3, BuildFacts
  <2> QED
    BY <1>1, <1>4, <2>1 DEF BarDrawn
<1> QED
  BY <1>7, <1>8, <1>9, <1>11, <1>12 DEF ScreenInv

\* Intuition has shown the buffer.
LEMMA FlipDoneInv ==
  ASSUME ScreenInv, FlipDone
  PROVE  ScreenInv'
<1>1. /\ flip = "asked" /\ flip' = "done" /\ visible' = cur
      /\ UNCHANGED <<platform, view, is_showing_info, suppressed, info_display_count, overdrawn,
                     bar, cur, double_buffer_started, pc>>
  BY DEF FlipDone, flags, drawn, modes
<1>2. Buffers' = Buffers /\ Expected' = Expected
  BY <1>1 DEF Buffers, Expected
<1>3. TypeOK'
  BY <1>1, <1>2 DEF ScreenInv, TypeOK
<1>4. FlagsOK'
  BY <1>1 DEF ScreenInv, FlagsOK
<1>5. platform.queued /\ ~Drawing /\ double_buffer_started
  <2>1. platform.queued
    BY <1>1 DEF ScreenInv, Swapped
  <2> QED
    BY <1>1, <2>1 DEF ScreenInv, Queued
<1>6. Swapped' /\ Queued'
  BY <1>1, <1>5 DEF Swapped, Queued, Drawing
<1>7. BarDrawn'
  <2>1. Shows1(cur)' = Shows1(cur) /\ ShowsAll' = ShowsAll
    BY <1>1, <1>2 DEF Shows1, ShowsAll
  <2> QED
    BY <1>1, <2>1 DEF ScreenInv, BarDrawn
<1> QED
  BY <1>3, <1>4, <1>6, <1>7 DEF ScreenInv

\* A step of the frame loop or of a handler.
LEMMA ScreenStep ==
  ASSUME ScreenInv, Next
  PROVE  ScreenInv'
<1>1. CASE Handler
  BY <1>1, StatusEventInv, ToggleInfoInv, OtherHandlersInv DEF Handler
<1>2. CASE Frame
  BY <1>2, DrawInv, CountFrameInv, ShowOtherInv, PresentInv DEF Frame
<1>3. CASE AwaitFlip \/ FlipDone
  BY <1>3, OtherHandlersInv, FlipDoneInv
<1> QED
  BY <1>1, <1>2, <1>3 DEF Next

\* close_all takes the buffer that was shown, as the loop does.
LEMMA CloseSwapInv ==
  ASSUME ScreenInv, CloseSwap
  PROVE  ScreenInv'
<1>1. /\ flip = "done" /\ flip' = "none" /\ cur' = Other(cur)
      /\ UNCHANGED <<platform, view, is_showing_info, suppressed, info_display_count, overdrawn,
                     bar, visible, double_buffer_started, pc>>
  BY DEF CloseSwap, flags, drawn, modes
<1>2. platform.queued
  BY <1>1 DEF ScreenInv, Swapped
<1>3. ~Drawing /\ double_buffer_started /\ cur = visible
  BY <1>1, <1>2 DEF ScreenInv, Queued
<1>4. /\ platform \in Platforms /\ cur \in Buffers /\ Other(cur) \in Buffers
      /\ Other(Other(cur)) = cur
  BY OtherFacts DEF ScreenInv, TypeOK
<1>5. Buffers' = Buffers /\ Other(cur)' = Other(cur')
  BY <1>1 DEF Buffers, Other
<1>6. TypeOK'
  BY <1>1, <1>4, <1>5 DEF ScreenInv, TypeOK
<1>7. FlagsOK'
  BY <1>1 DEF ScreenInv, FlagsOK
<1>8. Swapped'
  BY <1>1, <1>2 DEF Swapped
<1>9. Queued'
  BY <1>1, <1>3, <1>4, <1>5 DEF Queued, Drawing
<1>10. BarDrawn'
  <2>1. ~platform.keeps /\ pc # "count"
    BY <1>2, <1>3, <1>4, BuildFacts DEF Drawing
  <2> QED
    BY <1>1, <2>1 DEF BarDrawn
<1> QED
  BY <1>6, <1>7, <1>8, <1>9, <1>10 DEF ScreenInv

\* The program around the loop disturbs the screen only there.
LEMMA DisplayStepInv ==
  ASSUME ScreenInv, [DisplayNext]_dvars
  PROVE  ScreenInv'
<1>1. CASE Loop
  BY <1>1, ScreenStep DEF Loop
<1>2. CASE CloseSwap
  BY <1>2, CloseSwapInv
<1>3. CASE FlipAtExit
  BY <1>3, FlipDoneInv DEF FlipAtExit
<1>4. CASE UNCHANGED <<platform, buffers, pc, view, is_showing_info, suppressed,
                       info_display_count, overdrawn>>
  BY <1>4, BarStays
<1>5. CASE Open
  BY <1>4, <1>5 DEF Open, vars, flags, drawn, modes
<1>6. CASE SetupStep
  <2>1. CASE Welcome \/ KeyArrives \/ KbHit
    BY <1>4, <2>1 DEF Welcome, KeyArrives, KbHit, vars, flags, drawn, modes
  <2>2. CASE MenuWaits \/ CGetCWaits
    BY <1>4, <2>2 DEF MenuWaits, CGetCWaits, dvars, vars, flags, drawn, modes
  <2>3. CASE RunSimulation
    BY <1>4, <2>3 DEF RunSimulation, drawn
  <2>4. ASSUME NEW ch \in Keys, MenuKey(ch) \/ LineKey(ch) PROVE ScreenInv'
    BY <1>4, <2>4 DEF MenuKey, LineKey, vars, flags, drawn, modes
  <2> QED
    BY <1>6, <2>1, <2>2, <2>3, <2>4 DEF SetupStep
<1>7. CASE Exit
  BY <1>4, <1>7 DEF Exit, drawn
<1>8. CASE CloseAwaits \/ CloseOne \/ AllClosed
  BY <1>4, <1>8 DEF CloseAwaits, CloseOne, AllClosed, dvars, vars, flags, drawn, modes
<1>9. CASE End \/ UNCHANGED dvars
  BY <1>4, <1>9 DEF End, dvars, vars, flags, drawn, modes
<1> QED
  BY <1>1, <1>2, <1>3, <1>5, <1>6, <1>7, <1>8, <1>9 DEF DisplayNext, Close

-----------------------------------------------------------------------------
(* Opening and closing.                                                    *)

\* The groups of amiga_screen_open, written out.
LEMMA GroupFacts ==
  /\ Len(Groups) = 6
  /\ Groups[1] = {"intuition", "graphics"} /\ Groups[2] = {"screen"} /\ Groups[3] = {"font"}
  /\ Groups[4] = {"sbuf0", "sbuf1"} /\ Groups[5] = {"safe_port", "display_port"}
  /\ Groups[6] = {"window"}
BY DEF Groups

\* All there is to give back.
LEMMA EverythingIs ==
  Everything = {"intuition", "graphics", "screen", "font", "sbuf0", "sbuf1",
                "safe_port", "display_port", "window"}
<1>1. 1 .. Len(Groups) = {1, 2, 3, 4, 5, 6}
  BY GroupFacts
<1>2. Everything = Groups[1] \cup Groups[2] \cup Groups[3] \cup Groups[4] \cup Groups[5] \cup Groups[6]
  BY <1>1 DEF Everything
<1> QED
  BY <1>2, GroupFacts

\* No group shares anything with another one.
LEMMA GroupsApart ==
  ASSUME NEW j \in 1 .. Len(Groups), NEW k \in 1 .. Len(Groups), j # k
  PROVE  Groups[j] \cap Groups[k] = {} /\ Groups[j] # {}
<1>1. j \in {1, 2, 3, 4, 5, 6} /\ k \in {1, 2, 3, 4, 5, 6}
  BY GroupFacts
<1> QED
  BY <1>1, GroupFacts

\* The order of close_all, written out.
LEMMA CloseOrderFacts ==
  /\ Len(CloseOrder) = 9
  /\ CloseOrder[1] = "window" /\ CloseOrder[2] = "sbuf1" /\ CloseOrder[3] = "sbuf0"
  /\ CloseOrder[4] = "display_port" /\ CloseOrder[5] = "safe_port" /\ CloseOrder[6] = "font"
  /\ CloseOrder[7] = "screen" /\ CloseOrder[8] = "intuition" /\ CloseOrder[9] = "graphics"
BY DEF CloseOrder

\* The place in that order close_all is at.
NextPlace(k) ==
  /\ CloseOrder[k] \in held
  /\ \A n \in 1 .. k - 1 : CloseOrder[n] \notin held

\* While something is held there is such a place.
LEMMA PlaceExists ==
  ASSUME held \subseteq Everything, held # {}
  PROVE  \E k \in 1 .. Len(CloseOrder) : NextPlace(k)
<1> DEFINE In(k) == CloseOrder[k] \in held
<1>1. \E k \in 1 .. 9 : In(k)
  <2>1. PICK x \in held : x \in Everything
    OBVIOUS
  <2>2. /\ {1, 2, 3, 4, 5, 6, 7, 8, 9} = 1 .. 9
        /\ \E k \in {1, 2, 3, 4, 5, 6, 7, 8, 9} : x = CloseOrder[k]
    BY <2>1, EverythingIs, CloseOrderFacts
  <2> QED
    BY <2>1, <2>2
<1>2. \A k \in 1 .. 9 : In(k) /\ (\A n \in 1 .. k - 1 : ~In(n)) => NextPlace(k)
  BY DEF NextPlace
<1> HIDE DEF In
<1>3. CASE In(1)
  BY <1>2, <1>3, CloseOrderFacts
<1>4. CASE ~In(1) /\ In(2)
  BY <1>2, <1>4, CloseOrderFacts
<1>5. CASE ~In(1) /\ ~In(2) /\ In(3)
  BY <1>2, <1>5, CloseOrderFacts
<1>6. CASE ~In(1) /\ ~In(2) /\ ~In(3) /\ In(4)
  BY <1>2, <1>6, CloseOrderFacts
<1>7. CASE ~In(1) /\ ~In(2) /\ ~In(3) /\ ~In(4) /\ In(5)
  BY <1>2, <1>7, CloseOrderFacts
<1>8. CASE ~In(1) /\ ~In(2) /\ ~In(3) /\ ~In(4) /\ ~In(5) /\ In(6)
  BY <1>2, <1>8, CloseOrderFacts
<1>9. CASE ~In(1) /\ ~In(2) /\ ~In(3) /\ ~In(4) /\ ~In(5) /\ ~In(6) /\ In(7)
  BY <1>2, <1>9, CloseOrderFacts
<1>10. CASE ~In(1) /\ ~In(2) /\ ~In(3) /\ ~In(4) /\ ~In(5) /\ ~In(6) /\ ~In(7) /\ In(8)
  BY <1>2, <1>10, CloseOrderFacts
<1>11. CASE ~In(1) /\ ~In(2) /\ ~In(3) /\ ~In(4) /\ ~In(5) /\ ~In(6) /\ ~In(7) /\ ~In(8) /\ In(9)
  BY <1>2, <1>11, CloseOrderFacts
<1> QED
  BY <1>1, <1>3, <1>4, <1>5, <1>6, <1>7, <1>8, <1>9, <1>10, <1>11

\* What close_all gives back next is held, and nothing that needs it is.
LEMMA NextIsFree ==
  ASSUME held \subseteq Everything, held # {}
  PROVE  NextToClose \in held /\ Dependents(NextToClose) \cap held = {}
<1>1. PICK k \in 1 .. Len(CloseOrder) :
        /\ NextPlace(k)
        /\ NextToClose = CloseOrder[k]
  BY PlaceExists DEF NextToClose, NextPlace
<1>2. k \in {1, 2, 3, 4, 5, 6, 7, 8, 9}
  BY CloseOrderFacts
<1>3. CloseOrder[k] \in held /\ \A n \in 1 .. k - 1 : CloseOrder[n] \notin held
  BY <1>1 DEF NextPlace
<1> DEFINE r == CloseOrder[k]
<1>4. Dependents(r) \cap held = {}
  <2>1. CASE k \in {1, 2, 3, 6}
    <3>1. r \in {"window", "sbuf1", "sbuf0", "font"}
      BY <2>1, CloseOrderFacts
    <3>2. Dependents(r) = {}
      BY <3>1 DEF Dependents
    <3> QED
      BY <3>2
  <2>2. CASE k \in {4, 5}
    <3>1. r \in {"display_port", "safe_port"}
      BY <2>2, CloseOrderFacts
    <3>2. Dependents(r) = {"sbuf0", "sbuf1"}
      BY <3>1 DEF Dependents
    <3>3. 2 \in 1 .. k - 1 /\ 3 \in 1 .. k - 1
      BY <2>2
    <3>4. "sbuf1" \notin held /\ "sbuf0" \notin held
      BY <1>3, <3>3, CloseOrderFacts
    <3> QED
      BY <3>2, <3>4
  <2>3. CASE k = 7
    <3>1. Dependents(r) = {"window", "sbuf0", "sbuf1"}
      BY <2>3, CloseOrderFacts DEF Dependents
    <3>2. 1 \in 1 .. k - 1 /\ 2 \in 1 .. k - 1 /\ 3 \in 1 .. k - 1
      BY <2>3
    <3>3. "window" \notin held /\ "sbuf1" \notin held /\ "sbuf0" \notin held
      BY <1>3, <3>2, CloseOrderFacts
    <3> QED
      BY <3>1, <3>3
  <2>4. CASE k \in {8, 9}
    <3>1. r \in {"intuition", "graphics"}
      BY <2>4, CloseOrderFacts
    <3>2. Dependents(r) = Everything \ {"intuition", "graphics", "safe_port", "display_port"}
      BY <3>1 DEF Dependents
    <3>3. \A n \in {1, 2, 3, 6, 7} : n \in 1 .. k - 1
      BY <2>4
    <3>4. \A n \in {1, 2, 3, 6, 7} : CloseOrder[n] \notin held
      BY <1>3, <3>3
    <3>5. /\ "window" \notin held /\ "sbuf1" \notin held /\ "sbuf0" \notin held
          /\ "font" \notin held /\ "screen" \notin held
      BY <3>4, CloseOrderFacts
    <3> QED
      BY <3>2, <3>5, EverythingIs
  <2> QED
    BY <1>2, <2>1, <2>2, <2>3, <2>4
<1> QED
  BY <1>1, <1>3, <1>4

\* amiga_screen_open is at a group while something is missing.
LEMMA NowExists ==
  ASSUME held # Everything, held \subseteq Everything, \A k \in 1 .. Len(Groups) : Whole(k)
  PROVE  Now \in Missing
<1> DEFINE M(k) == k \in Missing
<1>1. \E k \in 1 .. 6 : M(k)
  <2>1. PICK x \in Everything : x \notin held
    OBVIOUS
  <2>2. PICK k \in 1 .. Len(Groups) : x \in Groups[k]
    BY DEF Everything
  <2>3. Groups[k] \cap held = {}
    BY <2>1, <2>2 DEF Whole
  <2> QED
    BY <2>2, <2>3, GroupFacts DEF Missing
<1>2. \A k \in Missing : k \in {1, 2, 3, 4, 5, 6}
  BY GroupFacts DEF Missing
<1>3. \E k \in Missing : \A n \in Missing : k <= n
  <2> HIDE DEF M
  <2>0. \A k : k \in Missing <=> M(k)
    BY DEF M
  <2>1. CASE M(1)
    BY <1>2, <2>0, <2>1
  <2>2. CASE ~M(1) /\ M(2)
    BY <1>2, <2>0, <2>2
  <2>3. CASE ~M(1) /\ ~M(2) /\ M(3)
    BY <1>2, <2>0, <2>3
  <2>4. CASE ~M(1) /\ ~M(2) /\ ~M(3) /\ M(4)
    BY <1>2, <2>0, <2>4
  <2>5. CASE ~M(1) /\ ~M(2) /\ ~M(3) /\ ~M(4) /\ M(5)
    BY <1>2, <2>0, <2>5
  <2>6. CASE ~M(1) /\ ~M(2) /\ ~M(3) /\ ~M(4) /\ ~M(5) /\ M(6)
    BY <1>2, <2>0, <2>6
  <2> QED
    BY <1>1, <2>1, <2>2, <2>3, <2>4, <2>5, <2>6
<1> QED
  BY <1>3 DEF Now

\* Every step keeps what was opened in order: groups are tried whole, and the
\* program only ends with nothing left.
LEMMA OpenedStep ==
  ASSUME Opened, [DisplayNext]_dvars
  PROVE  Opened'
<1>1. CASE Open
  <2>1. Now \in Missing
    BY <1>1, NowExists DEF Open, Opened
  <2>2. Now \in 1 .. Len(Groups) /\ Groups[Now] \cap held = {}
    BY <2>1 DEF Missing
  <2>3. PICK got \in SUBSET Groups[Now] :
          /\ held' = held \cup got
          /\ stage' = IF got # Groups[Now] THEN "abandon"
                      ELSE IF held' = Everything THEN "start" ELSE "open"
    BY <1>1 DEF Open
  <2>4. Groups[Now] \subseteq Everything
    BY <2>2 DEF Everything
  <2>5. held' \subseteq Everything
    BY <2>3, <2>4 DEF Opened
  <2>6. stage' = "open" => held' # Everything /\ got = Groups[Now]
    BY <2>3
  <2>7. ASSUME stage' = "open", NEW k \in 1 .. Len(Groups)
        PROVE  Groups[k] \subseteq held' \/ Groups[k] \cap held' = {}
    <3>1. CASE k = Now
      BY <2>3, <2>6, <2>7, <3>1
    <3>2. CASE k # Now
      <4>1. Groups[k] \cap Groups[Now] = {}
        BY <2>2, <3>2, GroupsApart
      <4>2. Groups[k] \subseteq held \/ Groups[k] \cap held = {}
        BY <1>1 DEF Opened, Open, Whole
      <4> QED
        BY <2>3, <4>1, <4>2
    <3> QED
      BY <3>1, <3>2
  <2>8. stage' \in {"abandon", "start", "open"}
    BY <2>3
  <2>9. stage' = "open" => \A k \in 1 .. Len(Groups) : Whole(k)'
    BY <2>7 DEF Whole, Groups
  <2> QED
    BY <2>5, <2>6, <2>8, <2>9 DEF Opened, Stages, Everything, Groups
<1>2. CASE CloseOne
  BY <1>2 DEF CloseOne, Opened, Stages, Whole, Everything, Groups
<1>3. CASE AllClosed
  BY <1>3 DEF AllClosed, Opened, Stages, Whole, Everything, Groups
<1>4. ASSUME held' = held, stage' \in Stages \ {"open", "ended"} PROVE Opened'
  BY <1>4 DEF Opened, Everything, Groups
<1>5. CASE UNCHANGED <<held, stage>>
  BY <1>5 DEF Opened, Whole, Everything, Groups
<1>6. CASE SetupStep
  <2>1. CASE Welcome \/ RunSimulation
    BY <1>4, <2>1 DEF Welcome, RunSimulation, Stages
  <2>2. CASE KeyArrives \/ KbHit \/ MenuWaits \/ CGetCWaits
    BY <1>5, <2>2 DEF KeyArrives, KbHit, MenuWaits, CGetCWaits, dvars
  <2>3. ASSUME NEW ch \in Keys, MenuKey(ch) \/ LineKey(ch) PROVE Opened'
    <3>1. held' = held /\ stage \in {"menu", "line"}
      BY <2>3 DEF MenuKey, LineKey
    <3>2. stage' \in {"menu", "line"}
      BY <2>3 DEF MenuKey, LineKey
    <3> QED
      BY <1>4, <3>1, <3>2 DEF Stages
  <2> QED
    BY <1>6, <2>1, <2>2, <2>3 DEF SetupStep
<1>7. CASE Exit
  BY <1>4, <1>7 DEF Exit, Stages, setup
<1>8. CASE Loop \/ CloseSwap \/ CloseAwaits \/ FlipAtExit \/ End \/ UNCHANGED dvars
  BY <1>5, <1>8 DEF Loop, CloseSwap, CloseAwaits, FlipAtExit, End, dvars
<1> QED
  BY <1>1, <1>2, <1>3, <1>6, <1>7, <1>8 DEF DisplayNext, Close

-----------------------------------------------------------------------------
\* The invariant of the display holds in every behaviour: from the opening of
\* the screen through the frame loop to the end of close_all.
THEOREM DisplayInvariant == DisplaySpec => []IInv
<1>1. DisplayInit => IInv
  <2> SUFFICES ASSUME DisplayInit PROVE IInv
    OBVIOUS
  <2>1. ScreenInv
    BY StartInv DEF DisplayInit
  <2>2. held = {} /\ stage \in {"open", "loop"}
    BY DEF DisplayInit
  <2>3. {} # Everything
    BY EverythingIs
  <2>4. Opened
    BY <2>2, <2>3 DEF Opened, Whole, Stages
  <2> QED
    BY <2>1, <2>4 DEF IInv
<1>2. IInv /\ [DisplayNext]_dvars => IInv'
  BY DisplayStepInv, OpenedStep DEF IInv
<1> QED
  BY <1>1, <1>2, PTL DEF DisplaySpec

\* No frame is drawn into the buffer on display (amiga_show_screen_shapes,
\* swap_buffer), at any moment Intuition may choose for its flip.
THEOREM DrawnOffScreen == DisplaySpec => []DrawsOffScreen
<1>1. IInv => DrawsOffScreen
  <2> SUFFICES ASSUME IInv, platform.buffers = 2, pc \in {"count", "present"}
               PROVE  cur # visible
    BY DEF DrawsOffScreen
  <2>1. platform \in Platforms /\ cur \in Buffers
    BY DEF IInv, ScreenInv, TypeOK
  <2>2. platform.queued \in BOOLEAN
    BY <2>1, BuildFacts
  <2>3. visible = Other(cur)
    BY <2>2 DEF IInv, ScreenInv, Swapped, Queued, Drawing
  <2> QED
    BY <2>1, <2>3, OtherFacts
<1> QED
  BY <1>1, DisplayInvariant, PTL

\* The info bar on display shows the world of now once a frame was drawn after
\* a change (show_info, info_display_count), where the clearing leaves its rows,
\* unless a long list or message was drawn over it since.
THEOREM BarStaysCurrent == DisplaySpec => []BarIsCurrent
<1>1. IInv => BarIsCurrent
  <2> SUFFICES ASSUME IInv, platform.keeps, pc = "idle", info_display_count >= 1, ~suppressed
               PROVE  bar[visible] = Expected \/ (bar[visible] = Covered /\ overdrawn)
    BY DEF BarIsCurrent
  <2>1. ~platform.queued
    BY BuildFacts DEF IInv, ScreenInv, TypeOK
  <2>2. visible = cur
    BY <2>1 DEF IInv, ScreenInv, Swapped
  <2> QED
    BY <2>2 DEF IInv, ScreenInv, BarDrawn, Shows1
<1> QED
  BY <1>1, DisplayInvariant, PTL

\* close_all gives back in order, wherever opening stopped.
THEOREM DisplayIsReleasedInOrder == DisplaySpec => ReleasedInOrder
<1> DEFINE A == /\ \A r \in held \ held' : Dependents(r) \cap held = {} /\ flip = "none"
                /\ stage # stage' /\ stage' \in {"start", "ended"} => held' \in {{}, Everything}
                /\ stage' = "ended" => held' = {}
<1>1. IInv /\ IInv' /\ [DisplayNext]_dvars => [A]_dvars
  <2> SUFFICES ASSUME IInv, IInv', DisplayNext PROVE A
    OBVIOUS
  <2>1. stage' = "ended" => held' = {}
    BY DEF IInv, Opened
  <2>2. ASSUME NEW r \in held \ held'
        PROVE  Dependents(r) \cap held = {} /\ flip = "none"
    <3>1. CASE CloseOne
      <4>1. r = NextToClose /\ flip = "none" /\ held # {} /\ held \subseteq Everything
        BY <2>2, <3>1 DEF CloseOne, IInv, Opened
      <4> QED
        BY <4>1, NextIsFree
    <3>2. CASE Open
      BY <2>2, <3>2 DEF Open
    <3>3. CASE UNCHANGED held
      BY <2>2, <3>3
    <3>4. CASE Loop \/ Exit \/ CloseSwap \/ CloseAwaits \/ AllClosed \/ FlipAtExit \/ End
      BY <3>3, <3>4 DEF Loop, Exit, CloseSwap, CloseAwaits, AllClosed, FlipAtExit, End, dvars
    <3>5. CASE SetupStep
      <4>1. ASSUME NEW ch \in Keys, MenuKey(ch) \/ LineKey(ch) PROVE UNCHANGED held
        BY <4>1 DEF MenuKey, LineKey
      <4>2. CASE Welcome \/ KeyArrives \/ KbHit \/ MenuWaits \/ CGetCWaits \/ RunSimulation
        BY <3>3, <4>2 DEF Welcome, KeyArrives, KbHit, MenuWaits, CGetCWaits, RunSimulation, dvars
      <4> QED
        BY <3>3, <3>5, <4>1, <4>2 DEF SetupStep
    <3> QED
      BY <3>1, <3>2, <3>4, <3>5 DEF DisplayNext, Close
  <2>3. ASSUME stage # stage', stage' = "start" PROVE held' \in {{}, Everything}
    <3>1. CASE Open
      <4>1. PICK got \in SUBSET Groups[Now] :
              stage' = IF got # Groups[Now] THEN "abandon"
                       ELSE IF held' = Everything THEN "start" ELSE "open"
        BY <3>1 DEF Open
      <4> QED
        BY <2>3, <4>1
    <3>2. CASE AllClosed
      BY <3>2 DEF AllClosed
    <3>3. CASE Loop \/ Exit \/ CloseSwap \/ CloseAwaits \/ CloseOne \/ FlipAtExit \/ End
      BY <2>3, <3>3 DEF Loop, Exit, CloseSwap, CloseAwaits, CloseOne, FlipAtExit, End, dvars
    <3>4. CASE SetupStep
      <4>1. ASSUME NEW ch \in Keys, MenuKey(ch) \/ LineKey(ch) PROVE stage' # "start"
        BY <4>1 DEF MenuKey, LineKey
      <4>2. CASE Welcome \/ KeyArrives \/ KbHit \/ MenuWaits \/ CGetCWaits \/ RunSimulation
        BY <2>3, <4>2 DEF Welcome, KeyArrives, KbHit, MenuWaits, CGetCWaits, RunSimulation, dvars
      <4> QED
        BY <2>3, <3>4, <4>1, <4>2 DEF SetupStep
    <3> QED
      BY <3>1, <3>2, <3>3, <3>4 DEF DisplayNext, Close
  <2> QED
    BY <2>1, <2>2, <2>3
<1>2. ReleasedInOrder <=> [][A]_dvars
  BY PTL DEF ReleasedInOrder
<1> QED
  BY <1>1, <1>2, DisplayInvariant, PTL DEF DisplaySpec

-----------------------------------------------------------------------------
(* Induction.                                                              *)

\* Natural numbers have a least one among them.
LEMMA LeastOfNaturals ==
  ASSUME NEW S \in SUBSET Nat, S # {}
  PROVE  \E d \in S : \A e \in S : d <= e
<1>1. PICK T : T = {0 .. n : n \in S}
  OBVIOUS
<1>2. ASSUME NEW n \in S PROVE 0 .. n \in FiniteSubsetsOf(Nat)
  BY FS_Interval DEF FiniteSubsetsOf
<1>3. PICK R : R = StrictSubsetOrdering(Nat)
  OBVIOUS
<1>4. PICK F : F = FiniteSubsetsOf(Nat)
  OBVIOUS
<1>5. IsWellFoundedOn(R, F)
  BY <1>3, <1>4, FS_StrictSubsetOrderingWellFounded
<1>6. T \subseteq F /\ T # {}
  BY <1>1, <1>2, <1>4
<1>7. \E x \in T : \A y \in T : ~(<<y, x>> \in R)
  BY ONLY <1>5, <1>6, WFMin
<1>8. PICK d \in S : \A y \in T : ~(<<y, 0 .. d>> \in R)
  BY <1>1, <1>7
<1>9. ASSUME NEW e \in S, e < d PROVE FALSE
  <2>1. e \in Nat /\ d \in Nat
    OBVIOUS
  <2>2. d \in 0 .. d /\ d \notin 0 .. e
    BY <1>9, <2>1
  <2>3. 0 .. e \subseteq 0 .. d /\ 0 .. e # 0 .. d
    BY <1>9, <2>1, <2>2
  <2>4. 0 .. e \in SUBSET Nat /\ 0 .. d \in SUBSET Nat
    OBVIOUS
  <2>5. <<0 .. e, 0 .. d>> \in StrictSubsetOrdering(Nat)
    BY <2>3, <2>4 DEF StrictSubsetOrdering
  <2> QED
    BY <1>1, <1>3, <1>8, <2>5
<1> QED
  BY <1>9

\* What holds of 0 and with each number of the next holds of all.
LEMMA Induction ==
  ASSUME NEW n \in Nat, NEW T, 0 \in T, \A k \in 0 .. n - 1 : k \in T => k + 1 \in T
  PROVE  \A k \in 0 .. n : k \in T
<1>1. PICK S : S = {k \in 0 .. n : k \notin T}
  OBVIOUS
<1>2. ASSUME S # {} PROVE FALSE
  <2>1. S \in SUBSET Nat
    BY <1>1
  <2>2. PICK d \in S : \A e \in S : d <= e
    BY ONLY <1>2, <2>1, LeastOfNaturals
  <2>3. d \in 0 .. n /\ d \notin T /\ d # 0
    BY <1>1
  <2>4. d - 1 \in 0 .. n - 1 /\ d - 1 \notin S /\ d - 1 + 1 = d
    BY <2>2, <2>3
  <2> QED
    BY <1>1, <2>3, <2>4
<1> QED
  BY <1>1, <1>2

-----------------------------------------------------------------------------
(* The console: what each function of conio.h does to one that stands at x, y *)
(* and shows cells.  The cursor block is on where it is to be shown, and what *)
(* is believed to be under it is there.                                       *)

\* Cells of all of the grid, and a place in it.
Placed(x, y, cell) == <<x, y>> \in Grid /\ cell = [p \in Grid |-> cell[p]]

\* The block is off.
Off(c, x, y, r, s, cell) ==
  \E at, saved :
    c = [ready |-> TRUE, x |-> x, y |-> y, rev |-> r, shown |-> s, on |-> FALSE,
         at |-> at, saved |-> saved, cell |-> cell, px |-> cell]

\* The block is on.
On(c, x, y, r, cell) ==
  c = [ready |-> TRUE, x |-> x, y |-> y, rev |-> r, shown |-> TRUE, on |-> TRUE,
       at |-> <<x, y>>, saved |-> cell[<<x, y>>], cell |-> cell,
       px |-> [cell EXCEPT ![<<x, y>>] = Block]]

Stands(c, x, y, r, s, cell) ==
  Placed(x, y, cell) /\ IF s THEN On(c, x, y, r, cell) ELSE Off(c, x, y, r, s, cell)

\* cursor_erase.
LEMMA EraseIs ==
  ASSUME NEW c, NEW x, NEW y, NEW r, NEW s \in BOOLEAN, NEW cell, Stands(c, x, y, r, s, cell)
  PROVE  Off(CursorErase(c), x, y, r, s, cell)
<1>1. CASE s = FALSE
  <2>1. Off(c, x, y, r, FALSE, cell)
    BY <1>1 DEF Stands
  <2>2. c.on = FALSE
    BY <2>1 DEF Off
  <2>3. CursorErase(c) = c
    BY <2>2 DEF CursorErase
  <2> QED
    BY <1>1, <2>1, <2>3
<1>2. CASE s = TRUE
  <2>1. Placed(x, y, cell) /\ On(c, x, y, r, cell)
    BY <1>2 DEF Stands
  <2>2. c.on /\ c.ready /\ c.at = <<x, y>> /\ c.saved = cell[<<x, y>>]
        /\ c.px = [cell EXCEPT ![<<x, y>>] = Block]
    BY <2>1 DEF On
  <2>3. [c.px EXCEPT ![<<x, y>>] = cell[<<x, y>>]] = cell
    BY <2>1, <2>2 DEF Placed
  <2>4. CursorErase(c) = [[c EXCEPT !.px = cell] EXCEPT !.on = FALSE]
    BY <2>1, <2>2, <2>3 DEF CursorErase, RenderCell, Placed
  <2> QED
    BY <1>2, <2>1, <2>4 DEF On, Off
<1> QED
  BY <1>1, <1>2

\* cursor_draw.
LEMMA DrawIs ==
  ASSUME NEW c, NEW x, NEW y, NEW r, NEW s \in BOOLEAN, NEW cell,
         Placed(x, y, cell), Off(c, x, y, r, s, cell)
  PROVE  Stands(CursorDraw(c), x, y, r, s, cell)
<1>1. CASE s = FALSE
  <2>1. Off(c, x, y, r, FALSE, cell)
    BY <1>1
  <2>2. c.shown = FALSE
    BY <2>1 DEF Off
  <2>3. CursorDraw(c) = c
    BY <2>2 DEF CursorDraw
  <2> QED
    BY <1>1, <2>1, <2>3 DEF Stands
<1>2. CASE s = TRUE
  <2>1. c.shown /\ c.ready /\ ~c.on /\ Here(c) = <<x, y>> /\ c.cell = cell /\ c.px = cell
    BY <1>2 DEF Off, Here
  <2>2. CursorDraw(c) = [c EXCEPT !.at = <<x, y>>, !.saved = cell[<<x, y>>],
                                  !.px[<<x, y>>] = Block, !.on = TRUE]
    BY <2>1 DEF CursorDraw, Placed
  <2>3. PICK at, saved :
          c = [ready |-> TRUE, x |-> x, y |-> y, rev |-> r, shown |-> TRUE, on |-> FALSE,
               at |-> at, saved |-> saved, cell |-> cell, px |-> cell]
    BY <1>2 DEF Off
  <2>4. On(CursorDraw(c), x, y, r, cell)
    BY <2>2, <2>3 DEF On
  <2> QED
    BY <1>2, <2>4 DEF Stands
<1> QED
  BY <1>1, <1>2

\* What a change of one field makes of a console with the block off.
LEMMA OffChanged ==
  ASSUME NEW c, NEW x, NEW y, NEW r, NEW s, NEW cell, Off(c, x, y, r, s, cell), NEW v, NEW w
  PROVE  /\ Off([c EXCEPT !.x = v, !.y = w], v, w, r, s, cell)
         /\ Off([c EXCEPT !.rev = v], x, y, v, s, cell)
         /\ Off([c EXCEPT !.shown = v], x, y, r, v, cell)
<1>1. PICK at, saved :
        c = [ready |-> TRUE, x |-> x, y |-> y, rev |-> r, shown |-> s, on |-> FALSE,
             at |-> at, saved |-> saved, cell |-> cell, px |-> cell]
  BY DEF Off
<1>2. Off([c EXCEPT !.x = v, !.y = w], v, w, r, s, cell)
  <2>1. PICK d : d = [c EXCEPT !.x = v, !.y = w]
    OBVIOUS
  <2>2. d = [ready |-> TRUE, x |-> v, y |-> w, rev |-> r, shown |-> s, on |-> FALSE,
             at |-> at, saved |-> saved, cell |-> cell, px |-> cell]
    BY <1>1, <2>1
  <2> QED
    BY <2>1, <2>2 DEF Off
<1>3. Off([c EXCEPT !.rev = v], x, y, v, s, cell)
  <2>1. PICK d : d = [c EXCEPT !.rev = v]
    OBVIOUS
  <2>2. d = [ready |-> TRUE, x |-> x, y |-> y, rev |-> v, shown |-> s, on |-> FALSE,
             at |-> at, saved |-> saved, cell |-> cell, px |-> cell]
    BY <1>1, <2>1
  <2> QED
    BY <2>1, <2>2 DEF Off
<1>4. Off([c EXCEPT !.shown = v], x, y, r, v, cell)
  <2>1. PICK d : d = [c EXCEPT !.shown = v]
    OBVIOUS
  <2>2. d = [ready |-> TRUE, x |-> x, y |-> y, rev |-> r, shown |-> v, on |-> FALSE,
             at |-> at, saved |-> saved, cell |-> cell, px |-> cell]
    BY <1>1, <2>1
  <2> QED
    BY <2>1, <2>2 DEF Off
<1> QED
  BY <1>2, <1>3, <1>4

\* What a console is where the block is off.
LEMMA OffFields ==
  ASSUME NEW c, NEW x, NEW y, NEW r, NEW s, NEW cell, Off(c, x, y, r, s, cell)
  PROVE  /\ c.ready = TRUE /\ c.x = x /\ c.y = y /\ c.rev = r /\ c.shown = s /\ c.cell = cell
         /\ c.px = cell /\ Here(c) = <<x, y>>
BY DEF Off, Here

\* A console that stands somewhere has all its fields.
LEMMA FieldsOf ==
  ASSUME NEW c, NEW x, NEW y, NEW r, NEW s \in BOOLEAN, NEW cell, Stands(c, x, y, r, s, cell)
  PROVE  /\ c.ready = TRUE /\ c.x = x /\ c.y = y /\ c.rev = r /\ c.cell = cell
         /\ Here(c) = <<x, y>> /\ Placed(x, y, cell)
<1>1. Placed(x, y, cell)
  BY DEF Stands
<1>2. CASE s = FALSE
  <2>1. Off(c, x, y, r, FALSE, cell)
    BY <1>2 DEF Stands
  <2> QED
    BY ONLY <1>1, <2>1, OffFields
<1>3. CASE s = TRUE
  <2>1. On(c, x, y, r, cell)
    BY <1>3 DEF Stands
  <2> QED
    BY ONLY <1>1, <2>1 DEF On, Here
<1> QED
  BY <1>2, <1>3

\* Whether the block is to be shown.
LEMMA ShownIs ==
  ASSUME NEW c, NEW x, NEW y, NEW r, NEW s \in BOOLEAN, NEW cell, Stands(c, x, y, r, s, cell)
  PROVE  c.shown = s
<1>1. CASE s = FALSE
  BY <1>1 DEF Stands, Off
<1>2. CASE s = TRUE
  <2>1. On(c, x, y, r, cell)
    BY <1>2 DEF Stands
  <2>2. c.shown = TRUE
    BY ONLY <2>1 DEF On
  <2> QED
    BY <1>2, <2>2
<1> QED
  BY <1>1, <1>2

\* gotoxy.
LEMMA GotoXYIs ==
  ASSUME NEW c, NEW x, NEW y, NEW r, NEW s \in BOOLEAN, NEW cell, Stands(c, x, y, r, s, cell),
         NEW X, NEW Y, <<X, Y>> \in Grid
  PROVE  Stands(GotoXY(c, X, Y), X, Y, r, s, cell)
<1>1. X \in 0 .. 255 /\ Y \in 0 .. 255
  BY GridAssumption DEF Grid
<1>2. X % 256 = X /\ Y % 256 = Y
  BY <1>1
<1>3. PICK e : e = CursorErase(c) /\ Off(e, x, y, r, s, cell)
  BY EraseIs
<1>4. PICK d : d = [e EXCEPT !.x = X, !.y = Y]
  OBVIOUS
<1>5. Off(d, X, Y, r, s, cell)
  BY ONLY <1>3, <1>4, OffChanged
<1>6. Placed(X, Y, cell)
  BY DEF Stands, Placed
<1>7. Stands(CursorDraw(d), X, Y, r, s, cell)
  BY <1>5, <1>6, DrawIs
<1> QED
  BY <1>2, <1>3, <1>4, <1>7 DEF GotoXY

\* gotox.
LEMMA GotoXIs ==
  ASSUME NEW c, NEW x, NEW y, NEW r, NEW s \in BOOLEAN, NEW cell, Stands(c, x, y, r, s, cell),
         NEW X, <<X, y>> \in Grid
  PROVE  Stands(GotoX(c, X), X, y, r, s, cell)
<1>1. c.y = y
  BY FieldsOf
<1> QED
  BY <1>1, GotoXYIs DEF GotoX

\* revers.
LEMMA ReversIs ==
  ASSUME NEW c, NEW x, NEW y, NEW r, NEW s \in BOOLEAN, NEW cell, Stands(c, x, y, r, s, cell),
         NEW b
  PROVE  Stands(Revers(c, b), x, y, b, s, cell)
<1>1. c.rev = r
  BY FieldsOf
<1>2. Placed(x, y, cell)
  BY FieldsOf
<1>3. CASE b = r
  BY <1>1, <1>3 DEF Revers
<1>4. CASE b # r
  <2>1. PICK e : e = CursorErase(c) /\ Off(e, x, y, r, s, cell)
    BY EraseIs
  <2>2. PICK d : d = [e EXCEPT !.rev = b]
    OBVIOUS
  <2>3. Off(d, x, y, b, s, cell)
    BY ONLY <2>1, <2>2, OffChanged
  <2>4. Stands(CursorDraw(d), x, y, b, s, cell)
    BY <1>2, <2>3, DrawIs
  <2> QED
    BY <1>1, <1>4, <2>1, <2>2, <2>4 DEF Revers
<1> QED
  BY <1>3, <1>4

\* cursor.
LEMMA CursorIs ==
  ASSUME NEW c, NEW x, NEW y, NEW r, NEW s \in BOOLEAN, NEW cell, Stands(c, x, y, r, s, cell),
         NEW b \in BOOLEAN
  PROVE  Stands(Cursor(c, b), x, y, r, b, cell)
<1>1. Placed(x, y, cell)
  BY FieldsOf
<1>2. c.shown = s
  BY ShownIs
<1>3. CASE b = s
  BY <1>2, <1>3 DEF Cursor
<1>4. CASE b = TRUE /\ s = FALSE
  <2>1. Off(c, x, y, r, FALSE, cell)
    BY <1>4 DEF Stands
  <2>2. PICK d : d = [c EXCEPT !.shown = TRUE]
    OBVIOUS
  <2>3. Off(d, x, y, r, TRUE, cell)
    BY ONLY <2>1, <2>2, OffChanged
  <2>4. Stands(CursorDraw(d), x, y, r, TRUE, cell)
    BY <1>1, <2>3, DrawIs
  <2>5. Cursor(c, TRUE) = CursorDraw(d)
    BY <1>2, <1>4, <2>2 DEF Cursor
  <2> QED
    BY <1>4, <2>4, <2>5
<1>5. CASE b = FALSE /\ s = TRUE
  <2>1. PICK e : e = CursorErase(c) /\ Off(e, x, y, r, s, cell)
    BY EraseIs
  <2>2. PICK d : d = [e EXCEPT !.shown = FALSE]
    OBVIOUS
  <2>3. Off(d, x, y, r, FALSE, cell)
    BY ONLY <2>1, <2>2, OffChanged
  <2>4. Cursor(c, FALSE) = d
    BY <1>2, <1>5, <2>1, <2>2 DEF Cursor
  <2> QED
    BY <1>1, <1>5, <2>3, <2>4 DEF Stands
<1> QED
  BY <1>3, <1>4, <1>5

\* draw_char, away from the right edge.
LEMMA DrawCharIs ==
  ASSUME NEW c, NEW x, NEW y, NEW r, NEW s, NEW cell, Off(c, x, y, r, s, cell),
         Placed(x, y, cell), x < Columns - 1, NEW ch, ch # NewLine
  PROVE  Off(DrawChar(c, ch), x + 1, y, r, s, [cell EXCEPT ![<<x, y>>] = <<ch, r>>])
<1>1. PICK at, saved :
        c = [ready |-> TRUE, x |-> x, y |-> y, rev |-> r, shown |-> s, on |-> FALSE,
             at |-> at, saved |-> saved, cell |-> cell, px |-> cell]
  BY DEF Off
<1>2. c.ready = TRUE /\ Here(c) = <<x, y>> /\ c.rev = r /\ c.x = x /\ c.px = cell /\ c.cell = cell
  BY <1>1 DEF Here
<1>3. <<x, y>> \in Grid
  BY DEF Placed
<1>4. PICK v : v = <<ch, r>>
  OBVIOUS
<1>5. PICK next : next = [cell EXCEPT ![<<x, y>>] = v]
  OBVIOUS
<1>6. PICK d : d = [RenderCell(c, Here(c), v) EXCEPT !.cell[Here(c)] = v]
  OBVIOUS
<1>7. d = [ready |-> TRUE, x |-> x, y |-> y, rev |-> r, shown |-> s, on |-> FALSE,
           at |-> at, saved |-> saved, cell |-> next, px |-> next]
  BY <1>1, <1>2, <1>3, <1>5, <1>6 DEF RenderCell
<1>8. DrawChar(c, ch) = [d EXCEPT !.x = x + 1]
  BY <1>2, <1>3, <1>4, <1>6 DEF DrawChar
<1> QED
  BY <1>4, <1>5, <1>7, <1>8 DEF Off

\* A cell that is written leaves the cells of a grid.
LEMMA PlacedAt ==
  ASSUME NEW x, NEW y, NEW cell, Placed(x, y, cell), NEW X, NEW Y, <<X, Y>> \in Grid,
         NEW p, NEW v
  PROVE  Placed(X, Y, [cell EXCEPT ![p] = v])
BY DEF Placed

\* cputc, away from the right edge.
LEMMA PutCIs ==
  ASSUME NEW c, NEW x, NEW y, NEW r, NEW s \in BOOLEAN, NEW cell, Stands(c, x, y, r, s, cell),
         x < Columns - 1, NEW ch, ch # NewLine
  PROVE  Stands(PutC(c, ch), x + 1, y, r, s, [cell EXCEPT ![<<x, y>>] = <<ch, r>>])
<1>1. Placed(x, y, cell) /\ Off(CursorErase(c), x, y, r, s, cell)
  BY EraseIs DEF Stands
<1>2. PICK next : next = [cell EXCEPT ![<<x, y>>] = <<ch, r>>]
  OBVIOUS
<1>3. PICK d : d = DrawChar(CursorErase(c), ch)
  OBVIOUS
<1>4. Off(d, x + 1, y, r, s, next)
  BY <1>1, <1>2, <1>3, DrawCharIs
<1>5. <<x + 1, y>> \in Grid
  BY <1>1, GridAssumption DEF Placed, Grid
<1>6. Placed(x + 1, y, next)
  BY <1>1, <1>2, <1>5, PlacedAt
<1>7. Stands(CursorDraw(d), x + 1, y, r, s, next)
  BY <1>4, <1>6, DrawIs
<1> QED
  BY <1>2, <1>3, <1>7 DEF PutC

\* The first n characters of a text over the cells from x on.
Written(cell, x, y, n, str, r) ==
  [p \in Grid |-> IF p[2] = y /\ p[1] \in x .. x + n - 1 THEN <<str[p[1] - x + 1], r>> ELSE cell[p]]

\* What has been drawn of a text.
Drawn(f, c, str, n) ==
  f = [k \in 0 .. n |-> IF k = 0 THEN CursorErase(c) ELSE DrawChar(f[k - 1], str[k])]

\* There is such a function.
LEMMA DrawnExists ==
  ASSUME NEW c, NEW str, NEW n \in Nat
  PROVE  \E f : Drawn(f, c, str, n)
<1>1. PICK T : T = {m \in 0 .. n : \E f : Drawn(f, c, str, m)}
  OBVIOUS
<1>2. 0 \in T
  <2>1. PICK f : f = [k \in 0 .. 0 |-> CursorErase(c)]
    OBVIOUS
  <2>2. f = [k \in 0 .. 0 |-> IF k = 0 THEN CursorErase(c) ELSE DrawChar(f[k - 1], str[k])]
    BY <2>1
  <2> QED
    BY <1>1, <2>2 DEF Drawn
<1>3. ASSUME NEW m \in 0 .. n - 1, m \in T PROVE m + 1 \in T
  <2>1. PICK f : Drawn(f, c, str, m)
    BY <1>1, <1>3
  <2>2. PICK g : g = [k \in 0 .. m + 1 |-> IF k = m + 1 THEN DrawChar(f[m], str[m + 1]) ELSE f[k]]
    OBVIOUS
  <2>3. \A k \in 0 .. m : f[k] = IF k = 0 THEN CursorErase(c) ELSE DrawChar(f[k - 1], str[k])
    BY ONLY <2>1, Zenon DEF Drawn
  <2>4. ASSUME NEW k \in 0 .. m + 1
        PROVE  g[k] = IF k = 0 THEN CursorErase(c) ELSE DrawChar(g[k - 1], str[k])
    <3>1. CASE k = m + 1
      <4>1. k # 0 /\ k - 1 = m /\ m \in 0 .. m + 1 /\ m # m + 1
        BY <3>1
      <4>2. g[k] = DrawChar(f[m], str[k]) /\ g[k - 1] = f[m]
        BY <2>2, <3>1, <4>1
      <4> QED
        BY <4>1, <4>2
    <3>2. CASE k # m + 1
      <4>1. k \in 0 .. m /\ (k # 0 => k - 1 \in 0 .. m + 1 /\ k - 1 # m + 1)
        BY <3>2
      <4>2. g[k] = f[k] /\ (k # 0 => g[k - 1] = f[k - 1])
        BY <2>2, <3>2, <4>1
      <4> QED
        BY <2>3, <4>1, <4>2
    <3> QED
      BY <3>1, <3>2
  <2>5. Drawn(g, c, str, m + 1)
    <3>1. PICK h : h = [k \in 0 .. m + 1 |->
                          IF k = 0 THEN CursorErase(c) ELSE DrawChar(g[k - 1], str[k])]
      OBVIOUS
    <3>2. g = h
      BY <2>2, <2>4, <3>1
    <3> QED
      BY <3>1, <3>2 DEF Drawn
  <2>6. m + 1 \in 0 .. n
    OBVIOUS
  <2> QED
    BY <1>1, <2>5, <2>6
<1>4. \A m \in 0 .. n - 1 : m \in T => m + 1 \in T
  BY <1>3
<1>5. \A k \in 0 .. n : k \in T
  BY ONLY n \in Nat, <1>2, <1>4, Induction
<1>6. n \in T
  BY <1>5
<1> QED
  BY <1>1, <1>6

\* What cputs draws is the text.
LEMMA DrawnIs ==
  ASSUME NEW c, NEW x, NEW y, NEW r, NEW s \in BOOLEAN, NEW cell, Stands(c, x, y, r, s, cell),
         NEW str, NEW n \in Nat, x + n <= Columns - 1, \A k \in 1 .. n : str[k] # NewLine,
         NEW f, Drawn(f, c, str, n)
  PROVE  /\ Off(f[n], x + n, y, r, s, Written(cell, x, y, n, str, r))
         /\ Placed(x + n, y, Written(cell, x, y, n, str, r))
<1> DEFINE W(k) == Written(cell, x, y, k, str, r)
<1>1. Placed(x, y, cell) /\ x \in 0 .. Columns - 1 /\ y \in 0 .. Rows - 1 /\ Columns \in Nat /\ Rows \in Nat
  BY GridAssumption DEF Stands, Placed, Grid
<1>2. PICK T : T = {m \in 0 .. n : Off(f[m], x + m, y, r, s, W(m))}
  OBVIOUS
<1>3. \A k \in 0 .. n : f[k] = IF k = 0 THEN CursorErase(c) ELSE DrawChar(f[k - 1], str[k])
  BY ONLY Drawn(f, c, str, n), Zenon DEF Drawn
<1>4. \A k \in 0 .. n : Placed(x + k, y, W(k))
  <2>1. ASSUME NEW k \in 0 .. n PROVE <<x + k, y>> \in Grid
    BY <1>1 DEF Grid
  <2>2. ASSUME NEW k \in 0 .. n PROVE W(k) = [p \in Grid |-> W(k)[p]]
    BY DEF Written
  <2> QED
    BY <2>1, <2>2 DEF Placed
<1>5. 0 \in T
  <2>1. W(0) = cell
    <3>1. x .. x + 0 - 1 = {}
      BY <1>1
    <3>2. W(0) = [p \in Grid |-> cell[p]]
      BY ONLY <3>1 DEF Written
    <3> QED
      BY <1>1, <3>2 DEF Placed
  <2>2. f[0] = CursorErase(c) /\ x + 0 = x
    BY <1>1, <1>3
  <2>3. Off(CursorErase(c), x, y, r, s, cell)
    BY EraseIs
  <2>4. Off(f[0], x + 0, y, r, s, W(0))
    BY ONLY <2>1, <2>2, <2>3
  <2> QED
    BY <1>2, <2>4
<1>6. ASSUME NEW m \in 0 .. n - 1, m \in T PROVE m + 1 \in T
  <2>1. Off(f[m], x + m, y, r, s, W(m)) /\ Placed(x + m, y, W(m))
    BY <1>2, <1>4, <1>6
  <2>2. f[m + 1] = DrawChar(f[m], str[m + 1]) /\ str[m + 1] # NewLine
    BY <1>3
  <2>3. x + m < Columns - 1
    BY <1>1
  <2>4. PICK z : z = x + m
    OBVIOUS
  <2>5. Off(f[m + 1], z + 1, y, r, s, [W(m) EXCEPT ![<<z, y>>] = <<str[m + 1], r>>])
    <3> HIDE DEF W
    <3> QED
      BY ONLY <2>1, <2>2, <2>3, <2>4, DrawCharIs
  <2>6. [W(m) EXCEPT ![<<z, y>>] = <<str[m + 1], r>>] = W(m + 1)
    <3>1. PICK g : g = [W(m) EXCEPT ![<<z, y>>] = <<str[m + 1], r>>]
      OBVIOUS
    <3>2. ASSUME NEW p \in Grid PROVE g[p] = W(m + 1)[p]
      <4>1. PICK a \in 0 .. Columns - 1, b \in 0 .. Rows - 1 : p = <<a, b>> /\ p[1] = a /\ p[2] = b
        BY DEF Grid
      <4>2. CASE a = z /\ b = y
        <5>1. g[p] = <<str[m + 1], r>>
          BY <3>1, <4>1, <4>2 DEF Written
        <5>2. p[2] = y /\ p[1] \in x .. x + (m + 1) - 1 /\ p[1] - x + 1 = m + 1
          BY <1>1, <2>4, <4>1, <4>2
        <5>3. W(m + 1)[p] = <<str[p[1] - x + 1], r>>
          BY <5>2 DEF Written
        <5> QED
          BY <5>1, <5>2, <5>3
      <4>3. CASE ~(a = z /\ b = y)
        <5>1. p # <<z, y>>
          BY <4>1, <4>3
        <5>2. g[p] = W(m)[p]
          BY <3>1, <5>1 DEF Written
        <5>3. b = y => (a \in x .. x + m - 1 <=> a \in x .. x + (m + 1) - 1)
          BY <1>1, <2>4, <4>1, <4>3
        <5>4. W(m + 1)[p] = W(m)[p]
          BY <4>1, <5>3 DEF Written
        <5> QED
          BY <5>2, <5>4
      <4> QED
        BY <4>2, <4>3
    <3>3. g = [p \in Grid |-> g[p]]
      BY <3>1 DEF Written
    <3>4. W(m + 1) = [p \in Grid |-> W(m + 1)[p]]
      BY DEF Written
    <3> HIDE DEF W
    <3> QED
      BY ONLY <3>1, <3>2, <3>3, <3>4
  <2>7. z + 1 = x + (m + 1) /\ m + 1 \in 0 .. n
    BY <1>1, <2>4
  <2> QED
    BY <1>2, <2>5, <2>6, <2>7
<1>7. \A m \in 0 .. n - 1 : m \in T => m + 1 \in T
  BY <1>6
<1>8. \A k \in 0 .. n : k \in T
  BY ONLY n \in Nat, <1>5, <1>7, Induction
<1>9. n \in T /\ n \in 0 .. n
  BY <1>8
<1> QED
  BY <1>2, <1>4, <1>9

\* cputs of a text that ends before the right edge.
LEMMA PutSIs ==
  ASSUME NEW c, NEW x, NEW y, NEW r, NEW s \in BOOLEAN, NEW cell, Stands(c, x, y, r, s, cell),
         NEW str, NEW n \in Nat, Len(str) = n, x + n <= Columns - 1,
         \A k \in 1 .. n : str[k] # NewLine
  PROVE  Stands(PutS(c, str), x + n, y, r, s, Written(cell, x, y, n, str, r))
<1>1. PICK f : f = CHOOSE g : Drawn(g, c, str, n)
  OBVIOUS
<1>2. Drawn(f, c, str, n)
  BY <1>1, DrawnExists
<1>3. PutS(c, str) = CursorDraw(f[n])
  BY <1>1, Zenon DEF PutS, Drawn
<1>4. PICK end : end = x + n
  OBVIOUS
<1>5. PICK w : w = Written(cell, x, y, n, str, r)
  OBVIOUS
<1>6. Off(f[n], end, y, r, s, w) /\ Placed(end, y, w)
  BY <1>2, <1>4, <1>5, DrawnIs
<1> QED
  BY <1>3, <1>4, <1>5, <1>6, DrawIs

\* cputsxy.
LEMMA PutSXYIs ==
  ASSUME NEW c, NEW x, NEW y, NEW r, NEW s \in BOOLEAN, NEW cell, Stands(c, x, y, r, s, cell),
         NEW X, NEW Y, <<X, Y>> \in Grid,
         NEW str, NEW n \in Nat, Len(str) = n, X + n <= Columns - 1,
         \A k \in 1 .. n : str[k] # NewLine
  PROVE  Stands(PutSXY(c, X, Y, str), X + n, Y, r, s, Written(cell, X, Y, n, str, r))
<1>1. PICK d : d = GotoXY(c, X, Y)
  OBVIOUS
<1>2. Stands(d, X, Y, r, s, cell)
  BY <1>1, GotoXYIs
<1>3. Stands(PutS(d, str), X + n, Y, r, s, Written(cell, X, Y, n, str, r))
  BY <1>2, PutSIs
<1> QED
  BY <1>1, <1>3 DEF PutSXY

-----------------------------------------------------------------------------
(* The field's row.                                                        *)

\* What the field holds at its k-th place, without the cursor block, for a
\* menu or a line with a text, and a character left in the last place.
Under(st, t, l, k) ==
  IF k <= Len(t) THEN <<t[k], st = "line" /\ k = MaxLen>>
  ELSE <<IF k = MaxLen THEN l ELSE Space, FALSE>>

InField(p) == p[2] = Row /\ p[1] \in StartX .. StartX + MaxLen - 1

Picture(st, t, l) ==
  [p \in Grid |-> IF InField(p) THEN Under(st, t, l, p[1] - StartX + 1) ELSE Blank]

\* The characters of texts.
Chars == {RawKey(m) : m \in Messages} \cup UNION {Range(s) : s \in StoredTexts}
TextOK(t) == t \in Seq(Chars) /\ Len(t) <= MaxLen

\* The numbers of the field.
LEMMA FieldFacts ==
  /\ Columns \in Nat /\ Rows \in Nat /\ StartX \in Nat /\ MaxLen \in Nat /\ 2 <= MaxLen
  /\ StartX + MaxLen <= Columns - 1 /\ Row \in Nat /\ 1 <= Row /\ Row <= Rows - 1
BY GridAssumption, FieldAssumption

\* A place of the field is on the grid, and the one behind it.
LEMMA FieldOnGrid ==
  ASSUME NEW j \in 0 .. MaxLen
  PROVE  <<StartX + j, Row>> \in Grid
BY FieldFacts DEF Grid

\* The picture is one of the grid.
LEMMA PicturePlaced ==
  ASSUME NEW st, NEW t, NEW l, NEW x, NEW y, <<x, y>> \in Grid
  PROVE  Placed(x, y, Picture(st, t, l))
BY DEF Picture, Placed

\* The places of a text that are read.
LEMMA UnderText ==
  ASSUME NEW st, NEW t, NEW l, NEW k, k <= Len(t), NEW b \in BOOLEAN,
         b <=> (st = "line" /\ k = MaxLen)
  PROVE  Under(st, t, l, k) = <<t[k], b>>
<1>1. CASE b = TRUE
  <2>1. st = "line" /\ k = MaxLen
    BY <1>1
  <2> QED
    BY <1>1, <2>1 DEF Under
<1>2. CASE b = FALSE
  <2>1. (st = "line" /\ k = MaxLen) = FALSE
    BY <1>2
  <2> QED
    BY <1>2, <2>1 DEF Under
<1> QED
  BY <1>1, <1>2

\* The places behind it.
LEMMA UnderRest ==
  ASSUME NEW st, NEW t, NEW l, NEW k, ~(k <= Len(t))
  PROVE  Under(st, t, l, k) = <<IF k = MaxLen THEN l ELSE Space, FALSE>>
BY DEF Under

\* No text at all.
LEMMA UnderNothing ==
  ASSUME NEW st, NEW l, NEW k \in Nat \ {0}
  PROVE  Under(st, <<>>, l, k) = <<IF k = MaxLen THEN l ELSE Space, FALSE>>
<1>1. ~(k <= Len(<<>>))
  OBVIOUS
<1> QED
  BY <1>1, UnderRest

\* The same text and rest under two stages, but where they show its last place.
Same(st, t, l, sn, tn, ln, from, but) ==
  \A k \in 1 .. MaxLen : from < k /\ k # but => Under(sn, tn, ln, k) = Under(st, t, l, k)

\* A character in one place of the field, and a text over its beginning.
PutAt(cell, j, v) == [cell EXCEPT ![<<StartX + j, Row>>] = v]
PutText(cell, n, str) == Written(cell, StartX, Row, n, str, FALSE)

\* Another character in one place of the field.
LEMMA PictureChanged ==
  ASSUME NEW st, NEW t, NEW l, NEW sn, NEW tn, NEW ln, NEW j \in 0 .. MaxLen - 1, NEW v,
         Under(sn, tn, ln, j + 1) = v, Same(st, t, l, sn, tn, ln, 0, j + 1)
  PROVE  PutAt(Picture(st, t, l), j, v) = Picture(sn, tn, ln)
<1>1. PICK z : z = StartX + j
  OBVIOUS
<1>2. PICK g : g = [Picture(st, t, l) EXCEPT ![<<z, Row>>] = v]
  OBVIOUS
<1>3. <<z, Row>> \in Grid
  BY <1>1, FieldFacts DEF Grid
<1>4. ASSUME NEW p \in Grid PROVE g[p] = Picture(sn, tn, ln)[p]
  <2>1. PICK a \in 0 .. Columns - 1, b \in 0 .. Rows - 1 : p = <<a, b>> /\ p[1] = a /\ p[2] = b
    BY DEF Grid
  <2>2. CASE a = z /\ b = Row
    <3>1. g[p] = v
      BY <1>2, <2>1, <2>2 DEF Picture
    <3>2. InField(p) /\ p[1] - StartX + 1 = j + 1
      BY <1>1, <2>1, <2>2, FieldFacts DEF InField
    <3> QED
      BY <3>1, <3>2 DEF Picture
  <2>3. CASE ~(a = z /\ b = Row)
    <3>1. p # <<z, Row>>
      BY <2>1, <2>3
    <3>2. g[p] = Picture(st, t, l)[p]
      BY <1>2, <3>1 DEF Picture
    <3>3. CASE InField(p)
      <4>1. p[1] - StartX + 1 \in 1 .. MaxLen /\ p[1] - StartX + 1 # j + 1
        BY <1>1, <2>1, <2>3, <3>3, FieldFacts DEF InField
      <4>2. PICK k \in 1 .. MaxLen : k = p[1] - StartX + 1 /\ k # j + 1
        BY <4>1
      <4>3. Under(sn, tn, ln, k) = Under(st, t, l, k)
        BY <4>2 DEF Same
      <4> QED
        BY <3>2, <3>3, <4>2, <4>3 DEF Picture
    <3>4. CASE ~InField(p)
      BY <3>2, <3>4 DEF Picture
    <3> QED
      BY <3>3, <3>4
  <2> QED
    BY <2>2, <2>3
<1>5. g = [p \in Grid |-> g[p]]
  BY <1>2 DEF Picture
<1>6. Picture(sn, tn, ln) = [p \in Grid |-> Picture(sn, tn, ln)[p]]
  BY DEF Picture
<1>7. g = Picture(sn, tn, ln)
  BY ONLY <1>4, <1>5, <1>6
<1> QED
  BY <1>1, <1>2, <1>7 DEF PutAt

\* The first n characters of a text are what the field holds there.
Puts(str, n, sn, tn, ln) == \A k \in 1 .. n : Under(sn, tn, ln, k) = <<str[k], FALSE>>

\* A text over the beginning of the field.
LEMMA PictureWritten ==
  ASSUME NEW st, NEW t, NEW l, NEW sn, NEW tn, NEW ln, NEW n, n \in 0 .. MaxLen, NEW str,
         Puts(str, n, sn, tn, ln), Same(st, t, l, sn, tn, ln, n, 0)
  PROVE  PutText(Picture(st, t, l), n, str) = Picture(sn, tn, ln)
<1>1. PICK g : g = Written(Picture(st, t, l), StartX, Row, n, str, FALSE)
  OBVIOUS
<1>2. ASSUME NEW p \in Grid PROVE g[p] = Picture(sn, tn, ln)[p]
  <2>1. PICK a \in 0 .. Columns - 1, b \in 0 .. Rows - 1 : p = <<a, b>> /\ p[1] = a /\ p[2] = b
    BY DEF Grid
  <2>2. g[p] = IF b = Row /\ a \in StartX .. StartX + n - 1 THEN <<str[a - StartX + 1], FALSE>>
               ELSE Picture(st, t, l)[p]
    BY <1>1, <2>1 DEF Written
  <2>3. PICK k \in Int : k = a - StartX + 1
    BY FieldFacts
  <2>4. CASE b = Row /\ k \in 1 .. n
    <3>1. a \in StartX .. StartX + n - 1
      BY <2>3, <2>4, FieldFacts
    <3>2. InField(p)
      BY <2>1, <2>3, <2>4, FieldFacts DEF InField
    <3>3. Picture(sn, tn, ln)[p] = Under(sn, tn, ln, k)
      BY <2>1, <2>3, <3>2 DEF Picture
    <3>4. Under(sn, tn, ln, k) = <<str[k], FALSE>>
      BY <2>4 DEF Puts
    <3> QED
      BY <2>2, <2>3, <2>4, <3>1, <3>3, <3>4
  <2>5. CASE b = Row /\ k \in 1 .. MaxLen /\ k \notin 1 .. n
    <3>1. ~(a \in StartX .. StartX + n - 1) /\ n < k
      BY <2>3, <2>5, FieldFacts
    <3>2. InField(p)
      BY <2>1, <2>3, <2>5, FieldFacts DEF InField
    <3>3. Picture(sn, tn, ln)[p] = Under(sn, tn, ln, k) /\ Picture(st, t, l)[p] = Under(st, t, l, k)
      BY <2>1, <2>3, <3>2 DEF Picture
    <3>4. Under(sn, tn, ln, k) = Under(st, t, l, k)
      BY <2>5, <3>1 DEF Same
    <3> QED
      BY <2>2, <2>5, <3>1, <3>3, <3>4
  <2>6. CASE ~(b = Row /\ k \in 1 .. MaxLen)
    <3>1. ~InField(p)
      BY <2>1, <2>3, <2>6, FieldFacts DEF InField
    <3>2. ~(b = Row /\ a \in StartX .. StartX + n - 1)
      BY <2>3, <2>6, FieldFacts
    <3> QED
      BY <2>2, <3>1, <3>2 DEF Picture
  <2> QED
    BY <2>4, <2>5, <2>6
<1>3. g = [p \in Grid |-> g[p]]
  BY <1>1 DEF Written
<1>4. Picture(sn, tn, ln) = [p \in Grid |-> Picture(sn, tn, ln)[p]]
  BY DEF Picture
<1> QED
  BY ONLY <1>1, <1>2, <1>3, <1>4 DEF PutText

-----------------------------------------------------------------------------
(* What the keys make of the row.                                          *)

\* A text is no longer than the field.
LEMMA TextSize ==
  ASSUME NEW t, TextOK(t)
  PROVE  Len(t) \in 0 .. MaxLen /\ t \in Seq(Chars) /\ (\A k \in 1 .. Len(t) : t[k] \in Chars)
         /\ (t # <<>> => Len(t) # 0)
<1>1. MaxLen \in Nat /\ t \in Seq(Chars) /\ Len(t) <= MaxLen
  BY FieldFacts DEF TextOK
<1> QED
  BY <1>1

\* A text without its last character.
LEMMA FrontFacts ==
  ASSUME NEW t, TextOK(t), t # <<>>, NEW n, n = Len(t)
  PROVE  /\ n \in 1 .. MaxLen /\ Len(Front(t)) = n - 1 /\ TextOK(Front(t))
         /\ \A k \in 1 .. n - 1 : Front(t)[k] = t[k]
<1>1. MaxLen \in Nat /\ t \in Seq(Chars) /\ n \in 1 .. MaxLen
  BY TextSize, FieldFacts
<1>2. PICK f : f = SubSeq(t, 1, n - 1)
  OBVIOUS
<1>3. f \in Seq(Chars) /\ Len(f) = n - 1 /\ \A k \in 1 .. n - 1 : f[k] = t[k]
  BY <1>1, <1>2
<1>4. Front(t) = f
  BY <1>2 DEF Front
<1> QED
  BY <1>1, <1>3, <1>4 DEF TextOK

\* A text with one more.
LEMMA AppendFacts ==
  ASSUME NEW t, TextOK(t), NEW n, n = Len(t), n < MaxLen, NEW ch \in Chars
  PROVE  /\ TextOK(Append(t, ch)) /\ Len(Append(t, ch)) = n + 1
         /\ Append(t, ch)[n + 1] = ch /\ \A k \in 1 .. n : Append(t, ch)[k] = t[k]
<1>1. MaxLen \in Nat /\ t \in Seq(Chars) /\ n \in 0 .. MaxLen
  BY TextSize, FieldFacts
<1> QED
  BY <1>1 DEF TextOK

\* What a line is before a further character: without its last one if it is full.
Kept(t) == IF Len(t) = MaxLen THEN Front(t) ELSE t

\* A line that takes a further character has a place for it.
LEMMA KeptFacts ==
  ASSUME NEW t, TextOK(t), NEW n, n = Len(t), NEW kept, kept = Kept(t), NEW i, i = Len(kept)
  PROVE  /\ TextOK(kept) /\ i \in 0 .. MaxLen - 1 /\ (\A k \in 1 .. i : kept[k] = t[k])
         /\ n \in 0 .. MaxLen /\ (i = n \/ (n = MaxLen /\ i = MaxLen - 1))
<1>1. n \in 0 .. MaxLen
  BY TextSize
<1>2. CASE n = MaxLen
  <2>1. Len(t) # 0
    BY <1>2, FieldFacts
  <2>4. t # <<>>
    BY <2>1
  <2>2. kept = Front(t)
    BY <1>2 DEF Kept
  <2>3. i = n - 1 /\ TextOK(kept) /\ \A k \in 1 .. n - 1 : kept[k] = t[k]
    BY ONLY TextOK(t), n = Len(t), i = Len(kept), <2>4, <2>2, FrontFacts
  <2> QED
    BY <1>1, <1>2, <2>3, FieldFacts
<1>3. CASE n # MaxLen
  <2>1. kept = t
    BY <1>3 DEF Kept
  <2> QED
    BY <1>1, <1>3, <2>1, FieldFacts
<1> QED
  BY <1>2, <1>3

\* What a further character makes of a line.
Typed(t, l, ch, i, tn, ln) ==
  tn = Append(Kept(t), ch) /\ i = Len(Kept(t)) /\ ln = IF i = MaxLen - 1 THEN ch ELSE l

\* One more character in a line: the text.
LEMMA TypeText ==
  ASSUME NEW t, TextOK(t), NEW l, NEW ch \in Chars, NEW i, NEW tn, NEW ln,
         Typed(t, l, ch, i, tn, ln)
  PROVE  /\ i \in 0 .. MaxLen - 1 /\ TextOK(tn) /\ Len(tn) = i + 1
         /\ i = MaxLen - 1 => tn[MaxLen] = ln
<1>1. PICK n : n = Len(t)
  OBVIOUS
<1>2. PICK kept : kept = Kept(t)
  OBVIOUS
<1>3. tn = Append(kept, ch) /\ i = Len(kept) /\ ln = IF i = MaxLen - 1 THEN ch ELSE l
  BY <1>2 DEF Typed
<1>4. TextOK(kept) /\ i \in 0 .. MaxLen - 1
  BY ONLY TextOK(t), <1>1, <1>2, <1>3, KeptFacts
<1>5. i < MaxLen
  BY <1>4, FieldFacts
<1>6. TextOK(tn) /\ Len(tn) = i + 1 /\ tn[i + 1] = ch
  BY ONLY <1>3, <1>4, <1>5, ch \in Chars, AppendFacts
<1>7. i = MaxLen - 1 => tn[MaxLen] = ln
  BY <1>3, <1>6, FieldFacts
<1> QED
  BY <1>4, <1>6, <1>7

\* And the row.
LEMMA TypePicture ==
  ASSUME NEW t, TextOK(t), NEW l, NEW ch \in Chars, NEW i, NEW tn, NEW ln,
         Typed(t, l, ch, i, tn, ln), NEW b \in BOOLEAN, b <=> i = MaxLen - 1
  PROVE  PutAt(Picture("line", t, l), i, <<ch, b>>) = Picture("line", tn, ln)
<1>1. PICK n : n = Len(t)
  OBVIOUS
<1>2. PICK kept : kept = Kept(t)
  OBVIOUS
<1>3. tn = Append(kept, ch) /\ i = Len(kept) /\ ln = IF i = MaxLen - 1 THEN ch ELSE l
  BY <1>2 DEF Typed
<1>4. TextOK(kept) /\ i \in 0 .. MaxLen - 1 /\ (\A k \in 1 .. i : kept[k] = t[k])
      /\ n \in 0 .. MaxLen /\ (i = n \/ (n = MaxLen /\ i = MaxLen - 1))
  BY ONLY TextOK(t), <1>1, <1>2, <1>3, KeptFacts
<1>5. i < MaxLen
  BY <1>4, FieldFacts
<1>6. TextOK(tn) /\ Len(tn) = i + 1 /\ tn[i + 1] = ch /\ \A k \in 1 .. i : tn[k] = kept[k]
  BY ONLY <1>3, <1>4, <1>5, ch \in Chars, AppendFacts
<1>7. Under("line", tn, ln, i + 1) = <<ch, b>>
  <2>1. PICK k : k = i + 1
    OBVIOUS
  <2>2. k <= Len(tn) /\ (b <=> ("line" = "line" /\ k = MaxLen))
    BY <1>4, <1>6, <2>1, FieldFacts
  <2>3. Under("line", tn, ln, k) = <<tn[k], b>>
    BY ONLY b \in BOOLEAN, <2>2, UnderText
  <2> QED
    BY <1>6, <2>1, <2>3
<1>8. Same("line", t, l, "line", tn, ln, 0, i + 1)
  <2> SUFFICES ASSUME NEW k \in 1 .. MaxLen, k # i + 1
               PROVE  Under("line", tn, ln, k) = Under("line", t, l, k)
    BY DEF Same
  <2>1. CASE k <= i
    <3>1. k \in 1 .. i /\ k <= Len(tn) /\ k <= Len(t)
      BY <1>1, <1>4, <1>6, <2>1, FieldFacts
    <3>2. tn[k] = t[k]
      BY <1>4, <1>6, <3>1
    <3> QED
      BY <3>1, <3>2 DEF Under
  <2>2. CASE ~(k <= i)
    <3>1. ~(k <= Len(tn)) /\ i # MaxLen - 1 /\ ~(k <= Len(t))
      BY <1>1, <1>4, <1>6, <2>2, FieldFacts
    <3>2. ln = l
      BY <1>3, <3>1
    <3> QED
      BY ONLY <3>1, <3>2 DEF Under
  <2> QED
    BY <2>1, <2>2
<1> QED
  BY ONLY <1>4, <1>7, <1>8, PictureChanged

\* One character less.
LEMMA ErasePicture ==
  ASSUME NEW t, TextOK(t), t # <<>>, NEW l, NEW tn, tn = Front(t),
         NEW ln, ln = IF Len(t) = MaxLen THEN Space ELSE l, NEW i, i = Len(t) - 1
  PROVE  /\ i \in 0 .. MaxLen - 1 /\ TextOK(tn) /\ Len(tn) = i
         /\ PutAt(Picture("line", t, l), i, Blank) = Picture("line", tn, ln)
<1>1. PICK n : n = Len(t)
  OBVIOUS
<1>2. n \in 1 .. MaxLen /\ Len(tn) = n - 1 /\ TextOK(tn) /\ \A k \in 1 .. n - 1 : tn[k] = t[k]
  BY ONLY TextOK(t), t # <<>>, tn = Front(t), <1>1, FrontFacts
<1>3. i \in 0 .. MaxLen - 1 /\ Len(tn) = i /\ i = n - 1
  BY <1>1, <1>2, FieldFacts
<1>4. Under("line", tn, ln, i + 1) = Blank
  <2>1. ~(i + 1 <= Len(tn)) /\ (i + 1 = MaxLen <=> Len(t) = MaxLen)
    BY <1>1, <1>2, <1>3, FieldFacts
  <2>2. Under("line", tn, ln, i + 1) = <<IF i + 1 = MaxLen THEN ln ELSE Space, FALSE>>
    BY <2>1, UnderRest
  <2> QED
    BY <2>1, <2>2 DEF Blank
<1>5. Same("line", t, l, "line", tn, ln, 0, i + 1)
  <2> SUFFICES ASSUME NEW k \in 1 .. MaxLen, k # i + 1
               PROVE  Under("line", tn, ln, k) = Under("line", t, l, k)
    BY DEF Same
  <2>1. CASE k <= i
    <3>1. k \in 1 .. n - 1 /\ k <= Len(tn) /\ k <= Len(t)
      BY <1>1, <1>2, <1>3, <2>1, FieldFacts
    <3>2. tn[k] = t[k]
      BY <1>2, <3>1
    <3> QED
      BY <3>1, <3>2 DEF Under
  <2>2. CASE ~(k <= i)
    <3>1. ~(k <= Len(tn)) /\ ~(k <= Len(t)) /\ Len(t) # MaxLen
      BY <1>1, <1>2, <1>3, <2>2, FieldFacts
    <3>2. ln = l
      BY <3>1
    <3> QED
      BY ONLY <3>1, <3>2 DEF Under
  <2> QED
    BY <2>1, <2>2
<1>6. PutAt(Picture("line", t, l), i, Blank) = Picture("line", tn, ln)
  BY ONLY <1>3, <1>4, <1>5, PictureChanged
<1> QED
  BY <1>2, <1>3, <1>6

\* The line is written again, and then the menu's text.
LEMMA LinePicture ==
  ASSUME NEW st, NEW t, TextOK(t), NEW l, NEW n, n = Len(t)
  PROVE  PutText(Picture(st, t, l), n, t) = Picture("menu", t, l)
<1>1. n \in 0 .. MaxLen
  BY TextSize
<1>2. Puts(t, n, "menu", t, l)
  <2> SUFFICES ASSUME NEW k \in 1 .. n PROVE Under("menu", t, l, k) = <<t[k], FALSE>>
    BY DEF Puts
  <2>1. k <= Len(t) /\ (FALSE <=> ("menu" = "line" /\ k = MaxLen))
    BY <1>1
  <2> QED
    BY ONLY <2>1 DEF Under
<1>3. Same(st, t, l, "menu", t, l, n, 0)
  <2> SUFFICES ASSUME NEW k \in 1 .. MaxLen, n < k
               PROVE  Under("menu", t, l, k) = Under(st, t, l, k)
    BY DEF Same
  <2>1. ~(k <= Len(t))
    BY <1>1, FieldFacts
  <2> QED
    BY ONLY <2>1 DEF Under
<1> QED
  BY ONLY <1>1, <1>2, <1>3, PictureWritten

\* The field is blanked, but for what a full line leaves in its last place.
LEMMA BlankedPicture ==
  ASSUME NEW t, TextOK(t), NEW l, Len(t) = MaxLen => l = t[MaxLen],
         NEW f, f = Field(t), NEW n, n = Len(f)
  PROVE  /\ n \in 0 .. MaxLen /\ \A k \in 1 .. n : f[k] = Space \/ f[k] \in Chars
         /\ PutText(Picture("menu", t, l), n, f) = Picture("line", <<>>, l)
<1>1. PICK b : b = [k \in 1 .. MaxLen - 1 |-> Space]
  OBVIOUS
<1>2. b \in Seq({Space}) /\ Len(b) = MaxLen - 1 /\ \A k \in 1 .. MaxLen - 1 : b[k] = Space
  BY <1>1, FieldFacts
<1>3. ASSUME NEW k \in 1 .. MaxLen
      PROVE  Under("line", <<>>, l, k) = <<IF k = MaxLen THEN l ELSE Space, FALSE>>
  <2>1. k \in Nat \ {0}
    BY FieldFacts
  <2> QED
    BY <2>1, UnderNothing
<1>4. PICK m : m = Len(t)
  OBVIOUS
<1>5. m \in 0 .. MaxLen /\ \A k \in 1 .. m : t[k] \in Chars
  BY <1>4, TextSize
<1>6. CASE m = MaxLen
  <2>1. PICK e : e = <<l>>
    OBVIOUS
  <2>2. f = b \o e
    BY <1>1, <1>4, <1>6, <2>1 DEF Field
  <2>3. l \in Chars
    BY <1>4, <1>5, <1>6, FieldFacts
  <2>4. e \in Seq(Chars) /\ Len(e) = 1 /\ e[1] = l
    BY <2>1, <2>3
  <2>5. n = MaxLen /\ f[MaxLen] = l /\ \A k \in 1 .. MaxLen - 1 : f[k] = Space
    <3>1. PICK Z : Z = Chars \cup {Space}
      OBVIOUS
    <3>2. b \in Seq(Z) /\ e \in Seq(Z)
      <4>1. {Space} \subseteq Z /\ Chars \subseteq Z
        BY <3>1
      <4> QED
        BY ONLY <1>2, <2>4, <4>1
    <3>3. MaxLen \in Nat /\ 2 <= MaxLen
      BY FieldFacts
    <3>4. PICK p \in Nat : p = MaxLen - 1
      BY <3>3
    <3>5. Len(b) = p
      BY <1>2, <3>4
    <3>6. Len(b \o e) = p + 1 /\ (\A k \in 1 .. p : (b \o e)[k] = b[k]) /\ (b \o e)[p + 1] = e[1]
      <4>1. /\ Len(b \o e) = Len(b) + Len(e)
            /\ \A k \in 1 .. Len(b) + Len(e) : (b \o e)[k] = IF k <= Len(b) THEN b[k] ELSE e[k - Len(b)]
        BY ONLY <3>2, ConcatProperties
      <4> QED
        BY ONLY <2>4, <3>4, <3>5, <4>1
    <3>7. Len(f) = p + 1 /\ (\A k \in 1 .. p : f[k] = b[k]) /\ f[p + 1] = e[1]
      BY ONLY <2>2, <3>6
    <3>8. MaxLen = p + 1 /\ MaxLen - 1 = p
      BY ONLY <3>3, <3>4
    <3> QED
      BY ONLY <1>2, <2>4, <3>7, <3>8, n = Len(f)
  <2>6. \A k \in 1 .. n : f[k] = IF k = MaxLen THEN l ELSE Space
    BY <2>5, FieldFacts
  <2>7. Puts(f, n, "line", <<>>, l)
    BY <1>3, <2>5, <2>6 DEF Puts
  <2>8. Same("menu", t, l, "line", <<>>, l, n, 0) /\ n \in 0 .. MaxLen
    BY <2>5, FieldFacts DEF Same
  <2>9. PutText(Picture("menu", t, l), n, f) = Picture("line", <<>>, l)
    BY ONLY <2>7, <2>8, PictureWritten
  <2> QED
    BY <2>3, <2>6, <2>8, <2>9
<1>7. CASE m # MaxLen
  <2>1. f = b \o <<>>
    BY <1>1, <1>4, <1>7 DEF Field
  <2>2. f = b
    BY <1>2, <2>1
  <2>3. n = MaxLen - 1 /\ n \in 0 .. MaxLen /\ \A k \in 1 .. n : f[k] = Space
    BY <1>2, <2>2, FieldFacts
  <2>4. Puts(f, n, "line", <<>>, l)
    <3> SUFFICES ASSUME NEW k \in 1 .. n PROVE Under("line", <<>>, l, k) = <<f[k], FALSE>>
      BY DEF Puts
    <3>1. k \in 1 .. MaxLen /\ k # MaxLen /\ f[k] = Space
      BY <2>3, FieldFacts
    <3> QED
      BY <1>3, <3>1
  <2>5. Same("menu", t, l, "line", <<>>, l, n, 0)
    <3> SUFFICES ASSUME NEW k \in 1 .. MaxLen, n < k
                 PROVE  Under("line", <<>>, l, k) = Under("menu", t, l, k)
      BY DEF Same
    <3>1. k = MaxLen /\ ~(k <= Len(t))
      BY <1>4, <1>5, <1>7, <2>3, FieldFacts
    <3> QED
      BY <1>3, <3>1, UnderRest
  <2>6. PutText(Picture("menu", t, l), n, f) = Picture("line", <<>>, l)
    BY ONLY <2>3, <2>4, <2>5, PictureWritten
  <2> QED
    BY <2>3, <2>6
<1> QED
  BY <1>6, <1>7

\* The welcome screen with what is stored.
LEMMA StoredPicture ==
  ASSUME NEW t, TextOK(t), NEW l, l = IF Len(t) = MaxLen THEN t[MaxLen] ELSE Space,
         NEW n, n = Len(t)
  PROVE  PutText(Empty, n, t) = Picture("menu", t, l)
<1>1. n \in 0 .. MaxLen
  BY TextSize
<1>2. Empty = Picture("menu", <<>>, Space)
  <2>1. ASSUME NEW p \in Grid, InField(p)
        PROVE  Under("menu", <<>>, Space, p[1] - StartX + 1) = Blank
    <3>1. PICK k \in Nat \ {0} : k = p[1] - StartX + 1
      BY <2>1, FieldFacts DEF InField
    <3> QED
      BY <3>1, UnderNothing DEF Blank
  <2> QED
    BY <2>1 DEF Empty, Picture
<1>3. Puts(t, n, "menu", t, l)
  <2> SUFFICES ASSUME NEW k \in 1 .. n PROVE Under("menu", t, l, k) = <<t[k], FALSE>>
    BY DEF Puts
  <2>1. k <= Len(t) /\ (FALSE <=> ("menu" = "line" /\ k = MaxLen))
    BY <1>1
  <2> QED
    BY ONLY <2>1 DEF Under
<1>4. Same("menu", <<>>, Space, "menu", t, l, n, 0)
  <2> SUFFICES ASSUME NEW k \in 1 .. MaxLen, n < k
               PROVE  Under("menu", t, l, k) = Under("menu", <<>>, Space, k)
    BY DEF Same
  <2>1. ~(k <= Len(t)) /\ k \in Nat \ {0} /\ (k = MaxLen => l = Space)
    BY <1>1, FieldFacts
  <2>2. Under("menu", t, l, k) = <<IF k = MaxLen THEN l ELSE Space, FALSE>>
    BY ONLY <2>1 DEF Under
  <2>3. Under("menu", <<>>, Space, k) = <<IF k = MaxLen THEN Space ELSE Space, FALSE>>
    BY <2>1, UnderNothing
  <2> QED
    BY <2>1, <2>2, <2>3
<1> QED
  BY ONLY <1>1, <1>2, <1>3, <1>4, PictureWritten

-----------------------------------------------------------------------------
(* What the keys make of the console.                                      *)

\* The console shows a menu, or a line: the cursor block behind its text, or the
\* last place reversed and no block.
MenuShown(c, t, l) == \E x, y : Stands(c, x, y, FALSE, FALSE, Picture("menu", t, l))
LineShown(c, t, l) ==
  IF Len(t) = MaxLen THEN Stands(c, StartX + MaxLen, Row, TRUE, FALSE, Picture("line", t, l))
  ELSE Stands(c, StartX + Len(t), Row, FALSE, TRUE, Picture("line", t, l))

\* No character of a text is a newline.
PlainChars == NewLine \notin Chars

\* Where the line is shown.
LEMMA LineIsShown ==
  ASSUME NEW c, NEW t, TextOK(t), NEW l, LineShown(c, t, l)
  PROVE  \E r \in BOOLEAN, s \in BOOLEAN :
            /\ Stands(c, StartX + Len(t), Row, r, s, Picture("line", t, l))
            /\ Len(t) # MaxLen => r = FALSE /\ s = TRUE
<1>1. CASE Len(t) = MaxLen
  <2>1. Stands(c, StartX + Len(t), Row, TRUE, FALSE, Picture("line", t, l))
    BY <1>1 DEF LineShown
  <2> QED
    BY <1>1, <2>1
<1>2. CASE Len(t) # MaxLen
  <2>1. Stands(c, StartX + Len(t), Row, FALSE, TRUE, Picture("line", t, l))
    BY <1>2 DEF LineShown
  <2> QED
    BY <2>1
<1> QED
  BY <1>1, <1>2

\* A character in a place of the field.
LEMMA PutAtIs ==
  ASSUME NEW c, NEW r, NEW s \in BOOLEAN, NEW st, NEW t, NEW l, NEW i \in 0 .. MaxLen - 1,
         Stands(c, StartX + i, Row, r, s, Picture(st, t, l)), NEW ch, ch # NewLine
  PROVE  Stands(PutC(c, ch), StartX + i + 1, Row, r, s, PutAt(Picture(st, t, l), i, <<ch, r>>))
<1>1. PICK x : x = StartX + i
  OBVIOUS
<1>2. x < Columns - 1 /\ x + 1 = StartX + i + 1
  BY <1>1, FieldFacts
<1>3. PICK cell : cell = Picture(st, t, l)
  OBVIOUS
<1>4. Stands(c, x, Row, r, s, cell)
  BY <1>1, <1>3
<1>5. Stands(PutC(c, ch), x + 1, Row, r, s, [cell EXCEPT ![<<x, Row>>] = <<ch, r>>])
  BY ONLY s \in BOOLEAN, ch # NewLine, <1>2, <1>4, PutCIs
<1> QED
  BY <1>1, <1>2, <1>3, <1>5 DEF PutAt

\* A printable key in get_line.
LEMMA TypeIs ==
  ASSUME TextOK(text), NEW l, LineShown(con, text, l), NEW ch \in Chars, PlainChars,
         NEW i, NEW tn, NEW ln, Typed(text, l, ch, i, tn, ln)
  PROVE  LineShown(TypeAt(con, ch), tn, ln)
<1>1. PICK r \in BOOLEAN, s \in BOOLEAN :
        Stands(con, StartX + Len(text), Row, r, s, Picture("line", text, l))
  BY LineIsShown
<1>2. i \in 0 .. MaxLen - 1 /\ i = Index
  <2>1. i \in 0 .. MaxLen - 1
    BY TypeText
  <2>2. CASE Len(text) = MaxLen
    <3>1. text # <<>>
      <4>1. Len(text) # 0
        BY <2>2, FieldFacts
      <4> QED
        BY <4>1
    <3>2. Len(Front(text)) = MaxLen - 1
      BY <2>2, <3>1, FrontFacts
    <3> QED
      BY <2>1, <2>2, <3>2 DEF Typed, Kept, Index, Full
  <2>3. CASE Len(text) # MaxLen
    BY <2>1, <2>3 DEF Typed, Kept, Index, Full
  <2> QED
    BY <2>2, <2>3
<1>3. ch # NewLine
  BY DEF PlainChars
<1>4. PICK d1 : d1 = GotoX(con, StartX + i)
  OBVIOUS
<1>5. Stands(d1, StartX + i, Row, r, s, Picture("line", text, l))
  <2>1. PICK x : x = StartX + i /\ <<x, Row>> \in Grid
    BY <1>2, FieldFacts DEF Grid
  <2> QED
    BY <1>1, <1>4, <2>1, GotoXIs
<1>6. CASE i = MaxLen - 1
  <2>1. PICK d2 : d2 = Revers(d1, TRUE)
    OBVIOUS
  <2>2. Stands(d2, StartX + i, Row, TRUE, s, Picture("line", text, l))
    BY <1>5, <2>1, ReversIs
  <2>3. PICK d3 : d3 = Cursor(d2, FALSE)
    OBVIOUS
  <2>4. Stands(d3, StartX + i, Row, TRUE, FALSE, Picture("line", text, l))
    BY <2>2, <2>3, CursorIs
  <2>5. Stands(PutC(d3, ch), StartX + i + 1, Row, TRUE, FALSE,
               PutAt(Picture("line", text, l), i, <<ch, TRUE>>))
    BY <1>2, <1>3, <2>4, PutAtIs
  <2>6. TypeAt(con, ch) = PutC(d3, ch)
    <3>1. (Index = MaxLen - 1) = TRUE
      BY <1>2, <1>6
    <3>2. TypeAt(con, ch) = PutC(Cursor(Revers(GotoX(con, StartX + Index), TRUE), FALSE), ch)
      BY <3>1, Zenon DEF TypeAt
    <3> QED
      BY <1>2, <1>4, <2>1, <2>3, <3>2
  <2>7. /\ PutAt(Picture("line", text, l), i, <<ch, TRUE>>) = Picture("line", tn, ln)
        /\ Len(tn) = i + 1
    <3>1. PICK b \in BOOLEAN : b <=> i = MaxLen - 1
      OBVIOUS
    <3>2. PutAt(Picture("line", text, l), i, <<ch, b>>) = Picture("line", tn, ln)
      BY ONLY TextOK(text), ch \in Chars, Typed(text, l, ch, i, tn, ln), <3>1, TypePicture
    <3>3. Len(tn) = i + 1
      BY TypeText
    <3>4. b = TRUE
      BY <1>6, <3>1
    <3> QED
      BY <3>2, <3>3, <3>4
  <2>8. Len(tn) = MaxLen /\ StartX + i + 1 = StartX + MaxLen
    BY <1>6, <2>7, FieldFacts
  <2> QED
    BY <2>5, <2>6, <2>7, <2>8 DEF LineShown
<1>7. CASE i # MaxLen - 1
  <2>1. PICK d2 : d2 = Revers(d1, FALSE)
    OBVIOUS
  <2>2. Stands(d2, StartX + i, Row, FALSE, s, Picture("line", text, l))
    BY <1>5, <2>1, ReversIs
  <2>3. PICK d3 : d3 = Cursor(d2, TRUE)
    OBVIOUS
  <2>4. Stands(d3, StartX + i, Row, FALSE, TRUE, Picture("line", text, l))
    BY <2>2, <2>3, CursorIs
  <2>5. Stands(PutC(d3, ch), StartX + i + 1, Row, FALSE, TRUE,
               PutAt(Picture("line", text, l), i, <<ch, FALSE>>))
    BY <1>2, <1>3, <2>4, PutAtIs
  <2>6. TypeAt(con, ch) = PutC(d3, ch)
    <3>1. (Index = MaxLen - 1) = FALSE
      BY <1>2, <1>7
    <3>2. TypeAt(con, ch) = PutC(Cursor(Revers(GotoX(con, StartX + Index), FALSE), TRUE), ch)
      BY <3>1, Zenon DEF TypeAt
    <3> QED
      BY <1>2, <1>4, <2>1, <2>3, <3>2
  <2>7. /\ PutAt(Picture("line", text, l), i, <<ch, FALSE>>) = Picture("line", tn, ln)
        /\ Len(tn) = i + 1
    <3>1. PICK b \in BOOLEAN : b <=> i = MaxLen - 1
      OBVIOUS
    <3>2. PutAt(Picture("line", text, l), i, <<ch, b>>) = Picture("line", tn, ln)
      BY ONLY TextOK(text), ch \in Chars, Typed(text, l, ch, i, tn, ln), <3>1, TypePicture
    <3>3. Len(tn) = i + 1
      BY TypeText
    <3>4. b = FALSE
      BY <1>7, <3>1
    <3> QED
      BY <3>2, <3>3, <3>4
  <2>8. Len(tn) # MaxLen /\ StartX + i + 1 = StartX + Len(tn)
    BY <1>2, <1>7, <2>7, FieldFacts
  <2> QED
    BY <2>5, <2>6, <2>7, <2>8 DEF LineShown
<1> QED
  BY <1>6, <1>7

\* The erase key in get_line.
LEMMA EraseLineIs ==
  ASSUME TextOK(text), text # <<>>, NEW l, LineShown(con, text, l), NEW tn, tn = Front(text),
         NEW ln, ln = IF Len(text) = MaxLen THEN Space ELSE l
  PROVE  LineShown(EraseBefore(con), tn, ln)
<1>1. PICK r \in BOOLEAN, s \in BOOLEAN :
        /\ Stands(con, StartX + Len(text), Row, r, s, Picture("line", text, l))
        /\ Len(text) # MaxLen => r = FALSE /\ s = TRUE
  BY LineIsShown
<1>2. PICK i : i = Len(text) - 1
  OBVIOUS
<1>3. /\ i \in 0 .. MaxLen - 1 /\ TextOK(tn) /\ Len(tn) = i
      /\ PutAt(Picture("line", text, l), i, Blank) = Picture("line", tn, ln)
  BY <1>2, ErasePicture
<1>4. PICK x : x = StartX + i /\ <<x, Row>> \in Grid
  BY <1>3, FieldFacts DEF Grid
<1>5. con.x - 1 = x
  <2>1. con.x = StartX + Len(text)
    BY <1>1, FieldsOf
  <2>2. Len(text) \in 0 .. MaxLen
    BY TextSize
  <2> QED
    BY <1>2, <1>4, <2>1, <2>2, FieldFacts
<1>6. PICK d1 : d1 = GotoX(con, x)
  OBVIOUS
<1>7. Stands(d1, x, Row, r, s, Picture("line", text, l))
  BY <1>1, <1>4, <1>6, GotoXIs
<1>8. PICK d2 : d2 = (IF Full THEN Cursor(Revers(d1, FALSE), TRUE) ELSE d1)
  OBVIOUS
<1>9. Stands(d2, x, Row, FALSE, TRUE, Picture("line", text, l))
  <2>1. CASE Full
    <3>1. PICK e : e = Revers(d1, FALSE)
      OBVIOUS
    <3>2. Stands(e, x, Row, FALSE, s, Picture("line", text, l))
      BY <1>7, <3>1, ReversIs
    <3>3. Stands(Cursor(e, TRUE), x, Row, FALSE, TRUE, Picture("line", text, l))
      BY <3>2, CursorIs
    <3> QED
      BY <1>8, <2>1, <3>1, <3>3
  <2>2. CASE ~Full
    <3>1. r = FALSE /\ s = TRUE
      BY <1>1, <2>2 DEF Full
    <3> QED
      BY <1>7, <1>8, <2>2, <3>1
  <2> QED
    BY <2>1, <2>2
<1>10. PICK d3 : d3 = PutC(d2, Space)
  OBVIOUS
<1>11. Stands(d3, StartX + i + 1, Row, FALSE, TRUE, Picture("line", tn, ln))
  <2>1. Space # NewLine
    BY DEF Space, NewLine
  <2>2. Stands(d3, StartX + i + 1, Row, FALSE, TRUE,
               PutAt(Picture("line", text, l), i, <<Space, FALSE>>))
    BY <1>3, <1>4, <1>9, <1>10, <2>1, PutAtIs
  <2> QED
    BY <1>3, <2>2 DEF Blank
<1>12. Stands(GotoX(d3, x), x, Row, FALSE, TRUE, Picture("line", tn, ln))
  BY <1>4, <1>11, GotoXIs
<1>13. EraseBefore(con) = GotoX(d3, x)
  BY <1>5, <1>6, <1>8, <1>10 DEF EraseBefore
<1>14. Len(tn) # MaxLen /\ x = StartX + Len(tn)
  BY <1>3, <1>4, FieldFacts
<1> QED
  BY <1>12, <1>13, <1>14 DEF LineShown

\* The characters of a text can be put.
LEMMA TextPlain ==
  ASSUME NEW t, TextOK(t), PlainChars
  PROVE  Len(t) \in 0 .. MaxLen /\ \A k \in 1 .. Len(t) : t[k] # NewLine
BY TextSize DEF PlainChars

\* A text from the beginning of the field on.
LEMMA PutTextIs ==
  ASSUME NEW c, NEW s \in BOOLEAN, NEW cell, Stands(c, StartX, Row, FALSE, s, cell),
         NEW str, NEW n \in 0 .. MaxLen, Len(str) = n, \A k \in 1 .. n : str[k] # NewLine
  PROVE  Stands(PutS(c, str), StartX + n, Row, FALSE, s, PutText(cell, n, str))
<1>1. PICK x : x = StartX
  OBVIOUS
<1>2. n \in Nat /\ x + n <= Columns - 1
  BY <1>1, FieldFacts
<1>3. Stands(c, x, Row, FALSE, s, cell)
  BY <1>1
<1>4. PICK r : r = FALSE
  OBVIOUS
<1>5. Stands(c, x, Row, r, s, cell)
  BY <1>3, <1>4
<1>6. Stands(PutS(c, str), x + n, Row, r, s, Written(cell, x, Row, n, str, r))
  BY ONLY <1>2, <1>5, s \in BOOLEAN, Len(str) = n, \A k \in 1 .. n : str[k] # NewLine, PutSIs
<1> QED
  BY <1>1, <1>4, <1>6 DEF PutText

\* The beginning of the field.
LEMMA FieldStart ==
  /\ StartX + 0 = StartX /\ <<StartX, Row>> \in Grid /\ <<0, 0>> \in Grid
  /\ 0 < Columns - 1 /\ ~InField(<<0, 0>>)
BY FieldFacts DEF Grid, InField

\* The end of get_line, up to the menu.
LEMMA LeaveIs ==
  ASSUME TextOK(text), NEW l, LineShown(con, text, l), PlainChars
  PROVE  MenuShown(LeaveLine(con), text, l)
<1>0. PICK x0 : x0 = StartX + Len(text)
  OBVIOUS
<1>1. PICK r \in BOOLEAN, s \in BOOLEAN : Stands(con, x0, Row, r, s, Picture("line", text, l))
  BY <1>0, LineIsShown
<1>2. PICK n : n = Len(text)
  OBVIOUS
<1>3. n \in 0 .. MaxLen /\ (\A k \in 1 .. n : text[k] # NewLine) /\ Len(text) = n
  BY <1>2, TextPlain
<1>4. PICK line : line = Picture("line", text, l)
  OBVIOUS
<1>5. PICK menu : menu = Picture("menu", text, l)
  OBVIOUS
<1>6. PICK f \in BOOLEAN : f = FALSE
  OBVIOUS
<1>7. PICK d1 : d1 = Cursor(con, f)
  OBVIOUS
<1>8. Stands(d1, x0, Row, r, f, line)
  BY <1>1, <1>4, <1>7, CursorIs
<1>9. PICK d2 : d2 = Revers(d1, f)
  OBVIOUS
<1>10. Stands(d2, x0, Row, f, f, line)
  BY <1>8, <1>9, ReversIs
<1>11. PICK d3 : d3 = GotoX(d2, StartX)
  OBVIOUS
<1>12. Stands(d3, StartX, Row, FALSE, f, line)
  BY <1>6, <1>10, <1>11, FieldStart, GotoXIs
<1>13. PICK d4 : d4 = PutS(d3, text)
  OBVIOUS
<1>14. Stands(d4, StartX + n, Row, FALSE, f, menu)
  <2>1. Stands(d4, StartX + n, Row, FALSE, f, PutText(line, n, text))
    BY ONLY <1>3, <1>12, <1>13, f \in BOOLEAN, PutTextIs
  <2>2. PutText(line, n, text) = menu
    BY ONLY TextOK(text), <1>2, <1>4, <1>5, LinePicture
  <2> QED
    BY <2>1, <2>2
<1>15. PICK d5 : d5 = Cursor(d4, f)
  OBVIOUS
<1>16. Stands(d5, StartX + n, Row, FALSE, f, menu)
  BY <1>14, <1>15, CursorIs
<1>17. PICK d6 : d6 = GotoXY(d5, 0, 0)
  OBVIOUS
<1>18. Stands(d6, 0, 0, f, f, menu)
  BY <1>6, <1>16, <1>17, FieldStart, GotoXYIs
<1>19. PICK d7 : d7 = PutC(d6, Space)
  OBVIOUS
<1>20. Stands(d7, 0 + 1, 0, f, f, menu)
  <2>1. Space # NewLine
    BY DEF Space, NewLine
  <2>2. PICK p : p = <<0, 0>>
    OBVIOUS
  <2>3. Stands(d7, 0 + 1, 0, f, f, [menu EXCEPT ![<<0, 0>>] = <<Space, f>>])
    BY ONLY <1>18, <1>19, <2>1, f \in BOOLEAN, FieldStart, PutCIs
  <2>4. menu[p] = <<Space, f>>
    BY <1>5, <1>6, <2>2, FieldStart DEF Picture, Blank
  <2>5. menu = [q \in Grid |-> menu[q]]
    BY <1>5 DEF Picture
  <2>6. [menu EXCEPT ![p] = <<Space, f>>] = menu
    BY ONLY <2>4, <2>5
  <2> QED
    BY <2>2, <2>3, <2>6
<1>21. PICK d8 : d8 = GotoXY(d7, StartX, Row)
  OBVIOUS
<1>22. Stands(d8, StartX, Row, FALSE, f, menu)
  BY <1>6, <1>20, <1>21, FieldStart, GotoXYIs
<1>23. PICK d9 : d9 = PutS(d8, text)
  OBVIOUS
<1>24. Stands(d9, StartX + n, Row, FALSE, FALSE, menu)
  <2>1. Stands(d9, StartX + n, Row, FALSE, f, PutText(menu, n, text))
    BY ONLY <1>3, <1>22, <1>23, f \in BOOLEAN, PutTextIs
  <2>2. PutText(menu, n, text) = menu
    BY ONLY TextOK(text), <1>2, <1>5, LinePicture
  <2> QED
    BY <1>6, <2>1, <2>2
<1>25. LeaveLine(con) = d9
  BY <1>6, <1>7, <1>9, <1>11, <1>13, <1>15, <1>17, <1>19, <1>21, <1>23 DEF LeaveLine, PutSXY
<1> QED
  BY <1>5, <1>24, <1>25 DEF MenuShown

\* get_input, up to get_line's loop.
LEMMA GetInputIs ==
  ASSUME TextOK(text), NEW l, MenuShown(con, text, l), Len(text) = MaxLen => l = text[MaxLen],
         PlainChars
  PROVE  LineShown(GetInput(con, text), <<>>, l)
<1>1. PICK x, y : Stands(con, x, y, FALSE, FALSE, Picture("menu", text, l))
  BY DEF MenuShown
<1>2. PICK f \in BOOLEAN : f = FALSE
  OBVIOUS
<1>3. PICK str : str = Field(text)
  OBVIOUS
<1>4. PICK n : n = Len(str)
  OBVIOUS
<1>5. /\ n \in 0 .. MaxLen /\ (\A k \in 1 .. n : str[k] = Space \/ str[k] \in Chars)
      /\ PutText(Picture("menu", text, l), n, str) = Picture("line", <<>>, l)
  BY ONLY TextOK(text), Len(text) = MaxLen => l = text[MaxLen], <1>3, <1>4, BlankedPicture
<1>6. \A k \in 1 .. n : str[k] # NewLine
  <2>1. Space # NewLine
    BY DEF Space, NewLine
  <2> QED
    BY <1>5, <2>1 DEF PlainChars
<1>7. PICK menu : menu = Picture("menu", text, l)
  OBVIOUS
<1>8. PICK line : line = Picture("line", <<>>, l)
  OBVIOUS
<1>9. PICK d1 : d1 = GotoXY(con, StartX, Row)
  OBVIOUS
<1>10. Stands(d1, StartX, Row, FALSE, f, menu)
  <2>1. Stands(con, x, y, f, f, menu)
    BY <1>1, <1>2, <1>7
  <2>2. Stands(d1, StartX, Row, f, f, menu)
    BY <1>9, <2>1, FieldStart, GotoXYIs
  <2> QED
    BY <1>2, <2>2
<1>11. PICK d2 : d2 = PutS(d1, str)
  OBVIOUS
<1>12. Stands(d2, StartX + n, Row, FALSE, f, line)
  <2>1. Stands(d2, StartX + n, Row, FALSE, f, PutText(menu, n, str))
    <3>1. n \in 0 .. MaxLen
      BY <1>5
    <3> QED
      BY ONLY <3>1, <1>4, <1>6, <1>10, <1>11, f \in BOOLEAN, PutTextIs
  <2> QED
    BY <1>5, <1>7, <1>8, <2>1
<1>13. PICK d3 : d3 = GotoXY(d2, StartX, Row)
  OBVIOUS
<1>14. Stands(d3, StartX, Row, FALSE, f, line)
  BY <1>12, <1>13, FieldStart, GotoXYIs
<1>15. Stands(Cursor(d3, TRUE), StartX, Row, FALSE, TRUE, line)
  BY <1>14, CursorIs
<1>16. GetInput(con, text) = Cursor(d3, TRUE)
  BY <1>3, <1>9, <1>11, <1>13 DEF GetInput, PutSXY
<1>17. Len(<<>>) = 0 /\ Len(<<>>) # MaxLen /\ StartX + Len(<<>>) = StartX
  BY FieldFacts
<1> QED
  BY <1>8, <1>15, <1>16, <1>17 DEF LineShown

\* show_header and show_server, on a console that was just opened.
LEMMA WelcomeIs ==
  ASSUME con = [Closed EXCEPT !.ready = TRUE], NEW t, TextOK(t), PlainChars,
         NEW l, l = IF Len(t) = MaxLen THEN t[MaxLen] ELSE Space
  PROVE  MenuShown(PutSXY(Clear(con), StartX, Row, t), t, l)
<1>1. PICK n : n = Len(t)
  OBVIOUS
<1>2. n \in 0 .. MaxLen /\ (\A k \in 1 .. n : t[k] # NewLine) /\ Len(t) = n
  BY <1>1, TextPlain
<1>3. PICK f \in BOOLEAN : f = FALSE
  OBVIOUS
<1>4. con = [ready |-> TRUE, x |-> 0, y |-> 0, rev |-> f, shown |-> f, on |-> FALSE,
             at |-> <<0, 0>>, saved |-> Blank, cell |-> Empty, px |-> Empty]
  BY <1>3 DEF Closed
<1>5. Clear(con) = con
  <2>1. CursorErase(con) = con /\ con.ready
    BY <1>4 DEF CursorErase
  <2>2. PICK z : z = 0
    OBVIOUS
  <2>3. PICK p : p = <<0, 0>>
    OBVIOUS
  <2>4. PICK b : b = Blank
    OBVIOUS
  <2>5. PICK e : e = Empty
    OBVIOUS
  <2>6. con = [ready |-> TRUE, x |-> z, y |-> z, rev |-> f, shown |-> f, on |-> FALSE,
               at |-> p, saved |-> b, cell |-> e, px |-> e]
    BY <1>4, <2>2, <2>3, <2>4, <2>5
  <2>7. PICK d : d = [con EXCEPT !.px = e, !.cell = e, !.x = z, !.y = z]
    OBVIOUS
  <2>8. d = [ready |-> TRUE, x |-> z, y |-> z, rev |-> f, shown |-> f, on |-> FALSE,
             at |-> p, saved |-> b, cell |-> e, px |-> e]
    BY ONLY <2>6, <2>7
  <2> QED
    BY <2>1, <2>2, <2>5, <2>6, <2>7, <2>8 DEF Clear
<1>6. Stands(con, 0, 0, f, f, Empty)
  <2>1. Off(con, 0, 0, f, f, Empty)
    BY <1>4 DEF Off
  <2>2. Placed(0, 0, Empty)
    BY FieldStart DEF Placed, Empty
  <2> QED
    BY <1>3, <2>1, <2>2 DEF Stands
<1>7. PICK d1 : d1 = GotoXY(con, StartX, Row)
  OBVIOUS
<1>8. Stands(d1, StartX, Row, FALSE, f, Empty)
  BY <1>3, <1>6, <1>7, FieldStart, GotoXYIs
<1>9. Stands(PutS(d1, t), StartX + n, Row, FALSE, f, PutText(Empty, n, t))
  BY ONLY <1>2, <1>8, f \in BOOLEAN, PutTextIs
<1>10. PutText(Empty, n, t) = Picture("menu", t, l)
  BY <1>1, StoredPicture
<1> QED
  BY <1>3, <1>5, <1>7, <1>9, <1>10 DEF MenuShown, PutSXY

-----------------------------------------------------------------------------
(* The characters of keys and texts.                                       *)

\* No key of a row is a newline.
LEMMA PlainRows ==
  /\ \A k \in 1 .. 10 : Digits[k] # NewLine /\ RowQ[k] # NewLine /\ UpperQ[k] # NewLine
  /\ \A k \in 1 .. 9 : RowA[k] # NewLine /\ UpperA[k] # NewLine
  /\ \A k \in 1 .. 7 : RowZ[k] # NewLine /\ UpperZ[k] # NewLine
<1>1. ASSUME NEW k \in 1 .. 10
      PROVE  Digits[k] # NewLine /\ RowQ[k] # NewLine /\ UpperQ[k] # NewLine
  BY DEF Digits, RowQ, UpperQ, NewLine
<1>2. ASSUME NEW k \in 1 .. 9 PROVE RowA[k] # NewLine /\ UpperA[k] # NewLine
  BY DEF RowA, UpperA, NewLine
<1>3. ASSUME NEW k \in 1 .. 7 PROVE RowZ[k] # NewLine /\ UpperZ[k] # NewLine
  BY DEF RowZ, UpperZ, NewLine
<1> QED
  BY <1>1, <1>2, <1>3

\* The keys of signs, with any pairs of characters.
SignKeys(a, b, c, d, e, f, g, h, i, j, k) ==
  [code \in {0} \cup 11 .. 13 \cup 26 .. 27 \cup 41 .. 42 \cup 56 .. 58 |->
     CASE code = 0  -> a
       [] code = 11 -> b
       [] code = 12 -> c
       [] code = 13 -> d
       [] code = 26 -> e
       [] code = 27 -> f
       [] code = 41 -> g
       [] code = 42 -> h
       [] code = 56 -> i
       [] code = 57 -> j
       [] code = 58 -> k]

PlainPair(p) == p[1] # NewLine /\ p[2] # NewLine
PlainPairs(a, b, c, d, e, f, g, h, i, j, k) ==
  /\ PlainPair(a) /\ PlainPair(b) /\ PlainPair(c) /\ PlainPair(d) /\ PlainPair(e) /\ PlainPair(f)
  /\ PlainPair(g) /\ PlainPair(h) /\ PlainPair(i) /\ PlainPair(j) /\ PlainPair(k)

\* Nor is a sign, whatever the pairs are.
LEMMA PlainKeys ==
  ASSUME NEW a, NEW b, NEW c, NEW d, NEW e, NEW f, NEW g, NEW h, NEW i, NEW j, NEW k,
         PlainPairs(a, b, c, d, e, f, g, h, i, j, k),
         NEW keys, keys = SignKeys(a, b, c, d, e, f, g, h, i, j, k)
  PROVE  \A code \in DOMAIN keys : PlainPair(keys[code])
BY DEF PlainPairs, SignKeys

\* A pair of them.
LEMMA PlainTwo ==
  ASSUME NEW a, NEW b, a # NewLine, b # NewLine
  PROVE  PlainPair(<<a, b>>)
BY DEF PlainPair

\* The signs.
LEMMA PlainSigns ==
  \A code \in DOMAIN Signs : PlainPair(Signs[code])
<1>1. Signs = SignKeys(<<"grave", "~">>, <<"-", "_">>, <<"=", "+">>, <<"\\", "|">>, <<"[", "{">>,
                       <<"]", "}">>, <<";", ":">>, <<"'", "\"">>, <<",", "<">>, <<".", ">">>,
                       <<"/", "?">>)
  BY Zenon DEF Signs, SignKeys
<1>2. /\ PlainPair(<<"grave", "~">>) /\ PlainPair(<<"-", "_">>) /\ PlainPair(<<"=", "+">>)
      /\ PlainPair(<<"\\", "|">>) /\ PlainPair(<<"[", "{">>) /\ PlainPair(<<"]", "}">>)
      /\ PlainPair(<<";", ":">>) /\ PlainPair(<<"'", "\"">>) /\ PlainPair(<<",", "<">>)
      /\ PlainPair(<<".", ">">>) /\ PlainPair(<<"/", "?">>)
  BY PlainTwo, Zenon DEF NewLine
<1>3. PlainPairs(<<"grave", "~">>, <<"-", "_">>, <<"=", "+">>, <<"\\", "|">>, <<"[", "{">>,
                 <<"]", "}">>, <<";", ":">>, <<"'", "\"">>, <<",", "<">>, <<".", ">">>,
                 <<"/", "?">>)
  BY <1>2, Zenon DEF PlainPairs
<1> QED
  BY ONLY <1>1, <1>3, PlainKeys, Zenon

\* No key is a newline.
LEMMA PlainKey ==
  ASSUME NEW m \in Messages
  PROVE  RawKey(m) # NewLine
<1>1. m \in [code : 0 .. 127, shift : BOOLEAN, up : BOOLEAN]
  BY MessageAssumption
<1>2. None # NewLine
  BY Zenon DEF None, NewLine
<1>8. DOMAIN Signs = {0} \cup 11 .. 13 \cup 26 .. 27 \cup 41 .. 42 \cup 56 .. 58
  BY Zenon DEF Signs
<1>3. CASE m.up
  BY <1>2, <1>3 DEF RawKey
<1>4. CASE ~m.up /\ m.code \in 1 .. 10
  <2>1. /\ m.code \notin 16 .. 25 /\ m.code \notin 32 .. 40 /\ m.code \notin 49 .. 55
        /\ m.code \notin DOMAIN Signs /\ m.code \notin 64 .. 69
    BY <1>8, <1>4
  <2>2. RawKey(m) = IF m.shift THEN None ELSE Digits[m.code]
    BY <1>4, <2>1 DEF RawKey
  <2> QED
    BY <1>2, <1>4, <2>2, PlainRows
<1>5. CASE ~m.up /\ m.code \in 16 .. 25
  <2>1. /\ m.code \notin 1 .. 10 /\ m.code \notin 32 .. 40 /\ m.code \notin 49 .. 55
        /\ m.code \notin DOMAIN Signs /\ m.code \notin 64 .. 69
    BY <1>8, <1>5
  <2>2. RawKey(m) = IF m.shift THEN UpperQ[m.code - 16 + 1] ELSE RowQ[m.code - 16 + 1]
    BY <1>5, <2>1 DEF RawKey
  <2>3. m.code - 16 + 1 \in 1 .. 10
    BY <1>5
  <2> QED
    BY <2>2, <2>3, PlainRows
<1>6. CASE ~m.up /\ m.code \in 32 .. 40
  <2>1. /\ m.code \notin 1 .. 10 /\ m.code \notin 16 .. 25 /\ m.code \notin 49 .. 55
        /\ m.code \notin DOMAIN Signs /\ m.code \notin 64 .. 69
    BY <1>8, <1>6
  <2>2. RawKey(m) = IF m.shift THEN UpperA[m.code - 32 + 1] ELSE RowA[m.code - 32 + 1]
    BY <1>6, <2>1 DEF RawKey
  <2>3. m.code - 32 + 1 \in 1 .. 9
    BY <1>6
  <2> QED
    BY <2>2, <2>3, PlainRows
<1>7. CASE ~m.up /\ m.code \in 49 .. 55
  <2>1. /\ m.code \notin 1 .. 10 /\ m.code \notin 16 .. 25 /\ m.code \notin 32 .. 40
        /\ m.code \notin DOMAIN Signs /\ m.code \notin 64 .. 69
    BY <1>8, <1>7
  <2>2. RawKey(m) = IF m.shift THEN UpperZ[m.code - 49 + 1] ELSE RowZ[m.code - 49 + 1]
    BY <1>7, <2>1 DEF RawKey
  <2>3. m.code - 49 + 1 \in 1 .. 7
    BY <1>7
  <2> QED
    BY <2>2, <2>3, PlainRows
<1>9. CASE ~m.up /\ m.code \in DOMAIN Signs
  <2>1. /\ m.code \notin 1 .. 10 /\ m.code \notin 16 .. 25 /\ m.code \notin 32 .. 40
        /\ m.code \notin 49 .. 55 /\ m.code \notin 64 .. 69
    BY <1>8, <1>9
  <2>2. RawKey(m) = Signs[m.code][IF m.shift THEN 2 ELSE 1]
    BY <1>9, <2>1 DEF RawKey
  <2>3. PlainPair(Signs[m.code])
    BY <1>9, PlainSigns
  <2> QED
    BY <2>2, <2>3 DEF PlainPair
<1>10. CASE ~m.up /\ m.code \in 64 .. 69
  <2>1. /\ m.code \notin 1 .. 10 /\ m.code \notin 16 .. 25 /\ m.code \notin 32 .. 40
        /\ m.code \notin 49 .. 55 /\ m.code \notin DOMAIN Signs
    BY <1>8, <1>10
  <2>2. RawKey(m) = Controls[m.code - 63]
    BY <1>10, <2>1 DEF RawKey
  <2>3. PICK sp : sp = Space
    OBVIOUS
  <2>4. Controls = <<sp, "del", "\t", "enter", "enter", "stop">>
    BY <2>3, Zenon DEF Controls
  <2>5. sp # NewLine
    BY <2>3, Zenon DEF Space, NewLine
  <2>6. ASSUME NEW i \in 1 .. 6 PROVE Controls[i] # NewLine
    BY ONLY <2>4, <2>5 DEF NewLine
  <2>7. m.code - 63 \in 1 .. 6
    BY <1>10
  <2> QED
    BY <2>2, <2>6, <2>7
<1>11. CASE ~m.up /\ m.code \notin DOMAIN Signs \cup 1 .. 10 \cup 16 .. 25 \cup 32 .. 40 \cup 49 .. 55 \cup 64 .. 69
  <2>1. RawKey(m) = None
    BY <1>11 DEF RawKey
  <2> QED
    BY <1>2, <2>1
<1> QED
  BY <1>3, <1>4, <1>5, <1>6, <1>7, <1>9, <1>10, <1>11

\* Nor is a character of a text that is stored.
LEMMA CharsPlain == PlainChars
<1>1. ASSUME NEW s \in StoredTexts PROVE NewLine \notin Range(s)
  BY StoredAssumption
<1> QED
  BY <1>1, PlainKey DEF PlainChars, Chars

\* A text that is stored is one of the field.
LEMMA StoredOK ==
  ASSUME NEW s \in StoredTexts
  PROVE  TextOK(s)
<1>1. s \in Seq(Range(s)) /\ Len(s) <= MaxLen
  BY StoredAssumption
<1>2. Range(s) \subseteq Chars
  BY DEF Chars
<1> QED
  BY <1>1, <1>2 DEF TextOK

-----------------------------------------------------------------------------
(* What keys ask for, one after the other.                                 *)

\* What each key of a port makes of what was asked for before.
Steps(r, m, p) == r[0] = m /\ \A k \in 1 .. Len(p) : r[k] = Meaning(r[k - 1], RawKey(p[k]))
After(m, p, n) == \E r : Steps(r, m, p) /\ r[Len(p)] = n

\* Without a key it is what it was.
LEMMA AfterNothing ==
  ASSUME NEW m, NEW n
  PROVE  After(m, <<>>, n) <=> n = m
<1>1. Len(<<>>) = 0 /\ 1 .. 0 = {}
  OBVIOUS
<1>2. ASSUME After(m, <<>>, n) PROVE n = m
  BY <1>1, <1>2 DEF After, Steps
<1>3. ASSUME n = m PROVE After(m, <<>>, n)
  <2>1. PICK r : r = [k \in {0} |-> m]
    OBVIOUS
  <2>2. r[0] = m
    BY <2>1
  <2>3. Steps(r, m, <<>>) /\ r[Len(<<>>)] = n
    BY <1>1, <1>3, <2>2 DEF Steps
  <2> QED
    BY <2>3 DEF After
<1> QED
  BY <1>2, <1>3

\* One more key.
LEMMA AfterAppend ==
  ASSUME NEW m, NEW p \in Seq(Messages), NEW n, After(m, p, n), NEW msg \in Messages,
         NEW q, q = Append(p, msg)
  PROVE  After(m, q, Meaning(n, RawKey(msg)))
<1>1. PICK r : Steps(r, m, p) /\ r[Len(p)] = n
  BY DEF After
<1>2. PICK len \in Nat : len = Len(p)
  OBVIOUS
<1>3. Len(q) = len + 1 /\ q[len + 1] = msg /\ \A k \in 1 .. len : q[k] = p[k]
  BY <1>2
<1>4. PICK last : last = Meaning(n, RawKey(msg))
  OBVIOUS
<1>5. PICK s : s = [k \in 0 .. len + 1 |-> IF k = len + 1 THEN last ELSE r[k]]
  OBVIOUS
<1>6. s[len + 1] = last /\ \A k \in 0 .. len : s[k] = r[k]
  BY <1>5
<1>7. s[0] = m
  BY <1>1, <1>2, <1>6 DEF Steps
<1>8. ASSUME NEW k \in 1 .. len + 1 PROVE s[k] = Meaning(s[k - 1], RawKey(q[k]))
  <2>1. CASE k = len + 1
    <3>1. s[k] = last /\ q[k] = msg /\ s[k - 1] = n
      BY <1>1, <1>2, <1>3, <1>6, <2>1
    <3> QED
      BY <1>4, <3>1
  <2>2. CASE k # len + 1
    <3>1. k \in 1 .. len /\ k - 1 \in 0 .. len /\ k \in 0 .. len
      BY <2>2
    <3>2. s[k] = r[k] /\ s[k - 1] = r[k - 1] /\ q[k] = p[k]
      BY <1>3, <1>6, <3>1
    <3>3. r[k] = Meaning(r[k - 1], RawKey(p[k]))
      BY <1>1, <1>2, <3>1 DEF Steps
    <3> QED
      BY <3>2, <3>3
  <2> QED
    BY <2>1, <2>2
<1>9. Steps(s, m, q)
  BY <1>3, <1>7, <1>8 DEF Steps
<1> QED
  BY <1>3, <1>4, <1>6, <1>9 DEF After

\* Keys up to the j-th that are taken away.
LEMMA AfterTaken ==
  ASSUME NEW m, NEW p \in Seq(Messages), NEW r, Steps(r, m, p), NEW j \in 0 .. Len(p),
         NEW q, q = SubSeq(p, j + 1, Len(p))
  PROVE  q \in Seq(Messages) /\ Len(q) = Len(p) - j /\ After(r[j], q, r[Len(p)])
<1>1. PICK len \in Nat : len = Len(p)
  OBVIOUS
<1>2. j \in Nat /\ j <= len
  BY <1>1
<1>3. q \in Seq(Messages) /\ Len(q) = len - j /\ \A k \in 1 .. len - j : q[k] = p[j + k]
  BY <1>1, <1>2
<1>4. PICK s : s = [k \in 0 .. len - j |-> r[j + k]]
  OBVIOUS
<1>5. \A k \in 0 .. len - j : s[k] = r[j + k]
  BY <1>4
<1>6. s[0] = r[j] /\ s[len - j] = r[len]
  BY <1>2, <1>5
<1>7. ASSUME NEW k \in 1 .. len - j PROVE s[k] = Meaning(s[k - 1], RawKey(q[k]))
  <2>1. j + k \in 1 .. len /\ k \in 0 .. len - j /\ k - 1 \in 0 .. len - j /\ j + k - 1 = j + (k - 1)
    BY <1>2
  <2>2. r[j + k] = Meaning(r[j + k - 1], RawKey(p[j + k]))
    BY <1>1, <2>1 DEF Steps
  <2>3. s[k] = r[j + k] /\ s[k - 1] = r[j + (k - 1)] /\ q[k] = p[j + k]
    BY <1>3, <1>5, <2>1
  <2> QED
    BY <2>1, <2>2, <2>3
<1>8. Steps(s, r[j], q)
  BY <1>3, <1>6, <1>7 DEF Steps
<1> QED
  BY <1>1, <1>3, <1>6, <1>8 DEF After

\* A key without a character asks for nothing.
LEMMA NoneMeans ==
  ASSUME NEW m
  PROVE  Meaning(m, None) = m
<1>1. None # "enter" /\ None # "del" /\ ~IsPrint(None) /\ None # EditKey
  BY FieldAssumption DEF None, IsPrint
<1> QED
  BY <1>1 DEF Meaning

Nones(p, j) == \A k \in 1 .. j : RawKey(p[k]) = None

\* Nor do several of them.
LEMMA NonesMean ==
  ASSUME NEW m, NEW p \in Seq(Messages), NEW r, Steps(r, m, p), NEW j \in 0 .. Len(p),
         Nones(p, j)
  PROVE  r[j] = m
<1>1. PICK T : T = {k \in 0 .. j : r[k] = m}
  OBVIOUS
<1>2. j \in Nat /\ j <= Len(p)
  OBVIOUS
<1>3. 0 \in T
  BY <1>1, <1>2 DEF Steps
<1>4. ASSUME NEW k \in 0 .. j - 1, k \in T PROVE k + 1 \in T
  <2>1. k + 1 \in 1 .. Len(p) /\ k + 1 \in 1 .. j /\ k + 1 \in 0 .. j /\ (k + 1) - 1 = k
    BY <1>2
  <2>2. r[k + 1] = Meaning(r[k], RawKey(p[k + 1]))
    BY <2>1 DEF Steps
  <2>3. RawKey(p[k + 1]) = None
    BY <2>1 DEF Nones
  <2> QED
    BY <1>1, <1>4, <2>1, <2>2, <2>3, NoneMeans
<1>5. \A k \in 0 .. j - 1 : k \in T => k + 1 \in T
  BY <1>4
<1>6. \A k \in 0 .. j : k \in T
  BY ONLY <1>2, <1>3, <1>5, Induction
<1> QED
  BY <1>1, <1>2, <1>6

\* kbhit and cgetc throw away what is no character, and then take one.
LEMMA NextKey ==
  ASSUME NEW m, NEW p \in Seq(Messages), NEW n, After(m, p, n)
  PROVE  /\ FromKey(p) = <<>> => n = m
         /\ FromKey(p) # <<>> =>
              /\ Tail(FromKey(p)) \in Seq(Messages) /\ Head(FromKey(p)) \in Messages
              /\ RawKey(Head(FromKey(p))) # None
              /\ After(Meaning(m, RawKey(Head(FromKey(p)))), Tail(FromKey(p)), n)
<1>1. PICK r : Steps(r, m, p) /\ r[Len(p)] = n
  BY DEF After
<1>2. PICK len \in Nat : len = Len(p)
  OBVIOUS
<1>3. CASE Mappable(p) = {}
  <2>1. FromKey(p) = <<>>
    BY <1>3 DEF FromKey
  <2>2. Nones(p, len)
    BY <1>2, <1>3 DEF Mappable, Nones
  <2>3. len \in 0 .. Len(p)
    BY <1>2
  <2>4. r[len] = m
    BY ONLY p \in Seq(Messages), <1>1, <2>2, <2>3, NonesMean
  <2> QED
    BY <1>1, <1>2, <2>1, <2>4
<1>4. CASE Mappable(p) # {}
  <2>1. Mappable(p) \in SUBSET Nat
    BY DEF Mappable
  <2>2. \E k \in Mappable(p) : \A e \in Mappable(p) : k <= e
    BY ONLY <1>4, <2>1, LeastOfNaturals
  <2>3. PICK i : i = CHOOSE k \in Mappable(p) : \A e \in Mappable(p) : k <= e
    OBVIOUS
  <2>4. i \in Mappable(p) /\ \A e \in Mappable(p) : i <= e
    BY <2>2, <2>3
  <2>5. i \in 1 .. len /\ RawKey(p[i]) # None
    BY <1>2, <2>4 DEF Mappable
  <2>6. PICK j \in Nat : j = i - 1 /\ j \in 0 .. Len(p) /\ j + 1 = i /\ i \in 0 .. Len(p) /\ i \in Nat
    BY <1>2, <2>5
  <2>7. Nones(p, j)
    <3> SUFFICES ASSUME NEW k \in 1 .. j PROVE RawKey(p[k]) = None
      BY DEF Nones
    <3>1. k \in 1 .. len /\ ~(i <= k)
      BY <2>5, <2>6
    <3> QED
      BY <1>2, <2>4, <3>1 DEF Mappable
  <2>8. r[j] = m
    <3>1. j \in 0 .. Len(p)
      BY <2>6
    <3> QED
      BY ONLY p \in Seq(Messages), <1>1, <2>7, <3>1, NonesMean
  <2>9. r[i] = Meaning(m, RawKey(p[i]))
    <3>1. i \in 1 .. Len(p)
      BY <1>2, <2>5
    <3> QED
      BY <1>1, <2>6, <2>8, <3>1 DEF Steps
  <2>10. PICK f : f = SubSeq(p, i, len)
    OBVIOUS
  <2>11. FromKey(p) = f
    BY <1>2, <1>4, <2>3, <2>10 DEF FromKey
  <2>12. f \in Seq(Messages) /\ Len(f) = len - i + 1 /\ Len(f) # 0 /\ f[1] = p[i] /\ p[i] \in Messages
    BY <1>2, <2>5, <2>10
  <2>13. f # <<>> /\ Head(f) = p[i]
    BY <2>12
  <2>14. PICK q : q = SubSeq(p, i + 1, len)
    OBVIOUS
  <2>15. Tail(f) = q
    <3>1. Tail(f) \in Seq(Messages) /\ Len(Tail(f)) = len - i /\ \A k \in 1 .. len - i : Tail(f)[k] = p[i + k]
      BY <1>2, <2>5, <2>10, <2>12, <2>13
    <3>2. q \in Seq(Messages) /\ Len(q) = len - i /\ \A k \in 1 .. len - i : q[k] = p[i + k]
      BY <1>2, <2>5, <2>14
    <3> QED
      BY <3>1, <3>2
  <2>16. q \in Seq(Messages) /\ After(r[i], q, r[Len(p)])
    BY <1>1, <1>2, <2>6, <2>14, AfterTaken
  <2> QED
    BY <1>1, <2>5, <2>9, <2>11, <2>12, <2>13, <2>15, <2>16
<1> QED
  BY <1>3, <1>4

\* What a history says: stage, text and what is left in the last place.
M(st, t, l) == [stage |-> st, text |-> t, last |-> l]

\* A key in the menu.
LEMMA MenuMeans ==
  ASSUME NEW t, NEW l, NEW ch, ch # None
  PROVE  /\ ch = EditKey => Meaning(M("menu", t, l), ch) = M("line", <<>>, l)
         /\ ch # EditKey /\ t = <<>> => Meaning(M("menu", t, l), ch) = M("menu", t, l)
<1>1. PICK m : m = [stage |-> "menu", text |-> t, last |-> l]
  OBVIOUS
<1>2. m.stage = "menu" /\ m.text = t /\ m.stage # "line" /\ m.stage # "loop"
  BY <1>1
<1>3. ASSUME ch = EditKey PROVE Meaning(m, ch) = M("line", <<>>, l)
  <2>1. Meaning(m, ch) = [m EXCEPT !.stage = "line", !.text = <<>>]
    BY <1>2, <1>3 DEF Meaning
  <2>2. PICK d : d = [m EXCEPT !.stage = "line", !.text = <<>>]
    OBVIOUS
  <2>3. d = [stage |-> "line", text |-> <<>>, last |-> l]
    BY ONLY <1>1, <2>2
  <2> QED
    BY <2>1, <2>2, <2>3 DEF M
<1>4. ASSUME ch # EditKey, t = <<>> PROVE Meaning(m, ch) = m
  BY <1>2, <1>4 DEF Meaning
<1> QED
  BY <1>1, <1>3, <1>4 DEF M

\* A key in a line.
LEMMA LineMeans ==
  ASSUME NEW t, NEW l, NEW ch, ch # None
  PROVE  /\ IsPrint(ch) => \E i, tn, ln : /\ Typed(t, l, ch, i, tn, ln)
                                         /\ Meaning(M("line", t, l), ch) = M("line", tn, ln)
         /\ ch = "del" /\ t # <<>> =>
              Meaning(M("line", t, l), ch)
                = M("line", Front(t), IF Len(t) = MaxLen THEN Space ELSE l)
         /\ ch = "enter" => Meaning(M("line", t, l), ch) = M("menu", t, l)
         /\ ~IsPrint(ch) /\ ch # "enter" /\ (ch = "del" => t = <<>>) =>
              Meaning(M("line", t, l), ch) = M("line", t, l)
<1>1. PICK m : m = [stage |-> "line", text |-> t, last |-> l]
  OBVIOUS
<1>2. /\ m.stage = "line" /\ m.text = t /\ m.last = l /\ m.stage # "menu" /\ m.stage # "loop"
      /\ ~IsPrint("del") /\ ~IsPrint("enter") /\ "del" # "enter"
  BY <1>1 DEF IsPrint
<1>3. ASSUME IsPrint(ch)
      PROVE  \E i, tn, ln : Typed(t, l, ch, i, tn, ln) /\ Meaning(m, ch) = M("line", tn, ln)
  <2>1. PICK kept : kept = Kept(t)
    OBVIOUS
  <2>2. PICK i : i = Len(kept)
    OBVIOUS
  <2>3. PICK tn : tn = Append(kept, ch)
    OBVIOUS
  <2>4. PICK ln : ln = (IF i = MaxLen - 1 THEN ch ELSE l)
    OBVIOUS
  <2>5. Meaning(m, ch) = [m EXCEPT !.text = tn, !.last = ln]
    <3>1. ch # "del" /\ ch # "enter"
      BY <1>2, <1>3
    <3>2. kept = (IF Len(m.text) = MaxLen THEN Front(m.text) ELSE m.text)
      BY <1>2, <2>1 DEF Kept
    <3>3. Meaning(m, ch) = [m EXCEPT !.text = Append(kept, ch),
                                     !.last = IF Len(kept) = MaxLen - 1 THEN ch ELSE @]
      BY <1>2, <1>3, <3>1, <3>2 DEF Meaning
    <3> QED
      BY <1>2, <2>2, <2>3, <2>4, <3>3
  <2>6. PICK d : d = [m EXCEPT !.text = tn, !.last = ln]
    OBVIOUS
  <2>7. d = [stage |-> "line", text |-> tn, last |-> ln]
    BY ONLY <1>1, <2>6
  <2>8. Typed(t, l, ch, i, tn, ln)
    BY <2>1, <2>2, <2>3, <2>4 DEF Typed
  <2> QED
    BY <2>5, <2>6, <2>7, <2>8 DEF M
<1>4. ASSUME ch = "del", t # <<>>
      PROVE  Meaning(m, ch) = M("line", Front(t), IF Len(t) = MaxLen THEN Space ELSE l)
  <2>1. PICK tn : tn = Front(t)
    OBVIOUS
  <2>2. PICK ln : ln = (IF Len(t) = MaxLen THEN Space ELSE l)
    OBVIOUS
  <2>3. Meaning(m, ch) = [m EXCEPT !.text = tn, !.last = ln]
    BY <1>2, <1>4, <2>1, <2>2 DEF Meaning
  <2>4. PICK d : d = [m EXCEPT !.text = tn, !.last = ln]
    OBVIOUS
  <2>5. d = [stage |-> "line", text |-> tn, last |-> ln]
    BY ONLY <1>1, <2>4
  <2> QED
    BY <2>1, <2>2, <2>3, <2>4, <2>5 DEF M
<1>5. ASSUME ch = "enter" PROVE Meaning(m, ch) = M("menu", t, l)
  <2>1. Meaning(m, ch) = [m EXCEPT !.stage = "menu"]
    BY <1>2, <1>5 DEF Meaning
  <2>2. PICK d : d = [m EXCEPT !.stage = "menu"]
    OBVIOUS
  <2>3. d = [stage |-> "menu", text |-> t, last |-> l]
    BY ONLY <1>1, <2>2
  <2> QED
    BY <2>1, <2>2, <2>3 DEF M
<1>6. ASSUME ~IsPrint(ch), ch # "enter", ch = "del" => t = <<>> PROVE Meaning(m, ch) = m
  BY <1>2, <1>6 DEF Meaning
<1> QED
  BY <1>1, <1>3, <1>4, <1>5, <1>6 DEF M

-----------------------------------------------------------------------------
(* The welcome screen's invariant.                                         *)

Opening == {"open", "abandon", "start"}
Editing == {"menu", "line"}

\* Until the welcome screen nothing is written and no key is read, and there is
\* one buffer until the first frame.
FreshInv ==
  /\ stage \in Opening =>
       con = [Closed EXCEPT !.ready = con.ready] /\ port = <<>> /\ pushed = None
  /\ stage = "start" => con.ready = HasWindow
  /\ stage \in Opening \cup Editing => double_buffer_started = FALSE /\ platform.queued = TRUE

Shown(c, st, t, l) == IF st = "line" THEN LineShown(c, t, l) ELSE MenuShown(c, t, l)

\* The console shows the line with l left in its last place, and the keys that
\* were read late, k and then p, make n of it.
Edited(c, st, t, l, k, p, n) ==
  /\ Shown(c, st, t, l) /\ (Len(t) = MaxLen => l = t[MaxLen])
  /\ After(Meaning(M(st, t, l), k), p, n)

Typing(c, st, t, k, p, n) ==
  TextOK(t) /\ p \in Seq(Messages) /\ \E l : Edited(c, st, t, l, k, p, n)

EditInv == stage \in Editing /\ HasWindow => Typing(con, stage, text, pushed, port, meant)

\* Before the welcome screen.
LEMMA FreshStep ==
  ASSUME FreshInv, [DisplayNext]_dvars
  PROVE  FreshInv'
<1>1. CASE Open
  <2>1. stage \in Opening /\ con = [Closed EXCEPT !.ready = con.ready] /\ port = <<>> /\ pushed = None
        /\ double_buffer_started = FALSE /\ platform.queued = TRUE
    BY <1>1 DEF Open, FreshInv, Opening
  <2>2. /\ stage' \in Opening /\ con' = [con EXCEPT !.ready = (stage' = "start")]
        /\ stage' = "start" => held' = Everything
        /\ UNCHANGED <<vars, port, pushed>>
    BY <1>1 DEF Open, Opening
  <2>3. con' = [Closed EXCEPT !.ready = con'.ready]
    BY <2>1, <2>2 DEF Closed
  <2>4. stage' = "start" => con'.ready = HasWindow'
    <3>1. "window" \in Everything
      BY EverythingIs
    <3>2. con'.ready = (stage' = "start")
      BY <2>1, <2>2 DEF Closed
    <3> QED
      BY <2>2, <3>1, <3>2 DEF HasWindow
  <2>5. stage' \notin Editing
    BY <2>2 DEF Opening, Editing
  <2> QED
    BY <2>1, <2>2, <2>3, <2>4 DEF FreshInv, vars, buffers, flags, modes
<1>2. CASE CloseOne
  <2>1. stage \in {"abandon", "closing"} /\ UNCHANGED <<vars, stage, setup>>
    BY <1>2 DEF CloseOne
  <2> QED
    BY <2>1 DEF FreshInv, setup, vars, buffers, flags, modes
<1>3. CASE AllClosed
  <2>1. /\ stage \in {"abandon", "closing"} /\ held' = {} /\ UNCHANGED <<vars, port, pushed>>
        /\ con' = [con EXCEPT !.ready = FALSE] /\ stage' \in {"start", "ended"}
        /\ stage' = "start" => stage = "abandon"
    BY <1>3 DEF AllClosed
  <2>2. CASE stage = "abandon"
    <3>1. con = [Closed EXCEPT !.ready = con.ready] /\ port = <<>> /\ pushed = None
          /\ double_buffer_started = FALSE /\ platform.queued = TRUE
      BY <2>2 DEF FreshInv, Opening
    <3>2. con' = [Closed EXCEPT !.ready = con'.ready] /\ con'.ready = FALSE
      BY <2>1, <3>1 DEF Closed
    <3>3. HasWindow' = FALSE
      BY <2>1 DEF HasWindow
    <3> QED
      BY <2>1, <3>1, <3>2, <3>3 DEF FreshInv, vars, buffers, flags, modes
  <2>3. CASE stage # "abandon"
    <3>1. stage' = "ended"
      BY <2>1, <2>3
    <3> QED
      BY <3>1 DEF FreshInv, Opening, Editing
  <2> QED
    BY <2>2, <2>3
<1>4. ASSUME stage' \in Editing, stage \in Opening \cup Editing, UNCHANGED vars PROVE FreshInv'
  BY <1>4 DEF FreshInv, Opening, Editing, vars, buffers, flags, modes
<1>5. ASSUME stage' \notin Opening \cup Editing PROVE FreshInv'
  BY <1>5 DEF FreshInv, Opening
<1>6. CASE SetupStep
  <2>1. CASE Welcome
    BY <1>4, <2>1 DEF Welcome, Opening, Editing
  <2>2. CASE KeyArrives
    BY <1>4, <2>2 DEF KeyArrives, Editing
  <2>3. CASE KbHit
    BY <1>4, <2>3 DEF KbHit, Editing
  <2>4. CASE MenuWaits
    BY <1>4, <2>4 DEF MenuWaits, Editing, dvars
  <2>5. CASE CGetCWaits
    BY <1>4, <2>5 DEF CGetCWaits, Editing
  <2>6. CASE RunSimulation
    BY <1>5, <2>6 DEF RunSimulation, Opening, Editing
  <2>7. ASSUME NEW ch \in Keys, MenuKey(ch) \/ LineKey(ch) PROVE FreshInv'
    <3>1. stage \in Editing /\ stage' \in Editing /\ UNCHANGED vars
      BY <2>7 DEF MenuKey, LineKey, Editing
    <3> QED
      BY <1>4, <3>1
  <2> QED
    BY <1>6, <2>1, <2>2, <2>3, <2>4, <2>5, <2>6, <2>7 DEF SetupStep
<1>7. CASE Loop \/ Exit \/ CloseSwap \/ FlipAtExit
  <2>1. stage' \in {"loop", "closing"}
    BY <1>7 DEF Loop, Exit, CloseSwap, FlipAtExit
  <2> QED
    BY <1>5, <2>1 DEF Opening, Editing
<1>8. CASE CloseAwaits \/ End \/ UNCHANGED dvars
  <2>1. UNCHANGED dvars
    BY <1>8 DEF CloseAwaits, End
  <2> QED
    BY <2>1 DEF FreshInv, HasWindow, dvars, vars, setup, buffers, flags, modes
<1> QED
  BY <1>1, <1>2, <1>3, <1>6, <1>7, <1>8 DEF DisplayNext, Close

\* A step in the menu or in a line.
EditStep == stage \in Editing /\ HasWindow /\ Typing(con, stage, text, pushed, port, meant)
EditNext == Typing(con', stage', text', pushed', port', meant')

\* show_header, show_server.
LEMMA WelcomeTyping ==
  ASSUME FreshInv, Welcome, HasWindow
  PROVE  EditNext
<1>1. /\ stage = "start" /\ con = [Closed EXCEPT !.ready = con.ready] /\ con.ready = HasWindow
      /\ port = <<>> /\ pushed = None
  BY DEF Welcome, FreshInv, Opening
<1>2. con = [Closed EXCEPT !.ready = TRUE]
  BY <1>1
<1>3. PICK t \in StoredTexts :
        /\ text' = t /\ con' = PutSXY(Clear(con), StartX, Row, t)
        /\ meant' = [stage |-> "menu", text |-> t,
                     last |-> IF Len(t) = MaxLen THEN t[MaxLen] ELSE Space]
        /\ stage' = "menu" /\ UNCHANGED <<port, pushed>>
  BY DEF Welcome
<1>4. PICK l : l = (IF Len(t) = MaxLen THEN t[MaxLen] ELSE Space)
  OBVIOUS
<1>5. TextOK(t)
  BY StoredOK
<1>6. MenuShown(con', t, l)
  <2>1. MenuShown(PutSXY(Clear(con), StartX, Row, t), t, l)
    BY ONLY <1>2, <1>4, <1>5, CharsPlain, WelcomeIs
  <2> QED
    BY <1>3, <2>1
<1>7. meant' = M("menu", t, l)
  BY <1>3, <1>4 DEF M
<1>8. After(Meaning(M("menu", t, l), None), <<>>, meant')
  BY <1>7, NoneMeans, AfterNothing
<1>9. Edited(con', "menu", t, l, None, <<>>, meant')
  BY <1>4, <1>6, <1>8 DEF Edited, Shown
<1>10. <<>> \in Seq(Messages)
  OBVIOUS
<1> QED
  BY <1>1, <1>3, <1>5, <1>9, <1>10 DEF EditNext, Typing

\* Intuition sends a message.
LEMMA KeyArrivesTyping ==
  ASSUME EditStep, KeyArrives
  PROVE  EditNext
<1>1. PICK l : /\ Edited(con, stage, text, l, pushed, port, meant)
               /\ TextOK(text) /\ port \in Seq(Messages)
  BY DEF EditStep, Typing
<1>2. PICK msg \in Messages :
        /\ port' = Append(port, msg) /\ meant' = Meaning(meant, RawKey(msg))
        /\ UNCHANGED <<stage, con, text, pushed>>
  BY DEF KeyArrives
<1>3. PICK q : q = Append(port, msg)
  OBVIOUS
<1>4. q \in Seq(Messages)
  BY <1>1, <1>3
<1>5. PICK m : m = Meaning(M(stage, text, l), pushed)
  OBVIOUS
<1>6. After(m, port, meant)
  BY <1>1, <1>5 DEF Edited
<1>7. After(m, q, meant')
  BY <1>1, <1>2, <1>3, <1>6, AfterAppend
<1>8. Edited(con, stage, text, l, pushed, q, meant')
  BY <1>1, <1>5, <1>7 DEF Edited
<1> QED
  BY <1>1, <1>2, <1>3, <1>4, <1>8 DEF EditNext, Typing

\* kbhit.
LEMMA KbHitTyping ==
  ASSUME EditStep, KbHit
  PROVE  EditNext
<1>1. PICK l : /\ Edited(con, stage, text, l, pushed, port, meant)
               /\ TextOK(text) /\ port \in Seq(Messages)
  BY DEF EditStep, Typing
<1>2. /\ pushed = None /\ UNCHANGED <<stage, con, text, meant>>
      /\ pushed' = IF FromKey(port) = <<>> THEN None ELSE RawKey(Head(FromKey(port)))
      /\ port' = IF FromKey(port) = <<>> THEN <<>> ELSE Tail(FromKey(port))
  BY DEF KbHit
<1>3. PICK m : m = M(stage, text, l)
  OBVIOUS
<1>4. After(m, port, meant)
  BY <1>1, <1>2, <1>3, NoneMeans DEF Edited
<1>5. port' \in Seq(Messages) /\ After(Meaning(m, pushed'), port', meant)
  <2>1. CASE FromKey(port) = <<>>
    <3>1. meant = m /\ pushed' = None /\ port' = <<>>
      BY <1>1, <1>2, <1>4, <2>1, NextKey
    <3> QED
      BY <3>1, NoneMeans, AfterNothing
  <2>2. CASE FromKey(port) # <<>>
    BY <1>1, <1>2, <1>4, <2>2, NextKey
  <2> QED
    BY <2>1, <2>2
<1>6. Edited(con, stage, text, l, pushed', port', meant)
  BY <1>1, <1>3, <1>5 DEF Edited
<1> QED
  BY <1>1, <1>2, <1>5, <1>6 DEF EditNext, Typing

\* cgetc throws away what is no character.
LEMMA CGetCWaitsTyping ==
  ASSUME EditStep, CGetCWaits
  PROVE  EditNext
<1>1. PICK l : /\ Edited(con, stage, text, l, pushed, port, meant)
               /\ TextOK(text) /\ port \in Seq(Messages)
  BY DEF EditStep, Typing
<1>2. FromKey(port) = <<>> /\ port' = <<>> /\ UNCHANGED <<stage, con, text, pushed, meant>>
  BY DEF CGetCWaits
<1>3. PICK m : m = Meaning(M(stage, text, l), pushed)
  OBVIOUS
<1>4. After(m, port, meant)
  BY <1>1, <1>3 DEF Edited
<1>5. meant = m
  BY <1>1, <1>2, <1>4, NextKey
<1>6. After(m, <<>>, meant)
  BY <1>5, AfterNothing
<1>7. Edited(con, stage, text, l, pushed, <<>>, meant)
  BY <1>1, <1>3, <1>6 DEF Edited
<1>8. <<>> \in Seq(Messages)
  OBVIOUS
<1> QED
  BY <1>1, <1>2, <1>7, <1>8 DEF EditNext, Typing

\* The menu's letter begins a line; other keys do nothing while it is empty.
LEMMA MenuKeyTyping ==
  ASSUME EditStep, NEW ch, MenuKey(ch)
  PROVE  EditNext
<1>1. PICK l : /\ Edited(con, "menu", text, l, ch, port, meant)
               /\ TextOK(text) /\ port \in Seq(Messages)
  BY DEF EditStep, Typing, MenuKey, TakePushed
<1>2. ch # None /\ pushed' = None /\ port' = port /\ meant' = meant
  BY DEF MenuKey, TakePushed
<1>3. /\ MenuShown(con, text, l) /\ (Len(text) = MaxLen => l = text[MaxLen])
      /\ After(Meaning(M("menu", text, l), ch), port, meant)
  BY <1>1 DEF Edited, Shown
<1>4. CASE ch = EditKey
  <2>1. stage' = "line" /\ text' = <<>> /\ con' = GetInput(con, text)
    BY <1>4 DEF MenuKey
  <2>2. LineShown(con', <<>>, l)
    <3>1. LineShown(GetInput(con, text), <<>>, l)
      BY ONLY <1>1, <1>3, CharsPlain, GetInputIs
    <3> QED
      BY <2>1, <3>1
  <2>3. After(Meaning(M("line", <<>>, l), None), port, meant)
    BY <1>2, <1>3, <1>4, MenuMeans, NoneMeans
  <2>4. Len(<<>>) # MaxLen /\ Len(<<>>) <= MaxLen /\ <<>> \in Seq(Chars)
    BY FieldFacts
  <2>5. Edited(con', "line", <<>>, l, None, port, meant)
    BY <2>2, <2>3, <2>4 DEF Edited, Shown
  <2> QED
    BY <1>1, <1>2, <2>1, <2>4, <2>5 DEF EditNext, Typing, TextOK
<1>5. CASE ch # EditKey
  <2>1. text = <<>> /\ UNCHANGED <<stage, con, text>> /\ stage = "menu"
    BY <1>5 DEF MenuKey
  <2>2. After(Meaning(M("menu", text, l), None), port, meant)
    BY <1>2, <1>3, <1>5, <2>1, MenuMeans, NoneMeans
  <2>3. Edited(con, "menu", text, l, None, port, meant)
    BY <1>3, <2>2 DEF Edited, Shown
  <2> QED
    BY <1>1, <1>2, <2>1, <2>3 DEF EditNext, Typing
<1> QED
  BY <1>4, <1>5

\* get_line, one character.
LEMMA LineKeyTyping ==
  ASSUME EditStep, NEW ch, LineKey(ch)
  PROVE  EditNext
<1>1. PICK l : /\ Edited(con, "line", text, l, None, port, meant)
               /\ TextOK(text) /\ port \in Seq(Messages)
  BY DEF EditStep, Typing, LineKey, TakeMessage
<1>2. /\ FromKey(port) # <<>> /\ ch = RawKey(Head(FromKey(port))) /\ port' = Tail(FromKey(port))
      /\ pushed' = None /\ meant' = meant /\ stage = "line"
  BY DEF LineKey, TakeMessage
<1>3. /\ LineShown(con, text, l) /\ (Len(text) = MaxLen => l = text[MaxLen])
      /\ After(M("line", text, l), port, meant)
  BY <1>1, NoneMeans DEF Edited, Shown
<1>4. /\ ch # None /\ ch \in Chars /\ port' \in Seq(Messages)
      /\ After(Meaning(M("line", text, l), ch), port', meant)
  <2>1. /\ Tail(FromKey(port)) \in Seq(Messages) /\ Head(FromKey(port)) \in Messages
        /\ RawKey(Head(FromKey(port))) # None
        /\ After(Meaning(M("line", text, l), RawKey(Head(FromKey(port)))), Tail(FromKey(port)), meant)
    BY <1>1, <1>2, <1>3, NextKey
  <2> QED
    BY <1>2, <2>1 DEF Chars
<1>5. ASSUME NEW st, NEW tn, NEW ln, stage' = st, text' = tn, TextOK(tn), Shown(con', st, tn, ln),
             Len(tn) = MaxLen => ln = tn[MaxLen], Meaning(M("line", text, l), ch) = M(st, tn, ln)
      PROVE  EditNext
  <2>1. After(Meaning(M(st, tn, ln), None), port', meant)
    BY <1>4, <1>5, NoneMeans
  <2>2. Edited(con', st, tn, ln, None, port', meant)
    BY <1>5, <2>1 DEF Edited
  <2> QED
    BY <1>2, <1>4, <1>5, <2>2 DEF EditNext, Typing
<1>6. CASE IsPrint(ch)
  <2>1. PICK i, tn, ln : /\ Typed(text, l, ch, i, tn, ln)
                         /\ Meaning(M("line", text, l), ch) = M("line", tn, ln)
    BY <1>4, <1>6, LineMeans
  <2>2. /\ text' = Append(IF Full THEN Front(text) ELSE text, ch) /\ con' = TypeAt(con, ch)
        /\ stage' = "line"
    <3>1. ch # "del" /\ ch # "enter"
      BY <1>6 DEF IsPrint
    <3> QED
      BY <1>2, <1>6, <3>1 DEF LineKey
  <2>3. text' = tn
    BY <2>1, <2>2 DEF Typed, Kept, Full
  <2>4. LineShown(con', tn, ln)
    <3>1. LineShown(TypeAt(con, ch), tn, ln)
      BY ONLY <1>1, <1>3, <1>4, <2>1, CharsPlain, TypeIs
    <3> QED
      BY <2>2, <3>1
  <2>5. TextOK(tn) /\ Len(tn) = i + 1 /\ i \in 0 .. MaxLen - 1 /\ (i = MaxLen - 1 => tn[MaxLen] = ln)
    BY <1>1, <1>4, <2>1, TypeText
  <2>6. Len(tn) = MaxLen => ln = tn[MaxLen]
    BY <2>5, FieldFacts
  <2>7. Shown(con', "line", tn, ln)
    BY <2>4 DEF Shown
  <2> QED
    BY <1>5, <2>1, <2>2, <2>3, <2>5, <2>6, <2>7
<1>7. CASE ch = "del" /\ text # <<>>
  <2>1. PICK tn : tn = Front(text)
    OBVIOUS
  <2>2. PICK ln : ln = (IF Len(text) = MaxLen THEN Space ELSE l)
    OBVIOUS
  <2>3. text' = tn /\ con' = EraseBefore(con) /\ stage' = "line"
    <3>1. ~IsPrint(ch) /\ ch # "enter"
      BY <1>7 DEF IsPrint
    <3> QED
      BY <1>2, <1>7, <2>1, <3>1 DEF LineKey
  <2>4. LineShown(con', tn, ln)
    <3>1. LineShown(EraseBefore(con), tn, ln)
      BY ONLY <1>1, <1>3, <1>7, <2>1, <2>2, EraseLineIs
    <3> QED
      BY <2>3, <3>1
  <2>5. TextOK(tn) /\ Len(tn) # MaxLen
    <3>1. PICK n : n = Len(text)
      OBVIOUS
    <3>2. n \in 1 .. MaxLen /\ Len(tn) = n - 1 /\ TextOK(tn)
      BY <1>1, <1>7, <2>1, <3>1, FrontFacts
    <3> QED
      BY <3>2, FieldFacts
  <2>6. Meaning(M("line", text, l), ch) = M("line", tn, ln)
    BY <1>4, <1>7, <2>1, <2>2, LineMeans
  <2>7. Shown(con', "line", tn, ln)
    BY <2>4 DEF Shown
  <2> QED
    BY <1>5, <2>3, <2>5, <2>6, <2>7
<1>8. CASE ch = "enter"
  <2>1. text' = text /\ con' = LeaveLine(con) /\ stage' = "menu"
    <3>1. ~IsPrint(ch) /\ ch # "del"
      BY <1>8 DEF IsPrint
    <3> QED
      BY <1>2, <1>8, <3>1 DEF LineKey
  <2>2. Shown(con', "menu", text, l)
    <3>1. MenuShown(LeaveLine(con), text, l)
      BY ONLY <1>1, <1>3, CharsPlain, LeaveIs
    <3> QED
      BY <2>1, <3>1 DEF Shown
  <2>3. Meaning(M("line", text, l), ch) = M("menu", text, l)
    BY <1>4, <1>8, LineMeans
  <2> QED
    BY <1>1, <1>3, <1>5, <2>1, <2>2, <2>3
<1>9. CASE ~IsPrint(ch) /\ ch # "enter" /\ (ch = "del" => text = <<>>)
  <2>1. text' = text /\ con' = con /\ stage' = "line"
    BY <1>2, <1>9 DEF LineKey
  <2>2. Shown(con', "line", text, l)
    BY <1>3, <2>1 DEF Shown
  <2>3. Meaning(M("line", text, l), ch) = M("line", text, l)
    BY <1>4, <1>9, LineMeans
  <2> QED
    BY <1>1, <1>3, <1>5, <2>1, <2>2, <2>3
<1> QED
  BY <1>6, <1>7, <1>8, <1>9

\* Every step of the program.
LEMMA EditInvStep ==
  ASSUME FreshInv, EditInv, [DisplayNext]_dvars
  PROVE  EditInv'
<1>1. ASSUME EditNext PROVE EditInv'
  BY <1>1 DEF EditNext, EditInv
<1>2. ASSUME stage \in Editing, HasWindow PROVE EditStep
  BY <1>2 DEF EditInv, EditStep
<1>3. ASSUME stage' \notin Editing PROVE EditInv'
  BY <1>3 DEF EditInv, Editing
<1>4. ASSUME ~HasWindow, held' = held PROVE EditInv'
  BY <1>4 DEF EditInv, HasWindow
<1>5. CASE SetupStep
  <2>1. CASE Welcome
    <3>1. held' = held
      BY <2>1 DEF Welcome
    <3> QED
      BY <1>1, <1>4, <2>1, <3>1, WelcomeTyping
  <2>2. CASE KeyArrives
    BY <1>1, <1>2, <2>2, KeyArrivesTyping DEF KeyArrives, Editing
  <2>3. CASE KbHit
    BY <1>1, <1>2, <2>3, KbHitTyping DEF KbHit, Editing
  <2>4. CASE MenuWaits
    BY <2>4 DEF MenuWaits, dvars, setup, EditInv, HasWindow
  <2>5. CASE CGetCWaits
    <3>1. held' = held /\ stage \in Editing
      BY <2>5 DEF CGetCWaits, Editing
    <3> QED
      BY <1>1, <1>2, <1>4, <2>5, <3>1, CGetCWaitsTyping
  <2>6. CASE RunSimulation
    BY <1>3, <2>6 DEF RunSimulation, Editing
  <2>7. ASSUME NEW ch \in Keys, MenuKey(ch) PROVE EditInv'
    <3>1. held' = held /\ stage \in Editing
      BY <2>7 DEF MenuKey, Editing
    <3> QED
      BY <1>1, <1>2, <1>4, <2>7, <3>1, MenuKeyTyping
  <2>8. ASSUME NEW ch \in Keys, LineKey(ch) PROVE EditInv'
    <3>1. held' = held /\ stage \in Editing
      BY <2>8 DEF LineKey, Editing
    <3> QED
      BY <1>1, <1>2, <1>4, <2>8, <3>1, LineKeyTyping
  <2> QED
    BY <1>5, <2>1, <2>2, <2>3, <2>4, <2>5, <2>6, <2>7, <2>8 DEF SetupStep
<1>6. CASE Open \/ CloseOne \/ AllClosed
  <2>1. stage' \in {"abandon", "start", "open", "closing", "ended"}
    BY <1>6 DEF Open, CloseOne, AllClosed
  <2> QED
    BY <1>3, <2>1 DEF Editing
<1>7. CASE Loop \/ Exit \/ CloseSwap \/ FlipAtExit
  <2>1. stage' \in {"loop", "closing"}
    BY <1>7 DEF Loop, Exit, CloseSwap, FlipAtExit
  <2> QED
    BY <1>3, <2>1 DEF Editing
<1>8. CASE CloseAwaits \/ End \/ UNCHANGED dvars
  <2>1. UNCHANGED dvars
    BY <1>8 DEF CloseAwaits, End
  <2> QED
    BY <2>1 DEF EditInv, HasWindow, dvars, setup
<1> QED
  BY <1>5, <1>6, <1>7, <1>8 DEF DisplayNext, Close

\* What the row shows of a line.
LEMMA ShowsIs ==
  ASSUME NEW st, NEW t, NEW l, NEW k \in 1 .. MaxLen
  PROVE  Shows(M(st, t, l))[k] = IF k = Len(t) + 1 /\ st = "line" /\ ~(k <= Len(t)) THEN Block
                                 ELSE Under(st, t, l, k)
<1>1. PICK m : m = M(st, t, l)
  OBVIOUS
<1>2. m.text = t /\ m.stage = st /\ m.last = l
  BY <1>1 DEF M
<1>3. CASE k <= Len(t)
  <2>1. PICK b \in BOOLEAN : b <=> (st = "line" /\ k = MaxLen)
    OBVIOUS
  <2>2. (m.stage = "line" /\ k = MaxLen) = b
    BY <1>2, <2>1
  <2>3. Shows(m)[k] = <<t[k], b>>
    <3>1. Shows(m)[k] = <<m.text[k], m.stage = "line" /\ k = MaxLen>>
      BY <1>2, <1>3 DEF Shows
    <3> QED
      BY <1>2, <2>2, <3>1
  <2>4. Under(st, t, l, k) = <<t[k], b>>
    BY <1>3, <2>1, UnderText
  <2> QED
    BY <1>1, <1>3, <2>3, <2>4
<1>4. CASE ~(k <= Len(t)) /\ k = Len(t) + 1 /\ st = "line"
  BY <1>1, <1>2, <1>4 DEF Shows
<1>5. CASE ~(k <= Len(t)) /\ ~(k = Len(t) + 1 /\ st = "line")
  <2>1. Shows(m)[k] = <<IF k = MaxLen THEN l ELSE Space, FALSE>>
    BY <1>2, <1>5 DEF Shows
  <2> QED
    BY <1>1, <1>5, <2>1, UnderRest
<1> QED
  BY <1>3, <1>4, <1>5

\* A place of the picture.
LEMMA PictureAt ==
  ASSUME NEW st, NEW t, NEW l, NEW k \in 1 .. MaxLen
  PROVE  /\ <<StartX + k - 1, Row>> \in Grid
         /\ Picture(st, t, l)[<<StartX + k - 1, Row>>] = Under(st, t, l, k)
<1>1. PICK a : a = StartX + k - 1
  OBVIOUS
<1>2. a \in 0 .. Columns - 1 /\ Row \in 0 .. Rows - 1 /\ a \in StartX .. StartX + MaxLen - 1
      /\ a - StartX + 1 = k
  BY <1>1, FieldFacts
<1>3. PICK p : p = <<a, Row>>
  OBVIOUS
<1>4. p \in Grid /\ p[1] = a /\ p[2] = Row
  BY <1>2, <1>3 DEF Grid
<1>5. InField(p)
  BY <1>2, <1>4 DEF InField
<1>6. Picture(st, t, l)[p] = Under(st, t, l, k)
  BY <1>2, <1>4, <1>5 DEF Picture
<1> QED
  BY <1>1, <1>3, <1>4, <1>6

Pixels(c, m) ==
  /\ [k \in 1 .. MaxLen |-> c.px[<<StartX + k - 1, Row>>]] = Shows(m)
  /\ \A p \in Grid : ~InField(p) => c.px[p] = Blank

\* The cells on display are the line's.
LEMMA PixelsAre ==
  ASSUME NEW c, NEW st \in Editing, NEW t, TextOK(t), NEW l, Shown(c, st, t, l)
  PROVE  Pixels(c, M(st, t, l))
<1>1. Len(t) \in 0 .. MaxLen
  BY TextSize
<1>2. PICK pic : pic = Picture(st, t, l)
  OBVIOUS
<1>3. \A p \in Grid : ~InField(p) => pic[p] = Blank
  BY <1>2 DEF Picture
<1>4. ASSUME \A k \in 1 .. MaxLen : c.px[<<StartX + k - 1, Row>>] = Shows(M(st, t, l))[k]
      PROVE  [k \in 1 .. MaxLen |-> c.px[<<StartX + k - 1, Row>>]] = Shows(M(st, t, l))
  <2>1. PICK f : f = Shows(M(st, t, l))
    OBVIOUS
  <2>2. f = [k \in 1 .. MaxLen |-> f[k]]
    BY <2>1 DEF Shows
  <2>3. [k \in 1 .. MaxLen |-> c.px[<<StartX + k - 1, Row>>]] = [k \in 1 .. MaxLen |-> f[k]]
    BY <1>4, <2>1, Zenon
  <2> QED
    BY <2>1, <2>2, <2>3
<1>5. CASE c.px = pic /\ (st = "line" => Len(t) = MaxLen)
  <2>1. ASSUME NEW k \in 1 .. MaxLen PROVE c.px[<<StartX + k - 1, Row>>] = Shows(M(st, t, l))[k]
    <3>1. ~(k = Len(t) + 1 /\ st = "line" /\ ~(k <= Len(t)))
      BY <1>1, <1>5, FieldFacts
    <3>2. Shows(M(st, t, l))[k] = Under(st, t, l, k)
      BY <3>1, ShowsIs
    <3> QED
      BY <1>2, <1>5, <3>2, PictureAt
  <2> QED
    BY <1>3, <1>4, <1>5, <2>1 DEF Pixels
<1>6. CASE /\ st = "line" /\ Len(t) # MaxLen
           /\ c.px = [pic EXCEPT ![<<StartX + Len(t), Row>>] = Block]
  <2>1. PICK n \in Nat : n = Len(t) + 1 /\ n \in 1 .. MaxLen /\ StartX + Len(t) = StartX + n - 1
    BY <1>1, <1>6, FieldFacts
  <2>2. PICK q : q = <<StartX + n - 1, Row>>
    OBVIOUS
  <2>3. q \in Grid /\ InField(q) /\ c.px = [pic EXCEPT ![q] = Block]
    <3>1. q \in Grid
      BY <2>1, <2>2, PictureAt
    <3>2. StartX + n - 1 \in StartX .. StartX + MaxLen - 1
      BY <2>1, FieldFacts
    <3> QED
      BY <1>6, <2>1, <2>2, <3>1, <3>2 DEF InField
  <2>4. pic = [p \in Grid |-> pic[p]]
    BY <1>2 DEF Picture
  <2>5. ASSUME NEW k \in 1 .. MaxLen PROVE c.px[<<StartX + k - 1, Row>>] = Shows(M(st, t, l))[k]
    <3>1. CASE k = n
      <4>1. c.px[q] = Block
        BY <2>3, <2>4
      <4>2. k = Len(t) + 1 /\ ~(k <= Len(t))
        BY <1>1, <2>1, <3>1
      <4>3. Shows(M(st, t, l))[k] = Block
        BY <1>6, <4>2, ShowsIs
      <4> QED
        BY <2>2, <3>1, <4>1, <4>3
    <3>2. CASE k # n
      <4>1. PICK p : p = <<StartX + k - 1, Row>>
        OBVIOUS
      <4>2. StartX + k - 1 # StartX + n - 1
        BY <2>1, <3>2, FieldFacts
      <4>3. p # q /\ p \in Grid
        BY <2>2, <4>1, <4>2, PictureAt
      <4>4. c.px[p] = pic[p]
        BY <2>3, <2>4, <4>3
      <4>5. Shows(M(st, t, l))[k] = Under(st, t, l, k)
        BY <2>1, <3>2, ShowsIs
      <4> QED
        BY <1>2, <4>1, <4>4, <4>5, PictureAt
    <3> QED
      BY <3>1, <3>2
  <2>6. ASSUME NEW p \in Grid, ~InField(p) PROVE c.px[p] = Blank
    BY <1>3, <2>3, <2>4, <2>6
  <2> QED
    BY <1>4, <2>5, <2>6 DEF Pixels
<1>7. CASE st = "menu"
  <2>1. MenuShown(c, t, l)
    BY <1>7 DEF Shown
  <2>2. c.px = pic
    BY <1>2, <1>7, <2>1 DEF MenuShown, Stands, Off
  <2> QED
    BY <1>5, <1>7, <2>2
<1>8. CASE st = "line"
  <2>1. LineShown(c, t, l)
    BY <1>8 DEF Shown
  <2>2. CASE Len(t) = MaxLen
    <3>1. c.px = pic
      BY <1>2, <1>8, <2>1, <2>2 DEF LineShown, Stands, Off
    <3> QED
      BY <1>5, <2>2, <3>1
  <2>3. CASE Len(t) # MaxLen
    <3>1. PICK x : x = StartX + Len(t)
      OBVIOUS
    <3>2. Stands(c, x, Row, FALSE, TRUE, pic)
      BY <1>2, <1>8, <2>1, <2>3, <3>1 DEF LineShown
    <3>3. On(c, x, Row, FALSE, pic)
      BY <3>2 DEF Stands
    <3>4. c.px = [pic EXCEPT ![<<x, Row>>] = Block]
      BY ONLY <3>3 DEF On
    <3> QED
      BY <1>6, <1>8, <2>3, <3>1, <3>4
  <2> QED
    BY <2>2, <2>3
<1> QED
  BY <1>7, <1>8 DEF Editing

\* What was typed is what is shown: the keys that arrived, read late and one at a
\* time by kbhit and cgetc, and the row that get_line has drawn with them through
\* cursor_draw, cursor_erase and draw_char, agree whenever no key is waiting.
THEOREM TypedShown == DisplaySpec => []TypedIsShown
<1>1. DisplayInit => FreshInv /\ EditInv
  <2> SUFFICES ASSUME DisplayInit PROVE FreshInv /\ EditInv
    OBVIOUS
  <2>1. platform.queued \in BOOLEAN
    BY BuildFacts DEF DisplayInit, Start
  <2>2. /\ con = Closed /\ port = <<>> /\ pushed = None /\ double_buffer_started = FALSE
        /\ stage = (IF platform.queued THEN "open" ELSE "loop")
    BY DEF DisplayInit, Start
  <2>3. con = [Closed EXCEPT !.ready = con.ready]
    BY <2>2 DEF Closed
  <2>4. stage \in {"open", "loop"} /\ (stage = "open" => platform.queued = TRUE)
    BY <2>1, <2>2
  <2> QED
    BY <2>2, <2>3, <2>4 DEF FreshInv, EditInv, Opening, Editing
<1>2. FreshInv /\ EditInv /\ [DisplayNext]_dvars => (FreshInv /\ EditInv)'
  BY FreshStep, EditInvStep
<1>3. IInv /\ FreshInv /\ EditInv => TypedIsShown
  <2> SUFFICES ASSUME IInv, FreshInv, EditInv, stage \in {"menu", "line"}, HasWindow, port = <<>>,
                      pushed = None
               PROVE  /\ stage = meant.stage /\ text = meant.text /\ cur = visible
                      /\ [k \in 1 .. MaxLen |-> con.px[<<StartX + k - 1, Row>>]] = Shows(meant)
                      /\ \A p \in Grid : p[2] # Row \/ p[1] \notin StartX .. StartX + MaxLen - 1 =>
                           con.px[p] = Blank
    BY DEF TypedIsShown
  <2>1. cur = visible
    <3>1. double_buffer_started = FALSE /\ platform.queued = TRUE
      BY DEF FreshInv, Editing
    <3> QED
      BY <3>1 DEF IInv, ScreenInv, Queued
  <2>2. PICK l : Edited(con, stage, text, l, None, <<>>, meant) /\ TextOK(text)
    BY DEF EditInv, Typing, Editing
  <2>3. meant = M(stage, text, l) /\ Shown(con, stage, text, l)
    BY <2>2, NoneMeans, AfterNothing DEF Edited
  <2>4. meant.stage = stage /\ meant.text = text
    BY <2>3 DEF M
  <2>5. stage \in Editing
    BY DEF Editing
  <2>6. Pixels(con, meant)
    BY <2>2, <2>3, <2>5, PixelsAre
  <2> QED
    BY <2>1, <2>4, <2>6 DEF Pixels, InField
<1> QED
  BY <1>1, <1>2, <1>3, DisplayInvariant, PTL DEF DisplaySpec
=============================================================================
