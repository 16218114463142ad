------------------------------- MODULE KeyFallback -------------------------------
(***************************************************************************)
(* The Atari's keyboard in the game: POKEY's interrupt, which may be lost, *)
(* the sampling in every vertical blank (src/atari/key_fallback.s), and    *)
(* the latch CH that the program reads.  The sampler runs in the NMI, so   *)
(* that the keyboard interrupt comes before or after it.                   *)
(*                                                                         *)
(* Of the OS only the interrupt is modelled: it puts KBCODE into CH, but   *)
(* for keys it keeps to itself.  Its key repeat is left out.               *)
(***************************************************************************)
EXTENDS Naturals

CONSTANTS
  Codes, Special,   \* key codes; those that are not for CH (HELP, Ctrl+Shift)
  CountMax,         \* key_irq_count counts modulo this, 256
  MaxWait           \* vertical blanks an interrupt may be masked for

VARIABLES
  vkeybd, vvblki,      \* whose handlers are installed
  key_down, kbcode,    \* the key held; the code POKEY latched last
  irq, waited,         \* its interrupt is pending, and since how many blanks
  CH,
  key_irq_count, key_baseline, key_frames, key_handled,
  pressed,             \* a key went down since the last blank
  heard,               \* history: how often this press came to CH
  unseen,              \* history: the fallback has not seen this press begin,
                       \* it was not there or had not seen the last key go
  quiet, busy          \* history: no interrupt since no key was seen; CH was
                       \* not empty when the fallback looked

pokey == <<key_down, kbcode, irq, waited, pressed>>
fallback == <<key_irq_count, key_baseline, key_frames, key_handled>>
past == <<unseen, quiet, busy>>
keys == <<pokey, CH, fallback, heard, past>>

None == "none"

\* once more; twice says it all
Heard == IF heard = 2 THEN 2 ELSE heard + 1

KeyInit ==
  /\ key_down = None /\ kbcode = None /\ irq = FALSE /\ waited = 0 /\ CH = None
  /\ key_irq_count = 0 /\ key_baseline = 0 /\ key_frames = 0 /\ key_handled = FALSE
  /\ pressed = FALSE /\ heard = 0 /\ unseen = FALSE /\ quiet = TRUE /\ busy = FALSE

\* key_fallback_init, where init_vbi takes the handlers over.
FallbackInit ==
  /\ key_irq_count' = 0 /\ key_baseline' = 0 /\ key_frames' = 0 /\ key_handled' = FALSE
  /\ pressed' = FALSE /\ waited' = 0
  /\ unseen' = TRUE /\ quiet' = TRUE /\ busy' = FALSE
  /\ UNCHANGED <<key_down, kbcode, irq, CH, heard>>

-----------------------------------------------------------------------------
(* The player and POKEY.                                                   *)

\* At most one key goes down in a frame; its interrupt may be lost.
Press(k) ==
  /\ key_down = None /\ ~pressed /\ pressed' = (vvblki = "game")
  /\ key_down' = k /\ kbcode' = k /\ irq' \in {irq, TRUE}
  /\ heard' = 0 /\ unseen' = (key_frames # 0)
  /\ UNCHANGED <<waited, CH, fallback, quiet, busy>>

Release ==
  /\ key_down # None /\ key_down' = None
  /\ UNCHANGED <<kbcode, irq, waited, pressed, CH, fallback, heard, past>>

\* key_irq counts and goes on to the handler it has replaced.
KeyInterrupt ==
  /\ irq /\ irq' = FALSE /\ waited' = 0
  /\ \/ kbcode \in Special /\ UNCHANGED <<CH, heard>>
     \/ kbcode \notin Special /\ CH' = kbcode /\ heard' = Heard
  /\ key_irq_count' = IF vkeybd = "game" THEN (key_irq_count + 1) % CountMax ELSE key_irq_count
  /\ quiet' = FALSE
  /\ UNCHANGED <<key_down, kbcode, pressed, key_baseline, key_frames, key_handled, unseen, busy>>

\* kbhit and cgetc.
ReadKey ==
  /\ CH # None /\ CH' = None
  /\ UNCHANGED <<pokey, fallback, heard, past>>

-----------------------------------------------------------------------------
(* key_fallback_poll.                                                      *)

Blank ==
  /\ vvblki = "game" /\ (irq => waited < MaxWait)
  /\ waited' = IF irq THEN waited + 1 ELSE 0
  /\ pressed' = FALSE
  /\ UNCHANGED <<key_down, kbcode, irq>>

\* (mutant) the interrupts so far are not remembered
NoKeySeen_Baseline ==
  /\ Blank /\ key_down = None
  /\ key_frames' = 0 /\ key_handled' = FALSE
  /\ quiet' = TRUE /\ busy' = FALSE
  /\ UNCHANGED <<CH, key_irq_count, key_baseline, heard, unseen>>

NoKeySeen ==
  /\ Blank /\ key_down = None
  /\ key_frames' = 0 /\ key_handled' = FALSE /\ key_baseline' = key_irq_count
  /\ quiet' = TRUE /\ busy' = FALSE
  /\ UNCHANGED <<CH, key_irq_count, heard, unseen>>

\* (mutant) a key is supplied at once
Supplies_AtOnce == key_irq_count = key_baseline /\ CH = None /\ kbcode \notin Special

Supplies == key_frames' >= 2 /\ key_irq_count = key_baseline /\ CH = None /\ kbcode \notin Special

KeySeen ==
  /\ Blank /\ key_down # None /\ ~key_handled
  /\ key_frames' = key_frames + 1 /\ key_handled' = (key_frames' >= 2)
  /\ \/ Supplies /\ CH' = kbcode /\ heard' = Heard
     \/ ~Supplies /\ UNCHANGED <<CH, heard>>
  /\ busy' = (CH # None)
  /\ UNCHANGED <<key_irq_count, key_baseline, unseen, quiet>>

HandledSeen ==
  /\ Blank /\ key_down # None /\ key_handled
  /\ UNCHANGED <<CH, fallback, heard, past>>

KeyNext ==
  \/ \E k \in Codes : Press(k)
  \/ Release \/ KeyInterrupt \/ ReadKey
  \/ NoKeySeen \/ KeySeen \/ HandledSeen

-----------------------------------------------------------------------------
(* Properties.                                                             *)

\* "If a held key has not produced an OS keyboard interrupt after two frames, the
\* client supplies its scan code" (README.md): and only then, so that no press
\* comes to the program twice.  A press that began before the fallback was
\* installed is excepted: key_fallback_init does not look whether a key is down.
GameKeyOnce == heard <= 1 \/ unseen

\* ... and always then: a key looked at for two frames is one the program was
\* given, unless CH was not yet read, or an interrupt came since no key was seen.
HeldKeyHeard ==
  vvblki = "game" /\ key_handled /\ key_down \in Codes \ Special =>
    heard >= 1 \/ unseen \/ busy \/ ~quiet
=============================================================================
