------------------------------- MODULE AtariProgram -------------------------------
(***************************************************************************)
(* The Atari program with its keyboard: the handlers of KeyFallback are    *)
(* there while AtariMain has them installed, and are set up when it takes  *)
(* the vectors over.                                                       *)
(***************************************************************************)
EXTENDS AtariMain

CONSTANTS Codes, Special, CountMax, MaxWait   \* as in KeyFallback

VARIABLES
  key_down, kbcode, irq, waited, CH,
  key_irq_count, key_baseline, key_frames, key_handled,
  pressed, heard, unseen, quiet, busy

Keyboard == INSTANCE KeyFallback

keys == <<key_down, kbcode, irq, waited, CH, key_irq_count, key_baseline, key_frames,
          key_handled, pressed, heard, unseen, quiet, busy>>

None == Keyboard!None

ASSUME CodeAssumption == Special \subseteq Codes /\ None \notin Codes

\* The counter does not come round while a key is awaited, and an interrupt that is
\* not lost is never masked over two vertical blanks: the fallback waits for two.
ASSUME CountAssumption == CountMax \in Nat /\ CountMax > 2 /\ MaxWait \in {0, 1}

ProgramInit == Init /\ Keyboard!KeyInit

TakesVectors == vkeybd # "game" /\ vkeybd' = "game"

MainStep ==
  /\ Next
  /\ \/ TakesVectors /\ Keyboard!FallbackInit
     \/ ~TakesVectors /\ UNCHANGED keys

\* The program reads keys in the title, after the preview, and in the game.
KeyStep ==
  /\ Keyboard!KeyNext /\ UNCHANGED vars
  /\ CH # None /\ CH' = None => pc \in {"title", "preview", "game"}

ProgramNext == MainStep \/ KeyStep

ProgramSpec == ProgramInit /\ [][ProgramNext]_<<vars, keys>>

\* The properties of KeyFallback, in the program that installs and removes it.
GameKeyOnce == Keyboard!GameKeyOnce
HeldKeyHeard == Keyboard!HeldKeyHeard
=============================================================================
