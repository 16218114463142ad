---------------------------- MODULE AtariProgram_proofs ----------------------------
(***************************************************************************)
(* Proofs about the main loop of the Atari and about the keyboard fallback *)
(* in the program that installs it, for every set of SIO speeds, every set *)
(* of keys, every width of key_irq_count over two and however often the    *)
(* player goes back to the title.                                          *)
(*                                                                         *)
(* Of the main loop (AtariMain) the inductive invariant has three parts    *)
(* beside the types: who owns the handlers at each place of the program,   *)
(* where the user's index is, and how far bwc_standard_sio has got on the  *)
(* way to the game.                                                        *)
(*                                                                         *)
(* The fallback supplies a key when two vertical blanks have seen it and   *)
(* no interrupt was counted.  The argument counts interrupts: since the    *)
(* baseline was taken there are at most two, one of an earlier key and one *)
(* of this, so that the count cannot have come round to the baseline; and  *)
(* one that is still to come at the first blank has come at the second.    *)
(***************************************************************************)
EXTENDS AtariProgram, TLAPS

-----------------------------------------------------------------------------
(* The main loop.                                                          *)

USE SpeedAssumption

Places ==
  {"settings", "title", "store", "connect", "standard", "off", "clear devices",
   "clear disks", "preview", "init screen", "game", "cleanup", "restore",
   "restore devices", "restore disks", "exit screen", "exit sio", "exit devices",
   "exit disks", "done"}

FlagsOK ==
  /\ pbi \in BOOLEAN /\ restore_needed \in BOOLEAN /\ dli_enabled \in BOOLEAN
  /\ game_screen_active \in BOOLEAN /\ off_lost \in BOOLEAN /\ restore_failed \in BOOLEAN

ValuesOK ==
  /\ hsio \in Speeds /\ saved_index \in Speeds /\ original \in Speeds
  /\ fast \subseteq Tables /\ pc \in Places
  /\ vdslst \in Owners /\ vvblki \in Owners /\ vkeybd \in Owners
  /\ old_dli \in Owners /\ old_vbi \in Owners /\ game_old_vbi \in Owners
  /\ key_previous \in Owners

TypeOK == FlagsOK /\ ValuesOK

-----------------------------------------------------------------------------
(* The inductive invariant.                                                *)

InTitle == pc \in {"title", "store"}
InGame == pc \in {"game", "cleanup"} \/ (pc = "exit screen" /\ game_screen_active)

\* Who owns the handlers.  game_screen_active tells cleanup_atari_screen whether
\* the game had them when exit() came.
Ownership ==
  /\ InTitle => vvblki = "title" /\ old_vbi = "os"
  /\ InGame => /\ vdslst = "game" /\ vvblki = "game" /\ vkeybd = "game"
               /\ game_old_vbi = "os" /\ key_previous = "os"
  /\ ~InGame => vkeybd = "os" /\ (~InTitle => vvblki = "os")
  /\ dli_enabled <=> InGame \/ pc = "title"
  /\ game_screen_active <=> InGame \/ pc = "init screen"

Leaving == {"exit screen", "exit sio", "exit devices", "exit disks", "done"}
IndexBack == {"restore devices", "restore disks", "exit devices", "exit disks"}

\* Where the user's index is: what restore_needed promises is in saved_index.
IndexWhere ==
  /\ restore_needed /\ ~off_lost => saved_index = original
  /\ pc = "off" => ~restore_needed /\ saved_index = hsio
  /\ pc \in IndexBack => hsio = saved_index
  /\ off_lost => pc \in Leaving

BeforeStandard == {"settings", "title", "store", "connect", "standard", "off"}

\* How far bwc_standard_sio has got, if no restore has failed before.
SpeedLowered ==
  pbi /\ ~restore_failed =>
    /\ pc \in BeforeStandard => ~restore_needed
    /\ pc \in {"clear devices", "clear disks"} => hsio = OFF
    /\ pc = "clear disks" => "devices" \notin fast
    /\ pc \in {"preview", "init screen"} \/ InGame => StandardSpeed

IInv == TypeOK /\ Ownership /\ IndexWhere /\ IndexKept /\ SpeedLowered

-----------------------------------------------------------------------------
(* Every step keeps each part.                                             *)

\* A step of the program keeps the flags Boolean.
LEMMA FlagsStep ==
  ASSUME FlagsOK, [Next]_vars
  PROVE  FlagsOK'
<1> USE DEF FlagsOK, fujinet, sio, vectors, saved, history
<1>1. CASE BiosLearns
  BY <1>1 DEF BiosLearns
<1>2. CASE ReadSettings
  BY <1>2 DEF ReadSettings, Go
<1>3. CASE EditSetting
  BY <1>3 DEF EditSetting, Go
<1>4. CASE StoreSetting
  BY <1>4 DEF StoreSetting, Go, TitleResume
<1>5. CASE Launch
  BY <1>5 DEF Launch, Go
<1>6. CASE Connect
  BY <1>6 DEF Connect, Go, Exit
<1>7. CASE StandardSio
  BY <1>7 DEF StandardSio, Go, Exit
<1>8. CASE SwitchOff
  BY <1>8 DEF SwitchOff, Go, Exit, SetHsio, MaybeSetHsio
<1>9. CASE ClearDevices
  BY <1>9 DEF ClearDevices, ClearTable, Go, Exit
<1>10. CASE ClearDisks
  BY <1>10 DEF ClearDisks, ClearTable, Go, Exit
<1>11. CASE Preview
  BY <1>11 DEF Preview, Go, Exit
<1>12. CASE InitScreen
  BY <1>12 DEF InitScreen, Go, InitVbi, SetupDli
<1>13. CASE RunSimulation
  BY <1>13 DEF RunSimulation, Go, Exit
<1>14. CASE CleanupScreen
  BY <1>14 DEF CleanupScreen, Go, CleanupClient, RestoreVbi
<1>15. CASE RestoreSio
  BY <1>15 DEF RestoreSio, DliWhileRestoring, SetHsio, MaybeSetHsio, Afterwards
<1>16. CASE RestoreDevices
  BY <1>16 DEF RestoreDevices, Afterwards
<1>17. CASE RestoreDisks
  BY <1>17 DEF RestoreDisks, Afterwards
<1>18. CASE UNCHANGED vars
  BY <1>18 DEF vars
<1> QED
  BY <1>1, <1>2, <1>3, <1>4, <1>5, <1>6, <1>7, <1>8, <1>9, <1>10, <1>11, <1>12, <1>13, <1>14, <1>15, <1>16, <1>17, <1>18
     DEF Next, Title, Standard, Session, Restore, Finished

\* A step of the program keeps the other types.
LEMMA ValuesStep ==
  ASSUME ValuesOK, [Next]_vars
  PROVE  ValuesOK'
<1> USE DEF ValuesOK, fujinet, sio, vectors, saved, history
<1>1. CASE BiosLearns
  BY <1>1 DEF BiosLearns, Tables
<1>2. CASE ReadSettings
  BY <1>2 DEF ReadSettings, Go, Places, Owners
<1>3. CASE EditSetting
  BY <1>3 DEF EditSetting, Go, Places
<1>4. CASE StoreSetting
  BY <1>4 DEF StoreSetting, Go, TitleResume, Places
<1>5. CASE Launch
  BY <1>5 DEF Launch, Go, Places, Owners
<1>6. CASE Connect
  BY <1>6 DEF Connect, Go, Exit, Places
<1>7. CASE StandardSio
  BY <1>7 DEF StandardSio, Go, Exit, Places
<1>8. CASE SwitchOff
  BY <1>8 DEF SwitchOff, Go, Exit, SetHsio, MaybeSetHsio, Places
<1>9. CASE ClearDevices
  BY <1>9 DEF ClearDevices, ClearTable, Go, Exit, Places
<1>10. CASE ClearDisks
  BY <1>10 DEF ClearDisks, ClearTable, Go, Exit, Places
<1>11. CASE Preview
  BY <1>11 DEF Preview, Go, Exit, Places
<1>12. CASE InitScreen
  BY <1>12 DEF InitScreen, Go, InitVbi, SetupDli, Places, Owners
<1>13. CASE RunSimulation
  BY <1>13 DEF RunSimulation, Go, Exit, Places
<1>14. CASE CleanupScreen
  BY <1>14, ZenonT(60) DEF CleanupScreen, Go, CleanupClient, RestoreVbi, Places, Owners
<1>15. CASE RestoreSio
  BY <1>15 DEF RestoreSio, DliWhileRestoring, SetHsio, MaybeSetHsio, Afterwards, Places
<1>16. CASE RestoreDevices
  BY <1>16 DEF RestoreDevices, Afterwards, Places
<1>17. CASE RestoreDisks
  BY <1>17 DEF RestoreDisks, Afterwards, Places
<1>18. CASE UNCHANGED vars
  BY <1>18 DEF vars
<1> QED
  BY <1>1, <1>2, <1>3, <1>4, <1>5, <1>6, <1>7, <1>8, <1>9, <1>10, <1>11, <1>12, <1>13, <1>14, <1>15, <1>16, <1>17, <1>18
     DEF Next, Title, Standard, Session, Restore, Finished

\* A step hands the handlers over as the place it goes to requires: what vbi.s and
\* title_fx.s saved is the OS's, whatever they find in the vectors.
LEMMA OwnershipStep ==
  ASSUME TypeOK, Ownership, [Next]_vars
  PROVE  Ownership'
<1> USE DEF TypeOK, FlagsOK, ValuesOK, Places, Owners, Ownership, InTitle, InGame, fujinet, sio, vectors, saved, history
<1>1. CASE BiosLearns
  BY <1>1 DEF BiosLearns
<1>2. CASE ReadSettings
  BY <1>2 DEF ReadSettings, Go
<1>3. CASE EditSetting
  BY <1>3 DEF EditSetting, Go
<1>4. CASE StoreSetting
  BY <1>4 DEF StoreSetting, Go, TitleResume
<1>5. CASE Launch
  BY <1>5 DEF Launch, Go
<1>6. CASE Connect
  BY <1>6 DEF Connect, Go, Exit
<1>7. CASE StandardSio
  BY <1>7 DEF StandardSio, Go, Exit
<1>8. CASE SwitchOff
  BY <1>8 DEF SwitchOff, Go, Exit, SetHsio, MaybeSetHsio
<1>9. CASE ClearDevices
  BY <1>9 DEF ClearDevices, ClearTable, Go, Exit
<1>10. CASE ClearDisks
  BY <1>10 DEF ClearDisks, ClearTable, Go, Exit
<1>11. CASE Preview
  <2>1. CASE pc' = "init screen"
    BY <1>11, <2>1 DEF Preview, Go, Exit
  <2>2. CASE pc' = "exit screen"
    <3>1. pc = "preview" /\ ~game_screen_active
      BY <1>11, <2>2 DEF Preview, Go, Exit
    <3>2. /\ UNCHANGED <<vdslst, vvblki, vkeybd, dli_enabled, game_old_vbi, key_previous, old_vbi>>
          /\ UNCHANGED game_screen_active
      BY <1>11, <2>2 DEF Preview, Go, Exit
    <3> QED
      BY <2>2, <3>1, <3>2
  <2> QED
    BY <1>11, <2>1, <2>2 DEF Preview, Go, Exit
<1>12. CASE InitScreen
  BY <1>12 DEF InitScreen, Go, InitVbi, SetupDli
<1>13. CASE RunSimulation
  BY <1>13 DEF RunSimulation, Go, Exit
<1>14. CASE CleanupScreen
  <2>1. CASE game_screen_active
    BY <1>14, <2>1 DEF CleanupScreen, Go, CleanupClient, RestoreVbi
  <2>2. CASE ~game_screen_active
    <3>1. UNCHANGED game_screen_active /\ UNCHANGED <<dli_enabled, vvblki, vkeybd>>
      BY <1>14, <2>2 DEF CleanupScreen
    <3>2. pc = "exit screen" /\ pc' = "exit sio"
      BY <1>14, <2>2 DEF CleanupScreen, Go
    <3> QED
      BY <1>14, <2>2, <3>1, <3>2 DEF CleanupScreen
  <2> QED
    BY <2>1, <2>2
<1>15. CASE RestoreSio
  BY <1>15 DEF RestoreSio, DliWhileRestoring, SetHsio, MaybeSetHsio, Afterwards
<1>16. CASE RestoreDevices
  BY <1>16 DEF RestoreDevices, Afterwards
<1>17. CASE RestoreDisks
  BY <1>17 DEF RestoreDisks, Afterwards
<1>18. CASE UNCHANGED vars
  BY <1>18 DEF vars
<1> QED
  BY <1>1, <1>2, <1>3, <1>4, <1>5, <1>6, <1>7, <1>8, <1>9, <1>10, <1>11, <1>12, <1>13, <1>14, <1>15, <1>16, <1>17, <1>18
     DEF Next, Title, Standard, Session, Restore, Finished

\* A step does not lose the user's index.
LEMMA IndexStep ==
  ASSUME TypeOK, IndexWhere, IndexKept, [Next]_vars
  PROVE  (IndexWhere /\ IndexKept)'
<1> USE DEF TypeOK, FlagsOK, ValuesOK, Places, IndexWhere, IndexKept, Leaving, IndexBack, fujinet, sio, vectors, saved, history
<1>1. CASE BiosLearns
  BY <1>1 DEF BiosLearns
<1>2. CASE ReadSettings
  BY <1>2 DEF ReadSettings, Go
<1>3. CASE EditSetting
  BY <1>3 DEF EditSetting, Go
<1>4. CASE StoreSetting
  BY <1>4 DEF StoreSetting, Go, TitleResume
<1>5. CASE Launch
  BY <1>5 DEF Launch, Go
<1>6. CASE Connect
  BY <1>6 DEF Connect, Go, Exit
<1>7. CASE StandardSio
  BY <1>7 DEF StandardSio, Go, Exit
<1>8. CASE SwitchOff
  <2>1. CASE pc' = "clear devices"
    <3>1. pc = "off" /\ ~off_lost /\ ~restore_needed
      BY <1>8, <2>1 DEF SwitchOff, Go, Exit
    <3>2. UNCHANGED off_lost /\ restore_needed' = TRUE
      BY <1>8, <2>1 DEF SwitchOff, Go, Exit
    <3>3. ~off_lost' /\ UNCHANGED <<saved_index, original>>
      BY <1>8, <3>1, <3>2 DEF SwitchOff
    <3> QED
      BY <2>1, <3>1, <3>2, <3>3
  <2>2. CASE pc' = "exit screen" /\ hsio' = OFF
    BY <1>8, <2>2 DEF SwitchOff, Go, Exit
  <2>3. CASE pc' = "exit screen" /\ hsio' = hsio /\ hsio' # OFF
    BY <1>8, <2>3 DEF SwitchOff, Go, Exit
  <2> QED
    BY <1>8, <2>1, <2>2, <2>3 DEF SwitchOff, Go, Exit, MaybeSetHsio
<1>9. CASE ClearDevices
  BY <1>9 DEF ClearDevices, ClearTable, Go, Exit
<1>10. CASE ClearDisks
  BY <1>10 DEF ClearDisks, ClearTable, Go, Exit
<1>11. CASE Preview
  BY <1>11 DEF Preview, Go, Exit
<1>12. CASE InitScreen
  BY <1>12 DEF InitScreen, Go, InitVbi, SetupDli
<1>13. CASE RunSimulation
  BY <1>13 DEF RunSimulation, Go, Exit
<1>14. CASE CleanupScreen
  BY <1>14 DEF CleanupScreen, Go, CleanupClient, RestoreVbi
<1>15. CASE RestoreSio
  BY <1>15 DEF RestoreSio, DliWhileRestoring, SetHsio, MaybeSetHsio, Afterwards
<1>16. CASE RestoreDevices
  BY <1>16 DEF RestoreDevices, Afterwards
<1>17. CASE RestoreDisks
  BY <1>17 DEF RestoreDisks, Afterwards
<1>18. CASE UNCHANGED vars
  BY <1>18 DEF vars
<1> QED
  BY <1>1, <1>2, <1>3, <1>4, <1>5, <1>6, <1>7, <1>8, <1>9, <1>10, <1>11, <1>12, <1>13, <1>14, <1>15, <1>16, <1>17, <1>18
     DEF Next, Title, Standard, Session, Restore, Finished

\* A step comes no nearer to the game than the speed has been lowered.
LEMMA SpeedStep ==
  ASSUME TypeOK, Ownership, IndexWhere, SpeedLowered, [Next]_vars
  PROVE  SpeedLowered'
<1> USE DEF TypeOK, FlagsOK, ValuesOK, Places, Tables, Ownership, IndexWhere, SpeedLowered, StandardSpeed,
            InTitle, InGame, BeforeStandard, Leaving, IndexBack, fujinet, sio, vectors, saved, history
<1>1. CASE BiosLearns
  BY <1>1 DEF BiosLearns
<1>2. CASE ReadSettings
  BY <1>2 DEF ReadSettings, Go
<1>3. CASE EditSetting
  BY <1>3 DEF EditSetting, Go
<1>4. CASE StoreSetting
  BY <1>4 DEF StoreSetting, Go, TitleResume
<1>5. CASE Launch
  BY <1>5 DEF Launch, Go
<1>6. CASE Connect
  BY <1>6 DEF Connect, Go, Exit
<1>7. CASE StandardSio
  BY <1>7 DEF StandardSio, Go, Exit
<1>8. CASE SwitchOff
  BY <1>8 DEF SwitchOff, Go, Exit, SetHsio, MaybeSetHsio
<1>9. CASE ClearDevices
  BY <1>9 DEF ClearDevices, ClearTable, Go, Exit
<1>10. CASE ClearDisks
  BY <1>10 DEF ClearDisks, ClearTable, Go, Exit
<1>11. CASE Preview
  BY <1>11 DEF Preview, Go, Exit
<1>12. CASE InitScreen
  BY <1>12 DEF InitScreen, Go, InitVbi, SetupDli
<1>13. CASE RunSimulation
  BY <1>13 DEF RunSimulation, Go, Exit
<1>14. CASE CleanupScreen
  BY <1>14 DEF CleanupScreen, Go, CleanupClient, RestoreVbi
<1>15. CASE RestoreSio
  BY <1>15 DEF RestoreSio, DliWhileRestoring, SetHsio, MaybeSetHsio, Afterwards
<1>16. CASE RestoreDevices
  BY <1>16 DEF RestoreDevices, Afterwards
<1>17. CASE RestoreDisks
  BY <1>17 DEF RestoreDisks, Afterwards
<1>18. CASE UNCHANGED vars
  BY <1>18 DEF vars
<1> QED
  BY <1>1, <1>2, <1>3, <1>4, <1>5, <1>6, <1>7, <1>8, <1>9, <1>10, <1>11, <1>12, <1>13, <1>14, <1>15, <1>16, <1>17, <1>18
     DEF Next, Title, Standard, Session, Restore, Finished

-----------------------------------------------------------------------------
(* The theorems.                                                           *)

\* The program starts in the invariant: at boot the OS owns every handler and the
\* index is the user's.
LEMMA InitIInv == Init => IInv
<1> SUFFICES ASSUME Init PROVE IInv
  OBVIOUS
<1>1. FlagsOK
  BY DEF Init, FlagsOK
<1>2. ValuesOK
  BY DEF Init, ValuesOK, Places, Owners
<1>3. Ownership
  BY DEF Init, Ownership, InTitle, InGame
<1>4. IndexWhere /\ IndexKept
  BY DEF Init, IndexWhere, IndexKept, IndexBack
<1>5. SpeedLowered
  BY DEF Init, SpeedLowered, InGame
<1> QED
  BY <1>1, <1>2, <1>3, <1>4, <1>5 DEF IInv, TypeOK

\* Every step keeps the invariant.
LEMMA InvariantStep == IInv /\ [Next]_vars => IInv'
BY FlagsStep, ValuesStep, OwnershipStep, IndexStep, SpeedStep DEF IInv, TypeOK

\* The inductive invariant holds, whatever fails and in however many sessions.
THEOREM AtariInvariant == Spec => []IInv
BY InitIInv, InvariantStep, PTL DEF Spec

\* The user's SIO index is in FujiNet, or bwc_restore_sio still knows it and will put
\* it back, unless FujiNet reported the failure of what it had carried out.
THEOREM IndexIsKept == Spec => []IndexKept
<1>1. IInv => IndexKept
  BY DEF IInv
<1> QED
  BY AtariInvariant, <1>1, PTL

\* No display interrupt runs during a transaction with FujiNet but in the game, and
\* there only at standard speed, unless a restore had failed before.
THEOREM TransactionsAreUndisturbed == Spec => []TransactionsUndisturbed
<1>1. IInv => TransactionsUndisturbed
  <2> SUFFICES ASSUME IInv, dli_enabled, pc # "title"
               PROVE  /\ pc \in {"game", "cleanup", "exit screen"} /\ vdslst = "game"
                      /\ pbi /\ ~restore_failed => StandardSpeed
    BY DEF TransactionsUndisturbed
  <2>1. InGame
    BY DEF IInv, Ownership
  <2> QED
    BY <2>1 DEF IInv, Ownership, SpeedLowered, InGame
<1> QED
  BY AtariInvariant, <1>1, PTL

\* The keyboard handler of the game never jumps to itself, and every way out of the
\* game, the exit() in the middle of it included, gives the OS its handlers back.
THEOREM HandlersAreRestored == Spec => []HandlersRestored
<1>1. IInv => HandlersRestored
  <2> SUFFICES ASSUME IInv
               PROVE  HandlersRestored
    OBVIOUS
  <2>1. vkeybd = "game" => key_previous = "os"
    BY DEF IInv, Ownership
  <2>2. ASSUME pc \in {"settings", "title", "store", "connect", "preview", "done"}
        PROVE  vkeybd = "os" /\ vvblki # "game" /\ (pc # "title" => ~dli_enabled)
    <3>1. ~InGame
      BY <2>2 DEF InGame
    <3> QED
      BY <2>2, <3>1 DEF IInv, Ownership, InTitle
  <2> QED
    BY <2>1, <2>2 DEF HandlersRestored
<1> QED
  BY AtariInvariant, <1>1, PTL

-----------------------------------------------------------------------------
(* The keyboard fallback.                                                  *)

USE CountAssumption, CodeAssumption

Counts == 0..(CountMax - 1)

KeyFlagsOK ==
  /\ irq \in BOOLEAN /\ key_handled \in BOOLEAN /\ pressed \in BOOLEAN
  /\ unseen \in BOOLEAN /\ quiet \in BOOLEAN /\ busy \in BOOLEAN

KeyTypeOK ==
  /\ key_irq_count \in Counts /\ key_baseline \in Counts
  /\ key_frames \in Nat /\ waited \in Nat /\ heard \in 0..2

-----------------------------------------------------------------------------
(* The inductive invariant.                                                *)

Installed == vvblki = "game"

After(count) == (count + 1) % CountMax

\* The interrupts since the baseline: before a key goes down at most one, the last
\* of an earlier key, and then at most one more.
FewInterrupts ==
  Installed =>
    /\ key_frames = 0 /\ ~pressed =>
         \/ key_irq_count = key_baseline
         \/ ~irq /\ key_irq_count = After(key_baseline)
    /\ key_frames = 0 \/ ~unseen =>
         \/ key_irq_count \in {key_baseline, After(key_baseline)}
         \/ ~irq /\ key_irq_count = After(After(key_baseline))

\* What the program has heard of this key, the counter has.
HeardCounted ==
  Installed /\ ~unseen /\ ~key_handled /\ key_down # None /\ heard # 0 =>
    key_irq_count # key_baseline

\* An interrupt still masked at the first blank of its key has waited for that blank.
StillMasked ==
  Installed /\ ~unseen /\ key_down # None /\ key_frames # 0 /\ irq => waited # 0

OncePerPress == ~unseen => heard <= 1 /\ (irq => heard = 0)

Latched ==
  /\ key_down # None => kbcode = key_down
  /\ quiet => key_irq_count = key_baseline
  /\ key_handled => key_frames # 0

KInv ==
  /\ KeyFlagsOK /\ KeyTypeOK /\ FewInterrupts /\ HeardCounted /\ StillMasked
  /\ OncePerPress /\ Latched /\ HeldKeyHeard

-----------------------------------------------------------------------------
(* Every step of the keyboard keeps each part.                             *)

\* The game installs and removes its two handlers together.
LEMMA HandlersTogether ==
  ASSUME Ownership
  PROVE  vvblki = "game" <=> vkeybd = "game"
BY DEF Ownership, InTitle

\* Two interrupts do not bring key_irq_count round.
LEMMA AfterDistinct ==
  ASSUME NEW count \in Counts
  PROVE  /\ After(count) \in Counts /\ After(After(count)) \in Counts
         /\ After(count) # count /\ After(After(count)) # count
<1>1. \A c \in Counts : After(c) = IF c + 1 = CountMax THEN 0 ELSE c + 1
  BY DEF Counts, After
<1>2. \A c \in Counts : After(c) \in Counts
  BY <1>1 DEF Counts
<1> QED
  BY <1>1, <1>2 DEF Counts

\* A step of the keyboard keeps its flags Boolean.
LEMMA KeyFlagsStep ==
  ASSUME KeyFlagsOK, Keyboard!KeyNext, UNCHANGED vars
  PROVE  KeyFlagsOK'
<1> USE DEF KeyFlagsOK, Keyboard!pokey, Keyboard!fallback, Keyboard!past
<1> vvblki' = vvblki /\ vkeybd' = vkeybd
  BY DEF vars, vectors
<1>1. CASE \E k \in Codes : Keyboard!Press(k)
  BY <1>1 DEF Keyboard!Press, Keyboard!None
<1>2. CASE Keyboard!Release
  BY <1>2 DEF Keyboard!Release, Keyboard!None
<1>3. CASE Keyboard!KeyInterrupt
  BY <1>3 DEF Keyboard!KeyInterrupt, Keyboard!Heard
<1>4. CASE Keyboard!ReadKey
  BY <1>4 DEF Keyboard!ReadKey
<1>5. CASE Keyboard!NoKeySeen
  BY <1>5 DEF Keyboard!NoKeySeen, Keyboard!Blank, Keyboard!None
<1>6. CASE Keyboard!KeySeen
  <2>1. key_handled' \in BOOLEAN
    BY <1>6 DEF Keyboard!KeySeen
  <2>2. busy' \in BOOLEAN
    BY <1>6 DEF Keyboard!KeySeen
  <2>3. pressed' = FALSE /\ UNCHANGED <<irq, unseen, quiet>>
    BY <1>6 DEF Keyboard!KeySeen, Keyboard!Blank
  <2> QED
    BY <2>1, <2>2, <2>3
<1>7. CASE Keyboard!HandledSeen
  BY <1>7 DEF Keyboard!HandledSeen, Keyboard!Blank, Keyboard!None
<1> QED
  BY <1>1, <1>2, <1>3, <1>4, <1>5, <1>6, <1>7 DEF Keyboard!KeyNext

\* A step of the keyboard keeps its other types.
LEMMA KeyTypeStep ==
  ASSUME KeyTypeOK, Keyboard!KeyNext, UNCHANGED vars
  PROVE  KeyTypeOK'
<1> USE DEF KeyTypeOK, Keyboard!pokey, Keyboard!fallback, Keyboard!past
<1> vvblki' = vvblki /\ vkeybd' = vkeybd
  BY DEF vars, vectors
<1>1. CASE \E k \in Codes : Keyboard!Press(k)
  BY <1>1 DEF Keyboard!Press, Keyboard!None
<1>2. CASE Keyboard!Release
  BY <1>2 DEF Keyboard!Release, Keyboard!None
<1>3. CASE Keyboard!KeyInterrupt
  <2>1. /\ irq /\ ~irq'
        /\ key_irq_count' = IF vkeybd = "game" THEN After(key_irq_count) ELSE key_irq_count
        /\ UNCHANGED <<key_down, pressed, key_baseline, key_frames, key_handled, unseen>>
    BY <1>3 DEF Keyboard!KeyInterrupt, After
  <2>2. key_irq_count' \in Counts
    BY <2>1, AfterDistinct
  <2>3. waited' \in Nat /\ heard' \in 0..2
    BY <1>3 DEF Keyboard!KeyInterrupt, Keyboard!Heard
  <2> QED
    BY <2>1, <2>2, <2>3
<1>4. CASE Keyboard!ReadKey
  BY <1>4 DEF Keyboard!ReadKey
<1>5. CASE Keyboard!NoKeySeen
  BY <1>5 DEF Keyboard!NoKeySeen, Keyboard!Blank, Keyboard!None
<1>6. CASE Keyboard!KeySeen
  BY <1>6 DEF Keyboard!KeySeen, Keyboard!Blank, Keyboard!None, Keyboard!Supplies, Keyboard!Heard
<1>7. CASE Keyboard!HandledSeen
  BY <1>7 DEF Keyboard!HandledSeen, Keyboard!Blank, Keyboard!None
<1> QED
  BY <1>1, <1>2, <1>3, <1>4, <1>5, <1>6, <1>7 DEF Keyboard!KeyNext

\* No step lets a third interrupt be counted against one baseline.
LEMMA FewInterruptsStep ==
  ASSUME KeyFlagsOK, KeyTypeOK, Ownership, Latched, FewInterrupts, Keyboard!KeyNext, UNCHANGED vars
  PROVE  FewInterrupts'
<1> USE DEF KeyFlagsOK, KeyTypeOK, FewInterrupts, Installed, Keyboard!pokey, Keyboard!fallback, Keyboard!past
<1> vvblki' = vvblki /\ vkeybd' = vkeybd
  BY DEF vars, vectors
<1>1. CASE \E k \in Codes : Keyboard!Press(k)
  BY <1>1 DEF Keyboard!Press, Keyboard!None
<1>2. CASE Keyboard!Release
  BY <1>2 DEF Keyboard!Release, Keyboard!None
<1>3. CASE Keyboard!KeyInterrupt
  <2>1. /\ irq /\ ~irq'
        /\ key_irq_count' = IF vkeybd = "game" THEN After(key_irq_count) ELSE key_irq_count
        /\ UNCHANGED <<key_down, pressed, key_baseline, key_frames, key_handled, unseen>>
    BY <1>3 DEF Keyboard!KeyInterrupt, After
  <2>2. Installed <=> vkeybd = "game"
    BY HandlersTogether DEF Installed
  <2> QED
    BY <2>1, <2>2
<1>4. CASE Keyboard!ReadKey
  BY <1>4 DEF Keyboard!ReadKey
<1>5. CASE Keyboard!NoKeySeen
  BY <1>5 DEF Keyboard!NoKeySeen, Keyboard!Blank, Keyboard!None
<1>6. CASE Keyboard!KeySeen
  BY <1>6 DEF Keyboard!KeySeen, Keyboard!Blank, Keyboard!None, Keyboard!Supplies, Keyboard!Heard
<1>7. CASE Keyboard!HandledSeen
  BY <1>7 DEF Keyboard!HandledSeen, Keyboard!Blank, Latched
<1> QED
  BY <1>1, <1>2, <1>3, <1>4, <1>5, <1>6, <1>7 DEF Keyboard!KeyNext

\* A step that lets the program hear of a key counts it.
LEMMA HeardCountedStep ==
  ASSUME KeyFlagsOK, KeyTypeOK, Ownership, FewInterrupts, HeardCounted, Keyboard!KeyNext, UNCHANGED vars
  PROVE  HeardCounted'
<1> USE DEF KeyFlagsOK, KeyTypeOK, FewInterrupts, HeardCounted, Installed, None, Keyboard!pokey, Keyboard!fallback, Keyboard!past
<1> vvblki' = vvblki /\ vkeybd' = vkeybd
  BY DEF vars, vectors
<1>1. CASE \E k \in Codes : Keyboard!Press(k)
  BY <1>1 DEF Keyboard!Press, Keyboard!None
<1>2. CASE Keyboard!Release
  BY <1>2 DEF Keyboard!Release, Keyboard!None
<1>3. CASE Keyboard!KeyInterrupt
  <2>1. /\ irq /\ ~irq'
        /\ key_irq_count' = IF vkeybd = "game" THEN After(key_irq_count) ELSE key_irq_count
        /\ UNCHANGED <<key_down, pressed, key_baseline, key_frames, key_handled, unseen>>
    BY <1>3 DEF Keyboard!KeyInterrupt, After
  <2>2. Installed <=> vkeybd = "game"
    BY HandlersTogether DEF Installed
  <2>3. Installed /\ ~unseen => key_irq_count \in {key_baseline, After(key_baseline)}
    BY <2>1
  <2>4. /\ After(key_baseline) # key_baseline
        /\ After(After(key_baseline)) # key_baseline
    BY AfterDistinct
  <2> QED
    BY <2>1, <2>2, <2>3, <2>4
<1>4. CASE Keyboard!ReadKey
  BY <1>4 DEF Keyboard!ReadKey
<1>5. CASE Keyboard!NoKeySeen
  BY <1>5 DEF Keyboard!NoKeySeen, Keyboard!Blank, Keyboard!None
<1>6. CASE Keyboard!KeySeen
  BY <1>6 DEF Keyboard!KeySeen, Keyboard!Blank, Keyboard!None, Keyboard!Supplies, Keyboard!Heard
<1>7. CASE Keyboard!HandledSeen
  BY <1>7 DEF Keyboard!HandledSeen, Keyboard!Blank, Keyboard!None
<1> QED
  BY <1>1, <1>2, <1>3, <1>4, <1>5, <1>6, <1>7 DEF Keyboard!KeyNext

\* A blank that sees a key lets its interrupt wait.
LEMMA StillMaskedStep ==
  ASSUME KeyFlagsOK, KeyTypeOK, StillMasked, Keyboard!KeyNext, UNCHANGED vars
  PROVE  StillMasked'
<1> USE DEF KeyFlagsOK, KeyTypeOK, StillMasked, Installed, None, Keyboard!pokey, Keyboard!fallback, Keyboard!past
<1> vvblki' = vvblki /\ vkeybd' = vkeybd
  BY DEF vars, vectors
<1>1. CASE \E k \in Codes : Keyboard!Press(k)
  BY <1>1 DEF Keyboard!Press, Keyboard!None
<1>2. CASE Keyboard!Release
  BY <1>2 DEF Keyboard!Release, Keyboard!None
<1>3. CASE Keyboard!KeyInterrupt
  BY <1>3 DEF Keyboard!KeyInterrupt, Keyboard!Heard
<1>4. CASE Keyboard!ReadKey
  BY <1>4 DEF Keyboard!ReadKey
<1>5. CASE Keyboard!NoKeySeen
  BY <1>5 DEF Keyboard!NoKeySeen, Keyboard!Blank, Keyboard!None
<1>6. CASE Keyboard!KeySeen
  BY <1>6 DEF Keyboard!KeySeen, Keyboard!Blank, Keyboard!None, Keyboard!Supplies, Keyboard!Heard
<1>7. CASE Keyboard!HandledSeen
  BY <1>7 DEF Keyboard!HandledSeen, Keyboard!Blank, Keyboard!None
<1> QED
  BY <1>1, <1>2, <1>3, <1>4, <1>5, <1>6, <1>7 DEF Keyboard!KeyNext

\* No step lets the program hear of a key a second time.
LEMMA OncePerPressStep ==
  ASSUME KeyFlagsOK, KeyTypeOK, HeardCounted, StillMasked, OncePerPress, Keyboard!KeyNext, UNCHANGED vars
  PROVE  OncePerPress'
<1> USE DEF KeyFlagsOK, KeyTypeOK, OncePerPress, Keyboard!pokey, Keyboard!fallback, Keyboard!past
<1> vvblki' = vvblki /\ vkeybd' = vkeybd
  BY DEF vars, vectors
<1>1. CASE \E k \in Codes : Keyboard!Press(k)
  BY <1>1 DEF Keyboard!Press, Keyboard!None
<1>2. CASE Keyboard!Release
  BY <1>2 DEF Keyboard!Release, Keyboard!None
<1>3. CASE Keyboard!KeyInterrupt
  BY <1>3 DEF Keyboard!KeyInterrupt, Keyboard!Heard
<1>4. CASE Keyboard!ReadKey
  BY <1>4 DEF Keyboard!ReadKey
<1>5. CASE Keyboard!NoKeySeen
  BY <1>5 DEF Keyboard!NoKeySeen, Keyboard!Blank, Keyboard!None
<1>6. CASE Keyboard!KeySeen
  <2>1. /\ Installed /\ key_down # None /\ ~key_handled /\ UNCHANGED <<irq, unseen>>
        /\ irq => waited < MaxWait
    BY <1>6 DEF Keyboard!KeySeen, Keyboard!Blank, Keyboard!None, None, Installed
  <2>2. CASE Keyboard!Supplies /\ heard' = Keyboard!Heard
    <3>1. key_frames # 0 /\ key_irq_count = key_baseline
      BY <1>6, <2>2 DEF Keyboard!KeySeen, Keyboard!Supplies
    <3>2. ~unseen => ~irq /\ heard = 0
      BY <2>1, <3>1 DEF StillMasked, HeardCounted
    <3> QED
      BY <2>1, <2>2, <3>2 DEF Keyboard!Heard
  <2>3. CASE UNCHANGED heard
    BY <2>1, <2>3
  <2> QED
    BY <1>6, <2>2, <2>3 DEF Keyboard!KeySeen
<1>7. CASE Keyboard!HandledSeen
  BY <1>7 DEF Keyboard!HandledSeen, Keyboard!Blank, Keyboard!None
<1> QED
  BY <1>1, <1>2, <1>3, <1>4, <1>5, <1>6, <1>7 DEF Keyboard!KeyNext

\* A step keeps the latched code and the baseline true.
LEMMA LatchedStep ==
  ASSUME KeyFlagsOK, KeyTypeOK, Latched, Keyboard!KeyNext, UNCHANGED vars
  PROVE  Latched'
<1> USE DEF KeyFlagsOK, KeyTypeOK, Latched, None, Keyboard!pokey, Keyboard!fallback, Keyboard!past
<1> vvblki' = vvblki /\ vkeybd' = vkeybd
  BY DEF vars, vectors
<1>1. CASE \E k \in Codes : Keyboard!Press(k)
  BY <1>1 DEF Keyboard!Press, Keyboard!None
<1>2. CASE Keyboard!Release
  BY <1>2 DEF Keyboard!Release, Keyboard!None
<1>3. CASE Keyboard!KeyInterrupt
  BY <1>3 DEF Keyboard!KeyInterrupt, Keyboard!Heard
<1>4. CASE Keyboard!ReadKey
  BY <1>4 DEF Keyboard!ReadKey
<1>5. CASE Keyboard!NoKeySeen
  BY <1>5 DEF Keyboard!NoKeySeen, Keyboard!Blank, Keyboard!None
<1>6. CASE Keyboard!KeySeen
  BY <1>6 DEF Keyboard!KeySeen, Keyboard!Blank, Keyboard!None, Keyboard!Supplies, Keyboard!Heard
<1>7. CASE Keyboard!HandledSeen
  BY <1>7 DEF Keyboard!HandledSeen, Keyboard!Blank, Keyboard!None
<1> QED
  BY <1>1, <1>2, <1>3, <1>4, <1>5, <1>6, <1>7 DEF Keyboard!KeyNext

\* A step does not end the wait for a key that the program has not heard of.
LEMMA HeldKeyStep ==
  ASSUME KeyFlagsOK, KeyTypeOK, Latched, HeldKeyHeard, Keyboard!KeyNext, UNCHANGED vars
  PROVE  HeldKeyHeard'
<1> USE DEF KeyFlagsOK, KeyTypeOK, Latched, HeldKeyHeard, Keyboard!HeldKeyHeard, None, Keyboard!pokey, Keyboard!fallback, Keyboard!past
<1> vvblki' = vvblki /\ vkeybd' = vkeybd
  BY DEF vars, vectors
<1>1. CASE \E k \in Codes : Keyboard!Press(k)
  BY <1>1 DEF Keyboard!Press, Keyboard!None
<1>2. CASE Keyboard!Release
  BY <1>2 DEF Keyboard!Release, Keyboard!None
<1>3. CASE Keyboard!KeyInterrupt
  BY <1>3 DEF Keyboard!KeyInterrupt, Keyboard!Heard
<1>4. CASE Keyboard!ReadKey
  BY <1>4 DEF Keyboard!ReadKey
<1>5. CASE Keyboard!NoKeySeen
  BY <1>5 DEF Keyboard!NoKeySeen, Keyboard!Blank, Keyboard!None
<1>6. CASE Keyboard!KeySeen
  BY <1>6 DEF Keyboard!KeySeen, Keyboard!Blank, Keyboard!None, Keyboard!Supplies, Keyboard!Heard
<1>7. CASE Keyboard!HandledSeen
  BY <1>7 DEF Keyboard!HandledSeen, Keyboard!Blank, Keyboard!None
<1> QED
  BY <1>1, <1>2, <1>3, <1>4, <1>5, <1>6, <1>7 DEF Keyboard!KeyNext

\* A step of the program keeps the parts: where the handlers are installed the
\* fallback starts anew, and nothing else installs them.
LEMMA MainKeeps ==
  ASSUME KInv, Ownership, Ownership', MainStep
  PROVE  KInv'
<1> USE DEF KInv
<1>1. CASE TakesVectors /\ Keyboard!FallbackInit
  <2> USE <1>1 DEF Keyboard!FallbackInit
  <2>1. KeyFlagsOK'
    BY DEF KeyFlagsOK
  <2>2. KeyTypeOK'
    BY DEF KeyTypeOK, Counts
  <2>3. FewInterrupts'
    BY DEF FewInterrupts
  <2>4. HeardCounted' /\ StillMasked' /\ OncePerPress' /\ HeldKeyHeard'
    BY DEF HeardCounted, StillMasked, OncePerPress, HeldKeyHeard, Keyboard!HeldKeyHeard
  <2>5. Latched'
    BY DEF Latched, None, Keyboard!None
  <2> QED
    BY <2>1, <2>2, <2>3, <2>4, <2>5
<1>2. CASE ~TakesVectors /\ UNCHANGED keys
  <2>1. Installed' => Installed
    <3>1. vvblki = "game" <=> vkeybd = "game"
      BY HandlersTogether
    <3>2. vvblki' = "game" => vkeybd' = "game"
      BY DEF Ownership, InTitle
    <3> QED
      BY <1>2, <3>1, <3>2 DEF TakesVectors, Installed
  <2> USE <1>2, <2>1 DEF keys
  <2>2. KeyFlagsOK' /\ KeyTypeOK'
    BY DEF KeyFlagsOK, KeyTypeOK
  <2>3. FewInterrupts'
    BY DEF FewInterrupts, After
  <2>4. HeardCounted' /\ StillMasked'
    BY DEF HeardCounted, StillMasked
  <2>5. OncePerPress' /\ Latched'
    BY DEF OncePerPress, Latched
  <2>6. HeldKeyHeard'
    BY DEF HeldKeyHeard, Keyboard!HeldKeyHeard, Installed
  <2> QED
    BY <2>2, <2>3, <2>4, <2>5, <2>6
<1> QED
  BY <1>1, <1>2 DEF MainStep

-----------------------------------------------------------------------------
(* The theorems.                                                           *)

\* With its keyboard the program is still the program of AtariMain, so that the
\* theorems about that are about this one.
THEOREM ProgramIsAtariMain == ProgramSpec => Spec
<1>1. ProgramInit => Init
  BY DEF ProgramInit
<1>2. [ProgramNext]_<<vars, keys>> => [Next]_vars
  BY DEF ProgramNext, MainStep, KeyStep
<1> QED
  BY <1>1, <1>2, PTL DEF ProgramSpec, Spec

\* The invariant of the program and the keyboard together.
THEOREM ProgramInvariant == ProgramSpec => [](IInv /\ KInv)
<1>1. ProgramInit => IInv /\ KInv
  <2> SUFFICES ASSUME ProgramInit PROVE KInv
    BY InitIInv DEF ProgramInit
  <2> USE DEF ProgramInit, Keyboard!KeyInit
  <2>0. KeyFlagsOK
    BY DEF KeyFlagsOK
  <2>1. KeyTypeOK
    BY DEF KeyTypeOK, Counts
  <2>2. ~Installed
    BY DEF Init, Installed
  <2>3. FewInterrupts /\ HeardCounted /\ StillMasked
    BY <2>2 DEF FewInterrupts, HeardCounted, StillMasked
  <2>4. OncePerPress /\ Latched
    BY DEF OncePerPress, Latched, None
  <2>5. HeldKeyHeard
    BY <2>2 DEF HeldKeyHeard, Keyboard!HeldKeyHeard, Installed
  <2> QED
    BY <2>0, <2>1, <2>3, <2>4, <2>5 DEF KInv
<1>2. ASSUME IInv, KInv, [ProgramNext]_<<vars, keys>>
      PROVE  (IInv /\ KInv)'
  <2>1. CASE MainStep
    <3>1. IInv'
      BY <1>2, <2>1, InvariantStep DEF MainStep
    <3> QED
      BY <1>2, <2>1, <3>1, MainKeeps DEF IInv
  <2>2. CASE KeyStep
    <3>1. Keyboard!KeyNext /\ UNCHANGED vars
      BY <2>2 DEF KeyStep
    <3>2. IInv'
      BY <1>2, <3>1, InvariantStep
    <3> QED
      BY <1>2, <3>1, <3>2, KeyFlagsStep, KeyTypeStep, FewInterruptsStep, HeardCountedStep,
         StillMaskedStep, OncePerPressStep, LatchedStep, HeldKeyStep DEF KInv, IInv
  <2>3. CASE UNCHANGED <<vars, keys>>
    <3>1. IInv'
      BY <1>2, <2>3, InvariantStep
    <3> USE <2>3 DEF vars, vectors, keys
    <3>2. KeyFlagsOK' /\ KeyTypeOK' /\ Installed' = Installed
      BY <1>2 DEF KInv, KeyFlagsOK, KeyTypeOK, Installed
    <3>3. FewInterrupts' /\ HeardCounted' /\ StillMasked'
      BY <1>2, <3>2 DEF KInv, FewInterrupts, HeardCounted, StillMasked, After
    <3>4. OncePerPress' /\ Latched' /\ HeldKeyHeard'
      BY <1>2 DEF KInv, OncePerPress, Latched, HeldKeyHeard, Keyboard!HeldKeyHeard
    <3> QED
      BY <3>1, <3>2, <3>3, <3>4 DEF KInv
  <2> QED
    BY <1>2, <2>1, <2>2, <2>3 DEF ProgramNext
<1> QED
  BY <1>1, <1>2, PTL DEF ProgramSpec

\* No press comes to the program twice, once from POKEY's interrupt and once from the
\* fallback: for every key and both orders of the two.
THEOREM GameKeyComesOnce == ProgramSpec => []GameKeyOnce
<1>1. KInv => GameKeyOnce
  BY DEF KInv, OncePerPress, GameKeyOnce, Keyboard!GameKeyOnce
<1> QED
  BY ProgramInvariant, <1>1, PTL

\* A key that the fallback has looked at for two blanks is one the program has heard
\* of, unless CH was full or an interrupt came since no key was seen.
THEOREM HeldKeyIsHeard == ProgramSpec => []HeldKeyHeard
<1>1. KInv => HeldKeyHeard
  BY DEF KInv
<1> QED
  BY ProgramInvariant, <1>1, PTL
=============================================================================
