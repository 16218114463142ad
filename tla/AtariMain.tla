-------------------------------- MODULE AtariMain --------------------------------
(***************************************************************************)
(* The Atari program around the sessions: the title, connecting, switching *)
(* FujiNet to standard SIO speed (src/atari/sio_mode.c), the game with its *)
(* display-list interrupts, and the way back to the title or out through   *)
(* exit() (src/main.c).  The packet build; the stream build leaves the     *)
(* speed alone.                                                            *)
(*                                                                         *)
(* A transaction with FujiNet is one step at the place it is made.  A      *)
(* request that reports a failure may have been carried out.               *)
(***************************************************************************)
EXTENDS Naturals

CONSTANTS
  Speeds,    \* values of the HSIO index
  OFF        \* FN_FUJI_HSIO_OFF

ASSUME SpeedAssumption == OFF \in Speeds /\ Speeds \ {OFF} # {}

VARIABLES
  pbi,                                  \* fn_atari_u1mb_pbi()
  hsio,                                 \* FujiNet's index
  fast,                                 \* PBI tables that may hold a high speed
  saved_index, restore_needed,
  dli_enabled, vdslst, vvblki, vkeybd,  \* NMIEN and whose handler is installed
  old_dli, old_vbi,                     \* title_fx.s
  game_old_vbi, key_previous,           \* vbi.s, key_fallback.s
  game_screen_active,
  pc,
  original,                             \* history: the index before the first session
  off_lost, restore_failed              \* history: what reported a failure

fujinet == <<pbi, hsio, fast>>
sio == <<saved_index, restore_needed>>
vectors == <<dli_enabled, vdslst, vvblki, vkeybd>>
saved == <<old_dli, old_vbi, game_old_vbi, key_previous>>
history == <<original, off_lost, restore_failed>>
vars == <<fujinet, sio, vectors, saved, game_screen_active, pc, history>>

Tables == {"devices", "disks"}
Owners == {"os", "title", "game"}

Init ==
  /\ pbi \in BOOLEAN /\ hsio \in Speeds /\ fast \in SUBSET Tables
  /\ saved_index \in Speeds /\ restore_needed = FALSE
  /\ dli_enabled = FALSE /\ vdslst = "os" /\ vvblki = "os" /\ vkeybd = "os"
  /\ old_dli = "os" /\ old_vbi = "os" /\ game_old_vbi = "os" /\ key_previous = "os"
  /\ game_screen_active = FALSE /\ pc = "settings"
  /\ original = hsio /\ off_lost = FALSE /\ restore_failed = FALSE

Go(from, to) == pc = from /\ pc' = to
Exit(from) == Go(from, "exit screen")

-----------------------------------------------------------------------------
(* FujiNet and the PBI BIOS.                                               *)

\* While FujiNet answers at high speed, the BIOS may remember so of a device.
BiosLearns ==
  /\ pbi /\ hsio # OFF /\ pc # "done"
  /\ \E t \in Tables \ fast : fast' = fast \union {t}
  /\ UNCHANGED <<pbi, hsio, sio, vectors, saved, game_screen_active, pc, history>>

SetHsio(index) == hsio' = index
MaybeSetHsio(index) == hsio' \in {hsio, index}

-----------------------------------------------------------------------------
(* get_info and the title effects.                                         *)

ReadSettings ==
  /\ Go("settings", "title")
  /\ old_dli' = vdslst /\ old_vbi' = vvblki
  /\ vdslst' = "title" /\ vvblki' = "title" /\ dli_enabled' = TRUE
  /\ UNCHANGED <<fujinet, sio, vkeybd, game_old_vbi, key_previous, game_screen_active, history>>

\* title_fx_pause before, title_fx_resume after storing a setting
EditSetting ==
  /\ Go("title", "store") /\ dli_enabled' = FALSE
  /\ UNCHANGED <<fujinet, sio, vdslst, vvblki, vkeybd, saved, game_screen_active, history>>

TitleResume == dli_enabled' = TRUE

StoreSetting ==
  /\ Go("store", "title") /\ TitleResume
  /\ UNCHANGED <<fujinet, sio, vdslst, vvblki, vkeybd, saved, game_screen_active, history>>

\* (mutant) the effects are left running
Launch_Running ==
  /\ Go("title", "connect")
  /\ vdslst' = old_dli /\ vvblki' = old_vbi
  /\ UNCHANGED <<fujinet, sio, dli_enabled, vkeybd, saved, game_screen_active, history>>

\* title_fx_stop
Launch ==
  /\ Go("title", "connect")
  /\ dli_enabled' = FALSE /\ vdslst' = old_dli /\ vvblki' = old_vbi
  /\ UNCHANGED <<fujinet, sio, vkeybd, saved, game_screen_active, history>>

\* connect_service; the error message ends in exit(1)
Connect ==
  /\ Go("connect", "standard") \/ Exit("connect")
  /\ UNCHANGED <<fujinet, sio, vectors, saved, game_screen_active, history>>

-----------------------------------------------------------------------------
(* bwc_standard_sio.                                                       *)

\* (mutant) asks for the index again
StandardSio_Always ==
  /\ IF ~pbi
     THEN Go("standard", "preview") /\ UNCHANGED saved_index
     ELSE \/ /\ saved_index' = hsio
             /\ Go("standard", IF hsio # OFF THEN "off" ELSE "clear devices")
          \/ Exit("standard") /\ saved_index' \in {saved_index, hsio}
  /\ UNCHANGED <<fujinet, restore_needed, vectors, saved, game_screen_active, history>>

StandardSio ==
  /\ IF restore_needed \/ ~pbi
     THEN Go("standard", "preview") /\ UNCHANGED saved_index
     ELSE \/ /\ saved_index' = hsio
             /\ Go("standard", IF hsio # OFF THEN "off" ELSE "clear devices")
          \/ Exit("standard") /\ saved_index' \in {saved_index, hsio}
  /\ UNCHANGED <<fujinet, restore_needed, vectors, saved, game_screen_active, history>>

SwitchOff ==
  /\ \/ /\ Go("off", "clear devices") /\ SetHsio(OFF)
        /\ restore_needed' = TRUE /\ UNCHANGED off_lost
     \/ /\ Exit("off") /\ MaybeSetHsio(OFF) /\ off_lost' = (hsio' = OFF)
        /\ UNCHANGED restore_needed
  /\ UNCHANGED <<pbi, fast, saved_index, vectors, saved, game_screen_active, original, restore_failed>>

ClearTable(from, to, t) ==
  /\ \/ Go(from, to) /\ fast' = fast \ {t}
     \/ Exit(from) /\ fast' \in {fast, fast \ {t}}
  /\ UNCHANGED <<pbi, hsio, sio, vectors, saved, game_screen_active, history>>

ClearDevices == ClearTable("clear devices", "clear disks", "devices")
ClearDisks == ClearTable("clear disks", "preview", "disks")

-----------------------------------------------------------------------------
(* The session.                                                            *)

\* (mutant) the screen is not marked as the game's
Preview_Unmarked ==
  /\ \/ Go("preview", "init screen")
     \/ Exit("preview")
  /\ UNCHANGED <<fujinet, sio, vectors, saved, game_screen_active, history>>

\* send_client_data, show_shapes_preview, get_world_state
Preview ==
  /\ \/ Go("preview", "init screen") /\ game_screen_active' = TRUE
     \/ Exit("preview") /\ UNCHANGED game_screen_active
  /\ UNCHANGED <<fujinet, sio, vectors, saved, history>>

\* with key_fallback_init
InitVbi ==
  /\ game_old_vbi' = vvblki /\ vvblki' = "game"
  /\ key_previous' = vkeybd /\ vkeybd' = "game"

SetupDli == vdslst' = "game" /\ dli_enabled' = TRUE

InitScreen ==
  /\ Go("init screen", "game")
  /\ InitVbi /\ SetupDli
  /\ UNCHANGED <<fujinet, sio, old_dli, old_vbi, game_screen_active, history>>

RunSimulation ==
  /\ Go("game", "cleanup") \/ Exit("game")
  /\ UNCHANGED <<fujinet, sio, vectors, saved, game_screen_active, history>>

\* with key_fallback_done
RestoreVbi == vvblki' = game_old_vbi /\ vkeybd' = key_previous

CleanupClient == dli_enabled' = FALSE /\ RestoreVbi

\* cleanup_atari_screen, after the simulation and again in exit()
CleanupScreen ==
  /\ Go("cleanup", "restore") \/ Go("exit screen", "exit sio")
  /\ \/ game_screen_active /\ CleanupClient /\ game_screen_active' = FALSE
     \/ ~game_screen_active /\ UNCHANGED <<dli_enabled, vvblki, vkeybd, game_screen_active>>
  /\ UNCHANGED <<fujinet, sio, vdslst, saved, history>>

-----------------------------------------------------------------------------
(* bwc_restore_sio, whose result neither caller looks at.                  *)

Afterwards(exiting) == IF exiting THEN "done" ELSE "settings"

\* restore_sio_on_exit switches the display interrupts off before it restores.
DliWhileRestoring == dli_enabled' = (pc = "restore" /\ dli_enabled)

RestoreSio ==
  /\ pc \in {"restore", "exit sio"}
  /\ DliWhileRestoring
  /\ \/ /\ ~restore_needed /\ pc' = Afterwards(pc = "exit sio")
        /\ UNCHANGED <<hsio, restore_failed>>
     \/ /\ restore_needed /\ SetHsio(saved_index)
        /\ pc' = IF pc = "restore" THEN "restore devices" ELSE "exit devices"
        /\ UNCHANGED restore_failed
     \/ /\ restore_needed /\ MaybeSetHsio(saved_index)
        /\ pc' = Afterwards(pc = "exit sio") /\ restore_failed' = TRUE
  /\ UNCHANGED <<pbi, fast, sio, vdslst, vvblki, vkeybd, saved, game_screen_active,
                 original, off_lost>>

RestoreDevices ==
  /\ pc \in {"restore devices", "exit devices"}
  /\ \/ /\ fast' = fast \ {"devices"} /\ UNCHANGED restore_failed
        /\ pc' = IF pc = "restore devices" THEN "restore disks" ELSE "exit disks"
     \/ /\ fast' \in {fast, fast \ {"devices"}} /\ restore_failed' = TRUE
        /\ pc' = Afterwards(pc = "exit devices")
  /\ UNCHANGED <<pbi, hsio, sio, vectors, saved, game_screen_active, original, off_lost>>

RestoreDisks ==
  /\ pc \in {"restore disks", "exit disks"}
  /\ \/ /\ fast' = fast \ {"disks"} /\ restore_needed' = FALSE
        /\ UNCHANGED restore_failed
     \/ /\ fast' \in {fast, fast \ {"disks"}} /\ restore_failed' = TRUE
        /\ UNCHANGED restore_needed
  /\ pc' = Afterwards(pc = "exit disks")
  /\ UNCHANGED <<pbi, hsio, saved_index, vectors, saved, game_screen_active, original, off_lost>>

-----------------------------------------------------------------------------
Finished == pc = "done" /\ UNCHANGED vars

Title == ReadSettings \/ EditSetting \/ StoreSetting \/ Launch
Standard == StandardSio \/ SwitchOff \/ ClearDevices \/ ClearDisks
Session == Connect \/ Preview \/ InitScreen \/ RunSimulation \/ CleanupScreen
Restore == RestoreSio \/ RestoreDevices \/ RestoreDisks

Next == BiosLearns \/ Title \/ Standard \/ Session \/ Restore \/ Finished

Spec == Init /\ [][Next]_vars

-----------------------------------------------------------------------------
(* Properties.                                                             *)

StandardSpeed == hsio = OFF /\ fast = {}

\* "switches it off and clears the PBI speed caches before enabling the game
\* display interrupts" (README.md): with a PBI the game never runs at high speed.
GameAtStandardSpeed == pbi /\ pc = "game" => StandardSpeed

\* Every transaction is undisturbed: "Paused across every SIO transaction"
\* (title_fx.s) in the title, and in the game at standard speed, unless a restore
\* had failed half-way before.
TransactionsUndisturbed ==
  dli_enabled /\ pc # "title" =>
    pc \in {"game", "cleanup", "exit screen"} /\ vdslst = "game"
      /\ (pbi /\ ~restore_failed => StandardSpeed)

\* "Even if clearing a table fails, an exit must restore the FujiNet": the user's
\* index is in FujiNet, or will be put back there, however many sessions there are
\* and whatever fails; unless FujiNet obeyed and reported a failure.  At the exit
\* it is back if no restore failed.
IndexKept ==
  ~off_lost => \/ hsio = original
               \/ restore_needed /\ saved_index = original /\ (pc = "done" => restore_failed)

\* The keyboard handler of the game jumps to the one it replaced, which is never
\* itself; outside the game and after the exit the OS's handlers are back.
HandlersRestored ==
  /\ vkeybd = "game" => key_previous = "os"
  /\ pc \in {"settings", "title", "store", "connect", "preview", "done"} =>
       vkeybd = "os" /\ vvblki # "game" /\ (pc # "title" => ~dli_enabled)
=============================================================================
