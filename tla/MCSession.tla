------------------------------- MODULE MCSession -------------------------------
(***************************************************************************)
(* Two steps of the world, and where nothing overwrites them three: the    *)
(* last one before the byte wraps around, which is current_step's initial  *)
(* value, is then among them.  Command 3 only sets a flag, command 5 also  *)
(* fetches the message.                                                    *)
(***************************************************************************)
EXTENDS Session

Config(atari, ignore, clients, changes, commands, keys, steps) ==
  [atari |-> atari, ignore |-> ignore, clients |-> clients, changes |-> changes,
   commands |-> commands, keys |-> keys, steps |-> steps]

\* Sessions of the Atari one after the other.
Atari == Config(TRUE, FALSE, 2, 2, {}, 3, {0, 1})
\* Polls given up on MS-DOS; more clients than rows.
MsDos == Config(FALSE, TRUE, 3, 1, {3, 5}, 2, {0, 1})
\* Commands on the other platforms.
Desktop == Config(FALSE, FALSE, 2, 1, {3, 5}, 1, {0, 1})
\* No commands, and steps that wrap around.
Quiet == Config(FALSE, FALSE, 2, 1, {}, 1, {0, 1, 255})

AllConfigs == {Atari, MsDos, Desktop, Quiet}
WithCommands == {Desktop}
=============================================================================
