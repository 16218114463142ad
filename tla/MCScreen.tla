-------------------------------- MODULE MCScreen --------------------------------
(* The builds, by how they show frames.  The BBC draws objects into a work   *)
(* area and copies the rows that are not the bar's to one visible buffer.    *)
(* On the Amiga's console a field of three characters, and of the keys a     *)
(* letter, the menu's letter, a digit, erase, return, a key without a        *)
(* character, each with what shift and a release make of it.                 *)
EXTENDS AmigaDisplay

Atari   == [buffers |-> 2, keeps |-> TRUE,  queued |-> FALSE, worker |-> FALSE]
BBC     == [buffers |-> 1, keeps |-> TRUE,  queued |-> FALSE, worker |-> FALSE]
Desktop == [buffers |-> 1, keeps |-> FALSE, queued |-> FALSE, worker |-> FALSE]
Amiga   == [buffers |-> 2, keeps |-> FALSE, queued |-> TRUE,  worker |-> TRUE]

AllPlatforms == {Atari, BBC, Desktop, Amiga}

Key(k) == [code |-> k, shift |-> FALSE, up |-> FALSE]
SomeMessages ==
  {Key(k) : k \in {32, 33, 65, 68, 48}}
    \cup {[code |-> 1, shift |-> TRUE, up |-> FALSE], [code |-> 32, shift |-> FALSE, up |-> TRUE]}

SomeTexts == {<<>>, <<"x", "y", "z">>}
=============================================================================
