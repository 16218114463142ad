------------------------------- MODULE LineEditor -------------------------------
(***************************************************************************)
(* What get_line and title_edit promise of the line they edit: it holds    *)
(* the characters typed and not erased, in order, up to its size.  A full  *)
(* line either ignores a further character or takes it for its last one.   *)
(***************************************************************************)
EXTENDS Sequences, Integers, SequencesExt

CONSTANT Chars

VARIABLES
  open,      \* a line is being edited
  text,      \* what it holds
  size,      \* the most it can hold
  replaces   \* a full line takes a character for its last one

vars == <<open, text, size, replaces>>
editor == <<open, size, replaces>>

Init == open = FALSE

Open == ~open /\ open' = TRUE /\ text' = <<>>

Type(c) ==
  /\ open /\ UNCHANGED editor
  /\ \/ Len(text) < size /\ text' = Append(text, c)
     \/ Len(text) = size /\ text' = IF replaces THEN Append(Front(text), c) ELSE text

Erase == open /\ text # <<>> /\ text' = Front(text) /\ UNCHANGED editor

Enter == open /\ open' = FALSE /\ UNCHANGED text

\* While no line is edited, its contents are somebody else's.
Elsewhere == ~open /\ open' = FALSE

Next == Open \/ (\E c \in Chars : Type(c)) \/ Erase \/ Enter \/ Elsewhere

Spec == Init /\ [][Next]_vars
=============================================================================
