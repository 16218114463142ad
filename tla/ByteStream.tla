------------------------------- MODULE ByteStream -------------------------------
(***************************************************************************)
(* What the readers of connection.c expect of bwc_tcp_open, bwc_tcp_read   *)
(* and bwc_tcp_close: while the session is usable the bytes of the peer    *)
(* come in order, none missing and none twice, and the end of the stream   *)
(* is reported behind the last of them.  A byte is its position.           *)
(***************************************************************************)
EXTENDS Integers, Sequences

VARIABLES
  sent, closed,  \* the peer: bytes sent on this connection, end of stream sent
  delivered,     \* bytes the caller was given on this connection
  ended,         \* the caller was told of the end
  usable         \* the session is open and no operation on it has failed

vars == <<sent, closed, delivered, ended, usable>>

Init ==
  /\ sent = 0 /\ closed = FALSE /\ delivered = <<>> /\ ended = FALSE
  /\ usable = FALSE

Peer ==
  /\ ~closed
  /\ \/ sent' = sent + 1 /\ UNCHANGED closed
     \/ closed' = TRUE /\ UNCHANGED sent
  /\ UNCHANGED <<delivered, ended, usable>>

Deliver ==
  /\ usable
  /\ \E n \in Len(delivered) .. sent : delivered' = [i \in 1 .. n |-> i]
  /\ ended' \in {ended, TRUE}
  /\ ended' => closed /\ Len(delivered') = sent
  /\ UNCHANGED <<sent, closed, usable>>

\* Closed by the caller, or an operation failed.
Break == usable' = FALSE /\ UNCHANGED <<sent, closed, delivered, ended>>

Open == usable' = TRUE /\ sent' = 0 /\ closed' = FALSE /\ delivered' = <<>> /\ ended' = FALSE

Next == Peer \/ Deliver \/ Break \/ Open

Spec == Init /\ [][Next]_vars
=============================================================================
