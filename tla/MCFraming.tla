------------------------------- MODULE MCFraming -------------------------------
(***************************************************************************)
(* Two calls of every kind, so that the second one shows where the first   *)
(* left the stream.  Buffers of 2 or 3 bytes; payloads from none to one    *)
(* more than fits (min: bad size, wait: size mismatch, prefix: 1 and 5     *)
(* bytes to drain in chunks of 4, which are longer than the buffer);       *)
(* headers that spell less than their own size.                            *)
(***************************************************************************)
EXTENDS Framing

Call(o, l, p) ==
  [op |-> o, len |-> l, start |-> 0, payload |-> p, size |-> p + HeaderSize]
BadHeader(o) == [op |-> o, len |-> 3, start |-> 0, payload |-> 0, size |-> 1]

MCCalls == {Call("wait", 1, 1), Call("wait", 3, 3), Call("wait", 1, 2),
            Call("min", 3, 0), Call("min", 3, 1), Call("min", 3, 3), Call("min", 3, 4),
            Call("prefix", 2, 0), Call("prefix", 2, 1), Call("prefix", 2, 3),
            Call("prefix", 2, 7), BadHeader("min"), BadHeader("prefix")}

MCScripts == {<<a, [b EXCEPT !.start = a.payload + HeaderSize]>> : a \in MCCalls, b \in MCCalls}
MCGarbage == {0, 2, 4}
=============================================================================
