------------------------------- MODULE SmallStream -------------------------------
(***************************************************************************)
(* The TCP adapter of the Atari small-stream build                         *)
(* (src/atari/stream/network.c) between a caller that reads, writes and    *)
(* reopens as it likes, and the library's carrier operations fn_stream_*,  *)
(* of which one that fails may have been carried out.                      *)
(*                                                                         *)
(* A carrier operation is one step.  BUSY and NOT_READY leave everything   *)
(* as it was, but for the idle attempts of a write.  A byte of the peer is *)
(* its position in the connection, a byte of the caller its command and    *)
(* its position there.                                                     *)
(***************************************************************************)
EXTENDS Integers, Sequences

CONSTANTS
  Capacity,      \* FN_STREAM_MAX, 120 bytes
  IdleMax,       \* 120 idle attempts of a write
  ReadSizes,     \* capacities the caller reads with
  WriteSizes,    \* lengths of its commands
  MaxSent, MaxCommands, MaxOpens   \* bounds

ASSUME CapacityAssumption == Capacity \in Nat \ {0} /\ IdleMax \in Nat \ {0}
ASSUME SizeAssumption == ReadSizes \subseteq Nat \ {0} /\ WriteSizes \subseteq Nat \ {0}
ASSUME BoundAssumption == {MaxSent, MaxCommands, MaxOpens} \subseteq Nat

VARIABLES
  failed,                            \* an error status, once there was one
  pending, pending_at, pending_eof,  \* read-ahead
  received,                          \* the library's reply area
  connected, uncertain,              \* carrier: open; an operation has failed
  sent, closed, taken,               \* the peer's bytes; those the carrier gave up
  accepted,                          \* bytes of commands the peer was sent
  pc,                                \* "down", "opening", "idle", "write"
  command, length, actual, idle,     \* bwc_stream_write
  delivered, ended,                  \* history: what the caller was given
  opens

cache == <<pending, pending_at, pending_eof>>
carrier == <<connected, uncertain, taken, accepted>>
peer == <<sent, closed>>
write == <<command, length, actual, idle>>
given == <<delivered, ended>>
vars == <<failed, cache, received, carrier, peer, pc, write, given, opens>>

OK == "ok"
Scratch == [i \in 1 .. Capacity |-> 0]    \* a reply that carries no stream data

Init ==
  /\ failed = OK /\ received = <<>>
  /\ pending = <<>> /\ pending_at = 0 /\ pending_eof = FALSE
  /\ connected = FALSE /\ uncertain = FALSE /\ taken = 0 /\ accepted = <<>>
  /\ sent = 0 /\ closed = FALSE
  /\ pc = "down" /\ command = 0 /\ length = 0 /\ actual = 0 /\ idle = 0
  /\ delivered = <<>> /\ ended = FALSE /\ opens = 0

Smaller(a, b) == IF a < b THEN a ELSE b

-----------------------------------------------------------------------------
PeerSends ==
  /\ connected /\ ~closed /\ sent < MaxSent /\ sent' = sent + 1
  /\ UNCHANGED <<failed, cache, received, carrier, closed, pc, write, given, opens>>

PeerCloses ==
  /\ connected /\ ~closed /\ closed' = TRUE
  /\ UNCHANGED <<failed, cache, received, carrier, sent, pc, write, given, opens>>

\* A carrier operation that failed: whether it was done is not known.
Fail == failed' = "transport" /\ uncertain' = TRUE

Discard == pending' = <<>> /\ pending_at' = 0 /\ pending_eof' = FALSE

\* bwc_stream_init replaces whatever connection there was.
InitStream ==
  /\ pc \in {"down", "idle"} /\ opens < MaxOpens
  /\ Discard /\ connected' \in {FALSE, connected}
  /\ \/ failed' = OK /\ uncertain' = FALSE /\ pc' = "opening"
     \/ Fail /\ pc' = "down"
  /\ opens' = opens + 1
  /\ UNCHANGED <<received, taken, accepted, peer, write, given>>

\* bwc_stream_open; on any error, a URL that is too long among them, the
\* caller gives up.
OpenStream ==
  /\ pc = "opening"
  /\ \/ /\ pc' = "idle" /\ connected' = TRUE /\ Discard
        /\ sent' = 0 /\ closed' = FALSE /\ taken' = 0 /\ accepted' = <<>>
        /\ command' = 0 /\ length' = 0 /\ actual' = 0 /\ idle' = 0
        /\ delivered' = <<>> /\ ended' = FALSE
        /\ UNCHANGED <<failed, uncertain>>
     \/ /\ pc' = "down" /\ (Fail \/ UNCHANGED <<failed, uncertain>>)
        /\ UNCHANGED <<cache, connected, taken, accepted, peer, write, given>>
  /\ UNCHANGED <<received, opens>>

\* (mutant) a failed session is closed as well
CloseStream_Always ==
  /\ pc = "idle" /\ pc' = "down"
  /\ \/ connected' = FALSE /\ Discard /\ UNCHANGED <<failed, uncertain>>
     \/ Fail /\ connected' \in BOOLEAN /\ UNCHANGED cache
  /\ UNCHANGED <<received, taken, accepted, peer, write, given, opens>>

\* bwc_stream_close; disconnect_service does not look at the result.
CloseStream ==
  /\ pc = "idle" /\ pc' = "down"
  /\ \/ /\ failed = OK /\ connected' = FALSE
        /\ Discard /\ UNCHANGED <<failed, uncertain>>
     \/ /\ failed = OK /\ Fail /\ connected' \in BOOLEAN
        /\ UNCHANGED cache
     \/ UNCHANGED <<failed, uncertain, connected, cache>>   \* BUSY, or failed before
  /\ UNCHANGED <<received, taken, accepted, peer, write, given, opens>>

-----------------------------------------------------------------------------
(* bwc_stream_read.                                                        *)

\* (mutant) the reply area is not copied
Buffer_Reply == received

Buffer == pending

\* At most `size` bytes of the buffer p from `at` on; its end-of-stream flag
\* goes with the last of them.
Take(size, p, at, eof) ==
  LET k == Smaller(Len(p) - at, size)
  IN  /\ delivered' = delivered \o SubSeq(p, at + 1, at + k)
      /\ ended' = (ended \/ (eof /\ at + k = Len(p)))
      /\ pending_at' = at + k

\* The carrier's answer: n of the bytes there are, the flag when no more come.
CarrierRead(n, eof) ==
  /\ n \in 0 .. Smaller(Capacity, sent - taken)
  /\ eof => closed /\ taken + n = sent

Reading == pc = "idle" /\ failed = OK

ReadPending ==
  /\ Reading /\ (pending_at < Len(pending) \/ pending_eof)
  /\ \E size \in ReadSizes : Take(size, Buffer, pending_at, pending_eof)
  /\ UNCHANGED <<failed, pending, pending_eof, received, carrier, peer, pc, write, opens>>

ReadAhead ==
  /\ Reading /\ pending_at = Len(pending) /\ ~pending_eof
  /\ \E n \in 0 .. Capacity, eof \in BOOLEAN, size \in ReadSizes :
       /\ CarrierRead(n, eof)
       /\ received' = [i \in 1 .. n |-> taken + i]
       /\ taken' = taken + n
       /\ pending' = received' /\ pending_eof' = eof
       /\ Take(size, received', 0, eof)
  /\ UNCHANGED <<failed, connected, uncertain, accepted, peer, pc, write, opens>>

\* The bytes of an answer that was lost are gone.
ReadFails ==
  /\ Reading /\ pending_at = Len(pending) /\ ~pending_eof
  /\ Fail
  /\ \E n \in 0 .. Capacity : CarrierRead(n, FALSE) /\ taken' = taken + n
  /\ UNCHANGED <<cache, received, connected, accepted, peer, pc, write, given, opens>>

-----------------------------------------------------------------------------
(* bwc_stream_write.  request_client_data repeats a request that failed;   *)
(* a latched session returns without a step.                               *)

Unfinished == actual < length

StartWrite ==
  /\ pc = "idle" /\ failed = OK /\ pc' = "write"
  /\ \/ /\ command < MaxCommands /\ command' = command + 1
        /\ length' \in WriteSizes
     \/ Unfinished /\ UNCHANGED <<command, length>>
  /\ actual' = 0 /\ idle' = 0
  /\ UNCHANGED <<failed, cache, received, carrier, peer, given, opens>>

\* The first n bytes of what is left of the command reach the peer.
Pass(n) ==
  /\ n <= Smaller(Capacity, length - actual)
  /\ accepted' = accepted \o [i \in 1 .. n |->
       [cmd |-> command, at |-> actual + i, last |-> actual + i = length]]
  /\ received' = Scratch

WriteAccepted ==
  /\ pc = "write"
  /\ \E n \in 1 .. Capacity : Pass(n) /\ actual' = actual + n
  /\ pc' = IF actual' = length THEN "idle" ELSE "write"
  /\ idle' = 0
  /\ UNCHANGED <<failed, cache, connected, uncertain, taken, peer, command, length, given, opens>>

\* (mutants) the count wraps around; giving up is not remembered
WriteIdle_Wraps ==
  /\ pc = "write" /\ received' = Scratch
  /\ idle' = (idle + 1) % IdleMax
  /\ UNCHANGED <<failed, pc, cache, carrier, peer, command, length, actual, given, opens>>
WriteIdle_Forgets ==
  /\ pc = "write" /\ received' = Scratch
  /\ \/ idle + 1 < IdleMax /\ idle' = idle + 1 /\ UNCHANGED <<pc, failed>>
     \/ idle + 1 = IdleMax /\ pc' = "idle" /\ UNCHANGED <<idle, failed>>
  /\ UNCHANGED <<cache, carrier, peer, command, length, actual, given, opens>>

\* BUSY, NOT_READY or nothing accepted: wait and repeat what is left.
WriteIdle ==
  /\ pc = "write" /\ received' = Scratch
  /\ \/ idle + 1 < IdleMax /\ idle' = idle + 1 /\ UNCHANGED <<pc, failed>>
     \/ idle + 1 = IdleMax /\ failed' = "timeout" /\ pc' = "idle" /\ UNCHANGED idle
  /\ UNCHANGED <<cache, carrier, peer, command, length, actual, given, opens>>

WriteFails ==
  /\ pc = "write" /\ pc' = "idle" /\ Fail
  /\ \E n \in 0 .. Capacity : Pass(n)
  /\ UNCHANGED <<cache, connected, taken, peer, write, given, opens>>

-----------------------------------------------------------------------------
Finished == pc \in {"down", "idle"} /\ opens = MaxOpens /\ UNCHANGED vars

Peer == PeerSends \/ PeerCloses
Read == ReadPending \/ ReadAhead \/ ReadFails
WriteStep == WriteAccepted \/ WriteIdle \/ WriteFails

Next ==
  \/ Peer \/ InitStream \/ OpenStream \/ CloseStream
  \/ Read \/ StartWrite \/ WriteStep \/ Finished

Spec == Init /\ [][Next]_vars

\* The adapter runs its loop; the peer and the carrier need not do anything.
FairSpec == Spec /\ WF_vars(WriteStep)

-----------------------------------------------------------------------------
(* Properties.                                                             *)

\* The adapter is a byte stream: "the adapter gives the framing code only the
\* bytes it requested and retains the surplus", "EOF is delayed until all
\* buffered bytes have been delivered" (docs/atari-small-stream.md).
Stream == INSTANCE ByteStream WITH usable <- pc \in {"idle", "write"} /\ failed = OK
IsByteStream == Stream!Spec

Follows(b, a) ==
  \/ ~a.last /\ b.cmd = a.cmd /\ b.at = a.at + 1
  \/ a.last /\ b.cmd = a.cmd + 1 /\ b.at = 1

\* "Generic caller retries return that error without resending a partly
\* completed command": the peer receives whole commands, each once and in order,
\* and only the last may be cut short.
CommandsWhole ==
  /\ accepted # <<>> => accepted[1].cmd = 1 /\ accepted[1].at = 1
  /\ \A i \in 2 .. Len(accepted) : Follows(accepted[i], accepted[i - 1])

\* "Never replace an uncertain transaction" (test_stream_network.c): after an
\* operation that failed the carrier is not used again before the next init.
NothingAfterUncertain ==
  [][uncertain /\ opens' = opens => UNCHANGED <<taken, accepted, connected>>]_vars

\* A write ends, whether or not the device ever takes a byte.
WriteEnds == (pc = "write") ~> (pc # "write")
=============================================================================
