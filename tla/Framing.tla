-------------------------------- MODULE Framing --------------------------------
(***************************************************************************)
(* The framed readers of src/common/connection.c: read_response_wait,      *)
(* read_response_min and read_response_prefix over read_raw, on a TCP      *)
(* stream that arrives in pieces of any size.                              *)
(*                                                                         *)
(* Every answer is one frame: a two-byte total size, then the payload.     *)
(* The stream itself is abstracted to offsets: frame i of the script       *)
(* occupies the offsets from StartOf(i) up to StartOf(i + 1).  One action  *)
(* is one call of bwc_tcp_read that returned something; NOT_READY, BUSY    *)
(* and empty reads change nothing and are stuttering steps.                *)
(*                                                                         *)
(* The adapter of the small stream serves at most what was asked for.  The *)
(* other transports may serve more: read_offset then advances by all of it *)
(* and the caller's buffer takes what it asked for.  What becomes of the   *)
(* surplus is up to a library outside this repository.  The comment in     *)
(* read_raw has it queued for the next read; the offset that the next read *)
(* passes is behind it.  Both kinds of transport are modelled.             *)
(***************************************************************************)
EXTENDS Integers, Sequences

CONSTANTS
  Modes,         \* which builds: BWC_SMALL_STREAM asks for the header first (TRUE),
                 \* the others take all that fits the buffer (FALSE)
  AtOffset,      \* which transports of the latter: they serve the bytes at the
                 \* offset they are given (TRUE) or in the order of the stream (FALSE)
  Ahead,         \* small stream: frames that may be there beyond the one awaited
  ChunkSize,     \* APP_DATA_SIZE: bytes drained per read_raw
  Garbage,       \* sizes two bytes that are not a header may spell
  Scripts        \* sequences of calls, and the frames that answer them

HeaderSize == 2          \* PACKET_HEADER_SIZE
MaxSize == 2^15 - 1      \* int16_t: bound on what a header spells

\* A call with the buffer it offers; and the frame that answers it: where it starts
\* in the stream, its payload, and the size its header spells.
Calls == [op : {"wait", "min", "prefix"}, len : 1 .. MaxSize - HeaderSize,
          start : Nat, payload : Nat, size : 0 .. MaxSize]

Honest(c) == c.size = c.payload + HeaderSize

\* Sizes at which the reader exits.
Refused(c) == \/ c.size < HeaderSize
              \/ c.op = "wait" /\ c.size # c.len + HeaderSize
              \/ c.op = "min" /\ c.size > c.len + HeaderSize

ASSUME ModeAssumption == {Modes, AtOffset} \subseteq SUBSET BOOLEAN /\ Ahead \in Nat
ASSUME SizeAssumption == ChunkSize \in Nat \ {0} /\ Garbage \subseteq Nat

\* Frames follow each other, and a header that is believed tells the truth.
ASSUME ScriptAssumption ==
  \A s \in Scripts :
    /\ s \in Seq(Calls) /\ s # <<>> /\ s[1].start = 0
    /\ \A i \in 2 .. Len(s) : s[i].start = s[i - 1].start + s[i - 1].payload + HeaderSize
    /\ \A i \in DOMAIN s : Honest(s[i]) \/ Refused(s[i])

VARIABLES
  script,        \* the calls of this run; constant
  small,         \* BWC_SMALL_STREAM; constant
  by_offset,     \* the transport goes by the offset; constant
  sent, closed,  \* bytes the server sent, and whether it closed the stream
  read_offset,
  surplus,       \* bytes served so far beyond what was asked for
  past,          \* (history) a read was counted past the end of its buffer
  returned,      \* what each finished call returned
  pc,            \* "idle", "raw" (in read_raw), "min" (read_response_min), "exited"
  stage,         \* which read_raw of the call: "header", "body", "drain"
  base,          \* where in the stream the call began
  total,         \* bytes stored by the current loop
  want,          \* read_raw's len, read_response_min's need_total
  have_header,
  payload_total, \* of the frame, once the header was read
  remaining      \* bytes read_response_prefix has yet to drain

build == <<script, small, by_offset>>
server == <<sent, closed>>
offsets == <<read_offset, surplus, past>>
locals == <<base, want, have_header, payload_total, remaining>>
vars == <<build, server, offsets, returned, pc, stage, total, locals>>

FrameLen(i) == script[i].payload + HeaderSize
StartOf(i) == IF i = 1 THEN 0 ELSE script[i - 1].start + FrameLen(i - 1)

CallNo == Len(returned) + 1           \* the call being made, or the next one
Op == script[CallNo]
MaxTotal == Op.len + HeaderSize       \* read_response_min's max_total

\* packet_size_from_header of the two bytes at offset o.
SizeAt(o) ==
  IF \E i \in DOMAIN script : StartOf(i) = o
    THEN {script[i].size : i \in {j \in DOMAIN script : StartOf(j) = o}}
    ELSE Garbage

Init ==
  /\ script \in Scripts /\ small \in Modes /\ by_offset \in AtOffset
  /\ small => ~by_offset                     \* bwc_stream_read drops the offset
  /\ sent = 0 /\ closed = FALSE /\ read_offset = 0 /\ surplus = 0 /\ past = FALSE
  /\ returned = <<>> /\ pc = "idle" /\ stage = "header"
  /\ base = 0 /\ total = 0 /\ want = 0
  /\ have_header = FALSE /\ payload_total = 0 /\ remaining = 0

-----------------------------------------------------------------------------
(* The server.  It answers the request of the current call; the adapter of *)
(* the small stream buffers the frames that follow it as well.             *)

Answered ==
  LET n == Len(returned) + (IF pc = "idle" THEN 0 ELSE 1) + (IF small THEN Ahead ELSE 0)
  IN  IF n > Len(script) THEN Len(script) ELSE n

Deliver ==
  /\ ~closed
  /\ sent < StartOf(Answered + 1)
  /\ \E n \in 1 .. StartOf(Answered + 1) - sent : sent' = sent + n
  /\ UNCHANGED <<build, closed, offsets, returned, pc, stage, total, locals>>

CloseStream ==
  /\ ~closed /\ closed' = TRUE
  /\ UNCHANGED <<build, sent, offsets, returned, pc, stage, total, locals>>

-----------------------------------------------------------------------------
(* One bwc_tcp_read that asked for `asked` bytes served k; the EOF flag    *)
(* may come with the last bytes of a closed stream, or alone.              *)

\* The next byte to be served.
PositionOf(offset, over) == offset - (IF by_offset THEN 0 ELSE over)
Position == PositionOf(read_offset, surplus)

Smaller(a, b) == IF a < b THEN a ELSE b

Served(asked, k, eof) ==
  /\ k \in 1 .. sent - Position
  /\ small => k <= asked
  /\ read_offset' = read_offset + k
  /\ surplus' = surplus + (k - Smaller(k, asked))
  /\ eof => closed /\ PositionOf(read_offset', surplus') = sent

\* (mutant) all that was served is counted as stored
Stored_All(k, room) == total + k

\* "never walk it past its end": what the buffer holds after the read.
Stored(k, room) == total + Smaller(k, room)

Counted(t, end) == past' = (past \/ t > end)

Return(value) ==
  /\ returned' = Append(returned, value)
  /\ pc' = "idle" /\ total' = 0
  /\ UNCHANGED <<stage, locals>>

\* handle_err with err set: exit(1).
Exit ==
  /\ pc' = "exited" /\ total' = 0
  /\ UNCHANGED <<returned, stage, locals>>

\* A transport error, or 0 bytes with EOF, in either loop.
ReadFails ==
  /\ pc \in {"raw", "min"} /\ Exit
  /\ UNCHANGED <<build, server, offsets>>

ReadEof == closed /\ Position = sent /\ ReadFails

Begin ==
  /\ pc = "idle" /\ CallNo <= Len(script)
  /\ base' = Position /\ total' = 0
  /\ have_header' = FALSE /\ payload_total' = 0 /\ remaining' = 0
  /\ stage' = "header"
  /\ IF Op.op = "min"
       THEN pc' = "min" /\ want' = 1 + HeaderSize    \* min_payload is 1 everywhere
       ELSE pc' = "raw" /\ want' = HeaderSize
  /\ UNCHANGED <<build, server, offsets, returned>>

-----------------------------------------------------------------------------
(* read_raw, and what read_response_wait and read_response_prefix do with  *)
(* the n bytes it returned.                                                *)

RawMore(t) ==
  /\ total' = t
  /\ UNCHANGED <<pc, stage, returned, locals>>

ReadNext(st, len) ==
  /\ stage' = st /\ want' = len /\ total' = 0
  /\ UNCHANGED <<pc, returned, base, have_header>>

\* read_response_wait: the payload must be exactly the length asked for.
WaitHeader(size) ==
  \/ size # Op.len + HeaderSize /\ Exit
  \/ /\ size = Op.len + HeaderSize
     /\ ReadNext("body", Op.len)
     /\ payload_total' = Op.len /\ UNCHANGED remaining

\* (mutant) the payload is not cut to the buffer
PrefixHeader_KeepsAll(size) ==
  LET payload == size - HeaderSize
  IN  \/ size < HeaderSize /\ Exit
      \/ payload = 0 /\ Return(0)
      \/ /\ payload > 0 /\ ReadNext("body", payload)
         /\ payload_total' = payload /\ remaining' = 0

\* read_response_prefix: keep what fits, drain the rest in chunks.
PrefixHeader(size) ==
  LET payload == size - HeaderSize
      keep    == Smaller(payload, Op.len)
  IN  \/ size < HeaderSize /\ Exit
      \/ payload = 0 /\ Return(0)
      \/ /\ payload > 0 /\ ReadNext("body", keep)
         /\ payload_total' = payload /\ remaining' = payload - keep

PrefixBody(n) ==
  \/ n < want /\ Return(n)
  \/ n >= want /\ remaining = 0 /\ Return(want)
  \/ /\ n >= want /\ remaining > 0
     /\ ReadNext("drain", Smaller(remaining, ChunkSize))
     /\ UNCHANGED <<remaining, payload_total>>

\* (mutant) the drain stops after its first chunk
PrefixDrain_Once(n) ==
  \/ n < want /\ Return(n)
  \/ n >= want /\ Return(payload_total - remaining)

PrefixDrain(n) ==
  LET left == remaining - want
  IN  \/ n < want /\ Return(n)
      \/ n >= want /\ left = 0 /\ Return(Smaller(payload_total, Op.len))
      \/ /\ n >= want /\ left > 0
         /\ ReadNext("drain", Smaller(left, ChunkSize))
         /\ remaining' = left /\ UNCHANGED payload_total

RawReturns(n) ==
  \/ stage = "header" /\ n < HeaderSize /\ Return(n)
  \/ /\ stage = "header" /\ n >= HeaderSize
     /\ \E size \in SizeAt(base) :
          \/ Op.op = "wait" /\ WaitHeader(size)
          \/ Op.op = "prefix" /\ PrefixHeader(size)
  \/ stage = "body" /\ Op.op = "wait" /\ Return(n)
  \/ stage = "body" /\ Op.op = "prefix" /\ PrefixBody(n)
  \/ stage = "drain" /\ PrefixDrain(n)

ReadRaw ==
  /\ pc = "raw"
  /\ \E k \in 1 .. sent - Position, eof \in BOOLEAN :
       /\ Served(want - total, k, eof)
       /\ LET t == Stored(k, want - total)
          IN  /\ Counted(t, want)
              /\ IF t >= want \/ eof THEN RawReturns(t) ELSE RawMore(t)
  /\ UNCHANGED <<build, server>>

-----------------------------------------------------------------------------
(* read_response_min: one loop for header and payload.                     *)

\* The length asked for: what is missing of the header or of the frame on a
\* small stream, all that fits the buffer otherwise.
MinAsks ==
  IF small THEN (IF have_header THEN want ELSE HeaderSize) - total
                 ELSE MaxTotal - total

\* (mutant) at the end of the stream the header is counted as payload
MinAtEof_Total(t) ==
  \/ ~have_header /\ Return(0)
  \/ have_header /\ t < want /\ Exit
  \/ have_header /\ t >= want /\ Return(t)

\* The EOF flag ends the loop before the header is looked at.
MinAtEof(t) ==
  \/ ~have_header /\ Return(0)
  \/ have_header /\ t < want /\ Exit
  \/ have_header /\ t >= want /\ Return(payload_total)

\* (mutant) the size is taken to leave the header out
MinHeader_Twice(t, size) ==
  \/ (size < HeaderSize \/ size > MaxTotal) /\ Exit
  \/ /\ size \in HeaderSize .. MaxTotal
     /\ want' = size + HeaderSize /\ have_header' = TRUE /\ payload_total' = size
     /\ total' = t
     /\ UNCHANGED <<pc, stage, returned, base, remaining>>

MinHeader(t, size) ==
  \/ (size < HeaderSize \/ size > MaxTotal) /\ Exit
  \/ size \in HeaderSize .. MaxTotal /\ t >= size /\ Return(size - HeaderSize)
  \/ /\ size \in HeaderSize .. MaxTotal /\ t < size
     /\ want' = size /\ have_header' = TRUE /\ payload_total' = size - HeaderSize
     /\ total' = t
     /\ UNCHANGED <<pc, stage, returned, base, remaining>>

MinLoop(t) ==
  \/ t < HeaderSize /\ RawMore(t)
  \/ t >= HeaderSize /\ ~have_header /\ \E size \in SizeAt(base) : MinHeader(t, size)
  \/ have_header /\ t < want /\ RawMore(t)
  \/ have_header /\ t >= want /\ Return(payload_total)

ReadMin ==
  /\ pc = "min"
  /\ \E k \in 1 .. sent - Position, eof \in BOOLEAN :
       /\ Served(MinAsks, k, eof)
       /\ LET t == Stored(k, MaxTotal - total)
          IN  /\ Counted(t, MaxTotal)
              /\ IF eof THEN MinAtEof(t) ELSE MinLoop(t)
  /\ UNCHANGED <<build, server>>

-----------------------------------------------------------------------------
Finished ==
  /\ pc = "exited" \/ (pc = "idle" /\ CallNo > Len(script))
  /\ UNCHANGED vars

Reader == Begin \/ ReadRaw \/ ReadMin \/ ReadEof

Next == Deliver \/ CloseStream \/ Reader \/ ReadFails \/ Finished

Spec == Init /\ [][Next]_vars

\* The client keeps polling, and the server sends its answer or closes.
FairSpec == Spec /\ WF_vars(Reader) /\ WF_vars(Deliver)

-----------------------------------------------------------------------------
(* Properties.                                                             *)

Ended == closed /\ Position = sent

\* Between calls the next byte to read is the first of the next frame, or the
\* stream has ended: no call leaves part of its frame behind or takes bytes of
\* the next one ("to keep stream aligned", keyboard.c).  Nor does a surplus lead
\* past it: no frame follows before the next request, so that a call that goes on
\* without the bytes it was not given does not come to its end.
Aligned == pc = "idle" => Position = StartOf(CallNo) \/ Ended

\* A call asks for and counts no byte past the end of the buffer its caller gave,
\* and what it returns is a length within that buffer, whatever the header said and
\* however much more than it asked for a read served; but read_response_prefix
\* returns the part of a chunk it drained when the stream ends in it, which may be
\* more (get_world_clients cuts it to the rows shown).
StaysInBuffer ==
  /\ \A k \in DOMAIN returned :
       \/ returned[k] \in 0 .. script[k].len
       \/ script[k].op = "prefix" /\ Ended /\ returned[k] \in 0 .. ChunkSize - 1
  /\ ~past
  /\ pc = "min" => total + MinAsks <= MaxTotal
  /\ pc = "raw" /\ stage = "body" => want <= Op.len
  /\ pc = "raw" /\ stage = "drain" => want <= ChunkSize

Expected(i) == IF script[i].op = "prefix" THEN Smaller(script[i].payload, script[i].len)
                                          ELSE script[i].payload

AllWhole ==
  \A i \in DOMAIN returned : StartOf(i + 1) <= sent => returned[i] = Expected(i)

\* "Returns the payload length, or -1 on error" (read_response_min): a frame the
\* server sent in full is returned in full by a call that returns, even when the
\* stream ended right behind it.
WholeFrameReturned == AllWhole

\* The same where the header is asked for on its own, and the end of the stream
\* can only come with the payload or behind it.
WholeOnSmallStream == small => AllWhole

\* A call ends, whatever pieces the answer comes in and however much of it is
\* served at once; but not where the transport goes by the offset and a surplus
\* was skipped, although read_raw says that "the surplus stays queued for the next
\* read".
Skipped == by_offset /\ surplus > 0
CallEnds == (pc \in {"raw", "min"}) ~> (pc \in {"idle", "exited"} \/ Skipped)
=============================================================================
