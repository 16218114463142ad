----------------------------- MODULE Framing_proofs -----------------------------
(***************************************************************************)
(* Proofs about Framing, for every sequence of calls, every size of buffer *)
(* and of drained chunk, both builds, both kinds of transport, and every   *)
(* way the stream is cut into pieces, those larger than what was asked for *)
(* included: a call that returns leaves the stream at the next frame or at *)
(* its end, stores nothing past its buffer, and on a small stream returns  *)
(* the frame it was sent.                                                  *)
(***************************************************************************)
EXTENDS Framing, SequenceTheorems, WellFoundedInduction, TLAPS

USE ModeAssumption, SizeAssumption
USE DEF build, offsets

-----------------------------------------------------------------------------
(* The inductive invariant.                                                *)

Calling == pc \in {"raw", "min"}

Offsets ==
  read_offset \in Nat /\ surplus \in Nat /\ past = FALSE /\ Position \in 0 .. sent

\* How far the stream has come, at least: a surplus may have been skipped, but not
\* on a small stream.
Reaches(p, q) == p >= q /\ (small => p = q)
USE DEF Reaches

TypeOK ==
  /\ script \in Scripts /\ small \in BOOLEAN /\ closed \in BOOLEAN /\ have_header \in BOOLEAN
  /\ by_offset \in BOOLEAN /\ sent \in Nat /\ returned \in Seq(Nat) /\ Offsets
  /\ pc \in {"idle", "raw", "min", "exited"} /\ stage \in {"header", "body", "drain"}
  /\ base \in Nat /\ total \in Nat /\ want \in Nat
  /\ payload_total \in Nat /\ remaining \in Nat

Count == Calling => CallNo \in DOMAIN script

\* What the loops' locals are at each stage of a call.
Loops ==
  /\ pc = "raw" =>
       /\ Op.op \in {"wait", "prefix"} /\ total < want
       /\ stage = "header" => want = HeaderSize
       /\ stage = "body" /\ Op.op = "wait" => want = Op.len /\ payload_total = Op.len
       /\ stage = "body" /\ Op.op = "prefix" =>
            want = Smaller(payload_total, Op.len) /\ remaining = payload_total - want
       /\ stage = "drain" =>
            Op.op = "prefix" /\ remaining > 0 /\ want = Smaller(remaining, ChunkSize)
  /\ pc = "min" =>
       /\ Op.op = "min"
       /\ IF have_header THEN want = payload_total + HeaderSize /\ want <= MaxTotal /\ total < want
                         ELSE total < HeaderSize

HeaderRead == (pc = "raw" /\ stage # "header") \/ (pc = "min" /\ have_header)

\* Where in its frame a call is, unless the stream is at its end.
Place ==
  Calling => \/ Ended
             \/ /\ base = StartOf(CallNo)
                /\ HeaderRead => payload_total = Op.payload
                /\ pc = "min" \/ stage = "header" => Reaches(Position, base + total)
                /\ pc = "raw" /\ stage = "body" => Reaches(Position, base + HeaderSize + total)
                /\ pc = "raw" /\ stage = "drain" =>
                     Reaches(Position + remaining, StartOf(CallNo + 1) + total)

\* Without the adapter of the small stream the server is never ahead.
NotAhead == ~small => sent <= StartOf(Answered + 1)

\* What the calls returned that are over.
Bounded ==
  \A k \in DOMAIN returned :
    \/ returned[k] \in 0 .. script[k].len
    \/ script[k].op = "prefix" /\ Ended /\ returned[k] \in 0 .. ChunkSize - 1

Whole ==
  small => \A i \in DOMAIN returned :
             returned[i] = Expected(i) \/ (closed /\ sent < StartOf(i + 1))

CountReturned == Len(returned) <= Len(script)

IInv ==
  /\ TypeOK /\ Count /\ CountReturned /\ Loops /\ Place /\ NotAhead
  /\ Aligned /\ Bounded /\ Whole

-----------------------------------------------------------------------------
(* The frames of the stream.                                               *)

\* A set of natural numbers has a least element.
LEMMA Least ==
  ASSUME NEW T, T \subseteq Nat, T # {}
  PROVE  \E m \in T : \A k \in T : m <= k
<1>1. PICK m \in T : \A k \in T : <<k, m>> \notin OpToRel(<, Nat)
  BY WFMin, NatLessThanWellFounded
<1>2. \A k \in T : ~(k < m)
  BY <1>1, Zenon DEF OpToRel
<1>3. \A k \in T : m <= k
  BY ONLY <1>2, T \subseteq Nat, m \in T
<1> QED
  BY ONLY <1>3, m \in T

\* What the assumption on scripts says of one call.
LEMMA CallFacts ==
  ASSUME script \in Scripts, NEW i \in DOMAIN script
  PROVE  /\ i \in Nat \ {0} /\ Len(script) \in Nat \ {0} /\ DOMAIN script = 1 .. Len(script)
         /\ script[i].op \in {"wait", "min", "prefix"} /\ script[i].len \in Nat \ {0}
         /\ script[i].start \in Nat /\ script[i].payload \in Nat /\ script[i].size \in Nat
         /\ Honest(script[i]) \/ Refused(script[i])
<1>1. script \in Seq(Calls) /\ script # <<>>
  BY ScriptAssumption
<1>2. Honest(script[i]) \/ Refused(script[i])
  BY ScriptAssumption
<1>3. script[i] \in Calls /\ i \in 1 .. Len(script) /\ Len(script) \in Nat
  BY <1>1
<1>4. script[i].len \in 1 .. MaxSize - HeaderSize /\ script[i].size \in 0 .. MaxSize
      /\ script[i].op \in {"wait", "min", "prefix"}
      /\ script[i].start \in Nat /\ script[i].payload \in Nat
  BY <1>3 DEF Calls
<1>5. MaxSize \in Nat
  BY DEF MaxSize
<1> QED
  BY <1>1, <1>2, <1>3, <1>4, <1>5 DEF HeaderSize

\* A frame starts where the one before it ends.
LEMMA StartNext ==
  ASSUME script \in Scripts, NEW i \in DOMAIN script
  PROVE  /\ StartOf(i) = script[i].start /\ StartOf(i) \in Nat
         /\ StartOf(i + 1) = StartOf(i) + script[i].payload + HeaderSize
         /\ StartOf(i + 1) \in Nat
<1>1. /\ i \in Nat \ {0} /\ script[i].start \in Nat /\ script[i].payload \in Nat
      /\ DOMAIN script = 1 .. Len(script) /\ Len(script) \in Nat \ {0}
  BY CallFacts
<1>2. StartOf(i) = script[i].start
  <2>1. CASE i = 1
    BY <2>1, ScriptAssumption DEF StartOf
  <2>2. CASE i # 1
    <3>1. i \in 2 .. Len(script)
      BY <1>1, <2>2
    <3>2. i - 1 \in DOMAIN script
      BY <1>1, <3>1
    <3>3. script[i - 1].start \in Nat /\ script[i - 1].payload \in Nat
      BY <3>2, CallFacts
    <3>4. script[i].start = script[i - 1].start + script[i - 1].payload + HeaderSize
      BY <3>1, ScriptAssumption
    <3> QED
      BY <2>2, <3>3, <3>4 DEF StartOf, FrameLen, HeaderSize
  <2> QED
    BY <2>1, <2>2
<1>3. StartOf(i + 1) = script[i].start + script[i].payload + HeaderSize
  BY <1>1, SMTT(30) DEF StartOf, FrameLen, HeaderSize
<1> QED
  BY <1>1, <1>2, <1>3 DEF HeaderSize

\* Later frames start later.
LEMMA StartGrows ==
  ASSUME script \in Scripts, NEW i \in DOMAIN script, NEW j \in DOMAIN script, i < j
  PROVE  StartOf(i) < StartOf(j)
<1>d. DOMAIN script = 1 .. Len(script) /\ Len(script) \in Nat
  BY CallFacts
<1> DEFINE T == {k \in DOMAIN script : i < k /\ ~(StartOf(i) < StartOf(k))}
<1> SUFFICES ASSUME T # {} PROVE FALSE
  OBVIOUS
<1>0. T \subseteq Nat
  BY <1>d
<1>1. PICK m \in T : \A k \in T : m <= k
  <2> HIDE DEF T
  <2> QED
    BY <1>0, Least
<1>2. m \in DOMAIN script /\ m - 1 \in DOMAIN script /\ i \in Nat /\ m \in Nat /\ i < m
  BY <1>d
<1>3. /\ StartOf(m - 1 + 1) = StartOf(m - 1) + script[m - 1].payload + HeaderSize
      /\ StartOf(m - 1) \in Nat
  BY <1>2, StartNext
<1>4. m - 1 + 1 = m
  BY <1>2
<1>5. StartOf(m - 1) < StartOf(m)
  BY <1>2, <1>3, <1>4, CallFacts, SMTT(30) DEF HeaderSize
<1>6. m - 1 = i \/ StartOf(i) < StartOf(m - 1)
  <2>1. m - 1 \notin T
    BY <1>1, <1>2
  <2> QED
    BY <1>2, <2>1
<1>7. StartOf(i) \in Nat /\ StartOf(m) \in Nat
  BY <1>2, StartNext
<1> QED
  BY <1>1, <1>3, <1>5, <1>6, <1>7

\* At the start of a call's frame packet_size_from_header reads that frame's size.
LEMMA SizeRead ==
  ASSUME script \in Scripts, NEW i \in DOMAIN script
  PROVE  SizeAt(StartOf(i)) = {script[i].size}
<1>1. \A j \in DOMAIN script : StartOf(j) = StartOf(i) => j = i
  <2> SUFFICES ASSUME NEW j \in DOMAIN script, StartOf(j) = StartOf(i), j # i PROVE FALSE
    OBVIOUS
  <2>1. i \in Nat /\ j \in Nat /\ StartOf(i) \in Nat
    BY CallFacts, StartNext
  <2>2. CASE i < j
    BY <2>1, <2>2, StartGrows
  <2>3. CASE j < i
    BY <2>1, <2>3, StartGrows
  <2> QED
    BY <2>1, <2>2, <2>3
<1>2. {j \in DOMAIN script : StartOf(j) = StartOf(i)} = {i}
  BY <1>1
<1> HIDE DEF StartOf
<1> QED
  BY <1>2 DEF SizeAt

-----------------------------------------------------------------------------
(* How a call ends.                                                        *)

\* The stream stays where it is while the offsets do.
LEMMA PositionStays ==
  ASSUME UNCHANGED <<build, offsets>>
  PROVE  Position' = Position
  BY DEF Position, PositionOf

\* The frames stay where they are while the script does.
LEMMA ScriptStays ==
  ASSUME UNCHANGED script
  PROVE  /\ \A i : StartOf(i)' = StartOf(i)
         /\ \A i : Expected(i)' = Expected(i)
  BY DEF StartOf, FrameLen, Expected

\* Without the adapter the server has answered the calls that were made.
LEMMA AnsweredCalls ==
  ASSUME TypeOK, Count, CountReturned, ~small
  PROVE  /\ pc = "idle" => Answered = Len(returned)
         /\ Calling => Answered = CallNo
  BY CallFacts DEF TypeOK, Count, CountReturned, Answered, Calling, CallNo

\* A call that returns `value` to its caller ends a frame, or the stream.
LEMMA ReturnKeeps ==
  ASSUME IInv, Calling, ~Ended, NEW value \in Nat, Return(value),
         UNCHANGED <<build, server>>, Offsets',
         Position' = StartOf(CallNo + 1) \/ Ended',
         value <= Op.len \/ (Op.op = "prefix" /\ Ended' /\ value < ChunkSize),
         small => value = Expected(CallNo) \/ (closed /\ sent < StartOf(CallNo + 1))
  PROVE  IInv'
<1> USE DEF server
<1>1. /\ returned' = Append(returned, value) /\ pc' = "idle" /\ total' = 0
      /\ UNCHANGED <<stage, base, want, have_header, payload_total, remaining>>
  BY DEF Return, locals
<1>2. /\ returned \in Seq(Nat) /\ Len(returned) \in Nat /\ CallNo = Len(returned) + 1
      /\ CallNo \in DOMAIN script /\ DOMAIN script = 1 .. Len(script) /\ Len(script) \in Nat
  BY CallFacts DEF IInv, TypeOK, Count, Calling, CallNo
<1>3. /\ returned' \in Seq(Nat) /\ Len(returned') = Len(returned) + 1
      /\ CallNo' = CallNo + 1
      /\ \A i \in DOMAIN returned' : (i \in DOMAIN returned /\ returned'[i] = returned[i])
                                       \/ (i = CallNo /\ returned'[i] = value)
  BY <1>1, <1>2, AppendProperties DEF CallNo
<1>4. TypeOK'
  BY <1>1, <1>3 DEF IInv, TypeOK
<1>5. Count' /\ Loops' /\ Place'
  BY <1>1 DEF Count, Loops, Place, Calling
<1>6. CountReturned'
  BY <1>2, <1>3 DEF CountReturned
<1>7. NotAhead'
  <2> SUFFICES ASSUME ~small PROVE sent' <= StartOf(Answered + 1)'
    BY DEF NotAhead
  <2>1. Answered = CallNo /\ sent <= StartOf(CallNo + 1)
    BY AnsweredCalls DEF IInv, NotAhead
  <2>2. Answered' = CallNo
    BY <1>1, <1>2, <1>3 DEF Answered, CallNo
  <2> QED
    BY <2>1, <2>2, ScriptStays
<1>8. Aligned'
  BY <1>3, ScriptStays DEF Aligned
<1>9. Bounded'
  <2> SUFFICES ASSUME NEW i \in DOMAIN returned'
               PROVE  \/ returned'[i] \in 0 .. script[i].len
                      \/ script[i].op = "prefix" /\ Ended' /\ returned'[i] \in 0 .. ChunkSize - 1
    BY DEF Bounded
  <2>1. CASE i \in DOMAIN returned /\ returned'[i] = returned[i]
    BY <2>1 DEF IInv, Bounded
  <2>2. CASE i = CallNo /\ returned'[i] = value
    BY <2>2, <1>2, CallFacts DEF Op
  <2> QED
    BY <1>3, <2>1, <2>2
<1>10. Whole'
  <2> SUFFICES ASSUME small, NEW i \in DOMAIN returned'
               PROVE  returned'[i] = Expected(i) \/ (closed /\ sent < StartOf(i + 1))
    BY ScriptStays DEF Whole
  <2>1. CASE i \in DOMAIN returned /\ returned'[i] = returned[i]
    BY <2>1 DEF IInv, Whole
  <2>2. CASE i = CallNo /\ returned'[i] = value
    BY <2>2
  <2> QED
    BY <1>3, <2>1, <2>2
<1> QED
  BY <1>4, <1>5, <1>6, <1>7, <1>8, <1>9, <1>10 DEF IInv

\* handle_err ends the program.
LEMMA ExitKeeps ==
  ASSUME IInv, Calling, Exit, UNCHANGED <<build, server>>,
         Offsets', Position' = Position \/ ~Ended
  PROVE  IInv'
<1> USE DEF server
<1>1. /\ pc' = "exited" /\ total' = 0 /\ returned' = returned
      /\ UNCHANGED <<stage, base, want, have_header, payload_total, remaining>>
  BY DEF Exit, locals
<1>2. Ended => Ended'
  BY DEF Ended
<1>3. TypeOK'
  BY <1>1 DEF IInv, TypeOK
<1>4. Count' /\ Loops' /\ Place' /\ Aligned' /\ CountReturned'
  BY <1>1 DEF IInv, Count, Loops, Place, Calling, Aligned, CountReturned
<1>5. NotAhead'
  <2>1. Answered' = Answered
    BY <1>1 DEF Answered, Calling
  <2> QED
    BY <2>1, ScriptStays DEF IInv, NotAhead
<1>6. Bounded'
  BY <1>1, <1>2 DEF IInv, Bounded
<1>7. Whole'
  BY <1>1, ScriptStays DEF IInv, Whole
<1> QED
  BY <1>3, <1>4, <1>5, <1>6, <1>7 DEF IInv

\* A call that goes on keeps what is known of the calls before it.
LEMMA GoesOn ==
  ASSUME IInv, Calling, ~Ended, UNCHANGED <<build, server, returned, pc>>,
         TypeOK', Loops', Place'
  PROVE  IInv'
<1> USE DEF server
<1>1. Calling' /\ CallNo' = CallNo /\ Answered' = Answered
  BY DEF Calling, CallNo, Answered
<1>2. Count' /\ CountReturned' /\ Aligned'
  BY <1>1 DEF IInv, Count, CountReturned, Aligned, Calling
<1>3. NotAhead'
  BY <1>1, ScriptStays DEF IInv, NotAhead
<1>4. Bounded'
  BY DEF IInv, Bounded
<1>5. Whole'
  BY ScriptStays DEF IInv, Whole
<1> QED
  BY <1>2, <1>3, <1>4, <1>5 DEF IInv

-----------------------------------------------------------------------------
(* One read.                                                               *)

\* A read of which the buffer took k bytes.
Stores(k, eof) ==
  /\ Offsets' /\ Reaches(Position', Position + k) /\ (eof => closed /\ Position' = sent)
  /\ UNCHANGED <<build, server>>

\* What a read serves beyond the length asked for is skipped, or served again.
LEMMA ServedStores ==
  ASSUME TypeOK, NEW asked \in Nat \ {0}, NEW j, NEW eof \in BOOLEAN, Served(asked, j, eof),
         past' = FALSE, UNCHANGED <<build, server>>
  PROVE  /\ j \in Nat \ {0} /\ Smaller(j, asked) \in 1 .. asked
         /\ small => j <= asked
         /\ Stores(Smaller(j, asked), eof)
<1> USE DEF server
<1> DEFINE k == Smaller(j, asked)
<1>1. /\ read_offset \in Nat /\ surplus \in Nat /\ Position \in 0 .. sent /\ sent \in Nat
      /\ by_offset \in BOOLEAN /\ small \in BOOLEAN
  BY DEF TypeOK, Offsets
<1>2. j \in Nat \ {0} /\ Position + j <= sent /\ (small => j <= asked)
  BY <1>1 DEF Served
<1>3. k \in 1 .. asked /\ k <= j /\ (small => k = j)
  BY <1>2 DEF Smaller
<1>4. read_offset' = read_offset + j /\ surplus' = surplus + (j - k)
      /\ (eof => closed /\ Position' = sent)
  BY DEF Served, Position, PositionOf, k
<1> HIDE DEF k
<1>5. CASE by_offset
  <2>1. Position = read_offset /\ Position' = read_offset'
    BY <1>1, <1>2, <1>3, <1>4, <1>5, UNCHANGED build DEF Position, PositionOf
  <2>2. Position' = Position + j /\ Position' >= Position + k
    BY <1>1, <1>2, <1>3, <1>4, <2>1
  <2>3. read_offset' \in Nat /\ surplus' \in Nat
    BY <1>1, <1>2, <1>3, <1>4
  <2> QED
    BY <1>1, <1>2, <1>3, <1>4, <2>2, <2>3 DEF Stores, Offsets, k
<1>6. CASE ~by_offset
  <2>1. Position = read_offset - surplus /\ Position' = read_offset' - surplus'
    BY <1>6, UNCHANGED build DEF Position, PositionOf
  <2>2. Position' = Position + k
    BY <1>1, <1>2, <1>3, <1>4, <2>1
  <2>3. read_offset' \in Nat /\ surplus' \in Nat
    BY <1>1, <1>2, <1>3, <1>4
  <2> QED
    BY <1>1, <1>2, <1>3, <1>4, <2>2, <2>3 DEF Stores, Offsets, k
<1> QED
  BY <1>5, <1>6

\* What is known in read_raw when the buffer took k bytes of a read.
RawRead(k, eof) ==
  /\ k \in 1 .. want - total /\ eof \in BOOLEAN
  /\ Stores(k, eof)

\* A read of read_raw is within the frame of its call, and when it brings the end of the
\* stream nothing comes after it.
LEMMA RawFacts ==
  ASSUME IInv, pc = "raw", NEW k, NEW eof, RawRead(k, eof)
  PROVE  /\ k \in Nat \ {0} /\ total + k \in Nat \ {0} /\ total + k <= want
         /\ Offsets' /\ ~Ended /\ (eof => Ended') /\ Position' \in Nat
         /\ CallNo \in DOMAIN script /\ base = StartOf(CallNo)
         /\ StartOf(CallNo) \in Nat /\ (~small => Position' <= StartOf(CallNo + 1))
         /\ StartOf(CallNo + 1) = StartOf(CallNo) + Op.payload + HeaderSize
         /\ Op.payload \in Nat /\ Op.len \in Nat \ {0} /\ Op.size \in Nat
         /\ Honest(Op) \/ Refused(Op)
         /\ Op.op \in {"wait", "prefix"}
         /\ stage = "header" =>
              want = HeaderSize /\ Reaches(Position', StartOf(CallNo) + total + k)
         /\ stage # "header" => payload_total = Op.payload
         /\ stage = "body" => Reaches(Position', StartOf(CallNo) + HeaderSize + total + k)
         /\ stage = "drain" => Reaches(Position' + remaining, StartOf(CallNo + 1) + total + k)
<1> USE DEF server
<1>1. total \in Nat /\ want \in Nat /\ Position \in Nat /\ sent \in Nat /\ base \in Nat
      /\ total < want /\ remaining \in Nat
  BY DEF IInv, TypeOK, Offsets, Loops
<1>2. k \in Nat \ {0} /\ total + k <= want /\ Reaches(Position', Position + k) /\ Position' <= sent
      /\ (eof => closed /\ Position' = sent) /\ Offsets' /\ Position' \in Nat
  BY <1>1 DEF RawRead, Stores, Offsets
<1>3. ~Ended
  BY <1>1, <1>2 DEF Ended
<1>4. eof => Ended'
  BY <1>2 DEF Ended, RawRead, Stores
<1>5. CallNo \in DOMAIN script
  BY DEF IInv, Count, Calling
<1>6. /\ StartOf(CallNo) \in Nat
      /\ StartOf(CallNo + 1) = StartOf(CallNo) + Op.payload + HeaderSize
      /\ Op.payload \in Nat /\ Op.len \in Nat \ {0} /\ Op.size \in Nat
      /\ Honest(Op) \/ Refused(Op)
  BY <1>5, StartNext, CallFacts DEF IInv, TypeOK, Op
<1>7. /\ base = StartOf(CallNo) /\ Op.op \in {"wait", "prefix"}
      /\ stage = "header" => want = HeaderSize /\ Reaches(Position, base + total)
      /\ stage # "header" => payload_total = Op.payload
      /\ stage = "body" => Reaches(Position, base + HeaderSize + total)
      /\ stage = "drain" => Reaches(Position + remaining, StartOf(CallNo + 1) + total)
  BY <1>3 DEF IInv, Place, Loops, Calling, HeaderRead
<1> HIDE DEF Ended
<1>8. total + k \in Nat \ {0} /\ Offsets'
  BY <1>1, <1>2
<1>9. stage = "header" => Reaches(Position', StartOf(CallNo) + total + k)
  BY <1>1, <1>2, <1>6, <1>7
<1>10. stage = "body" => Reaches(Position', StartOf(CallNo) + HeaderSize + total + k)
  BY <1>1, <1>2, <1>6, <1>7 DEF HeaderSize
<1>11. stage = "drain" => Reaches(Position' + remaining, StartOf(CallNo + 1) + total + k)
  BY <1>1, <1>2, <1>6, <1>7 DEF HeaderSize
<1>12. ~small => Position' <= StartOf(CallNo + 1)
  <2> SUFFICES ASSUME ~small PROVE Position' <= StartOf(CallNo + 1)
    OBVIOUS
  <2>1. Answered = CallNo
    BY AnsweredCalls DEF IInv, Calling
  <2>2. sent <= StartOf(CallNo + 1) /\ StartOf(CallNo + 1) \in Nat
    BY <1>6, <2>1 DEF IInv, NotAhead, HeaderSize
  <2> QED
    BY <1>1, <1>2, <2>2
<1> QED
  BY <1>2, <1>3, <1>4, <1>5, <1>6, <1>7, <1>8, <1>9, <1>10, <1>11, <1>12

\* read_raw wants more, or its caller goes on with another read_raw.
LEMMA RawGoesOn ==
  ASSUME IInv, pc = "raw", NEW k, NEW eof, RawRead(k, eof), RawMore(total + k), total + k # want
  PROVE  IInv'
<1> USE DEF server, locals
<1> DEFINE t == total + k
           f == Position'
           c == StartOf(CallNo)
           e == StartOf(CallNo + 1)
<1>1. /\ t \in Nat /\ t <= want /\ f \in Nat /\ Offsets' /\ ~Ended
      /\ base = c
      /\ stage = "header" => Reaches(f, c + total + k)
      /\ stage # "header" => payload_total = Op.payload
      /\ stage = "body" => Reaches(f, c + HeaderSize + total + k)
      /\ stage = "drain" => Reaches(f + remaining, e + total + k)
      /\ c \in Nat /\ e \in Nat /\ k \in Nat
  BY RawFacts, StartNext DEF IInv, TypeOK
<1>2. /\ total' = t /\ UNCHANGED <<pc, stage, returned, base, want, have_header>>
      /\ UNCHANGED <<payload_total, remaining, build, sent, closed>>
  BY DEF RawMore, RawRead, Stores
<1>3. Op' = Op /\ CallNo' = CallNo /\ StartOf(CallNo)' = c /\ StartOf(CallNo + 1)' = e
  BY <1>2, ScriptStays DEF Op, CallNo
<1>t. total \in Nat /\ want \in Nat
  BY DEF IInv, TypeOK
<1>4. TypeOK'
  BY <1>1, <1>2 DEF IInv, TypeOK
<1>5. t < want
  BY <1>1, <1>t
<1>6. Loops'
  BY <1>2, <1>3, <1>5 DEF IInv, Loops
<1>7. Place'
  <2>1. /\ stage = "header" => Reaches(f, base + t)
        /\ stage = "body" => Reaches(f, base + HeaderSize + t)
        /\ stage = "drain" => Reaches(f + remaining, e + t)
    BY <1>1, <1>t DEF HeaderSize
  <2>2. base' = StartOf(CallNo)' /\ (HeaderRead' => payload_total' = (Op.payload)')
    BY <1>1, <1>2, <1>3 DEF HeaderRead
  <2>3. /\ stage' = "header" => Reaches(Position', base' + total')
        /\ stage' = "body" => Reaches(Position', base' + HeaderSize + total')
        /\ stage' = "drain" => Reaches(Position' + remaining', StartOf(CallNo + 1)' + total')
    BY <1>2, <1>3, <2>1, Zenon
  <2> QED
    BY <1>2, <2>2, <2>3 DEF Place
<1>8. Calling
  BY DEF Calling
<1>9. UNCHANGED <<build, server, returned, pc>>
  BY <1>2
<1> QED
  BY <1>1, <1>4, <1>6, <1>7, <1>8, <1>9, GoesOn

\* read_response_wait and read_response_prefix go on with the payload when the header
\* they read is the one of their frame.
LEMMA HeaderKeeps ==
  ASSUME IInv, pc = "raw", NEW k, NEW eof, RawRead(k, eof), stage = "header",
         total + k = HeaderSize,
         \/ Op.op = "wait" /\ WaitHeader(Op.size)
         \/ Op.op = "prefix" /\ PrefixHeader(Op.size)
  PROVE  IInv'
<1> USE DEF server, locals
<1> DEFINE c == StartOf(CallNo)
           e == StartOf(CallNo + 1)
<1>1. /\ Offsets' /\ ~Ended /\ base = c /\ c \in Nat /\ e \in Nat
      /\ e = c + Op.payload + HeaderSize /\ Reaches(Position', c + total + k)
      /\ Position' \in Nat /\ (~small => Position' <= e)
      /\ Op.payload \in Nat /\ Op.len \in Nat \ {0} /\ Op.size \in Nat
      /\ Honest(Op) \/ Refused(Op)
      /\ CallNo \in DOMAIN script
  BY RawFacts, StartNext DEF IInv, TypeOK
<1>t. total \in Nat /\ k \in Nat /\ Calling
  BY RawFacts DEF IInv, TypeOK, Calling
<1>2. Reaches(Position', c + HeaderSize) /\ UNCHANGED <<build, sent, closed>>
  BY <1>1, <1>t DEF RawRead, Stores, HeaderSize
<1>3. CASE Exit
  BY <1>1, <1>2, <1>3, <1>t, ExitKeeps
<1>4. CASE Op.op = "prefix" /\ Op.size - HeaderSize = 0 /\ Return(0)
  <2>1. Op.payload = 0
    BY <1>1, <1>4 DEF Honest, Refused, HeaderSize
  <2>2. Position' = e /\ Expected(CallNo) = 0
    BY <1>1, <1>2, StartNext, <1>4, <2>1 DEF Expected, Smaller, Op, HeaderSize
  <2> QED
    BY <1>1, <1>2, <1>4, <1>t, <2>2, ReturnKeeps
<1>5. ASSUME NEW w \in Nat \ {0}, ReadNext("body", w), payload_total' = Op.payload,
             remaining' \in Nat,
             Op.op = "wait" => w = Op.len /\ Op.payload = Op.len,
             Op.op = "prefix" => w = Smaller(Op.payload, Op.len) /\ remaining' = Op.payload - w
      PROVE  IInv'
  <2>1. /\ stage' = "body" /\ want' = w /\ total' = 0
        /\ UNCHANGED <<pc, returned, base, have_header>>
    BY <1>5 DEF ReadNext
  <2>2. Op' = Op /\ StartOf(CallNo)' = c
    BY <1>2, <2>1, ScriptStays DEF Op, CallNo
  <2>3. TypeOK'
    BY <1>1, <1>2, <1>5, <2>1 DEF IInv, TypeOK
  <2>4. Loops'
    BY <1>5, <2>1, <2>2 DEF IInv, Loops
  <2>5. Place'
    <3>1. Reaches(Position', base' + HeaderSize + total') /\ base' = StartOf(CallNo)'
      BY <1>1, <1>2, <2>1, <2>2 DEF HeaderSize
    <3>2. pc' = "raw" /\ stage' = "body" /\ payload_total' = (Op.payload)'
      BY <1>5, <2>1, <2>2
    <3> QED
      BY <1>2, <3>1, <3>2 DEF Place
  <2>6. UNCHANGED <<build, server, returned, pc>>
    BY <1>2, <2>1
  <2> QED
    BY <1>1, <1>t, <2>3, <2>4, <2>5, <2>6, GoesOn
<1>6. CASE Op.op = "wait" /\ Op.size = Op.len + HeaderSize /\ ReadNext("body", Op.len)
           /\ payload_total' = Op.len /\ UNCHANGED remaining
  <2>1. Op.payload = Op.len
    BY <1>1, <1>6 DEF Honest, Refused, HeaderSize
  <2>2. remaining' \in Nat
    BY <1>6 DEF IInv, TypeOK
  <2> QED
    BY <1>1, <1>5, <1>6, <2>1, <2>2
<1>7. CASE Op.op = "prefix" /\ PrefixHeader(Op.size) /\ Op.size - HeaderSize > 0
  <2> DEFINE p == Op.size - HeaderSize
             w == Smaller(p, Op.len)
  <2>1. p = Op.payload
    BY <1>1, <1>7 DEF Honest, Refused, HeaderSize
  <2>2. (ReadNext("body", w) /\ payload_total' = p /\ remaining' = p - w)
        \/ Exit
    BY <1>1, <1>7 DEF PrefixHeader, HeaderSize
  <2>3. w \in Nat \ {0} /\ p - w \in Nat
    BY <1>1, <1>7, <2>1 DEF Smaller
  <2>4. CASE Exit
    BY <1>3, <2>4
  <2>5. CASE ReadNext("body", w) /\ payload_total' = p /\ remaining' = p - w
    <3>1. remaining' \in Nat /\ payload_total' = Op.payload
          /\ w = Smaller(Op.payload, Op.len) /\ remaining' = Op.payload - w
      BY <2>1, <2>3, <2>5
    <3> HIDE DEF w, p
    <3> QED
      BY <1>5, <1>7, <2>3, <2>5, <3>1
  <2> QED
    BY <2>2, <2>4, <2>5
<1>8. CASE Op.op = "wait" /\ WaitHeader(Op.size)
  BY <1>3, <1>6, <1>8 DEF WaitHeader
<1>9. CASE Op.op = "prefix" /\ PrefixHeader(Op.size)
  BY <1>3, <1>4, <1>7, <1>9 DEF PrefixHeader
<1> QED
  BY <1>8, <1>9

\* What read_response_wait and read_response_prefix do with the payload.
LEMMA BodyKeeps ==
  ASSUME IInv, pc = "raw", NEW k, NEW eof, RawRead(k, eof), stage = "body",
         total + k = want \/ eof,
         \/ Op.op = "wait" /\ Return(total + k)
         \/ Op.op = "prefix" /\ PrefixBody(total + k)
  PROVE  IInv'
<1> USE DEF server, locals
<1> DEFINE c == StartOf(CallNo)
           e == StartOf(CallNo + 1)
           n == total + k
<1>1. /\ Offsets' /\ ~Ended /\ base = c /\ c \in Nat /\ e \in Nat
      /\ e = c + Op.payload + HeaderSize /\ Reaches(Position', c + HeaderSize + total + k)
      /\ Position' \in Nat /\ (~small => Position' <= e)
      /\ Op.payload \in Nat /\ Op.len \in Nat \ {0}
      /\ CallNo \in DOMAIN script /\ payload_total = Op.payload
      /\ n \in Nat \ {0} /\ n <= want /\ (eof => Ended')
  BY RawFacts, StartNext DEF IInv, TypeOK
<1>t. total \in Nat /\ k \in Nat /\ want \in Nat /\ remaining \in Nat /\ Calling
      /\ sent \in Nat
  BY RawFacts DEF IInv, TypeOK, Calling
<1>2. Reaches(Position', c + HeaderSize + n) /\ UNCHANGED <<build, sent, closed>>
  BY <1>1, <1>t DEF RawRead, Stores, HeaderSize
<1>3. /\ Op.op = "wait" => want = Op.len /\ payload_total = Op.len
      /\ Op.op = "prefix" => want = Smaller(payload_total, Op.len) /\ remaining = payload_total - want
  BY DEF IInv, Loops
<1>4. want <= Op.len /\ want <= Op.payload
  BY <1>1, <1>3, <1>t DEF Smaller
<1> HIDE DEF n, c, e
<1>5. CASE n < want /\ Return(n)
  <2>1. Ended'
    BY <1>1, <1>5 DEF n
  <2>2. closed /\ sent = Position'
    BY <1>2, <2>1 DEF Ended
  <2>3. (small => sent < e) /\ n <= Op.len
    BY <1>1, <1>2, <1>4, <1>5, <1>t, <2>2 DEF HeaderSize
  <2> QED
    BY <1>1, <1>2, <1>5, <1>t, <2>1, <2>2, <2>3, ReturnKeeps DEF e
<1>q. n >= want => n = want
  BY <1>1, <1>t
<1>6. CASE n = want /\ (Op.op = "prefix" => remaining = 0) /\ Return(n)
  <2>1. n = Op.payload
    BY <1>1, <1>3, <1>6, <1>t
  <2>2. Position' = e
    BY <1>1, <1>2, <2>1 DEF HeaderSize
  <2>3. Expected(CallNo) = n
    <3>1. CASE Op.op = "prefix"
      BY <1>1, <1>3, <1>6, <3>1 DEF Expected, Op
    <3>2. CASE Op.op = "wait"
      BY <2>1, <3>2 DEF Expected, Op
    <3> QED
      BY <3>1, <3>2
  <2>4. n <= Op.len
    BY <1>4, <1>6
  <2> QED
    BY <1>1, <1>2, <1>6, <1>t, <2>2, <2>3, <2>4, ReturnKeeps DEF e
<1>7. CASE Op.op = "prefix" /\ n = want /\ remaining > 0
           /\ ReadNext("drain", Smaller(remaining, ChunkSize))
           /\ UNCHANGED <<remaining, payload_total>>
  <2> DEFINE w == Smaller(remaining, ChunkSize)
  <2>1. w \in Nat \ {0}
    BY <1>7, <1>t DEF Smaller
  <2>2. /\ stage' = "drain" /\ want' = w /\ total' = 0
        /\ UNCHANGED <<pc, returned, base, have_header, remaining, payload_total>>
    BY <1>7 DEF ReadNext
  <2>3. Op' = Op /\ StartOf(CallNo)' = c /\ StartOf(CallNo + 1)' = e /\ CallNo' = CallNo
    BY <1>2, <2>2, ScriptStays DEF Op, CallNo, c, e
  <2>4. Reaches(Position' + remaining, e)
    BY <1>1, <1>2, <1>3, <1>7, <1>t DEF HeaderSize
  <2>5. TypeOK'
    BY <1>1, <1>2, <2>1, <2>2 DEF IInv, TypeOK
  <2>6. Loops'
    BY <1>7, <2>1, <2>2, <2>3 DEF Loops
  <2>7. Place'
    <3>1. Reaches(Position' + remaining', StartOf(CallNo + 1)' + total')
      BY <1>1, <2>2, <2>3, <2>4
    <3>2. base' = StartOf(CallNo)' /\ payload_total' = (Op.payload)' /\ pc' = "raw"
          /\ stage' = "drain"
      BY <1>1, <2>2, <2>3
    <3> QED
      BY <1>2, <3>1, <3>2 DEF Place
  <2>8. UNCHANGED <<build, server, returned, pc>>
    BY <1>2, <2>2
  <2> QED
    BY <1>1, <1>t, <2>5, <2>6, <2>7, <2>8, GoesOn
<1>8. CASE Op.op = "wait" /\ Return(total + k)
  <2>1. Return(n) /\ (n < want \/ n = want)
    BY <1>1, <1>8, <1>t DEF n
  <2> QED
    BY <1>5, <1>6, <1>8, <2>1
<1>9. CASE Op.op = "prefix" /\ PrefixBody(total + k)
  <2>1. PrefixBody(n)
    BY <1>9 DEF n
  <2> QED
    BY <1>q, <1>5, <1>6, <1>7, <1>9, <2>1 DEF PrefixBody
<1> QED
  BY <1>8, <1>9

\* read_response_prefix drains chunk after chunk up to the next frame.
LEMMA DrainKeeps ==
  ASSUME IInv, pc = "raw", NEW k, NEW eof, RawRead(k, eof), stage = "drain",
         total + k = want \/ eof, PrefixDrain(total + k)
  PROVE  IInv'
<1> USE DEF server, locals
<1> DEFINE c == StartOf(CallNo)
           e == StartOf(CallNo + 1)
           n == total + k
           left == remaining - n
<1>1. /\ Offsets' /\ ~Ended /\ base = c /\ c \in Nat /\ e \in Nat
      /\ Reaches(Position' + remaining, e + total + k)
      /\ Position' \in Nat /\ (~small => Position' <= e)
      /\ Op.payload \in Nat /\ Op.len \in Nat \ {0}
      /\ CallNo \in DOMAIN script /\ payload_total = Op.payload
      /\ n \in Nat \ {0} /\ n <= want /\ (eof => Ended')
  BY RawFacts, StartNext DEF IInv, TypeOK
<1>t. total \in Nat /\ k \in Nat /\ want \in Nat /\ remaining \in Nat /\ Calling
      /\ sent \in Nat /\ ChunkSize \in Nat \ {0}
  BY RawFacts DEF IInv, TypeOK, Calling
<1>2. Reaches(Position' + remaining, e + n) /\ UNCHANGED <<build, sent, closed>>
  BY <1>1, <1>t DEF RawRead, Stores
<1>3. Op.op = "prefix" /\ want = Smaller(remaining, ChunkSize) /\ remaining > 0
  BY DEF IInv, Loops
<1>4. want <= remaining /\ want <= ChunkSize
  BY <1>3, <1>t DEF Smaller
<1> HIDE DEF n, c, e
<1>a. e \in Nat /\ n \in Nat
  BY <1>1
<1>b. remaining \in Nat /\ want \in Nat /\ ChunkSize \in Nat
  BY <1>t
<1>f. PICK f : f = Position'
  OBVIOUS
<1>r. PICK r : r = remaining
  OBVIOUS
<1>c. f \in Nat /\ r \in Nat
  BY <1>1, <1>t, <1>f, <1>r
<1>d. Reaches(f + r, e + n) /\ (~small => f <= e) /\ n <= want
  BY <1>1, <1>2, <1>f, <1>r
<1>e. want <= remaining /\ want <= ChunkSize
  BY <1>4
<1>5. CASE n < want /\ Return(n)
  <2>1. Ended'
    BY <1>1, <1>5 DEF n
  <2>2. closed /\ sent = Position'
    BY <1>2, <2>1 DEF Ended
  <2>3. (small => sent < e) /\ n < ChunkSize
    <3>1. n < r /\ n < ChunkSize
      BY <1>a, <1>b, <1>e, <1>r, <1>5
    <3>2. small => f < e
      BY <1>a, <1>c, <1>d, <3>1
    <3> QED
      BY <3>1, <3>2, <1>f, <2>2
  <2> QED
    BY <1>1, <1>2, <1>3, <1>5, <1>t, <2>1, <2>2, <2>3, ReturnKeeps DEF e
<1>6. CASE n = want /\ left = 0 /\ Return(Smaller(payload_total, Op.len))
  <2> DEFINE v == Smaller(payload_total, Op.len)
  <2>1. Position' = e
    <3>1. r - n = 0
      BY <1>r, <1>6
    <3>2. f = e
      BY <1>a, <1>c, <1>d, <3>1
    <3> QED
      BY <3>2, <1>f
  <2>2. Expected(CallNo) = v
    BY <1>1, <1>3 DEF Expected, Op
  <2>3. v \in Nat /\ v <= Op.len
    BY <1>1 DEF Smaller
  <2> HIDE DEF v
  <2>4. Return(v)
    BY <1>6 DEF v
  <2> QED
    BY <1>1, <1>2, <1>t, <2>1, <2>2, <2>3, <2>4, ReturnKeeps DEF e
<1>7. CASE n = want /\ left > 0 /\ ReadNext("drain", Smaller(left, ChunkSize))
           /\ remaining' = left /\ UNCHANGED payload_total
  <2> DEFINE w == Smaller(left, ChunkSize)
  <2>1. w \in Nat \ {0} /\ left \in Nat
    BY <1>1, <1>7, <1>t DEF Smaller
  <2>2. /\ stage' = "drain" /\ want' = w /\ total' = 0 /\ remaining' = left
        /\ UNCHANGED <<pc, returned, base, have_header, payload_total>>
    BY <1>7 DEF ReadNext
  <2>3. Op' = Op /\ StartOf(CallNo)' = c /\ StartOf(CallNo + 1)' = e /\ CallNo' = CallNo
    BY <1>2, <2>2, ScriptStays DEF Op, CallNo, c, e
  <2>4. Reaches(Position' + left, e)
    <3>1. Reaches(f + (r - n), e)
      BY <1>a, <1>c, <1>d
    <3> QED
      BY <3>1, <1>f, <1>r
  <2>5. TypeOK'
    BY <1>1, <1>2, <2>1, <2>2 DEF IInv, TypeOK
  <2>6. Loops'
    <3>1. remaining' > 0 /\ want' = Smaller(remaining', ChunkSize) /\ total' < want'
      BY <1>7, <2>1, <2>2
    <3>2. pc' = "raw" /\ stage' = "drain" /\ (Op.op)' = "prefix"
      BY <1>3, <2>2, <2>3
    <3> QED
      BY <3>1, <3>2 DEF Loops
  <2>7. Place'
    <3>1. Reaches(Position' + remaining', StartOf(CallNo + 1)' + total')
      BY <1>1, <2>2, <2>3, <2>4
    <3>2. base' = StartOf(CallNo)' /\ payload_total' = (Op.payload)' /\ pc' = "raw"
          /\ stage' = "drain"
      BY <1>1, <2>2, <2>3
    <3> QED
      BY <1>2, <3>1, <3>2 DEF Place
  <2>8. UNCHANGED <<build, server, returned, pc>>
    BY <1>2, <2>2
  <2> QED
    BY <1>1, <1>t, <2>5, <2>6, <2>7, <2>8, GoesOn
<1>8. PrefixDrain(n)
  BY DEF n
<1>9. n >= want => n = want /\ remaining - want = left
  BY <1>a, <1>b, <1>d
<1> QED
  BY <1>5, <1>6, <1>7, <1>8, <1>9 DEF PrefixDrain

\* A read of read_raw keeps the invariant.
LEMMA RawKeeps ==
  ASSUME IInv, ReadRaw
  PROVE  IInv'
<1>0. pc = "raw" /\ Calling
  BY DEF ReadRaw, Calling
<1>n. total \in Nat /\ want \in Nat /\ total < want /\ TypeOK
  BY <1>0 DEF IInv, TypeOK, Loops
<1>p. PICK j \in 1 .. sent - Position, eof \in BOOLEAN :
        /\ Served(want - total, j, eof) /\ Counted(Stored(j, want - total), want)
        /\ IF Stored(j, want - total) >= want \/ eof THEN RawReturns(Stored(j, want - total))
                                                    ELSE RawMore(Stored(j, want - total))
  BY DEF ReadRaw
<1>k. PICK k : k = Smaller(j, want - total)
  OBVIOUS
<1>c. j \in Nat \ {0} /\ want - total \in Nat \ {0} /\ past' = FALSE
  <2>1. j \in Nat \ {0} /\ want - total \in Nat \ {0} /\ past = FALSE
    BY <1>n DEF TypeOK, Offsets
  <2>2. ~(Stored(j, want - total) > want)
    BY <1>n, <2>1 DEF Stored, Smaller
  <2> QED
    BY <1>p, <2>1, <2>2 DEF Counted
<1>s. k \in 1 .. want - total /\ Stores(k, eof)
  BY <1>n, <1>p, <1>k, <1>c, ServedStores DEF ReadRaw
<1>1. /\ RawRead(k, eof)
      /\ IF total + k = want \/ eof THEN RawReturns(total + k) ELSE RawMore(total + k)
  <2>1. Stored(j, want - total) = total + k
    BY <1>k DEF Stored
  <2>2. total + k >= want <=> total + k = want
    BY <1>n, <1>s
  <2> QED
    BY <1>p, <1>s, <2>1, <2>2 DEF RawRead
<1>2. CASE ~(total + k = want \/ eof)
  BY <1>0, <1>1, <1>2, RawGoesOn
<1>3. CASE total + k = want \/ eof
  <2>1. RawReturns(total + k)
    BY <1>1, <1>3
  <2>2. CASE stage = "header" /\ total + k < HeaderSize /\ Return(total + k)
    <3>1. /\ Offsets' /\ ~Ended /\ StartOf(CallNo) \in Nat
          /\ StartOf(CallNo + 1) = StartOf(CallNo) + Op.payload + HeaderSize
          /\ Reaches(Position', StartOf(CallNo) + total + k)
          /\ Op.payload \in Nat /\ Op.len \in Nat \ {0} /\ want = HeaderSize
          /\ total + k \in Nat \ {0} /\ k \in Nat
          /\ (eof => Ended')
      BY <1>0, <1>1, <2>2, RawFacts
    <3>2. Ended' /\ total \in Nat
      BY <1>3, <2>2, <3>1 DEF HeaderSize, IInv, TypeOK
    <3>3. closed /\ sent = Position' /\ UNCHANGED <<build, server>>
      BY <1>1, <3>2 DEF Ended, RawRead, Stores, server
    <3>4. (small => sent < StartOf(CallNo + 1)) /\ total + k <= Op.len
      BY <2>2, <3>1, <3>2, <3>3 DEF HeaderSize
    <3> QED
      BY <1>0, <2>2, <3>1, <3>2, <3>3, <3>4, ReturnKeeps
  <2>3. CASE /\ stage = "header" /\ total + k = HeaderSize
             /\ \E size \in SizeAt(base) : \/ Op.op = "wait" /\ WaitHeader(size)
                                           \/ Op.op = "prefix" /\ PrefixHeader(size)
    <3>1. base = StartOf(CallNo) /\ CallNo \in DOMAIN script /\ script \in Scripts
      BY <1>0, <1>1, RawFacts DEF IInv, TypeOK
    <3>2. SizeAt(base) = {Op.size}
      BY <3>1, SizeRead DEF Op
    <3>3. \/ Op.op = "wait" /\ WaitHeader(Op.size)
          \/ Op.op = "prefix" /\ PrefixHeader(Op.size)
      BY <2>3, <3>2
    <3> QED
      BY <1>0, <1>1, <2>3, <3>3, HeaderKeeps
  <2>4. CASE stage = "body"
    <3>1. \/ Op.op = "wait" /\ Return(total + k)
          \/ Op.op = "prefix" /\ PrefixBody(total + k)
      BY <2>1, <2>4 DEF RawReturns
    <3> QED
      BY <1>0, <1>1, <1>3, <2>4, <3>1, BodyKeeps
  <2>5. CASE stage = "drain"
    <3>1. PrefixDrain(total + k)
      BY <2>1, <2>5 DEF RawReturns
    <3> QED
      BY <1>0, <1>1, <1>3, <2>5, <3>1, DrainKeeps
  <2>6. stage = "header" /\ total + k >= HeaderSize => total + k = HeaderSize
    BY <1>0, <1>n, <1>s DEF IInv, Loops, HeaderSize
  <2> QED
    BY <2>1, <2>2, <2>3, <2>4, <2>5, <2>6 DEF RawReturns
<1> QED
  BY <1>2, <1>3

\* What is known in read_response_min when the buffer took k bytes of a read.
MinRead(k, eof) ==
  /\ k \in Nat \ {0} /\ k <= MaxTotal - total /\ (small => k <= MinAsks)
  /\ eof \in BOOLEAN /\ Stores(k, eof)

\* A read of read_response_min stays within the frame of its call: on a small stream
\* because no more is asked for, elsewhere because no more was sent.
LEMMA MinFacts ==
  ASSUME IInv, pc = "min", NEW k, NEW eof, MinRead(k, eof)
  PROVE  /\ total + k \in Nat \ {0} /\ Reaches(Position', StartOf(CallNo) + (total + k))
         /\ Offsets' /\ ~Ended /\ (eof => Ended')
         /\ Position' \in Nat /\ (~small => Position' <= StartOf(CallNo + 1))
         /\ CallNo \in DOMAIN script /\ base = StartOf(CallNo) /\ StartOf(CallNo) \in Nat
         /\ StartOf(CallNo + 1) = StartOf(CallNo) + (Op.payload + HeaderSize)
         /\ StartOf(CallNo + 1) \in Nat
         /\ total + k <= Op.payload + HeaderSize
         /\ small /\ ~have_header => total + k <= HeaderSize
         /\ Op.payload \in Nat /\ Op.len \in Nat \ {0} /\ Op.size \in Nat /\ Op.op = "min"
         /\ Honest(Op) \/ Refused(Op)
         /\ have_header => payload_total = Op.payload /\ want = Op.payload + HeaderSize
                           /\ Op.payload <= Op.len
<1> USE DEF server
<1>1. total \in Nat /\ want \in Nat /\ Position \in Nat /\ sent \in Nat /\ Op.op = "min"
      /\ payload_total \in Nat
  BY DEF IInv, TypeOK, Offsets, Loops
<1>2. CallNo \in DOMAIN script /\ script \in Scripts
  BY DEF IInv, Count, Calling, TypeOK
<1>3. /\ StartOf(CallNo) \in Nat /\ StartOf(CallNo + 1) \in Nat
      /\ StartOf(CallNo + 1) = StartOf(CallNo) + Op.payload + HeaderSize
      /\ Op.payload \in Nat /\ Op.len \in Nat \ {0} /\ Op.size \in Nat
      /\ Honest(Op) \/ Refused(Op)
  BY <1>2, StartNext, CallFacts DEF Op
<1>4. StartOf(CallNo + 1) = StartOf(CallNo) + (Op.payload + HeaderSize)
  BY <1>3 DEF HeaderSize
<1>5. MinAsks \in Int
  BY <1>1, <1>3 DEF MinAsks, MaxTotal, HeaderSize
<1>6. k \in Nat \ {0} /\ (small => k <= MinAsks) /\ Reaches(Position', Position + k) /\ Position' <= sent
      /\ (eof => closed /\ Position' = sent) /\ Offsets' /\ Position' \in Nat
  BY <1>1, <1>5 DEF MinRead, Stores, Offsets
<1>7. ~Ended
  BY <1>1, <1>6 DEF Ended
<1>8. eof => Ended'
  BY <1>6 DEF Ended, MinRead, Stores
<1>9. /\ base = StartOf(CallNo) /\ Reaches(Position, base + total)
      /\ have_header => payload_total = Op.payload
  BY <1>7 DEF IInv, Place, Calling, HeaderRead
<1>10. have_header => want = payload_total + HeaderSize /\ want <= MaxTotal
  BY DEF IInv, Loops
<1>11. have_header => want = Op.payload + HeaderSize /\ Op.payload <= Op.len
  BY <1>3, <1>9, <1>10 DEF MaxTotal, HeaderSize
<1>12. total + k \in Nat \ {0} /\ Reaches(Position', StartOf(CallNo) + (total + k))
       /\ Offsets'
  BY <1>1, <1>3, <1>6, <1>9
<1>13. small /\ ~have_header => total + k <= HeaderSize
  BY <1>1, <1>6 DEF MinAsks, HeaderSize
<1>14. small /\ have_header => total + k <= Op.payload + HeaderSize
  BY <1>1, <1>6, <1>11 DEF MinAsks
<1>15. ~small => Position' <= StartOf(CallNo + 1) /\ total + k <= Op.payload + HeaderSize
  <2> SUFFICES ASSUME ~small
               PROVE  Position' <= StartOf(CallNo + 1) /\ total + k <= Op.payload + HeaderSize
    OBVIOUS
  <2>1. Answered = CallNo
    BY AnsweredCalls DEF IInv, Calling
  <2>2. sent <= StartOf(CallNo + 1)
    BY <2>1 DEF IInv, NotAhead
  <2>3. Position' <= StartOf(CallNo + 1)
    BY <1>1, <1>3, <1>6, <2>2
  <2>4. StartOf(CallNo) + (total + k) <= StartOf(CallNo) + (Op.payload + HeaderSize)
    BY <1>3, <1>4, <1>6, <1>12, <2>3
  <2> QED
    BY <1>3, <1>12, <2>3, <2>4 DEF HeaderSize
<1>16. total + k <= Op.payload + HeaderSize
  BY <1>3, <1>12, <1>13, <1>14, <1>15 DEF HeaderSize
<1> QED
  BY <1>1, <1>2, <1>3, <1>4, <1>6, <1>7, <1>8, <1>9, <1>11, <1>12, <1>13, <1>15, <1>16

\* A read of read_response_min keeps the invariant.
LEMMA MinKeeps ==
  ASSUME IInv, ReadMin
  PROVE  IInv'
<1> USE DEF server, locals
<1>0. pc = "min" /\ Calling
  BY DEF ReadMin, Calling
<1>n. /\ total \in Nat /\ want \in Nat /\ payload_total \in Nat /\ TypeOK
      /\ Op.len \in Nat \ {0} /\ small \in BOOLEAN /\ have_header \in BOOLEAN
      /\ IF have_header THEN want <= MaxTotal /\ total < want ELSE total < HeaderSize
  BY <1>0, CallFacts DEF IInv, TypeOK, Loops, Count, Op
<1>a. /\ MinAsks \in Nat \ {0} /\ MaxTotal - total \in Nat \ {0} /\ MinAsks <= MaxTotal - total
      /\ ~small => MinAsks = MaxTotal - total
  BY <1>n DEF MinAsks, MaxTotal, HeaderSize
<1>p. PICK j \in 1 .. sent - Position, eof \in BOOLEAN :
        /\ Served(MinAsks, j, eof) /\ Counted(Stored(j, MaxTotal - total), MaxTotal)
        /\ IF eof THEN MinAtEof(Stored(j, MaxTotal - total))
                  ELSE MinLoop(Stored(j, MaxTotal - total))
  BY DEF ReadMin
<1>k. PICK k : k = Smaller(j, MaxTotal - total)
  OBVIOUS
<1>c. j \in Nat \ {0} /\ past' = FALSE
  <2>1. j \in Nat \ {0} /\ past = FALSE
    BY <1>n DEF TypeOK, Offsets
  <2>2. ~(Stored(j, MaxTotal - total) > MaxTotal)
    BY <1>n, <1>a, <2>1 DEF Stored, Smaller, MaxTotal, HeaderSize
  <2> QED
    BY <1>p, <2>1, <2>2 DEF Counted
<1>s. /\ j \in Nat \ {0} /\ Smaller(j, MinAsks) \in 1 .. MinAsks /\ (small => j <= MinAsks)
      /\ Stores(Smaller(j, MinAsks), eof)
  BY <1>n, <1>a, <1>p, <1>c, ServedStores DEF ReadMin
<1>e. k = Smaller(j, MinAsks)
  BY <1>a, <1>k, <1>s DEF Smaller
<1>1. /\ MinRead(k, eof)
      /\ IF eof THEN MinAtEof(total + k) ELSE MinLoop(total + k)
  <2>1. Stored(j, MaxTotal - total) = total + k
    BY <1>k DEF Stored
  <2>2. k \in Nat \ {0} /\ k <= MinAsks /\ k <= MaxTotal - total
    BY <1>a, <1>s, <1>e
  <2> QED
    BY <1>p, <1>s, <1>e, <2>1, <2>2 DEF MinRead
<1>t. PICK t : t = total + k
  OBVIOUS
<1> DEFINE c == StartOf(CallNo)
           e == StartOf(CallNo + 1)
<1>2. /\ t \in Nat \ {0} /\ Reaches(Position', c + t)
      /\ Position' \in Nat /\ (~small => Position' <= e)
      /\ Offsets' /\ ~Ended /\ (eof => Ended')
      /\ CallNo \in DOMAIN script /\ base = c /\ c \in Nat /\ e \in Nat
      /\ e = c + (Op.payload + HeaderSize) /\ t <= Op.payload + HeaderSize
      /\ small /\ ~have_header => t <= HeaderSize
      /\ Op.payload \in Nat /\ Op.len \in Nat \ {0} /\ Op.size \in Nat /\ Op.op = "min"
      /\ Honest(Op) \/ Refused(Op)
      /\ have_header => payload_total = Op.payload /\ want = Op.payload + HeaderSize
                        /\ Op.payload <= Op.len
  BY <1>0, <1>1, <1>t, MinFacts
<1>3. UNCHANGED <<build, sent, closed>>
  BY <1>1 DEF MinRead, Stores
<1>4. IF eof THEN MinAtEof(t) ELSE MinLoop(t)
  BY <1>1, <1>t
<1> HIDE DEF c, e
<1>5. CASE Exit
  BY <1>0, <1>2, <1>3, <1>5, ExitKeeps
<1>6. CASE t = Op.payload + HeaderSize /\ Op.payload <= Op.len /\ Return(Op.payload)
  <2>1. Position' = e /\ Expected(CallNo) = Op.payload
    BY <1>2, <1>6 DEF Expected, Op
  <2> QED
    BY <1>0, <1>2, <1>3, <1>6, <2>1, ReturnKeeps DEF e
<1>7. CASE eof /\ ~have_header /\ Return(0)
  <2>1. closed /\ sent = Position' /\ Ended'
    BY <1>2, <1>3, <1>7 DEF Ended
  <2>2. small => Expected(CallNo) = 0 \/ sent < e
    <3>1. small /\ t < Op.payload + HeaderSize => sent < e
      BY <1>2, <2>1 DEF HeaderSize
    <3>2. small /\ t = Op.payload + HeaderSize => Op.payload = 0
      BY <1>2, <1>7 DEF HeaderSize
    <3>3. t < Op.payload + HeaderSize \/ t = Op.payload + HeaderSize
      BY <1>2 DEF HeaderSize
    <3>4. Expected(CallNo) = Op.payload
      BY <1>2 DEF Expected, Op
    <3> QED
      BY <3>1, <3>2, <3>3, <3>4
  <2>3. 0 <= Op.len
    BY <1>2
  <2> QED
    BY <1>0, <1>2, <1>3, <1>7, <2>1, <2>2, <2>3, ReturnKeeps DEF e
<1>8. CASE have_header /\ t >= want /\ Return(payload_total)
  <2>1. t = Op.payload + HeaderSize
    BY <1>2, <1>8 DEF HeaderSize
  <2> QED
    BY <1>2, <1>6, <1>8, <2>1
<1>9. ASSUME total' = t, UNCHANGED <<pc, stage, returned, base>>, want' \in Nat,
             remaining' = remaining, have_header' \in BOOLEAN, payload_total' \in Nat,
             IF have_header' THEN /\ want' = payload_total' + HeaderSize /\ want' <= MaxTotal
                                  /\ t < want' /\ payload_total' = Op.payload
                             ELSE t < HeaderSize
      PROVE  IInv'
  <2>1. Op' = Op /\ CallNo' = CallNo /\ StartOf(CallNo)' = c /\ MaxTotal' = MaxTotal
    BY <1>3, <1>9, ScriptStays DEF Op, CallNo, c, MaxTotal
  <2>2. TypeOK'
    BY <1>2, <1>3, <1>9 DEF IInv, TypeOK
  <2>3. pc' = "min" /\ (Op.op)' = "min"
    BY <1>0, <1>2, <1>9, <2>1
  <2>4. Loops'
    BY <1>9, <2>1, <2>3 DEF Loops
  <2>5. base' = StartOf(CallNo)' /\ Reaches(Position', base' + total')
        /\ (have_header' => payload_total' = (Op.payload)')
    BY <1>2, <1>9, <2>1
  <2>6. Place'
    BY <1>3, <2>3, <2>5 DEF Place, HeaderRead
  <2>7. UNCHANGED <<build, server, returned, pc>>
    BY <1>3, <1>9
  <2> QED
    BY <1>0, <1>2, <2>2, <2>4, <2>6, <2>7, GoesOn
<1>10. CASE RawMore(t) /\ (t < HeaderSize \/ (have_header /\ t < want))
  <2>1. /\ total' = t
        /\ UNCHANGED <<pc, stage, returned, base, want, remaining, have_header, payload_total>>
    BY <1>10 DEF RawMore
  <2>2. want \in Nat /\ have_header \in BOOLEAN /\ payload_total \in Nat
    BY DEF IInv, TypeOK
  <2>3. CASE have_header
    <3>1. want = payload_total + HeaderSize /\ want <= MaxTotal /\ payload_total = Op.payload
      BY <1>2, <2>3 DEF MaxTotal, HeaderSize
    <3>2. t < want
      BY <1>2, <1>10, <3>1 DEF HeaderSize
    <3> QED
      BY <1>9, <2>1, <2>2, <2>3, <3>1, <3>2
  <2>4. CASE ~have_header
    BY <1>9, <1>10, <2>1, <2>2, <2>4
  <2> QED
    BY <2>3, <2>4
<1>11. CASE t >= HeaderSize /\ ~have_header /\ \E size \in SizeAt(base) : MinHeader(t, size)
  <2>1. SizeAt(base) = {Op.size}
    BY <1>2, SizeRead DEF IInv, TypeOK, Op, c
  <2>2. MinHeader(t, Op.size)
    BY <1>11, <2>1
  <2>3. CASE Op.size \in HeaderSize .. MaxTotal
    <3>1. Op.size = Op.payload + HeaderSize /\ Op.payload <= Op.len
          /\ Op.size - HeaderSize = Op.payload /\ Op.size <= MaxTotal
      BY <1>2, <2>3 DEF Honest, Refused, HeaderSize, MaxTotal
    <3>2. CASE t >= Op.size /\ Return(Op.size - HeaderSize)
      <4>1. t = Op.payload + HeaderSize
        BY <1>2, <3>1, <3>2 DEF HeaderSize
      <4> QED
        BY <1>6, <3>1, <3>2, <4>1
    <3>3. CASE t < Op.size /\ want' = Op.size /\ have_header' = TRUE
               /\ payload_total' = Op.size - HeaderSize /\ total' = t
               /\ UNCHANGED <<pc, stage, returned, base, remaining>>
      <4>1. want' \in Nat /\ payload_total' \in Nat
        BY <1>2, <3>1, <3>3
      <4> QED
        BY <1>9, <3>1, <3>3, <4>1
    <3> QED
      BY <1>5, <2>2, <2>3, <3>2, <3>3 DEF MinHeader
  <2>4. CASE Op.size \notin HeaderSize .. MaxTotal
    BY <1>5, <2>2, <2>4 DEF MinHeader
  <2> QED
    BY <2>3, <2>4
<1>12. CASE eof
  BY <1>4, <1>5, <1>7, <1>8, <1>12 DEF MinAtEof
<1>13. CASE ~eof
  BY <1>4, <1>8, <1>10, <1>11, <1>13 DEF MinLoop
<1> QED
  BY <1>12, <1>13

-----------------------------------------------------------------------------
(* The server, and the start of a call.                                    *)

\* What the server sends while the stream is open comes behind what it sent before.
LEMMA DeliverKeeps ==
  ASSUME IInv, Deliver
  PROVE  IInv'
<1> USE DEF server, locals
<1>1. /\ ~closed /\ UNCHANGED <<build, closed, offsets, returned, pc, stage, total>>
      /\ UNCHANGED <<base, want, have_header, payload_total, remaining>>
  BY DEF Deliver
<1>2. PICK n \in 1 .. StartOf(Answered + 1) - sent : sent' = sent + n
  BY DEF Deliver
<1>3. StartOf(Answered + 1) \in Nat
  <2>1. Len(script) \in Nat \ {0} /\ DOMAIN script = 1 .. Len(script) /\ Len(returned) \in Nat
    BY ScriptAssumption DEF IInv, TypeOK
  <2>2. Answered \in 0 .. Len(script)
    <3> DEFINE a == IF pc = "idle" THEN 0 ELSE 1
               b == IF small THEN Ahead ELSE 0
               m == Len(returned) + a + b
    <3>1. a \in Nat /\ b \in Nat
      OBVIOUS
    <3>3. Answered = IF m > Len(script) THEN Len(script) ELSE m
      BY DEF Answered
    <3> HIDE DEF a, b
    <3>2. m \in Nat
      BY <2>1, <3>1
    <3> HIDE DEF m
    <3> QED
      BY <2>1, <3>2, <3>3
  <2>3. CASE Answered = 0
    BY <2>3 DEF StartOf
  <2>4. CASE Answered \in DOMAIN script
    BY <2>4, StartNext DEF IInv, TypeOK
  <2> QED
    BY <2>1, <2>2, <2>3, <2>4
<1>4. sent' \in Nat /\ sent <= sent' /\ sent' <= StartOf(Answered + 1)
  BY <1>2, <1>3 DEF IInv, TypeOK
<1>5. ~Ended /\ ~Ended'
  BY <1>1 DEF Ended
<1>6. /\ Op' = Op /\ CallNo' = CallNo /\ MaxTotal' = MaxTotal /\ Answered' = Answered
      /\ Calling' = Calling /\ HeaderRead' = HeaderRead
  BY <1>1 DEF Op, CallNo, MaxTotal, Answered, Calling, HeaderRead
<1>7. TypeOK'
  BY <1>1, <1>4, PositionStays DEF IInv, TypeOK, Offsets
<1>8. Count' /\ CountReturned' /\ Loops'
  BY <1>1, <1>6 DEF IInv, Count, CountReturned, Loops
<1>9. Place'
  BY <1>1, <1>5, <1>6, ScriptStays, PositionStays DEF IInv, Place
<1>10. NotAhead'
  BY <1>1, <1>4, <1>6, ScriptStays DEF NotAhead
<1>11. Aligned'
  BY <1>1, <1>5, <1>6, ScriptStays, PositionStays DEF IInv, Aligned
<1>12. Bounded'
  BY <1>1, <1>5 DEF IInv, Bounded
<1>13. Whole'
  BY <1>1, ScriptStays DEF IInv, Whole
<1> QED
  BY <1>7, <1>8, <1>9, <1>10, <1>11, <1>12, <1>13 DEF IInv

\* The end of the stream moves nothing.
LEMMA CloseKeeps ==
  ASSUME IInv, CloseStream
  PROVE  IInv'
<1> USE DEF server, locals
<1>1. /\ ~closed /\ closed' = TRUE
      /\ UNCHANGED <<build, sent, offsets, returned, pc, stage, total>>
      /\ UNCHANGED <<base, want, have_header, payload_total, remaining>>
  BY DEF CloseStream
<1>2. ~Ended
  BY <1>1 DEF Ended
<1>3. /\ Op' = Op /\ CallNo' = CallNo /\ MaxTotal' = MaxTotal /\ Answered' = Answered
      /\ Calling' = Calling /\ HeaderRead' = HeaderRead
  BY <1>1 DEF Op, CallNo, MaxTotal, Answered, Calling, HeaderRead
<1>4. TypeOK'
  BY <1>1, PositionStays DEF IInv, TypeOK, Offsets
<1>5. Count' /\ CountReturned' /\ Loops'
  BY <1>1, <1>3 DEF IInv, Count, CountReturned, Loops
<1>6. Place'
  BY <1>1, <1>2, <1>3, ScriptStays, PositionStays DEF IInv, Place
<1>7. NotAhead' /\ Aligned'
  BY <1>1, <1>2, <1>3, ScriptStays, PositionStays DEF IInv, NotAhead, Aligned
<1>8. Bounded' /\ Whole'
  BY <1>1, <1>2, ScriptStays DEF IInv, Bounded, Whole
<1> QED
  BY <1>4, <1>5, <1>6, <1>7, <1>8 DEF IInv

\* A call starts where the last one left the stream.
LEMMA BeginKeeps ==
  ASSUME IInv, Begin
  PROVE  IInv'
<1> USE DEF server
<1>1. /\ pc = "idle" /\ CallNo <= Len(script)
      /\ base' = Position /\ total' = 0
      /\ have_header' = FALSE /\ payload_total' = 0 /\ remaining' = 0 /\ stage' = "header"
      /\ UNCHANGED <<build, sent, closed, offsets, returned>>
  BY DEF Begin
<1>2. \/ Op.op = "min" /\ pc' = "min" /\ want' = 1 + HeaderSize
      \/ Op.op # "min" /\ pc' = "raw" /\ want' = HeaderSize
  BY DEF Begin
<1>3. /\ CallNo \in DOMAIN script /\ CallNo = Len(returned) + 1 /\ Len(returned) \in Nat
      /\ Len(script) \in Nat \ {0} /\ DOMAIN script = 1 .. Len(script)
  BY <1>1, ScriptAssumption DEF IInv, TypeOK, CallNo
<1>4. /\ StartOf(CallNo) \in Nat /\ StartOf(CallNo + 1) \in Nat /\ Op.payload \in Nat
      /\ StartOf(CallNo + 1) = StartOf(CallNo) + Op.payload + HeaderSize
      /\ Op.op \in {"wait", "min", "prefix"}
  BY <1>3, StartNext, CallFacts DEF IInv, TypeOK, Op
<1>5. CallNo' = CallNo /\ Op' = Op /\ Ended' = Ended
  BY <1>1, PositionStays DEF CallNo, Op, Ended
<1>6. TypeOK'
  <2>1. script' \in Scripts /\ small' \in BOOLEAN /\ by_offset' \in BOOLEAN /\ closed' \in BOOLEAN
    BY <1>1 DEF IInv, TypeOK
  <2>2. have_header' \in BOOLEAN
    BY <1>1
  <2>3. sent' \in Nat /\ Offsets' /\ returned' \in Seq(Nat)
    BY <1>1, PositionStays DEF IInv, TypeOK, Offsets
  <2>4. base' \in Nat /\ want' \in Nat
    BY <1>1, <1>2 DEF IInv, TypeOK, Offsets, HeaderSize
  <2> QED
    BY <1>1, <1>2, PositionStays, <2>1, <2>2, <2>3, <2>4 DEF TypeOK
<1>7. Count' /\ CountReturned' /\ Aligned'
  BY <1>1, <1>2, <1>3, <1>5 DEF IInv, Count, CountReturned, Aligned
<1>8. Loops'
  BY <1>1, <1>2, <1>4, <1>5 DEF Loops, HeaderSize
<1>9. Place'
  <2>1. Ended' \/ base' = StartOf(CallNo)'
    BY <1>1, <1>5, ScriptStays DEF IInv, Aligned
  <2>2. ~HeaderRead' /\ Reaches(Position', base' + total')
    BY <1>1, PositionStays DEF HeaderRead, IInv, TypeOK, Offsets
  <2> QED
    BY <1>1, <2>1, <2>2 DEF Place
<1>10. NotAhead'
  <2> SUFFICES ASSUME ~small PROVE sent' <= StartOf(Answered + 1)'
    BY <1>1 DEF NotAhead
  <2>1. Answered = Len(returned)
    BY <1>1, AnsweredCalls DEF IInv
  <2>2. sent <= StartOf(CallNo)
    BY <1>3, <2>1 DEF IInv, NotAhead
  <2>3. Answered' = CallNo
    BY <1>1, <1>2, <1>3 DEF Answered
  <2>4. sent <= StartOf(CallNo + 1)
    BY <1>4, <2>2 DEF HeaderSize, IInv, TypeOK
  <2> QED
    BY <1>1, <1>5, <2>3, <2>4, ScriptStays
<1>11. Bounded'
  BY <1>1, <1>5 DEF IInv, Bounded
<1>12. Whole'
  BY <1>1, ScriptStays DEF IInv, Whole
<1> QED
  BY <1>6, <1>7, <1>8, <1>9, <1>10, <1>11, <1>12 DEF IInv

-----------------------------------------------------------------------------
(* The invariant, and what it says.                                        *)

\* It holds before the first call.
LEMMA InitIInv ==
  Init => IInv
<1> SUFFICES ASSUME Init PROVE IInv
  OBVIOUS
<1> USE DEF Init
<1>1. Len(script) \in Nat \ {0} /\ CallNo = 1 /\ DOMAIN returned = {} /\ Len(returned) = 0
  BY ScriptAssumption DEF CallNo
<1>2. TypeOK
  <2>1. script \in Scripts /\ small \in BOOLEAN /\ by_offset \in BOOLEAN
    OBVIOUS
  <2>2. closed \in BOOLEAN /\ have_header \in BOOLEAN
    OBVIOUS
  <2>3. returned \in Seq(Nat)
    BY EmptySeq
  <2>4. sent \in Nat /\ Offsets /\ base \in Nat /\ total \in Nat
        /\ want \in Nat /\ payload_total \in Nat /\ remaining \in Nat
    BY DEF Offsets, Position, PositionOf
  <2>5. pc = "idle" /\ stage = "header"
    OBVIOUS
  <2> HIDE DEF Init
  <2> QED
    BY <2>1, <2>2, <2>3, <2>4, <2>5 DEF TypeOK
<1>3. Count /\ CountReturned /\ Loops /\ Place
  BY <1>1 DEF Count, CountReturned, Loops, Place, Calling
<1>4. Aligned
  BY <1>1 DEF Aligned, Position, PositionOf, StartOf
<1>5. NotAhead
  <2>1. ~small => Answered = 0
    BY <1>1 DEF Answered
  <2> QED
    BY <2>1 DEF NotAhead, StartOf
<1>6. Bounded /\ Whole
  BY <1>1 DEF Bounded, Whole
<1> QED
  BY <1>2, <1>3, <1>4, <1>5, <1>6 DEF IInv

\* Every step of the server and of the readers keeps it.
LEMMA InvariantStep ==
  IInv /\ [Next]_vars => IInv'
<1> SUFFICES ASSUME IInv, [Next]_vars PROVE IInv'
  OBVIOUS
<1>1. CASE Deliver
  BY <1>1, DeliverKeeps
<1>2. CASE CloseStream
  BY <1>2, CloseKeeps
<1>3. CASE Begin
  BY <1>3, BeginKeeps
<1>4. CASE ReadRaw
  BY <1>4, RawKeeps
<1>5. CASE ReadMin
  BY <1>5, MinKeeps
<1>6. CASE ReadFails
  <2>1. Calling /\ Exit /\ UNCHANGED <<build, server, offsets>>
    BY <1>6 DEF ReadFails, Calling
  <2>2. Offsets' /\ Position' = Position
    BY <2>1, PositionStays DEF IInv, TypeOK, Offsets, server
  <2> QED
    BY <2>1, <2>2, ExitKeeps
<1>7. CASE UNCHANGED vars
  <2>1. /\ UNCHANGED <<build, sent, closed, offsets, returned, pc, stage, total>>
        /\ UNCHANGED <<base, want, have_header, payload_total, remaining>>
    BY <1>7 DEF vars, server, locals
  <2>2. /\ Op' = Op /\ CallNo' = CallNo /\ MaxTotal' = MaxTotal /\ Answered' = Answered
        /\ Calling' = Calling /\ HeaderRead' = HeaderRead /\ Ended' = Ended
    BY <2>1, PositionStays DEF Op, CallNo, MaxTotal, Answered, Calling, HeaderRead, Ended
  <2>3. TypeOK' /\ Count' /\ CountReturned' /\ Loops'
    BY <2>1, <2>2, PositionStays DEF IInv, Offsets, TypeOK, Count, CountReturned, Loops
  <2>4. Place' /\ NotAhead' /\ Aligned' /\ Bounded' /\ Whole'
    BY <2>1, <2>2, ScriptStays, PositionStays DEF IInv, Place, NotAhead, Aligned, Bounded, Whole
  <2> QED
    BY <2>3, <2>4 DEF IInv
<1> QED
  BY <1>1, <1>2, <1>3, <1>4, <1>5, <1>6, <1>7 DEF Next, Reader, ReadEof, Finished

\* The inductive invariant of the framed readers: the locals of the loop that runs, and
\* where in its frame the stream is.
THEOREM FramingInvariant == Spec => []IInv
  BY InitIInv, InvariantStep, PTL DEF Spec

\* Between calls the next byte is the first of the next frame, or the stream ended: neither
\* read_response_wait, _min nor _prefix leaves part of its frame behind or takes bytes of
\* the next one, however the stream is cut into pieces and however much more than it asked
\* for a read is served; a transport that skips a surplus keeps a call from returning, and
\* never has it return out of place.
THEOREM CallsStayAligned == Spec => []Aligned
  BY FramingInvariant, PTL DEF IInv

\* No reader asks for bytes past the end of its buffer, or of app_data where the rest of an
\* answer is drained, and what a call returns is at most the length of its buffer, but for a
\* drain cut short by the end of the stream.  A read may serve any number of bytes: the
\* count of what is stored stops at the buffer.
THEOREM CallsStayInBuffer == Spec => []StaysInBuffer
<1>1. ASSUME IInv PROVE StaysInBuffer
  <2>1. \A k \in DOMAIN returned :
          \/ returned[k] \in 0 .. script[k].len
          \/ script[k].op = "prefix" /\ Ended /\ returned[k] \in 0 .. ChunkSize - 1
    BY <1>1 DEF IInv, Bounded
  <2>2. Calling => Op.len \in Nat \ {0} /\ Op.payload \in Nat
    BY <1>1, CallFacts DEF IInv, TypeOK, Count, Op
  <2>3. total \in Nat /\ want \in Nat /\ payload_total \in Nat /\ remaining \in Nat
    BY <1>1 DEF IInv, TypeOK
  <2>4. ASSUME pc = "min" PROVE total + MinAsks <= MaxTotal
    <3>1. have_header => want <= MaxTotal
      BY <1>1, <2>4 DEF IInv, Loops
    <3> QED
      BY <2>2, <2>3, <2>4, <3>1 DEF Calling, MinAsks, MaxTotal, HeaderSize
  <2>5. ASSUME pc = "raw", stage = "body" PROVE want <= Op.len
    <3>1. Op.op = "wait" => want = Op.len
      BY <1>1, <2>5 DEF IInv, Loops
    <3>2. Op.op = "prefix" => want = Smaller(payload_total, Op.len)
      BY <1>1, <2>5 DEF IInv, Loops
    <3>3. Op.op \in {"wait", "prefix"}
      BY <1>1, <2>5 DEF IInv, Loops
    <3> QED
      BY <2>2, <2>3, <2>5, <3>1, <3>2, <3>3 DEF Calling, Smaller
  <2>6. ASSUME pc = "raw", stage = "drain" PROVE want <= ChunkSize
    <3>1. want = Smaller(remaining, ChunkSize)
      BY <1>1, <2>6 DEF IInv, Loops
    <3> QED
      BY <2>3, <3>1 DEF Smaller
  <2>7. ~past
    BY <1>1 DEF IInv, TypeOK, Offsets
  <2> QED
    BY <2>1, <2>4, <2>5, <2>6, <2>7 DEF StaysInBuffer
<1> QED
  BY <1>1, FramingInvariant, PTL

\* On a small stream, where the header is asked for on its own, a call that returns gives a
\* frame that was sent in full in full, even when the stream ended right behind it.
THEOREM FramesAreWhole == Spec => []WholeOnSmallStream
<1>1. ASSUME IInv PROVE WholeOnSmallStream
  <2> SUFFICES ASSUME small, NEW i \in DOMAIN returned, StartOf(i + 1) <= sent
               PROVE  returned[i] = Expected(i)
    BY DEF WholeOnSmallStream, AllWhole
  <2>1. returned[i] = Expected(i) \/ sent < StartOf(i + 1)
    BY <1>1 DEF IInv, Whole
  <2>2. sent \in Nat /\ StartOf(i + 1) \in Nat
    <3>1. i \in DOMAIN script
      BY <1>1, ScriptAssumption DEF IInv, TypeOK, CountReturned
    <3> QED
      BY <1>1, <3>1, StartNext DEF IInv, TypeOK
  <2> QED
    BY <2>1, <2>2
<1> QED
  BY <1>1, FramingInvariant, PTL
=============================================================================
