---------------------------- MODULE SmallStream_proofs ----------------------------
(***************************************************************************)
(* Proofs about SmallStream, for every buffer size, every sequence of read *)
(* and write lengths and every number of reopenings: commands reach the    *)
(* peer whole, an uncertain carrier is left alone, and the adapter is the  *)
(* byte stream of ByteStream.                                              *)
(***************************************************************************)
EXTENDS SmallStream, SequenceTheorems, TLAPS

USE CapacityAssumption, SizeAssumption, BoundAssumption

Bytes == [cmd : Nat, at : Nat, last : BOOLEAN]
Places == {"down", "opening", "idle", "write"}

FlagsOK ==
  /\ pending_eof \in BOOLEAN /\ connected \in BOOLEAN /\ uncertain \in BOOLEAN
  /\ closed \in BOOLEAN /\ ended \in BOOLEAN

ScalarsOK ==
  /\ pc \in Places /\ failed \in {OK, "transport", "timeout"}
  /\ pending_at \in Nat /\ taken \in Nat /\ sent \in Nat /\ opens \in Nat
  /\ command \in Nat /\ length \in Nat /\ actual \in Nat /\ idle \in Nat

SeqsOK ==
  /\ pending \in Seq(Nat) /\ received \in Seq(Nat) /\ accepted \in Seq(Bytes)
  /\ delivered \in Seq(Nat)

TypeOK == FlagsOK /\ ScalarsOK /\ SeqsOK

-----------------------------------------------------------------------------
(* The inductive invariant.                                                *)

\* What latching an error means: no step but bwc_stream_init goes on from one.
Latched ==
  /\ pc \in {"opening", "write"} => failed = OK
  /\ uncertain => failed # OK /\ pc \in {"down", "idle"}

\* The byte [cmd, at] may be the peer's next.
MayFollow(cmd, at) ==
  \/ accepted = <<>> /\ cmd = 1 /\ at = 1
  \/ /\ accepted # <<>>
     /\ Follows([cmd |-> cmd, at |-> at], accepted[Len(accepted)])

\* Where the write is in its command: on its next byte, or behind its last.
WriteInStep ==
  /\ pc = "write" => actual < length /\ MayFollow(command, actual + 1)
  /\ pc = "idle" /\ failed = OK => actual = length /\ MayFollow(command + 1, 1)

Usable == pc \in {"idle", "write"} /\ failed = OK

\* The first n bytes of the connection, of which the cache holds the last ones.
FirstBytes(n) == [i \in 1 .. n |-> i]
Base == taken - Len(pending)
Cached(base, p) == \A j \in 1 .. Len(p) : p[j] = base + j

CacheInStep ==
  Usable =>
    /\ pending_at <= Len(pending) /\ Base \in Nat /\ taken <= sent
    /\ Cached(Base, pending)
    /\ delivered = FirstBytes(Base + pending_at)
    /\ pending_eof => closed /\ taken = sent
    /\ ended => closed /\ Len(delivered) = sent

IInv ==
  TypeOK /\ Latched /\ WriteInStep /\ CommandsWhole /\ CacheInStep
-----------------------------------------------------------------------------
(* Sequences of bytes.                                                     *)

\* How many bytes Take gives of the buffer p from at on, and which.
Given(p, at, size) == Smaller(Len(p) - at, size)
Part(p, at, k) == SubSeq(p, at + 1, at + k)

\* Reading on from a cache that holds the connection's next bytes.
LEMMA TakeExtends ==
  ASSUME NEW base \in Nat, NEW p \in Seq(Nat), NEW at \in Nat, at <= Len(p),
         Cached(base, p), NEW size \in Nat
  PROVE  /\ Given(p, at, size) \in Nat /\ at + Given(p, at, size) <= Len(p)
         /\ FirstBytes(base + at + Given(p, at, size)) \in Seq(Nat)
         /\ Len(FirstBytes(base + at + Given(p, at, size))) = base + at + Given(p, at, size)
         /\ FirstBytes(base + at) \o Part(p, at, Given(p, at, size))
              = FirstBytes(base + at + Given(p, at, size))
<1> DEFINE k == Given(p, at, size)
           m == base + at
<1>0. m \in Nat /\ m - at = base
  OBVIOUS
<1>1. k \in Nat /\ at + k <= Len(p)
  BY DEF Given, Smaller
<1>c. \A j \in 1 .. Len(p) : p[j] = m - at + j
  BY DEF Cached
<1> HIDE DEF k, m
<1>2. \A n \in Nat : /\ FirstBytes(n) \in Seq(Nat) /\ Len(FirstBytes(n)) = n
                     /\ \A i \in 1 .. n : FirstBytes(n)[i] = i
  BY DEF FirstBytes
<1> DEFINE first == FirstBytes(m)
           all == FirstBytes(m + k)
           more == SubSeq(p, at + 1, at + k)
<1>a. m + k \in Nat
  BY <1>0, <1>1
<1>b. /\ first \in Seq(Nat) /\ Len(first) = m /\ \A i \in 1 .. m : first[i] = i
      /\ all \in Seq(Nat) /\ Len(all) = m + k /\ \A i \in 1 .. m + k : all[i] = i
  BY <1>0, <1>2, <1>a
<1>3. /\ more \in Seq(Nat) /\ Len(more) = k
      /\ \A i \in 1 .. k : more[i] = m + i
  <2>1. \A i \in at + 1 .. at + k : p[i] \in Nat
    <3> SUFFICES ASSUME NEW i \in at + 1 .. at + k PROVE p[i] \in Nat
      OBVIOUS
    <3>1. i \in 1 .. Len(p)
      BY <1>1
    <3> QED
      BY <3>1, ElementOfSeq
  <2>2. /\ more \in Seq(Nat) /\ Len(more) = IF at + 1 <= at + k THEN (at + k) - (at + 1) + 1 ELSE 0
        /\ \A i \in 1 .. (at + k) - (at + 1) + 1 : more[i] = p[(at + 1) + i - 1]
    BY <2>1, <1>1, SubSeqProperties
  <2>3. Len(more) = k /\ (at + k) - (at + 1) + 1 = k
    BY <2>2, <1>1
  <2>4. \A i \in 1 .. k : p[(at + 1) + i - 1] = m + i
    BY <1>0, <1>1, <1>c
  <2> QED
    BY <2>2, <2>3, <2>4
<1> HIDE DEF first, all, more, Part
<1>4. /\ first \o more \in Seq(Nat) /\ Len(first \o more) = m + k
      /\ \A i \in 1 .. m + k : (first \o more)[i] = IF i <= m THEN first[i] ELSE more[i - m]
  <2>1. /\ first \o more \in Seq(Nat) /\ Len(first \o more) = Len(first) + Len(more)
        /\ \A i \in 1 .. Len(first) + Len(more) :
             (first \o more)[i] = IF i <= Len(first) THEN first[i] ELSE more[i - Len(first)]
    <3>1. first \in Seq(Nat) /\ more \in Seq(Nat)
      BY <1>b, <1>3
    <3> QED
      BY ONLY <3>1, ConcatProperties
  <2> QED
    BY <2>1, <1>0, <1>1, <1>b, <1>3
<1>5. \A i \in 1 .. m + k : (first \o more)[i] = all[i]
  <2> SUFFICES ASSUME NEW i \in 1 .. m + k
               PROVE  (first \o more)[i] = i
    BY <1>b
  <2>1. CASE i <= m
    <3>1. i \in 1 .. m
      BY <2>1, <1>0, <1>1
    <3> QED
      BY <2>1, <3>1, <1>b, <1>4
  <2>2. CASE ~(i <= m)
    <3>1. i - m \in 1 .. k /\ m + (i - m) = i
      BY <2>2, <1>0, <1>1
    <3> QED
      BY <2>2, <3>1, <1>3, <1>4
  <2> QED
    BY <2>1, <2>2
<1>6. first \o more = all
  BY <1>b, <1>4, <1>5, <1>a, SeqEqual
<1> QED
  BY <1>1, <1>b, <1>6 DEF first, all, more, Part, m, k

\* The bytes of a write that one carrier operation passes on.
Passed(n) == [i \in 1 .. n |->
  [cmd |-> command, at |-> actual + i, last |-> actual + i = length]]

\* Passing on the next bytes of the command leaves the peer with whole commands, and
\* with the command's next byte to come, or the next command's first.
LEMMA PassKeepsWhole ==
  ASSUME accepted \in Seq(Bytes), command \in Nat, actual \in Nat, length \in Nat,
         CommandsWhole, MayFollow(command, actual + 1),
         NEW n \in Nat, n <= length - actual, accepted' = accepted \o Passed(n)
  PROVE  /\ accepted' \in Seq(Bytes) /\ CommandsWhole'
         /\ n > 0 => /\ accepted' # <<>>
                     /\ accepted'[Len(accepted')] =
                          [cmd |-> command, at |-> actual + n, last |-> actual + n = length]
<1> DEFINE old == Len(accepted)
           s == Passed(n)
<1>1. \A i \in 1 .. n : s[i] = [cmd |-> command, at |-> actual + i, last |-> actual + i = length]
  BY DEF Passed
<1>2. s \in Seq(Bytes) /\ Len(s) = n
  <2>1. s \in [1 .. n -> Bytes]
    BY DEF Passed, Bytes
  <2> QED
    BY <2>1
<1> HIDE DEF s
<1>3. /\ accepted' \in Seq(Bytes) /\ Len(accepted') = old + n
      /\ \A i \in 1 .. old + n : accepted'[i] = IF i <= old THEN accepted[i] ELSE s[i - old]
  BY <1>2, ConcatProperties DEF s
<1>4. old \in Nat
  OBVIOUS
<1>5. \A i \in 1 .. old : accepted'[i] = accepted[i]
  BY <1>3, <1>4
<1>6. \A i \in 1 .. n : accepted'[old + i] =
                         [cmd |-> command, at |-> actual + i, last |-> actual + i = length]
  <2> SUFFICES ASSUME NEW i \in 1 .. n PROVE accepted'[old + i] = s[i]
    BY <1>1
  <2>1. old + i \in 1 .. old + n /\ ~(old + i <= old) /\ (old + i) - old = i
    BY <1>4
  <2> QED
    BY <2>1, <1>3
<1>7. accepted' # <<>> => accepted'[1].cmd = 1 /\ accepted'[1].at = 1
  <2>1. CASE accepted # <<>>
    <3>1. old >= 1
      BY <2>1
    <3> QED
      BY <3>1, <1>5, <2>1 DEF CommandsWhole
  <2>2. CASE accepted = <<>> /\ n > 0
    <3>1. old = 0 /\ command = 1 /\ actual + 1 = 1
      BY <2>2 DEF MayFollow
    <3>2. accepted'[0 + 1] = [cmd |-> command, at |-> actual + 1, last |-> actual + 1 = length]
      BY <2>2, <3>1, <1>6
    <3> QED
      BY <3>1, <3>2
  <2>3. CASE accepted = <<>> /\ n = 0
    BY <2>3, <1>3
  <2> QED
    BY <2>1, <2>2, <2>3
<1>8. ASSUME NEW i \in 2 .. Len(accepted') PROVE Follows(accepted'[i], accepted'[i - 1])
  <2>1. CASE i <= old
    <3>1. i \in 2 .. old /\ i \in 1 .. old /\ i - 1 \in 1 .. old
      BY <2>1, <1>8, <1>4
    <3> QED
      BY <3>1, <1>5 DEF CommandsWhole
  <2>2. CASE i = old + 1
    <3>1. old \in 1 .. old /\ 1 \in 1 .. n /\ i - 1 = old
      BY <2>2, <1>3, <1>4, <1>8
    <3>2. accepted'[i] = [cmd |-> command, at |-> actual + 1, last |-> actual + 1 = length]
      BY <2>2, <3>1, <1>6
    <3>3. accepted'[i - 1] = accepted[old] /\ accepted # <<>>
      BY <3>1, <1>5
    <3> QED
      BY <3>2, <3>3 DEF MayFollow, Follows
  <2>3. CASE i > old + 1
    <3>1. i - old \in 1 .. n /\ i - old - 1 \in 1 .. n /\ actual + (i - old - 1) # length
          /\ i = old + (i - old) /\ i - 1 = old + (i - old - 1)
      BY <2>3, <1>3, <1>4, <1>8
    <3>2. accepted'[i] =
            [cmd |-> command, at |-> actual + (i - old), last |-> actual + (i - old) = length]
      BY <3>1, <1>6
    <3>3. accepted'[i - 1] = [cmd |-> command, at |-> actual + (i - old - 1),
                              last |-> actual + (i - old - 1) = length]
      BY <3>1, <1>6
    <3>4. ~accepted'[i - 1].last
      <4>1. accepted'[i - 1].last = (actual + (i - old - 1) = length)
        BY <3>3
      <4>2. (actual + (i - old - 1) = length) = FALSE
        BY <3>1
      <4> QED
        BY <4>1, <4>2
    <3>5. /\ accepted'[i].cmd = command /\ accepted'[i - 1].cmd = command
          /\ accepted'[i].at = actual + (i - old)
          /\ accepted'[i - 1].at = actual + (i - old - 1)
      BY <3>2, <3>3
    <3> QED
      BY <3>1, <3>4, <3>5, <1>4 DEF Follows
  <2> QED
    BY <2>1, <2>2, <2>3, <1>4, <1>8
<1>9. ASSUME n > 0
      PROVE  /\ accepted' # <<>>
             /\ accepted'[Len(accepted')] =
                  [cmd |-> command, at |-> actual + n, last |-> actual + n = length]
  BY <1>3, <1>4, <1>6, <1>9
<1> QED
  BY <1>3, <1>7, <1>8, <1>9 DEF CommandsWhole

-----------------------------------------------------------------------------
(* Every step keeps each part.                                             *)

\* A step keeps the flags Boolean.
LEMMA FlagsStep ==
  ASSUME FlagsOK, [Next]_vars
  PROVE  FlagsOK'
<1> USE DEF FlagsOK, cache, carrier, peer, write, given
<1>1. CASE PeerSends
  BY <1>1 DEF PeerSends
<1>2. CASE PeerCloses
  BY <1>2 DEF PeerCloses
<1>3. CASE InitStream
  BY <1>3 DEF InitStream, Discard, Fail
<1>4. CASE OpenStream
  BY <1>4 DEF OpenStream, Discard, Fail
<1>5. CASE CloseStream
  BY <1>5 DEF CloseStream, Discard, Fail
<1>6. CASE ReadPending
  BY <1>6 DEF ReadPending, Reading, Take, Buffer, Smaller
<1>7. CASE ReadAhead
  BY <1>7 DEF ReadAhead, Reading, Take, CarrierRead, Smaller
<1>8. CASE ReadFails
  BY <1>8 DEF ReadFails, Reading, Fail, CarrierRead, Smaller
<1>9. CASE StartWrite
  BY <1>9 DEF StartWrite, Unfinished
<1>10. CASE WriteAccepted
  BY <1>10 DEF WriteAccepted, Pass, Smaller
<1>11. CASE WriteIdle
  BY <1>11 DEF WriteIdle
<1>12. CASE WriteFails
  BY <1>12 DEF WriteFails, Pass, Fail, Smaller
<1>13. CASE UNCHANGED vars
  BY <1>13 DEF vars
<1> QED
  BY <1>1, <1>2, <1>3, <1>4, <1>5, <1>6, <1>7, <1>8, <1>9, <1>10, <1>11, <1>12, <1>13
     DEF Next, Peer, Read, WriteStep, Finished

\* A step that fails is the last before bwc_stream_init.
LEMMA LatchedStep ==
  ASSUME ScalarsOK, Latched, [Next]_vars
  PROVE  Latched'
<1> USE DEF Latched, ScalarsOK, Places, OK, cache, carrier, peer, write, given
<1>1. CASE PeerSends
  BY <1>1 DEF PeerSends
<1>2. CASE PeerCloses
  BY <1>2 DEF PeerCloses
<1>3. CASE InitStream
  BY <1>3 DEF InitStream, Discard, Fail
<1>4. CASE OpenStream
  BY <1>4 DEF OpenStream, Discard, Fail
<1>5. CASE CloseStream
  BY <1>5 DEF CloseStream, Fail
<1>6. CASE ReadPending
  BY <1>6 DEF ReadPending, Reading, Take, Buffer, Smaller
<1>7. CASE ReadAhead
  BY <1>7 DEF ReadAhead, Reading, Take, CarrierRead, Smaller
<1>8. CASE ReadFails
  BY <1>8 DEF ReadFails, Reading, Fail, CarrierRead, Smaller
<1>9. CASE StartWrite
  BY <1>9 DEF StartWrite, Unfinished
<1>10. CASE WriteAccepted
  BY <1>10 DEF WriteAccepted, Pass, Smaller
<1>11. CASE WriteIdle
  BY <1>11 DEF WriteIdle
<1>12. CASE WriteFails
  BY <1>12 DEF WriteFails, Pass, Fail, Smaller
<1>13. CASE UNCHANGED vars
  BY <1>13 DEF vars
<1> QED
  BY <1>1, <1>2, <1>3, <1>4, <1>5, <1>6, <1>7, <1>8, <1>9, <1>10, <1>11, <1>12, <1>13
     DEF Next, Peer, Read, WriteStep, Finished

\* A read takes no more than the cache holds.
LEMMA ReadIsBounded ==
  ASSUME TypeOK, CacheInStep, ReadPending \/ ReadAhead
  PROVE  pending_at' \in Nat
<1> USE DEF TypeOK, ScalarsOK, SeqsOK
<1>1. CASE ReadPending
  <2>1. PICK size \in ReadSizes : Take(size, pending, pending_at, pending_eof)
    BY <1>1 DEF ReadPending, Buffer
  <2>2. pending_at <= Len(pending)
    BY <1>1 DEF ReadPending, Reading, CacheInStep, Usable
  <2>3. Smaller(Len(pending) - pending_at, size) \in Nat
    BY <2>2 DEF Smaller
  <2> QED
    BY <2>1, <2>3 DEF Take
<1>2. CASE ReadAhead
  <2>1. PICK n \in 0 .. Capacity, eof \in BOOLEAN, size \in ReadSizes :
          received' = [i \in 1 .. n |-> taken + i] /\ Take(size, received', 0, eof)
    BY <1>2 DEF ReadAhead
  <2>2. Len(received') = n
    BY <2>1
  <2>3. Smaller(Len(received') - 0, size) \in Nat
    BY <2>2 DEF Smaller
  <2> QED
    BY <2>1, <2>3 DEF Take
<1> QED
  BY <1>1, <1>2

\* A step keeps the scalar types.
LEMMA ScalarsStep ==
  ASSUME TypeOK, CacheInStep, [Next]_vars
  PROVE  ScalarsOK'
<1> USE DEF ScalarsOK, Places, OK, cache, carrier, peer, write, given
<1>1. CASE PeerSends
  BY <1>1 DEF PeerSends, TypeOK
<1>2. CASE PeerCloses
  BY <1>2 DEF PeerCloses, TypeOK
<1>3. CASE InitStream
  BY <1>3 DEF InitStream, TypeOK, Discard, Fail
<1>4. CASE OpenStream
  <2>1. CASE pc' = "idle"
    BY <1>4, <2>1 DEF OpenStream, TypeOK, Discard
  <2>2. CASE pc' = "down"
    BY <1>4, <2>2 DEF OpenStream, TypeOK, Fail
  <2> QED
    BY <1>4, <2>1, <2>2 DEF OpenStream
<1>5. CASE CloseStream
  <2>1. CASE Discard
    BY <1>5, <2>1 DEF CloseStream, TypeOK, Discard, Fail
  <2>2. CASE UNCHANGED cache
    BY <1>5, <2>2 DEF CloseStream, TypeOK, Fail
  <2> QED
    BY <1>5, <2>1, <2>2 DEF CloseStream
<1>6. CASE ReadPending
  BY <1>6, ReadIsBounded DEF ReadPending, TypeOK
<1>7. CASE ReadAhead
  BY <1>7, ReadIsBounded DEF ReadAhead, TypeOK
<1>8. CASE ReadFails
  BY <1>8 DEF ReadFails, Fail, TypeOK
<1>9. CASE StartWrite
  <2>1. CASE command' = command + 1 /\ length' \in WriteSizes
    BY <1>9, <2>1 DEF StartWrite, TypeOK
  <2>2. CASE UNCHANGED <<command, length>>
    BY <1>9, <2>2 DEF StartWrite, TypeOK
  <2> QED
    BY <1>9, <2>1, <2>2 DEF StartWrite
<1>10. CASE WriteAccepted
  BY <1>10 DEF WriteAccepted, TypeOK
<1>11. CASE WriteIdle
  <2>1. failed' \in {failed, "timeout"} /\ pc' \in {pc, "idle"} /\ idle' \in Nat
    BY <1>11 DEF WriteIdle, TypeOK
  <2> QED
    BY <1>11, <2>1 DEF WriteIdle, TypeOK
<1>12. CASE WriteFails
  BY <1>12 DEF WriteFails, Fail, TypeOK
<1>13. CASE UNCHANGED vars
  BY <1>13 DEF vars, TypeOK
<1> QED
  BY <1>1, <1>2, <1>3, <1>4, <1>5, <1>6, <1>7, <1>8, <1>9, <1>10, <1>11, <1>12, <1>13
     DEF Next, Peer, Read, WriteStep, Finished

\* A read gives the caller the next bytes of the connection, and the end only behind
\* the last of them, whether they come from the cache or through it.
LEMMA ReadDelivers ==
  ASSUME TypeOK, CacheInStep, ReadPending \/ ReadAhead
  PROVE  /\ pending' \in Seq(Nat) /\ received' \in Seq(Nat) /\ delivered' \in Seq(Nat)
         /\ delivered' = FirstBytes(Len(delivered'))
         /\ Len(delivered) <= Len(delivered') /\ Len(delivered') <= sent
         /\ ended' \in {ended, TRUE} /\ (ended' => closed /\ Len(delivered') = sent)
         /\ CacheInStep' /\ Usable /\ Usable' /\ UNCHANGED peer
<1> USE DEF TypeOK, FlagsOK, ScalarsOK, SeqsOK, cache, carrier, peer, write, given
<1>0. Usable
  BY DEF ReadPending, ReadAhead, Reading, Usable
<1>1. /\ pending_at <= Len(pending) /\ Base \in Nat /\ taken <= sent
      /\ Cached(Base, pending)
      /\ delivered = FirstBytes(Base + pending_at)
      /\ pending_eof => closed /\ taken = sent
      /\ ended => closed /\ Len(delivered) = sent
  BY <1>0 DEF CacheInStep
<1>2. taken = Base + Len(pending) /\ Len(pending) \in Nat
  BY DEF Base
<1>3. Len(delivered) = Base + pending_at
  BY <1>1 DEF FirstBytes
<1> HIDE DEF Base
<1>4. CASE ReadPending
  <2>1. PICK size \in ReadSizes : Take(size, pending, pending_at, pending_eof)
    BY <1>4 DEF ReadPending, Buffer
  <2> DEFINE k == Given(pending, pending_at, size)
             m == Base + pending_at
  <2>2. /\ k \in Nat /\ pending_at + k <= Len(pending)
        /\ FirstBytes(m + k) \in Seq(Nat) /\ Len(FirstBytes(m + k)) = m + k
        /\ FirstBytes(m) \o Part(pending, pending_at, k)
             = FirstBytes(m + k)
    <3>1. /\ Base \in Nat /\ pending \in Seq(Nat) /\ pending_at \in Nat
          /\ pending_at <= Len(pending) /\ Cached(Base, pending) /\ size \in Nat
      BY <1>1
    <3>2. /\ Given(pending, pending_at, size) \in Nat /\ pending_at + Given(pending, pending_at, size) <= Len(pending)
          /\ FirstBytes(Base + pending_at + Given(pending, pending_at, size)) \in Seq(Nat)
          /\ Len(FirstBytes(Base + pending_at + Given(pending, pending_at, size)))
               = Base + pending_at + Given(pending, pending_at, size)
          /\ FirstBytes(Base + pending_at) \o Part(pending, pending_at, Given(pending, pending_at, size))
               = FirstBytes(Base + pending_at + Given(pending, pending_at, size))
      BY ONLY <3>1, TakeExtends
    <3> QED
      BY <3>2
  <2>3. /\ delivered' = delivered \o Part(pending, pending_at, k)
        /\ ended' = (ended \/ (pending_eof /\ pending_at + k = Len(pending)))
        /\ pending_at' = pending_at + k
    BY <2>1 DEF Take, Part, Given
  <2> HIDE DEF k
  <2>4. delivered' = FirstBytes(m + k) /\ Len(delivered') = m + k
    BY <1>1, <2>2, <2>3
  <2>5. ended' => closed /\ Len(delivered') = sent
    <3>1. CASE ended
      BY <3>1, <1>1, <1>2, <1>3, <2>2, <2>4, SMTT(30)
    <3>2. CASE pending_eof /\ pending_at + k = Len(pending)
      <4>1. m + k = taken
        BY <3>2, <1>1, <1>2, <2>2, SMTT(30)
      <4> QED
        BY <3>2, <4>1, <1>1, <2>4
    <3> QED
      BY <2>3, <3>1, <3>2
  <2>6. ended' \in {ended, TRUE}
    BY <2>3
  <2>7. UNCHANGED <<failed, pending, pending_eof, received, taken, sent, closed, pc, Base>>
    BY <1>4 DEF ReadPending, Base
  <2> HIDE DEF m
  <2>8. Usable' /\ m + k = Base' + pending_at'
    BY <1>0, <1>1, <2>2, <2>3, <2>7 DEF Usable, m
  <2>9. CacheInStep'
    BY <1>1, <2>2, <2>3, <2>4, <2>5, <2>7, <2>8 DEF CacheInStep
  <2>10. m + k <= sent /\ Len(delivered) <= m + k
    BY <1>1, <1>2, <1>3, <2>2 DEF m
  <2> QED
    BY <1>0, <2>2, <2>4, <2>5, <2>6, <2>7, <2>8, <2>9, <2>10
<1>5. CASE ReadAhead
  <2>1. PICK n \in 0 .. Capacity, eof \in BOOLEAN, size \in ReadSizes :
          /\ CarrierRead(n, eof)
          /\ received' = [i \in 1 .. n |-> taken + i]
          /\ taken' = taken + n
          /\ pending' = received' /\ pending_eof' = eof
          /\ Take(size, received', 0, eof)
    BY <1>5 DEF ReadAhead
  <2>2. /\ received' \in Seq(Nat) /\ Len(received') = n
        /\ \A j \in 1 .. n : received'[j] = taken + j
    BY <2>1
  <2>3. taken + n <= sent /\ (eof => closed /\ taken + n = sent)
    BY <1>1, <2>1 DEF CarrierRead, Smaller
  <2> DEFINE p == received'
             k == Given(p, 0, size)
  <2>4. /\ k \in Nat /\ 0 + k <= Len(p)
        /\ FirstBytes(taken + k) \in Seq(Nat) /\ Len(FirstBytes(taken + k)) = taken + k
        /\ FirstBytes(taken) \o Part(p, 0, k) = FirstBytes(taken + k)
    <3> DEFINE at == 0
    <3>1. /\ taken \in Nat /\ p \in Seq(Nat) /\ at \in Nat /\ at <= Len(p)
          /\ Cached(taken, p) /\ size \in Nat
      BY <2>2 DEF Cached
    <3> HIDE DEF p, at
    <3>2. /\ Given(p, at, size) \in Nat /\ at + Given(p, at, size) <= Len(p)
          /\ FirstBytes(taken + at + Given(p, at, size)) \in Seq(Nat)
          /\ Len(FirstBytes(taken + at + Given(p, at, size))) = taken + at + Given(p, at, size)
          /\ FirstBytes(taken + at) \o Part(p, at, Given(p, at, size))
               = FirstBytes(taken + at + Given(p, at, size))
      BY ONLY <3>1, TakeExtends
    <3>3. at = 0 /\ taken + at = taken
      BY DEF at
    <3> QED
      BY <3>2, <3>3
  <2>5. /\ delivered' = delivered \o Part(p, 0, k)
        /\ ended' = (ended \/ (eof /\ 0 + k = Len(p)))
        /\ pending_at' = 0 + k
    BY <2>1 DEF Take, Part, Given
  <2>6. delivered = FirstBytes(taken) /\ Len(delivered) = taken
    BY <1>1, <1>2, <1>3, <1>5 DEF ReadAhead
  <2> HIDE DEF k
  <2>7. delivered' = FirstBytes(taken + k) /\ Len(delivered') = taken + k
    BY <2>4, <2>5, <2>6
  <2>8. ended' => closed /\ Len(delivered') = sent
    <3>1. CASE ended
      BY <3>1, <1>1, <2>2, <2>3, <2>4, <2>6, <2>7, SMTT(30)
    <3>2. CASE eof /\ 0 + k = Len(p)
      BY <3>2, <2>2, <2>3, <2>4, <2>7
    <3> QED
      BY <2>5, <3>1, <3>2
  <2>9. ended' \in {ended, TRUE}
    BY <2>5
  <2>10. UNCHANGED <<failed, sent, closed, pc>>
    BY <1>5 DEF ReadAhead
  <2>11. Base' = taken /\ pending' = p
    BY <2>1, <2>2 DEF Base
  <2>12. Usable' /\ taken + k = Base' + pending_at'
    BY <1>0, <2>4, <2>5, <2>10, <2>11 DEF Usable
  <2>13. CacheInStep'
    <3>1. pending_at' <= Len(pending') /\ Base' \in Nat /\ taken' <= sent'
      BY <2>1, <2>2, <2>3, <2>4, <2>5, <2>10, <2>11
    <3>2. Cached(Base', pending')
      BY <2>2, <2>11 DEF Cached
    <3>3. pending_eof' => closed' /\ taken' = sent'
      BY <2>1, <2>3, <2>10
    <3> QED
      BY <2>7, <2>8, <2>10, <2>12, <3>1, <3>2, <3>3 DEF CacheInStep
  <2>14. taken + k <= sent /\ Len(delivered) <= taken + k
    BY <2>2, <2>3, <2>4, <2>6
  <2> QED
    BY <1>0, <2>2, <2>4, <2>7, <2>8, <2>9, <2>10, <2>11, <2>12, <2>13, <2>14
<1> QED
  BY <1>4, <1>5

\* A step leaves the peer with whole commands, and the write on the next byte.
LEMMA WriteKeeps ==
  ASSUME TypeOK, Latched, WriteInStep, CommandsWhole, [Next]_vars
  PROVE  accepted' \in Seq(Bytes) /\ CommandsWhole' /\ WriteInStep'
<1> USE DEF cache, carrier, peer, write, given
<1>t. command \in Nat /\ actual \in Nat /\ length \in Nat /\ accepted \in Seq(Bytes)
  BY DEF TypeOK, ScalarsOK, SeqsOK
<1>0. ASSUME UNCHANGED accepted
      PROVE  accepted' \in Seq(Bytes) /\ CommandsWhole'
  BY <1>t, <1>0 DEF CommandsWhole, Follows
<1>1. CASE PeerSends
  BY <1>0, <1>1 DEF PeerSends, WriteInStep, MayFollow, Follows
<1>2. CASE PeerCloses
  BY <1>0, <1>2 DEF PeerCloses, WriteInStep, MayFollow, Follows
<1>3. CASE InitStream
  BY <1>0, <1>3 DEF InitStream, WriteInStep
<1>4. CASE OpenStream
  <2>1. CASE pc' = "down"
    BY <1>0, <1>4, <2>1 DEF OpenStream, WriteInStep
  <2>2. CASE pc' = "idle"
    <3>1. accepted' = <<>> /\ command' = 0 /\ length' = 0 /\ actual' = 0
      BY <1>4, <2>2 DEF OpenStream
    <3>2. accepted' \in Seq(Bytes) /\ CommandsWhole'
      BY <3>1 DEF CommandsWhole
    <3>3. WriteInStep'
      BY <3>1, <2>2 DEF WriteInStep, MayFollow
    <3> QED
      BY <3>2, <3>3
  <2> QED
    BY <1>4, <2>1, <2>2 DEF OpenStream
<1>5. CASE CloseStream
  BY <1>0, <1>5 DEF CloseStream, WriteInStep
<1>6. CASE ReadPending
  BY <1>0, <1>6 DEF ReadPending, WriteInStep, MayFollow, Follows
<1>7. CASE ReadAhead
  BY <1>0, <1>7 DEF ReadAhead, WriteInStep, MayFollow, Follows
<1>8. CASE ReadFails
  BY <1>0, <1>8 DEF ReadFails, Reading, Fail, WriteInStep, OK
<1>9. CASE StartWrite
  <2>1. actual = length /\ MayFollow(command + 1, 1)
    BY <1>9 DEF StartWrite, WriteInStep
  <2>2. command' = command + 1 /\ length' \in Nat \ {0} /\ actual' = 0 /\ pc' = "write"
    <3>1. ~Unfinished
      BY <1>t, <2>1 DEF Unfinished
    <3> QED
      BY <1>9, <3>1 DEF StartWrite
  <2>3. UNCHANGED accepted
    BY <1>9 DEF StartWrite
  <2>4. MayFollow(command, actual + 1)'
    <3>1. actual' + 1 = 1
      BY <2>2
    <3> QED
      BY <2>1, <2>2, <2>3, <3>1 DEF MayFollow, Follows
  <2>5. actual' < length'
    BY <2>2
  <2> QED
    BY <1>0, <2>2, <2>3, <2>4, <2>5 DEF WriteInStep
<1>10. CASE WriteAccepted
  <2>1. PICK n \in 1 .. Capacity : Pass(n) /\ actual' = actual + n
    BY <1>10 DEF WriteAccepted
  <2>2. actual < length /\ MayFollow(command, actual + 1)
    BY <1>10 DEF WriteAccepted, WriteInStep
  <2>3. n \in Nat /\ n > 0 /\ n <= length - actual /\ accepted' = accepted \o Passed(n)
    BY <1>t, <2>1, <2>2, CapacityAssumption DEF Pass, Passed, Smaller
  <2>4. /\ accepted' \in Seq(Bytes) /\ CommandsWhole' /\ accepted' # <<>>
        /\ accepted'[Len(accepted')] =
             [cmd |-> command, at |-> actual + n, last |-> actual + n = length]
    BY <1>t, <2>2, <2>3, PassKeepsWhole
  <2>5. UNCHANGED <<command, length>> /\ pc' = IF actual' = length THEN "idle" ELSE "write"
    BY <1>10 DEF WriteAccepted
  <2>6. CASE actual + n = length
    <3>0. /\ accepted'[Len(accepted')].last = (actual + n = length)
          /\ accepted'[Len(accepted')].cmd = command
      BY ONLY <2>4
    <3>1. accepted'[Len(accepted')].last /\ accepted'[Len(accepted')].cmd = command
      BY ONLY <2>6, <3>0
    <3>2. MayFollow(command + 1, 1)'
      BY <2>4, <2>5, <3>1 DEF MayFollow, Follows
    <3>3. pc' = "idle" /\ actual' = length'
      BY <2>1, <2>5, <2>6
    <3> QED
      BY <2>4, <3>2, <3>3 DEF WriteInStep
  <2>7. CASE actual + n # length
    <3>0. /\ accepted'[Len(accepted')].last = (actual + n = length)
          /\ accepted'[Len(accepted')].cmd = command
          /\ accepted'[Len(accepted')].at = actual + n
      BY ONLY <2>4
    <3>1. /\ ~accepted'[Len(accepted')].last
          /\ accepted'[Len(accepted')].cmd = command
          /\ accepted'[Len(accepted')].at = actual + n
      BY ONLY <2>7, <3>0
    <3>2. MayFollow(command, actual + 1)'
      BY <2>1, <2>4, <2>5, <3>1 DEF MayFollow, Follows
    <3>3. pc' = "write" /\ actual' < length'
      BY <1>t, <2>1, <2>3, <2>5, <2>7
    <3> QED
      BY <2>4, <3>2, <3>3 DEF WriteInStep
  <2> QED
    BY <2>6, <2>7
<1>11. CASE WriteIdle
  <2>1. UNCHANGED <<accepted, command, length, actual>>
    BY <1>11 DEF WriteIdle
  <2>2. pc = "write" /\ (pc' = "write" \/ (pc' = "idle" /\ failed' = "timeout"))
    BY <1>11 DEF WriteIdle
  <2> QED
    BY <1>0, <2>1, <2>2 DEF WriteInStep, MayFollow, Follows, OK
<1>12. CASE WriteFails
  <2>1. PICK n \in 0 .. Capacity : Pass(n)
    BY <1>12 DEF WriteFails
  <2>2. actual < length /\ MayFollow(command, actual + 1)
    BY <1>12 DEF WriteFails, WriteInStep
  <2>3. n \in Nat /\ n <= length - actual /\ accepted' = accepted \o Passed(n)
    BY <1>t, <2>1, <2>2, CapacityAssumption DEF Pass, Passed, Smaller
  <2>4. accepted' \in Seq(Bytes) /\ CommandsWhole'
    BY <1>t, <2>2, <2>3, PassKeepsWhole
  <2>5. pc' = "idle" /\ failed' # OK
    BY <1>12 DEF WriteFails, Fail, OK
  <2> QED
    BY <2>4, <2>5 DEF WriteInStep
<1>13. CASE UNCHANGED vars
  BY <1>0, <1>13 DEF vars, WriteInStep, MayFollow, Follows
<1> QED
  BY <1>1, <1>2, <1>3, <1>4, <1>5, <1>6, <1>7, <1>8, <1>9, <1>10, <1>11, <1>12, <1>13
     DEF Next, Peer, Read, WriteStep, Finished

\* A step keeps the sequences sequences of bytes.
LEMMA SeqsStep ==
  ASSUME TypeOK, Latched, WriteInStep, CommandsWhole, CacheInStep, [Next]_vars
  PROVE  SeqsOK'
<1> USE DEF TypeOK, SeqsOK, cache, carrier, peer, write, given
<1>0. accepted' \in Seq(Bytes)
  BY WriteKeeps
<1>a. Scratch \in Seq(Nat) /\ <<>> \in Seq(Nat)
  <2>1. Scratch \in [1 .. Capacity -> Nat] /\ Capacity \in Nat
    BY DEF Scratch
  <2>2. Scratch \in Seq(Nat)
    BY ONLY <2>1, SeqDef
  <2> QED
    BY <2>2, EmptySeq
<1>1. CASE PeerSends
  BY <1>0, <1>1 DEF PeerSends
<1>2. CASE PeerCloses
  BY <1>0, <1>2 DEF PeerCloses
<1>3. CASE InitStream
  BY <1>0, <1>a, <1>3 DEF InitStream, Discard
<1>4. CASE OpenStream
  <2>1. pending' \in {pending, <<>>} /\ delivered' \in {delivered, <<>>} /\ UNCHANGED received
    BY <1>4 DEF OpenStream, Discard
  <2> QED
    BY <1>0, <1>a, <2>1
<1>5. CASE CloseStream
  <2>1. pending' \in {pending, <<>>} /\ UNCHANGED <<delivered, received>>
    BY <1>5 DEF CloseStream, Discard
  <2> QED
    BY <1>0, <1>a, <2>1
<1>6. CASE ReadPending
  BY <1>0, <1>6, ReadDelivers
<1>7. CASE ReadAhead
  BY <1>0, <1>7, ReadDelivers
<1>8. CASE ReadFails
  BY <1>0, <1>8 DEF ReadFails
<1>9. CASE StartWrite
  BY <1>0, <1>9 DEF StartWrite
<1>10. CASE WriteAccepted
  <2>1. received' = Scratch
    BY <1>10 DEF WriteAccepted, Pass
  <2> QED
    BY <1>0, <1>a, <1>10, <2>1 DEF WriteAccepted
<1>11. CASE WriteIdle
  BY <1>0, <1>a, <1>11 DEF WriteIdle
<1>12. CASE WriteFails
  <2>1. received' = Scratch
    BY <1>12 DEF WriteFails, Pass
  <2> QED
    BY <1>0, <1>a, <1>12, <2>1 DEF WriteFails
<1>13. CASE UNCHANGED vars
  BY <1>13 DEF vars
<1> QED
  BY <1>1, <1>2, <1>3, <1>4, <1>5, <1>6, <1>7, <1>8, <1>9, <1>10, <1>11, <1>12, <1>13
     DEF Next, Peer, Read, WriteStep, Finished

\* A step leaves the cache at the end of what the carrier gave, and the caller with the
\* bytes before it.
LEMMA CacheStep ==
  ASSUME TypeOK, Latched, CacheInStep, [Next]_vars
  PROVE  CacheInStep'
<1> USE DEF cache, carrier, peer, write, given
<1>t. taken \in Nat /\ sent \in Nat /\ closed \in BOOLEAN
  BY DEF TypeOK, ScalarsOK, FlagsOK
<1>0. ASSUME UNCHANGED <<cache, carrier, peer, given>>, Usable' => Usable
      PROVE  CacheInStep'
  BY <1>0 DEF CacheInStep, Base, Cached, FirstBytes
<1>1. CASE PeerSends
  <2>1. /\ ~closed /\ ~closed' /\ sent' = sent + 1 /\ (Usable' => Usable)
        /\ UNCHANGED <<cache, taken, delivered, ended>>
    BY <1>1 DEF PeerSends, Usable
  <2>2. taken <= sent => taken <= sent'
    BY <1>t, <2>1
  <2> QED
    BY <2>1, <2>2 DEF CacheInStep, Base, Cached, FirstBytes
<1>2. CASE PeerCloses
  <2>1. /\ closed' /\ (Usable' => Usable)
        /\ UNCHANGED <<cache, taken, delivered, ended, sent>>
    BY <1>2 DEF PeerCloses, Usable
  <2> QED
    BY <2>1 DEF CacheInStep, Base, Cached, FirstBytes
<1>3. CASE InitStream
  BY <1>3 DEF InitStream, CacheInStep, Usable
<1>4. CASE OpenStream
  <2>1. CASE pc' = "down"
    BY <2>1 DEF CacheInStep, Usable
  <2>2. CASE pc' = "idle"
    <3>1. /\ pending' = <<>> /\ pending_at' = 0 /\ pending_eof' = FALSE
          /\ sent' = 0 /\ taken' = 0 /\ delivered' = <<>> /\ ended' = FALSE
      BY <1>4, <2>2 DEF OpenStream, Discard
    <3>2. Base' = 0 /\ Len(pending') = 0
      <4>1. Len(pending') = 0
        BY ONLY <3>1, EmptySeq
      <4>2. taken' = 0
        BY <3>1
      <4>3. taken' - Len(pending') = 0
        BY ONLY <4>1, <4>2
      <4> QED
        BY <4>1, <4>3 DEF Base
    <3>3. delivered' = FirstBytes(0 + 0)
      BY <3>1 DEF FirstBytes
    <3>4. Cached(0, pending')
      BY <3>2 DEF Cached
    <3> QED
      BY <3>1, <3>2, <3>3, <3>4 DEF CacheInStep
  <2> QED
    BY <1>4, <2>1, <2>2 DEF OpenStream
<1>5. CASE CloseStream
  BY <1>5 DEF CloseStream, CacheInStep, Usable
<1>6. CASE ReadPending
  BY <1>6, ReadDelivers
<1>7. CASE ReadAhead
  BY <1>7, ReadDelivers
<1>8. CASE ReadFails
  BY <1>8 DEF ReadFails, Fail, CacheInStep, Usable, OK
<1>9. CASE StartWrite
  <2>1. UNCHANGED <<cache, carrier, peer, given>> /\ (Usable' => Usable)
    BY <1>9 DEF StartWrite, Usable
  <2> QED
    BY <1>0, <2>1
<1>10. CASE WriteAccepted
  <2>1. UNCHANGED <<cache, taken, peer, given>> /\ (Usable' => Usable)
    BY <1>10 DEF WriteAccepted, Usable
  <2> QED
    BY <2>1 DEF CacheInStep, Base, Cached, FirstBytes
<1>11. CASE WriteIdle
  <2>1. UNCHANGED <<cache, carrier, peer, given>> /\ (Usable' => Usable)
    BY <1>11 DEF WriteIdle, Usable, OK
  <2> QED
    BY <1>0, <2>1
<1>12. CASE WriteFails
  BY <1>12 DEF WriteFails, Fail, CacheInStep, Usable, OK
<1>13. CASE UNCHANGED vars
  <2>1. UNCHANGED <<cache, carrier, peer, given>> /\ (Usable' => Usable)
    BY <1>13 DEF vars, Usable
  <2> QED
    BY <1>0, <2>1
<1> QED
  BY <1>1, <1>2, <1>3, <1>4, <1>5, <1>6, <1>7, <1>8, <1>9, <1>10, <1>11, <1>12, <1>13
     DEF Next, Peer, Read, WriteStep, Finished

-----------------------------------------------------------------------------
(* The invariant.                                                          *)

\* The invariant holds before the first bwc_stream_init.
LEMMA InitIInv == Init => IInv
<1> SUFFICES ASSUME Init PROVE IInv
  OBVIOUS
<1> USE DEF Init
<1>1. FlagsOK
  BY DEF FlagsOK
<1>2. ScalarsOK
  BY DEF ScalarsOK, Places, OK
<1>3. SeqsOK
  BY EmptySeq DEF SeqsOK
<1>4. Latched /\ CommandsWhole
  BY DEF Latched, CommandsWhole
<1>5. WriteInStep /\ CacheInStep
  BY DEF WriteInStep, CacheInStep, Usable
<1> QED
  BY <1>1, <1>2, <1>3, <1>4, <1>5 DEF IInv, TypeOK

\* Every step keeps the invariant.
LEMMA InvariantStep == IInv /\ [Next]_vars => IInv'
<1> SUFFICES ASSUME IInv, [Next]_vars PROVE IInv'
  OBVIOUS
<1>1. TypeOK /\ Latched /\ WriteInStep /\ CommandsWhole /\ CacheInStep
  BY DEF IInv
<1>2. FlagsOK'
  BY <1>1, FlagsStep DEF TypeOK
<1>3. ScalarsOK'
  BY <1>1, ScalarsStep
<1>4. SeqsOK'
  BY <1>1, SeqsStep
<1>5. Latched'
  BY <1>1, LatchedStep DEF TypeOK
<1>6. WriteInStep' /\ CommandsWhole'
  BY <1>1, WriteKeeps
<1>7. CacheInStep'
  BY <1>1, CacheStep
<1> QED
  BY <1>2, <1>3, <1>4, <1>5, <1>6, <1>7 DEF IInv, TypeOK

\* The types, the latch, the write's place in its command and the cache's place in
\* the connection hold in every reachable state.
THEOREM StreamInvariant == Spec => []IInv
<1> QED
  BY InitIInv, InvariantStep, PTL DEF Spec

\* Whatever the carrier takes, fails or delays, the peer receives whole commands, each
\* once and in order, and only the last may be cut short: bwc_stream_write repeats
\* exactly what was not accepted and the latched error stops every retry.
THEOREM CommandsAreWhole == Spec => []CommandsWhole
<1>1. IInv => CommandsWhole
  BY DEF IInv
<1> QED
  BY <1>1, StreamInvariant, PTL

\* Between a failed carrier operation and the next bwc_stream_init no carrier operation
\* has any effect: none is issued.
LEMMA UncertainIsLeft ==
  ASSUME IInv, [Next]_vars
  PROVE  uncertain /\ opens' = opens => UNCHANGED <<taken, accepted, connected>>
<1> SUFFICES ASSUME uncertain, opens' = opens
             PROVE  UNCHANGED <<taken, accepted, connected>>
  OBVIOUS
<1> USE DEF cache, carrier, peer, write, given
<1>0. failed # OK /\ pc \in {"down", "idle"} /\ opens \in Nat
  BY DEF IInv, Latched, TypeOK, ScalarsOK
<1>1. CASE Peer
  BY <1>1 DEF Peer, PeerSends, PeerCloses
<1>2. CASE InitStream
  <2>1. opens' = opens + 1
    BY <1>2 DEF InitStream
  <2> QED
    BY <2>1, <1>0
<1>3. CASE OpenStream
  BY <1>3, <1>0 DEF OpenStream
<1>4. CASE CloseStream
  BY <1>4, <1>0 DEF CloseStream
<1>5. CASE Read
  BY <1>5, <1>0 DEF Read, ReadPending, ReadAhead, ReadFails, Reading
<1>6. CASE StartWrite
  BY <1>6, <1>0 DEF StartWrite
<1>7. CASE WriteStep
  BY <1>7, <1>0 DEF WriteStep, WriteAccepted, WriteIdle, WriteFails
<1>8. CASE UNCHANGED vars
  BY <1>8 DEF vars
<1> QED
  BY <1>1, <1>2, <1>3, <1>4, <1>5, <1>6, <1>7, <1>8 DEF Next, Finished

\* "Never replace an uncertain transaction": the action property itself.
THEOREM UncertainIsLeftAlone == Spec => NothingAfterUncertain
<1>1. IInv /\ [Next]_vars =>
        [uncertain /\ opens' = opens => UNCHANGED <<taken, accepted, connected>>]_vars
  BY UncertainIsLeft
<1> QED
  BY <1>1, StreamInvariant, PTL DEF Spec, NothingAfterUncertain

-----------------------------------------------------------------------------
(* The adapter implements the byte stream.                                 *)

\* Every step of the adapter is a step of the byte stream, or none.
LEMMA StreamStep ==
  ASSUME IInv, [Next]_vars
  PROVE  [Stream!Next]_(Stream!vars)
<1> USE DEF cache, carrier, peer, write, given
<1> USE DEF Stream!Next, Stream!vars
<1>0. TypeOK /\ Latched /\ CacheInStep
  BY DEF IInv
<1>1. CASE PeerSends
  <2>1. Stream!Peer
    BY <1>1 DEF PeerSends, Stream!Peer
  <2> QED
    BY <2>1
<1>2. CASE PeerCloses
  <2>1. Stream!Peer
    BY <1>2 DEF PeerCloses, Stream!Peer
  <2> QED
    BY <2>1
<1>3. CASE InitStream
  <2>1. Stream!Break
    BY <1>3 DEF InitStream, Stream!Break
  <2> QED
    BY <2>1
<1>4. CASE OpenStream
  <2>1. CASE pc' = "idle"
    <3>1. failed = OK
      BY <1>0, <1>4 DEF OpenStream, Latched
    <3>2. Stream!Open
      BY <1>4, <2>1, <3>1 DEF OpenStream, Stream!Open
    <3> QED
      BY <3>2
  <2>2. CASE pc' = "down"
    <3>1. Stream!Break
      BY <1>4, <2>2 DEF OpenStream, Stream!Break
    <3> QED
      BY <3>1
  <2> QED
    BY <1>4, <2>1, <2>2 DEF OpenStream
<1>5. CASE CloseStream
  <2>1. Stream!Break
    BY <1>5 DEF CloseStream, Stream!Break
  <2> QED
    BY <2>1
<1>6. ASSUME ReadPending \/ ReadAhead
      PROVE  Stream!Deliver
  <2>1. /\ delivered' = FirstBytes(Len(delivered'))
        /\ Len(delivered) <= Len(delivered') /\ Len(delivered') <= sent
        /\ ended' \in {ended, TRUE} /\ (ended' => closed /\ Len(delivered') = sent)
        /\ Usable /\ Usable' /\ UNCHANGED peer /\ delivered' \in Seq(Nat)
    BY <1>0, <1>6, ReadDelivers
  <2>2. Len(delivered') \in Len(delivered) .. sent
    <3>1. Len(delivered) \in Nat /\ Len(delivered') \in Nat /\ sent \in Nat
      BY <1>0, <2>1, SMTT(30) DEF TypeOK, SeqsOK, ScalarsOK
    <3> QED
      BY <2>1, <3>1
  <2>3. \E n \in Len(delivered) .. sent : delivered' = [i \in 1 .. n |-> i]
    BY <2>1, <2>2 DEF FirstBytes
  <2> QED
    BY <2>1, <2>3 DEF Stream!Deliver, Usable
<1>7. CASE ReadFails
  <2>1. Stream!Break
    BY <1>7 DEF ReadFails, Fail, OK, Stream!Break
  <2> QED
    BY <2>1
<1>8. CASE StartWrite
  BY <1>8 DEF StartWrite
<1>9. CASE WriteAccepted
  BY <1>9 DEF WriteAccepted
<1>10. CASE WriteIdle
  <2>1. CASE UNCHANGED <<pc, failed>>
    BY <1>10, <2>1 DEF WriteIdle
  <2>2. CASE failed' = "timeout"
    <3>1. Stream!Break
      BY <1>10, <2>2 DEF WriteIdle, OK, Stream!Break
    <3> QED
      BY <3>1
  <2> QED
    BY <1>10, <2>1, <2>2 DEF WriteIdle
<1>11. CASE WriteFails
  <2>1. Stream!Break
    BY <1>11 DEF WriteFails, Fail, OK, Stream!Break
  <2> QED
    BY <2>1
<1>12. CASE UNCHANGED vars
  BY <1>12 DEF vars
<1> QED
  BY <1>1, <1>2, <1>3, <1>4, <1>5, <1>6, <1>7, <1>8, <1>9, <1>10, <1>11, <1>12
     DEF Next, Peer, Read, WriteStep, Finished

\* The caller of the adapter sees the peer's bytes in order, none missing and none twice,
\* and the end only behind the last: ByteStream, which is what Framing reads from.
THEOREM AdapterIsByteStream == Spec => IsByteStream
<1>1. Init => Stream!Init
  BY DEF Init, Stream!Init
<1>2. IInv /\ [Next]_vars => [Stream!Next]_(Stream!vars)
  BY StreamStep
<1> QED
  BY <1>1, <1>2, StreamInvariant, PTL DEF Spec, Stream!Spec, IsByteStream
=============================================================================
