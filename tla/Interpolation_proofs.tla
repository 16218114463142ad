--------------------------- MODULE Interpolation_proofs ---------------------------
(***************************************************************************)
(* Proofs about ShapeDecode and Interpolation, for every set of            *)
(* capabilities, every size of the screen, every set of bodies and places  *)
(* and however long a snapshot takes: what the server packs is what the    *)
(* client decodes; a body is drawn on the way from the nearest place where *)
(* it was to where it is, and does not jump when a snapshot arrives.       *)
(* In which order a snapshot lists its bodies makes no difference, unless  *)
(* two places are as near.                                                 *)
(* And about VectorOutline and AmigaGfx, for every shape of at most five   *)
(* cells a side: its contours close and are few enough, they are clipped   *)
(* to what is on the screen, and what lights is the outline of the shape.  *)
(***************************************************************************)
EXTENDS Interpolation, FiniteSetTheorems, FunctionTheorems, SequenceTheorems,
        WellFoundedInduction, TLAPS

-----------------------------------------------------------------------------
(* Decoding.                                                               *)

\* The coordinates and the numbers that a record can carry.
Coordinates(caps) ==
  {v \in Int : IF "wide" \in caps THEN -32768 <= v /\ v <= 32767 ELSE -128 <= v /\ v <= 127}
BodyIds(caps) == IF "body_id" \in caps THEN {v \in Nat : v \div 65536 < 65536} ELSE {0}

Record(caps) ==
  [shape_id : 0 .. 255, x : Coordinates(caps), y : Coordinates(caps), body_id : BodyIds(caps)]

\* Two sequences of numbers, one behind the other.
LEMMA Joined ==
  ASSUME NEW s \in Seq(Int), NEW t \in Seq(Int)
  PROVE  /\ s \o t \in Seq(Int) /\ Len(s \o t) = Len(s) + Len(t)
         /\ \A k \in 1 .. Len(s) : (s \o t)[k] = s[k]
         /\ \A k \in 1 .. Len(t) : (s \o t)[Len(s) + k] = t[k]
<1>1. /\ s \o t \in Seq(Int) /\ Len(s \o t) = Len(s) + Len(t)
      /\ \A i \in 1 .. Len(s) + Len(t) :
           (s \o t)[i] = IF i <= Len(s) THEN s[i] ELSE t[i - Len(s)]
  BY ConcatProperties
<1>2. Len(s) \in Nat /\ Len(t) \in Nat
  OBVIOUS
<1>3. ASSUME NEW k \in 1 .. Len(s) PROVE (s \o t)[k] = s[k]
  BY <1>1, <1>2
<1>4. ASSUME NEW k \in 1 .. Len(t) PROVE (s \o t)[Len(s) + k] = t[k]
  <2>1. Len(s) + k \in 1 .. Len(s) + Len(t) /\ ~(Len(s) + k <= Len(s)) /\ Len(s) + k - Len(s) = k
    BY <1>2
  <2> QED
    BY <1>1, <2>1
<1> QED
  BY <1>1, <1>3, <1>4

\* Division and what it leaves.
LEMMA Divided ==
  ASSUME NEW v \in Int, NEW b \in Nat, b > 0
  PROVE  \E h, l \in Int : /\ h = v \div b /\ l = v % b /\ v = b * h + l
                          /\ 0 <= l /\ l < b
OBVIOUS

\* What two bytes of a number add up to.
LEMMA TwoBytes ==
  ASSUME NEW v \in Int, -32768 <= v, v <= 65535
  PROVE  (v % 256) + 256 * ((v \div 256) % 256) = IF v < 0 THEN v + 65536 ELSE v
<1>1. PICK h, l \in Int : /\ h = v \div 256 /\ l = v % 256 /\ v = 256 * h + l
                         /\ 0 <= l /\ l < 256
  BY Divided
<1>2. -128 <= h /\ h <= 255
  BY <1>1
<1>3. h % 256 = IF h < 0 THEN h + 256 ELSE h
  BY ONLY <1>2, h \in Int
<1>4. (v % 256) + 256 * ((v \div 256) % 256) = l + 256 * (h % 256)
  BY <1>1
<1>5. v < 0 <=> h < 0
  BY <1>1
<1> QED
  BY <1>1, <1>3, <1>4, <1>5

\* rd_le16 and the cast to int16_t give back a coordinate of two bytes.
LEMMA WideComesBack ==
  ASSUME NEW v \in Int, -32768 <= v, v <= 32767
  PROVE  Signed16((v % 256) + 256 * ((v \div 256) % 256)) = v
<1>1. (v % 256) + 256 * ((v \div 256) % 256) = IF v < 0 THEN v + 65536 ELSE v
  BY TwoBytes
<1> QED
  BY <1>1 DEF Signed16

\* The cast to int8_t gives back a coordinate of one byte.
LEMMA NarrowComesBack ==
  ASSUME NEW v \in Int, -128 <= v, v <= 127
  PROVE  Signed8(v % 256) = v
<1>1. v % 256 = IF v < 0 THEN v + 256 ELSE v
  OBVIOUS
<1> QED
  BY <1>1 DEF Signed8

\* rd_le32 gives back an identifier.
LEMMA IdComesBack ==
  ASSUME NEW v \in Int, v >= 0, v \div 65536 < 65536
  PROVE  (v % 256) + 256 * ((v \div 256) % 256)
           + 65536 * (((v \div 65536) % 256) + 256 * (((v \div 65536) \div 256) % 256)) = v
<1>1. PICK h, l \in Int : /\ h = v \div 65536 /\ l = v % 65536 /\ v = 65536 * h + l
                         /\ 0 <= l /\ l < 65536
  BY Divided
<1>2. 0 <= h /\ h <= 65535
  BY <1>1
<1>3. (h % 256) + 256 * ((h \div 256) % 256) = h
  BY ONLY <1>2, h \in Int, TwoBytes
<1>4. PICK g, k \in Int : /\ g = v \div 256 /\ k = v % 256 /\ v = 256 * g + k
                         /\ 0 <= k /\ k < 256
  BY Divided
<1>5. PICK m, n \in Int : /\ m = g \div 256 /\ n = g % 256 /\ g = 256 * m + n
                         /\ 0 <= n /\ n < 256
  BY Divided
<1>6. k + 256 * n = l /\ m = h
  BY <1>1, <1>4, <1>5
<1>7. (v % 256) + 256 * ((v \div 256) % 256) = k + 256 * n
  BY <1>4, <1>5
<1>8. (((v \div 65536) % 256) + 256 * (((v \div 65536) \div 256) % 256)) = h
  BY <1>1, <1>3
<1> QED
  BY <1>1, <1>6, <1>7, <1>8

\* Where the bytes of a record are.
LEMMA Encoded ==
  ASSUME NEW caps, NEW r \in Record(caps)
  PROVE  LET e == Encode(r, caps)
             c == CoordBytes(caps)
             o == 1 + 2 * c + RotationBytes(caps)
         IN  /\ Len(e) = Stride(caps)
             /\ e[1] = r.shape_id
             /\ \A k \in 1 .. c : e[1 + k] = Coordinate(r.x, caps)[k]
             /\ \A k \in 1 .. c : e[1 + c + k] = Coordinate(r.y, caps)[k]
             /\ "body_id" \in caps => \A k \in 1 .. 4 : e[o + k] = Bytes4(r.body_id)[k]
<1> DEFINE a == <<r.shape_id>>
           b == Coordinate(r.x, caps)
           c == Coordinate(r.y, caps)
           d == IF "rotation" \in caps THEN <<0, 0, 0, 0>> ELSE <<>>
           f == IF "body_id" \in caps THEN Bytes4(r.body_id) ELSE <<>>
<1>1. r.shape_id \in Int /\ r.x \in Int /\ r.y \in Int /\ r.body_id \in Int
  BY DEF Record, Coordinates, BodyIds
<1>2. a \in Seq(Int) /\ Len(a) = 1 /\ a[1] = r.shape_id
  BY <1>1
<1>3. ASSUME NEW v \in Int
      PROVE  Coordinate(v, caps) \in Seq(Int) /\ Len(Coordinate(v, caps)) = CoordBytes(caps)
  BY DEF Coordinate, CoordBytes, Bytes2
<1>4. b \in Seq(Int) /\ Len(b) = CoordBytes(caps) /\ c \in Seq(Int) /\ Len(c) = CoordBytes(caps)
  BY <1>1, <1>3
<1>5. d \in Seq(Int) /\ Len(d) = RotationBytes(caps)
  BY DEF RotationBytes
<1>6. f \in Seq(Int) /\ Len(f) = BodyIdBytes(caps)
  <2>1. ASSUME NEW v \in Int PROVE Bytes2(v) \in Seq(Int) /\ Len(Bytes2(v)) = 2
    BY DEF Bytes2
  <2>2. r.body_id \div 65536 \in Int
    BY <1>1
  <2>3. PICK s : s = Bytes2(r.body_id)
    OBVIOUS
  <2>4. PICK t : t = Bytes2(r.body_id \div 65536)
    OBVIOUS
  <2>5. s \in Seq(Int) /\ Len(s) = 2
    BY <1>1, <2>1, <2>3
  <2>6. t \in Seq(Int) /\ Len(t) = 2
    BY <2>1, <2>2, <2>4
  <2>7. Len(s \o t) = Len(s) + Len(t) /\ s \o t \in Seq(Int)
    BY ONLY <2>5, <2>6, Joined
  <2>8. Bytes4(r.body_id) = s \o t
    BY <2>3, <2>4 DEF Bytes4
  <2>9. CASE "body_id" \in caps
    BY <2>5, <2>6, <2>7, <2>8, <2>9 DEF BodyIdBytes
  <2>10. CASE "body_id" \notin caps
    BY <2>10 DEF BodyIdBytes
  <2> QED
    BY <2>9, <2>10
<1>7. Encode(r, caps) = (((a \o b) \o c) \o d) \o f
  BY DEF Encode
<1>8. "body_id" \in caps => f = Bytes4(r.body_id) /\ Len(f) = 4
  BY <1>6 DEF BodyIdBytes
<1> HIDE DEF a, b, c, d, f
<1>a. a \in Seq(Int) /\ b \in Seq(Int) /\ c \in Seq(Int) /\ d \in Seq(Int) /\ f \in Seq(Int)
  BY <1>2, <1>4, <1>5, <1>6
<1>9. LET e == Encode(r, caps)
      IN  /\ Len(e) = Len(a) + Len(b) + Len(c) + Len(d) + Len(f)
          /\ \A k \in 1 .. Len(a) : e[k] = a[k]
          /\ \A k \in 1 .. Len(b) : e[Len(a) + k] = b[k]
          /\ \A k \in 1 .. Len(c) : e[Len(a) + Len(b) + k] = c[k]
          /\ \A k \in 1 .. Len(f) : e[Len(a) + Len(b) + Len(c) + Len(d) + k] = f[k]
  <2>1. PICK p : p = a \o b
    OBVIOUS
  <2>2. PICK q : q = p \o c
    OBVIOUS
  <2>3. PICK u : u = q \o d
    OBVIOUS
  <2>4. PICK e : e = u \o f
    OBVIOUS
  <2>5. /\ p \in Seq(Int) /\ Len(p) = Len(a) + Len(b)
        /\ \A k \in 1 .. Len(a) : p[k] = a[k]
        /\ \A k \in 1 .. Len(b) : p[Len(a) + k] = b[k]
    BY <1>a, <2>1, Joined
  <2>a. p \in Seq(Int)
    BY <2>5
  <2>b. c \in Seq(Int)
    BY <1>a
  <2>6. /\ q \in Seq(Int) /\ Len(q) = Len(p) + Len(c)
        /\ \A k \in 1 .. Len(p) : q[k] = p[k]
        /\ \A k \in 1 .. Len(c) : q[Len(p) + k] = c[k]
    BY ONLY <2>2, <2>a, <2>b, Joined
  <2>c. q \in Seq(Int)
    BY <2>6
  <2>d. d \in Seq(Int)
    BY <1>a
  <2>7. /\ u \in Seq(Int) /\ Len(u) = Len(q) + Len(d)
        /\ \A k \in 1 .. Len(q) : u[k] = q[k]
    BY ONLY <2>3, <2>c, <2>d, Joined
  <2>e. u \in Seq(Int)
    BY <2>7
  <2>f. f \in Seq(Int)
    BY <1>a
  <2>8. /\ e \in Seq(Int) /\ Len(e) = Len(u) + Len(f)
        /\ \A k \in 1 .. Len(u) : e[k] = u[k]
        /\ \A k \in 1 .. Len(f) : e[Len(u) + k] = f[k]
    BY ONLY <2>4, <2>e, <2>f, Joined
  <2>9. /\ Len(a) \in Nat /\ Len(b) \in Nat /\ Len(c) \in Nat /\ Len(d) \in Nat /\ Len(f) \in Nat
    BY <1>a
  <2>g. Len(p) \in Nat /\ Len(q) \in Nat /\ Len(p) <= Len(q) /\ Len(q) <= Len(u)
    BY <2>5, <2>6, <2>7, <2>9
  <2>10. ASSUME NEW k \in 1 .. Len(q) PROVE e[k] = q[k]
    <3>1. k \in 1 .. Len(u)
      BY <2>7, <2>9, <2>g
    <3> QED
      BY <3>1, <2>7, <2>8
  <2>11. ASSUME NEW k \in 1 .. Len(p) PROVE e[k] = p[k]
    <3>1. k \in 1 .. Len(q)
      BY <2>6, <2>9, <2>g
    <3> QED
      BY <3>1, <2>6, <2>10
  <2>12. \A k \in 1 .. Len(a) : e[k] = a[k]
    BY <2>5, <2>9, <2>11
  <2>13. ASSUME NEW k \in 1 .. Len(b) PROVE e[Len(a) + k] = b[k]
    <3>1. Len(a) + k \in 1 .. Len(p)
      BY <2>5, <2>9
    <3> QED
      BY <3>1, <2>5, <2>11
  <2>14. ASSUME NEW k \in 1 .. Len(c) PROVE e[Len(a) + Len(b) + k] = c[k]
    <3>1. Len(p) + k \in 1 .. Len(q)
      BY <2>5, <2>6, <2>9
    <3>2. e[Len(p) + k] = c[k]
      BY <3>1, <2>6, <2>10
    <3> QED
      BY <3>2, <2>5
  <2>15. Len(u) = Len(a) + Len(b) + Len(c) + Len(d)
    BY <2>5, <2>6, <2>7, <2>9
  <2>16. \A k \in 1 .. Len(f) : e[Len(a) + Len(b) + Len(c) + Len(d) + k] = f[k]
    BY <2>8, <2>15
  <2>17. Len(e) = Len(a) + Len(b) + Len(c) + Len(d) + Len(f)
    BY <2>8, <2>15
  <2>18. e = (((a \o b) \o c) \o d) \o f
    BY <2>1, <2>2, <2>3, <2>4
  <2> QED
    BY <1>7, <2>12, <2>13, <2>14, <2>16, <2>17, <2>18
<1>10. PICK e : e = Encode(r, caps)
  OBVIOUS
<1>11. PICK n \in Nat : n = CoordBytes(caps)
  BY DEF CoordBytes
<1>12. PICK m \in Nat : m = RotationBytes(caps)
  BY DEF RotationBytes
<1>13. PICK l \in Nat : l = BodyIdBytes(caps)
  BY DEF BodyIdBytes
<1>14. Len(e) = Stride(caps)
  <2>1. Len(e) = 1 + n + n + m + l
    BY <1>2, <1>4, <1>5, <1>6, <1>9, <1>10, <1>11, <1>12, <1>13
  <2> QED
    BY <2>1, <1>11, <1>12, <1>13 DEF Stride
<1>15. e[1] = r.shape_id
  BY <1>2, <1>9, <1>10
<1>16. \A k \in 1 .. n : e[1 + k] = b[k]
  BY <1>2, <1>4, <1>9, <1>10, <1>11
<1>17. \A k \in 1 .. n : e[1 + n + k] = c[k]
  BY <1>2, <1>4, <1>9, <1>10, <1>11
<1>18. "body_id" \in caps => \A k \in 1 .. 4 : e[1 + n + n + m + k] = Bytes4(r.body_id)[k]
  BY <1>2, <1>4, <1>5, <1>8, <1>9, <1>10, <1>11, <1>12
<1>19. 1 + 2 * n + m = 1 + n + n + m
  OBVIOUS
<1>20. b = Coordinate(r.x, caps) /\ c = Coordinate(r.y, caps)
  BY DEF b, c
<1> QED
  BY <1>10, <1>11, <1>12, <1>14, <1>15, <1>16, <1>17, <1>18, <1>19, <1>20

\* How long a record may be.
LEMMA Strides ==
  ASSUME NEW caps PROVE Stride(caps) \in {3, 5, 7, 9, 11, 13}
BY DEF Stride, CoordBytes, RotationBytes, BodyIdBytes

\* The place of the byte j of the record i, and back.
LEMMA Located ==
  ASSUME NEW s \in {3, 5, 7, 9, 11, 13}, NEW n \in Nat, NEW i \in 1 .. n, NEW j \in 1 .. s
  PROVE  /\ (i - 1) * s + j \in 1 .. n * s
         /\ ((i - 1) * s + j - 1) \div s = i - 1
         /\ ((i - 1) * s + j - 1) % s = j - 1
         /\ (n * s) \div s = n
<1>1. CASE s = 3
  BY <1>1
<1>2. CASE s = 5
  BY <1>2
<1>3. CASE s = 7
  BY <1>3
<1>4. CASE s = 9
  BY <1>4
<1>5. CASE s = 11
  BY <1>5
<1>6. CASE s = 13
  BY <1>6
<1> QED
  BY <1>1, <1>2, <1>3, <1>4, <1>5, <1>6

\* A payload is its records one behind the other.
LEMMA PayloadByte ==
  ASSUME NEW caps, NEW records \in Seq(Record(caps)), NEW i \in 1 .. Len(records),
         NEW j \in 1 .. Stride(caps)
  PROVE  Payload(records, caps)[(i - 1) * Stride(caps) + j] = Encode(records[i], caps)[j]
<1>1. PICK s \in {3, 5, 7, 9, 11, 13} : s = Stride(caps)
  BY Strides
<1>2. PICK n \in Nat : n = Len(records)
  OBVIOUS
<1>3. i \in 1 .. n /\ j \in 1 .. s
  BY <1>1, <1>2
<1>4. PICK k : k = (i - 1) * s + j
  OBVIOUS
<1>5. k \in 1 .. n * s /\ ((k - 1) \div s) + 1 = i /\ ((k - 1) % s) + 1 = j
  <2>1. /\ k \in 1 .. n * s
        /\ (k - 1) \div s = i - 1
        /\ (k - 1) % s = j - 1
    BY ONLY <1>3, <1>4, s \in {3, 5, 7, 9, 11, 13}, n \in Nat, Located
  <2>2. i \in Int /\ j \in Int
    BY <1>3
  <2> QED
    BY ONLY <2>1, <2>2
<1>6. Payload(records, caps)[k] = Encode(records[((k - 1) \div s) + 1], caps)[((k - 1) % s) + 1]
  BY <1>1, <1>2, <1>5 DEF Payload
<1> QED
  BY <1>1, <1>4, <1>5, <1>6

\* As many records are decoded as are told, were sent, and have room.
LEMMA RecordsCounted ==
  ASSUME NEW caps, NEW records \in Seq(Record(caps)), NEW count \in Nat, NEW out_max \in Nat
  PROVE  LET n == Count(Payload(records, caps), count, caps, out_max)
         IN  /\ n \in {count, out_max, Len(records)}
             /\ n <= count /\ n <= out_max /\ n <= Len(records)
<1>1. PICK s \in {3, 5, 7, 9, 11, 13} : s = Stride(caps)
  BY Strides
<1>2. PICK l \in Nat : l = Len(records)
  OBVIOUS
<1>3. PICK p : p = Payload(records, caps)
  OBVIOUS
<1>4. l * s \in Nat /\ (l * s) \div s = l
  <2>1. CASE s = 3
    BY ONLY <2>1, l \in Nat
  <2>2. CASE s = 5
    BY ONLY <2>2, l \in Nat
  <2>3. CASE s = 7
    BY ONLY <2>3, l \in Nat
  <2>4. CASE s = 9
    BY ONLY <2>4, l \in Nat
  <2>5. CASE s = 11
    BY ONLY <2>5, l \in Nat
  <2>6. CASE s = 13
    BY ONLY <2>6, l \in Nat
  <2> QED
    BY <2>1, <2>2, <2>3, <2>4, <2>5, <2>6
<1>5. Len(p) = l * s
  BY <1>1, <1>2, <1>3, <1>4 DEF Payload
<1>6. Len(p) \div Stride(caps) = l
  BY <1>1, <1>4, <1>5
<1>7. \E m \in {count, out_max, l} : m <= count /\ m <= out_max /\ m <= l
  OBVIOUS
<1>8. Count(p, count, caps, out_max)
        = CHOOSE m \in {count, out_max, l} : m <= count /\ m <= out_max /\ m <= l
  BY <1>6 DEF Count
<1>9. PICK n : n = Count(p, count, caps, out_max)
  OBVIOUS
<1>10. n \in {count, out_max, l} /\ n <= count /\ n <= out_max /\ n <= l
  BY ONLY <1>7, <1>8, <1>9
<1> QED
  BY <1>2, <1>3, <1>9, <1>10

\* bwc_decode_shapes gives back the records that the server packed, whatever the two
\* have agreed on: as many as are told, were received and have room, each as it was.
THEOREM DecodingGivesBack ==
  ASSUME NEW caps, NEW records \in Seq(Record(caps)), NEW count \in Nat, NEW out_max \in Nat
  PROVE  LET d == Decode(Payload(records, caps), count, caps, out_max)
         IN  /\ Len(d) \in {count, out_max, Len(records)}
             /\ Len(d) <= count /\ Len(d) <= out_max /\ Len(d) <= Len(records)
             /\ \A i \in 1 .. Len(d) : d[i] = records[i]
<1>1. PICK n : n = Count(Payload(records, caps), count, caps, out_max)
  OBVIOUS
<1>2. n \in {count, out_max, Len(records)} /\ n <= count /\ n <= out_max /\ n <= Len(records)
  BY <1>1, RecordsCounted
<1>3. n \in Nat
  BY <1>2
<1>4. PICK p : p = Payload(records, caps)
  OBVIOUS
<1>5. PICK c \in {1, 2} : c = CoordBytes(caps)
  BY DEF CoordBytes
<1>6. PICK o \in {0, 4} : o = RotationBytes(caps)
  BY DEF RotationBytes
<1>7. PICK s \in Nat : s = Stride(caps)
  BY Strides
<1>8. PICK d : d = Decode(p, count, caps, out_max)
  OBVIOUS
<1> DEFINE Behind(i, bytes) == (i - 1) * s + bytes + 1
           Signed(at) == IF "wide" \in caps THEN Signed16(rd_le16(p, at)) ELSE Signed8(p[at])
<1>9. d = [i \in 1 .. n |->
         [shape_id |-> p[Behind(i, 0)],
          x        |-> Signed(Behind(i, 1)),
          y        |-> Signed(Behind(i, 1 + c)),
          body_id  |-> IF "body_id" \in caps THEN rd_le32(p, Behind(i, 1 + 2 * c + o)) ELSE 0]]
  BY <1>1, <1>4, <1>5, <1>6, <1>7, <1>8 DEF Decode
<1>10. Len(d) = n
  BY <1>3, <1>9
<1>11. ASSUME NEW i \in 1 .. n PROVE d[i] = records[i]
  <2>1. i \in 1 .. Len(records) /\ i \in Int
    BY <1>2, <1>3
  <2>2. PICK r : r = records[i]
    OBVIOUS
  <2>3. r \in Record(caps)
    BY <2>1, <2>2
  <2>4. PICK e : e = Encode(r, caps)
    OBVIOUS
  <2>5. PICK z \in Int : z = (i - 1) * s
    BY <2>1
  <2>6. \A j \in 1 .. s : p[z + j] = e[j]
    BY <1>4, <1>7, <2>1, <2>2, <2>4, <2>5, PayloadByte
  <2>7. /\ e[1] = r.shape_id
        /\ \A k \in 1 .. c : e[1 + k] = Coordinate(r.x, caps)[k]
        /\ \A k \in 1 .. c : e[1 + c + k] = Coordinate(r.y, caps)[k]
        /\ "body_id" \in caps => \A k \in 1 .. 4 : e[1 + 2 * c + o + k] = Bytes4(r.body_id)[k]
    BY <1>5, <1>6, <2>3, <2>4, Encoded, SMTT(30)
  <2>8. /\ s >= 1 + 2 * c + o
        /\ "body_id" \in caps => s = 1 + 2 * c + o + 4
    BY <1>5, <1>6, <1>7 DEF Stride, BodyIdBytes
  <2>9. r.x \in Coordinates(caps) /\ r.y \in Coordinates(caps) /\ r.body_id \in BodyIds(caps)
    BY <2>3 DEF Record
  <2>10. d[i].shape_id = r.shape_id
    <3>1. d[i].shape_id = p[z + 1]
      BY <1>9, <2>5
    <3> QED
      BY <2>6, <2>7, <2>8, <3>1
  <2>11. ASSUME NEW v \in Coordinates(caps), NEW at \in Int,
                \A k \in 1 .. c : p[at + k - 1] = Coordinate(v, caps)[k]
         PROVE  Signed(at) = v
    <3>1. CASE "wide" \in caps
      <4>1. p[at] = v % 256 /\ p[at + 1] = (v \div 256) % 256
        BY <1>5, <2>11, <3>1 DEF CoordBytes, Coordinate, Bytes2
      <4>2. v \in Int /\ -32768 <= v /\ v <= 32767
        BY <3>1 DEF Coordinates
      <4>3. Signed(at) = Signed16((v % 256) + 256 * ((v \div 256) % 256))
        BY <3>1, <4>1 DEF rd_le16
      <4> QED
        BY ONLY <4>2, <4>3, WideComesBack
    <3>2. CASE "wide" \notin caps
      <4>1. p[at] = v % 256
        BY <1>5, <2>11, <3>2 DEF CoordBytes, Coordinate
      <4>2. v \in Int /\ -128 <= v /\ v <= 127
        BY <3>2 DEF Coordinates
      <4>3. Signed(at) = Signed8(v % 256)
        BY <3>2, <4>1
      <4> QED
        BY ONLY <4>2, <4>3, NarrowComesBack
    <3> QED
      BY <3>1, <3>2
  <2>12. d[i].x = r.x
    <3>1. Behind(i, 1) = z + 2 /\ z + 2 \in Int
      BY <2>5
    <3>2. ASSUME NEW k \in 1 .. c PROVE p[z + 2 + k - 1] = Coordinate(r.x, caps)[k]
      <4>1. 1 + k \in 1 .. s /\ z + 2 + k - 1 = z + (1 + k)
        BY <1>5, <1>6, <2>8
      <4> QED
        BY <2>6, <2>7, <4>1
    <3>3. Signed(z + 2) = r.x
      BY <2>9, <2>11, <3>1, <3>2
    <3> QED
      BY <1>9, <3>1, <3>3
  <2>13. d[i].y = r.y
    <3>1. Behind(i, 1 + c) = z + 2 + c /\ z + 2 + c \in Int
      BY <1>5, <2>5
    <3>2. ASSUME NEW k \in 1 .. c PROVE p[z + 2 + c + k - 1] = Coordinate(r.y, caps)[k]
      <4>1. 1 + c + k \in 1 .. s /\ z + 2 + c + k - 1 = z + (1 + c + k)
        BY <1>5, <1>6, <2>8, SMTT(30)
      <4> QED
        BY <2>6, <2>7, <4>1
    <3>3. Signed(z + 2 + c) = r.y
      BY <2>9, <2>11, <3>1, <3>2
    <3> QED
      BY <1>9, <3>1, <3>3
  <2>14. d[i].body_id = r.body_id
    <3>1. CASE "body_id" \in caps
      <4>1. PICK at \in Int : at = z + 2 + 2 * c + o
        BY <1>5, <1>6
      <4>2. Behind(i, 1 + 2 * c + o) = at
        BY <1>5, <1>6, <2>5, <4>1
      <4>3. ASSUME NEW k \in 1 .. 4 PROVE p[at + k - 1] = Bytes4(r.body_id)[k]
        <5>1. 1 + 2 * c + o + k \in 1 .. s /\ at + k - 1 = z + (1 + 2 * c + o + k)
          <6>1. s = 1 + 2 * c + o + 4 /\ k \in Int /\ 1 <= k /\ k <= 4
            BY <2>8, <3>1
          <6>2. c \in Int /\ o \in Int /\ 0 <= c /\ 0 <= o
            BY <1>5, <1>6
          <6> QED
            BY ONLY <4>1, <6>1, <6>2, z \in Int
        <5> QED
          BY <2>6, <2>7, <3>1, <5>1
      <4>4. PICK v : v = r.body_id
        OBVIOUS
      <4>5. v \in Int /\ v >= 0 /\ v \div 65536 < 65536
        BY <2>9, <3>1, <4>4 DEF BodyIds
      <4>6. /\ Bytes4(v)[1] = v % 256 /\ Bytes4(v)[2] = (v \div 256) % 256
            /\ Bytes4(v)[3] = (v \div 65536) % 256
            /\ Bytes4(v)[4] = ((v \div 65536) \div 256) % 256
        BY <4>5 DEF Bytes4, Bytes2
      <4>7. rd_le32(p, at) = p[at] + 256 * p[at + 1] + 65536 * (p[at + 2] + 256 * p[at + 3])
        BY <4>1 DEF rd_le32, rd_le16
      <4>8. /\ p[at] = v % 256 /\ p[at + 1] = (v \div 256) % 256
            /\ p[at + 2] = (v \div 65536) % 256
            /\ p[at + 3] = ((v \div 65536) \div 256) % 256
        BY <4>3, <4>4, <4>6
      <4>9. rd_le32(p, at) = v
        BY ONLY <4>5, <4>7, <4>8, IdComesBack, SMTT(30)
      <4> QED
        BY <1>9, <3>1, <4>2, <4>4, <4>9
    <3>2. CASE "body_id" \notin caps
      BY <1>9, <2>9, <3>2 DEF BodyIds
    <3> QED
      BY <3>1, <3>2
  <2> QED
    BY <1>9, <2>2, <2>3, <2>10, <2>12, <2>13, <2>14 DEF Record
<1> QED
  BY <1>2, <1>4, <1>8, <1>10, <1>11

-----------------------------------------------------------------------------
(* What the server sends.                                                  *)

\* Where the centre of an image may be.
Columns == {v \in Int : -Margin <= v /\ v <= Width + Margin - 1}
Rows == {v \in Int : -Margin <= v /\ v <= Height + Margin - 1}

Visible == [shape_id : {0}, body_id : Bodies, x : Columns, y : Rows]

\* The constants are what they are.
LEMMA Sizes ==
  /\ Width \in Nat /\ Width > 0 /\ Height \in Nat /\ Height > 0 /\ Margin \in Nat
  /\ Margin <= Width /\ Margin <= Height
  /\ Width + Margin <= 32768 /\ Height + Margin <= 32768
BY ScreenAssumption, MarginAssumption

\* A place that a body may be at is on the screen.
LEMMA PlacesAre ==
  ASSUME NEW at \in Somewhere, NEW b \in Bodies
  PROVE  /\ \A p \in at[b] : /\ p = [x |-> p.x, y |-> p.y]
                             /\ p.x \in Int /\ 0 <= p.x /\ p.x < Width
                             /\ p.y \in Int /\ 0 <= p.y /\ p.y < Height
         /\ at[b] = {} \/ \E p \in at[b] : at[b] = {p}
<1>1. at[b] \subseteq Places[b]
  BY DEF Somewhere
<1>2. at[b] \in {{}} \union UNION {{{p} : p \in Places[c]} : c \in Bodies}
  BY DEF Somewhere
<1>3. ASSUME NEW p \in at[b]
      PROVE  /\ p = [x |-> p.x, y |-> p.y]
             /\ p.x \in Int /\ 0 <= p.x /\ p.x < Width
             /\ p.y \in Int /\ 0 <= p.y /\ p.y < Height
  <2>1. p \in [x : 0 .. Width - 1, y : 0 .. Height - 1]
    BY <1>1, PlacesAssumption
  <2>2. p.x \in 0 .. Width - 1 /\ p.y \in 0 .. Height - 1 /\ p = [x |-> p.x, y |-> p.y]
    BY <2>1
  <2> QED
    BY <2>2, Sizes
<1>4. at[b] = {} \/ \E p \in at[b] : at[b] = {p}
  BY <1>2
<1> QED
  BY <1>3, <1>4

\* The images that are seen, one by one.
LEMMA SeenAre ==
  ASSUME NEW w \in BOOLEAN, NEW at \in Somewhere
  PROVE  \A r : r \in Seen(w, at) <=>
           \E b \in Bodies : \E p \in at[b] : \E i, j \in Tiles(w) :
             /\ r = [shape_id |-> 0, body_id |-> b, x |-> p.x + i * Width, y |-> p.y + j * Height]
             /\ r.x \in Columns /\ r.y \in Rows
<1>1. ASSUME NEW b \in Bodies, NEW p \in at[b], NEW r
      PROVE  r \in Images(w, b, p) <=>
               \E i, j \in Tiles(w) :
                 /\ r = [shape_id |-> 0, body_id |-> b, x |-> p.x + i * Width, y |-> p.y + j * Height]
                 /\ r.x \in Columns /\ r.y \in Rows
  <2>1. p.x \in Int /\ p.y \in Int
    BY PlacesAre
  <2>2. ASSUME NEW i \in Tiles(w) PROVE i \in Int
    BY <2>2 DEF Tiles
  <2>3. ASSUME NEW i \in Tiles(w), NEW j \in Tiles(w)
        PROVE  p.x + i * Width \in Int /\ p.y + j * Height \in Int
    BY <2>1, <2>2, Sizes
  <2>4. \A v \in Int : /\ v \in -Margin .. Width + Margin - 1 <=> v \in Columns
                       /\ v \in -Margin .. Height + Margin - 1 <=> v \in Rows
    BY Sizes DEF Columns, Rows
  <2> QED
    BY <2>3, <2>4 DEF Images
<1> QED
  BY <1>1 DEF Seen

\* The visible images are finitely many.
LEMMA SeenIsFinite ==
  ASSUME NEW w \in BOOLEAN, NEW at \in Somewhere
  PROVE  Seen(w, at) \subseteq Visible /\ IsFiniteSet(Seen(w, at))
<1>1. Seen(w, at) \subseteq Visible
  <2> SUFFICES ASSUME NEW r \in Seen(w, at) PROVE r \in Visible
    OBVIOUS
  <2>1. PICK b \in Bodies : \E p \in at[b] : \E i, j \in Tiles(w) :
          /\ r = [shape_id |-> 0, body_id |-> b, x |-> p.x + i * Width, y |-> p.y + j * Height]
          /\ r.x \in Columns /\ r.y \in Rows
    BY SeenAre
  <2>2. PICK x, y : r = [shape_id |-> 0, body_id |-> b, x |-> x, y |-> y] /\ x \in Columns /\ y \in Rows
    BY <2>1
  <2> QED
    BY <2>2 DEF Visible
<1>2. IsFiniteSet(Columns) /\ IsFiniteSet(Rows)
  <2>1. Columns = -Margin .. Width + Margin - 1 /\ Rows = -Margin .. Height + Margin - 1
    BY Sizes DEF Columns, Rows
  <2>2. -Margin \in Int /\ Width + Margin - 1 \in Int /\ Height + Margin - 1 \in Int
    BY Sizes
  <2>3. IsFiniteSet(Columns)
    BY ONLY <2>1, <2>2, FS_Interval
  <2>4. IsFiniteSet(Rows)
    BY ONLY <2>1, <2>2, FS_Interval
  <2> QED
    BY <2>3, <2>4
<1>3. IsFiniteSet(Bodies)
  BY PlacesAssumption
<1>4. PICK T : T = Bodies \X (Columns \X Rows)
  OBVIOUS
<1>5. IsFiniteSet(T)
  <2>1. IsFiniteSet(Columns \X Rows)
    BY <1>2, FS_Product
  <2> QED
    BY <1>3, <1>4, <2>1, FS_Product
<1>6. PICK f : f = [r \in Visible |-> <<r.body_id, <<r.x, r.y>>>>]
  OBVIOUS
<1>7. f \in Injection(Visible, T)
  <2>1. f \in [Visible -> T]
    BY <1>4, <1>6 DEF Visible
  <2>2. ASSUME NEW r \in Visible, NEW s \in Visible, f[r] = f[s] PROVE r = s
    <3>1. r.body_id = s.body_id /\ r.x = s.x /\ r.y = s.y
      BY <1>6, <2>2
    <3>2. r.shape_id = 0 /\ s.shape_id = 0
      BY DEF Visible
    <3>3. /\ r = [shape_id |-> r.shape_id, body_id |-> r.body_id, x |-> r.x, y |-> r.y]
          /\ s = [shape_id |-> s.shape_id, body_id |-> s.body_id, x |-> s.x, y |-> s.y]
      BY DEF Visible
    <3> QED
      BY <3>1, <3>2, <3>3
  <2> QED
    BY <2>1, <2>2, Fun_IsInj
<1>8. IsFiniteSet(Visible)
  BY <1>5, <1>7, FS_Injection
<1> QED
  BY <1>1, <1>8, FS_Subset

\* The server's order is a total one.
LEMMA Ordered ==
  ASSUME NEW r \in Visible, NEW s \in Visible
  PROVE  /\ ~Before(r, r)
         /\ r = s \/ Before(r, s) \/ Before(s, r)
         /\ \A q \in Visible : Before(q, r) /\ Before(r, s) => Before(q, s)
<1>1. ASSUME NEW q \in Visible
      PROVE  /\ q.body_id \in Int /\ q.x \in Int /\ q.y \in Int
             /\ q = [shape_id |-> 0, body_id |-> q.body_id, x |-> q.x, y |-> q.y]
  <2>1. q.body_id \in Bodies /\ q.x \in Columns /\ q.y \in Rows /\ q.shape_id = 0
    BY DEF Visible
  <2>2. q = [shape_id |-> q.shape_id, body_id |-> q.body_id, x |-> q.x, y |-> q.y]
    BY DEF Visible
  <2>3. q.body_id \in Int
    BY <2>1, PlacesAssumption
  <2>4. q.x \in Int /\ q.y \in Int
    BY <2>1 DEF Columns, Rows
  <2> QED
    BY <2>1, <2>2, <2>3, <2>4
<1>2. ~Before(r, r)
  BY <1>1 DEF Before
<1>3. r = s \/ Before(r, s) \/ Before(s, r)
  <2>1. r.body_id = s.body_id /\ r.x = s.x /\ r.y = s.y => r = s
    BY <1>1
  <2>2. /\ r.body_id \in Int /\ r.x \in Int /\ r.y \in Int
        /\ s.body_id \in Int /\ s.x \in Int /\ s.y \in Int
    BY <1>1
  <2> QED
    BY <2>1, <2>2 DEF Before
<1>4. ASSUME NEW q \in Visible, Before(q, r), Before(r, s) PROVE Before(q, s)
  BY <1>1, <1>4 DEF Before
<1> QED
  BY <1>2, <1>3, <1>4

\* Ranked by that order, the elements of a finite set are numbered from 0.
LEMMA Ranked ==
  ASSUME NEW A \in SUBSET Visible, IsFiniteSet(A)
  PROVE  LET rank == [r \in A |-> Cardinality({s \in A : Before(s, r)})]
         IN  rank \in Bijection(A, 0 .. Cardinality(A) - 1)
<1> DEFINE Lower(r) == {s \in A : Before(s, r)}
<1>1. PICK n \in Nat : n = Cardinality(A)
  BY FS_CardinalityType
<1>2. PICK rank : rank = [r \in A |-> Cardinality(Lower(r))]
  OBVIOUS
<1>3. ASSUME NEW r \in A
      PROVE  IsFiniteSet(Lower(r)) /\ Cardinality(Lower(r)) \in Nat /\ Cardinality(Lower(r)) < n
  <2>1. Lower(r) \in SUBSET A /\ r \in A /\ r \notin Lower(r)
    BY Ordered
  <2>2. Lower(r) # A
    BY <2>1
  <2>3. /\ IsFiniteSet(Lower(r)) /\ Cardinality(Lower(r)) <= Cardinality(A)
        /\ Cardinality(A) = Cardinality(Lower(r)) => A = Lower(r)
    BY <2>1, FS_Subset
  <2>4. Cardinality(Lower(r)) \in Nat
    BY <2>3, FS_CardinalityType
  <2> QED
    BY <1>1, <2>2, <2>3, <2>4
<1>4. ASSUME NEW r \in A, NEW s \in A, Before(r, s) PROVE rank[r] < rank[s]
  <2>1. Lower(r) \subseteq Lower(s)
    BY <1>4, Ordered
  <2>2. r \in Lower(s) /\ r \notin Lower(r)
    BY <1>4, Ordered
  <2>3. /\ Cardinality(Lower(r)) <= Cardinality(Lower(s))
        /\ Cardinality(Lower(s)) = Cardinality(Lower(r)) => Lower(s) = Lower(r)
    BY <1>3, <2>1, FS_Subset
  <2>4. Lower(s) # Lower(r)
    BY <2>2
  <2>5. rank[r] = Cardinality(Lower(r)) /\ rank[s] = Cardinality(Lower(s))
    BY <1>2
  <2>6. Cardinality(Lower(r)) \in Nat /\ Cardinality(Lower(s)) \in Nat
    BY <1>3
  <2> HIDE DEF Lower
  <2> QED
    BY <2>3, <2>4, <2>5, <2>6
<1>5. rank \in [A -> 0 .. n - 1]
  BY <1>1, <1>2, <1>3
<1>6. ASSUME NEW r \in A, NEW s \in A, rank[r] = rank[s] PROVE r = s
  <2>1. rank[r] \in Int /\ rank[s] \in Int
    BY <1>5
  <2> QED
    BY <1>4, <1>6, <2>1, Ordered
<1>7. rank \in Injection(A, 0 .. n - 1)
  BY <1>5, <1>6, Fun_IsInj
<1>8. IsFiniteSet(0 .. n - 1) /\ Cardinality(0 .. n - 1) = n
  BY FS_Interval
<1>9. rank \in Surjection(A, 0 .. n - 1)
  BY <1>1, <1>7, <1>8, FS_Injection
<1>10. rank \in Bijection(A, 0 .. n - 1)
  BY <1>7, <1>9, Fun_IsBij
<1> QED
  BY <1>1, <1>2, <1>10

\* A snapshot has every visible image and nothing else, and its records can be packed.
LEMMA SentAre ==
  ASSUME NEW w \in BOOLEAN, NEW at \in Somewhere
  PROVE  /\ Sent(w, at) \in Seq(Visible)
         /\ Sent(w, at) \in Seq(Record(REQUESTED_CAPS))
         /\ \A i \in 1 .. Len(Sent(w, at)) : Sent(w, at)[i] \in Seen(w, at)
         /\ \A r \in Seen(w, at) : \E i \in 1 .. Len(Sent(w, at)) : Sent(w, at)[i] = r
<1>1. PICK A : A = Seen(w, at)
  OBVIOUS
<1>2. A \in SUBSET Visible /\ IsFiniteSet(A)
  BY <1>1, SeenIsFinite
<1>3. PICK n \in Nat : n = Cardinality(A)
  BY <1>2, FS_CardinalityType
<1>4. PICK rank : rank = [r \in A |-> Cardinality({s \in A : Before(s, r)})]
  OBVIOUS
<1>5. rank \in Bijection(A, 0 .. n - 1)
  BY ONLY <1>2, <1>3, <1>4, Ranked
<1>6. /\ rank \in [A -> 0 .. n - 1]
      /\ \A r, s \in A : rank[r] = rank[s] => r = s
      /\ \A k \in 0 .. n - 1 : \E r \in A : rank[r] = k
  BY <1>5 DEF Bijection, Injection, Surjection, IsInjective
<1>7. PICK t : t = [i \in 1 .. n |-> CHOOSE r \in A : rank[r] = i - 1]
  OBVIOUS
<1>8. Sent(w, at) = t
  <2>1. Sent(w, at) = [i \in 1 .. n |->
                         CHOOSE r \in A : Cardinality({s \in A : Before(s, r)}) = i - 1]
    BY <1>1, <1>3 DEF Sent
  <2>2. ASSUME NEW i \in 1 .. n
        PROVE  (CHOOSE r \in A : Cardinality({s \in A : Before(s, r)}) = i - 1)
                 = CHOOSE r \in A : rank[r] = i - 1
    BY <1>4
  <2> QED
    BY <1>7, <2>1, <2>2
<1>9. ASSUME NEW i \in 1 .. n PROVE t[i] \in A /\ rank[t[i]] = i - 1
  <2>1. i - 1 \in 0 .. n - 1
    OBVIOUS
  <2>2. \E r \in A : rank[r] = i - 1
    BY <1>6, <2>1
  <2> QED
    BY <1>7, <2>2
<1>10. ASSUME NEW r \in A PROVE \E i \in 1 .. n : t[i] = r
  <2>1. rank[r] \in 0 .. n - 1
    BY <1>6
  <2>2. PICK i \in 1 .. n : i - 1 = rank[r]
    <3>1. rank[r] + 1 \in 1 .. n /\ (rank[r] + 1) - 1 = rank[r]
      BY <2>1
    <3> QED
      BY <3>1
  <2> QED
    BY <1>6, <1>9, <2>2
<1>11. Len(t) = n /\ t \in [1 .. n -> A]
  BY <1>7, <1>9
<1>12. t \in Seq(Visible)
  BY <1>2, <1>11
<1>13. ASSUME NEW r \in Visible PROVE r \in Record(REQUESTED_CAPS)
  <2>1. r.shape_id \in 0 .. 255
    BY DEF Visible
  <2>2. r.x \in Int /\ -32768 <= r.x /\ r.x <= 32767
    <3>1. r.x \in Columns
      BY DEF Visible
    <3> QED
      BY <3>1, Sizes DEF Columns
  <2>3. r.y \in Int /\ -32768 <= r.y /\ r.y <= 32767
    <3>1. r.y \in Rows
      BY DEF Visible
    <3> QED
      BY <3>1, Sizes DEF Rows
  <2>4. r.body_id \in Nat /\ r.body_id \div 65536 < 65536
    <3>1. r.body_id \in Bodies
      BY DEF Visible
    <3> QED
      BY <3>1, PlacesAssumption
  <2>5. r = [shape_id |-> r.shape_id, x |-> r.x, y |-> r.y, body_id |-> r.body_id]
    BY DEF Visible
  <2>6. r.x \in Coordinates(REQUESTED_CAPS)
    BY <2>2 DEF Coordinates, REQUESTED_CAPS
  <2>7. r.y \in Coordinates(REQUESTED_CAPS)
    BY <2>3 DEF Coordinates, REQUESTED_CAPS
  <2>8. r.body_id \in BodyIds(REQUESTED_CAPS)
    BY <2>4 DEF BodyIds, REQUESTED_CAPS
  <2> QED
    BY <2>1, <2>5, <2>6, <2>7, <2>8 DEF Record
<1>14. t \in Seq(Record(REQUESTED_CAPS))
  BY <1>2, <1>11, <1>13
<1> QED
  BY <1>1, <1>8, <1>9, <1>10, <1>11, <1>12, <1>14

\* What is computed once is what it is.
LEMMA OnceIs == ASSUME NEW f PROVE Once(f) = f
BY DEF Once

\* The client has what the server sent.
LEMMA ReceivedIsSent ==
  ASSUME NEW w \in BOOLEAN, NEW at \in Somewhere
  PROVE  Records[<<w, at>>] = Sent(w, at) /\ Received[<<w, at>>] = Sent(w, at)
<1>1. PICK here \in Worlds : here = <<w, at>>
  BY DEF Worlds
<1>2. Records[here] = Sent(w, at)
  BY <1>1, OnceIs DEF Records
<1>3. PICK s : s = Sent(w, at)
  OBVIOUS
<1>4. s \in Seq(Record(REQUESTED_CAPS))
  BY <1>3, SentAre
<1>5. PICK n \in Nat : n = Len(s)
  BY <1>4
<1>6. n <= SHAPE_POS_MAX /\ SHAPE_POS_MAX \in Nat
  BY <1>2, <1>3, <1>5, RoomAssumption DEF SHAPE_POS_MAX
<1>7. PICK d : d = Decode(Payload(s, REQUESTED_CAPS), n, REQUESTED_CAPS, SHAPE_POS_MAX)
  OBVIOUS
<1>8. /\ Len(d) \in {n, SHAPE_POS_MAX, Len(s)}
      /\ Len(d) <= n /\ Len(d) <= SHAPE_POS_MAX /\ Len(d) <= Len(s)
      /\ \A i \in 1 .. Len(d) : d[i] = s[i]
  BY <1>4, <1>5, <1>6, <1>7, DecodingGivesBack
<1>9. Len(d) = n
  BY <1>5, <1>6, <1>8
<1>10. d \in Seq({d[i] : i \in 1 .. n})
  <2>1. PICK m \in Nat : d = [i \in 1 .. m |-> d[i]]
    <3>1. Count(Payload(s, REQUESTED_CAPS), n, REQUESTED_CAPS, SHAPE_POS_MAX) \in Nat
      BY <1>4, <1>5, <1>6, RecordsCounted
    <3> QED
      BY <1>7, <3>1 DEF Decode
  <2>2. Len(d) = m
    BY <2>1
  <2> QED
    BY <1>9, <2>1, <2>2
<1>11. d = s
  BY <1>4, <1>5, <1>8, <1>9, <1>10
<1>12. Received[here]
         = Decode(Payload(Records[here], REQUESTED_CAPS), Len(Records[here]), REQUESTED_CAPS,
                  SHAPE_POS_MAX)
  BY OnceIs DEF Received
<1>13. Received[here] = s
  BY <1>2, <1>3, <1>5, <1>7, <1>11, <1>12
<1> QED
  BY <1>1, <1>2, <1>3, <1>13

-----------------------------------------------------------------------------
(* The nearest image.                                                      *)

\* Natural numbers have a least one among them.
LEMMA LeastOfNaturals ==
  ASSUME NEW S \in SUBSET Nat, S # {}
  PROVE  \E d \in S : \A e \in S : d <= e
<1>1. PICK T : T = {0 .. n : n \in S}
  OBVIOUS
<1>2. ASSUME NEW n \in S PROVE 0 .. n \in FiniteSubsetsOf(Nat)
  BY FS_Interval DEF FiniteSubsetsOf
<1>3. PICK R : R = StrictSubsetOrdering(Nat)
  OBVIOUS
<1>4. PICK F : F = FiniteSubsetsOf(Nat)
  OBVIOUS
<1>5. IsWellFoundedOn(R, F)
  BY <1>3, <1>4, FS_StrictSubsetOrderingWellFounded
<1>6. T \subseteq F /\ T # {}
  BY <1>1, <1>2, <1>4
<1>7. \E x \in T : \A y \in T : ~(<<y, x>> \in R)
  BY ONLY <1>5, <1>6, WFMin
<1>8. PICK d \in S : \A y \in T : ~(<<y, 0 .. d>> \in R)
  BY <1>1, <1>7
<1>9. ASSUME NEW e \in S, e < d PROVE FALSE
  <2>1. e \in Nat /\ d \in Nat
    OBVIOUS
  <2>2. d \in 0 .. d /\ d \notin 0 .. e
    BY <1>9, <2>1
  <2>3. 0 .. e \subseteq 0 .. d /\ 0 .. e # 0 .. d
    BY <1>9, <2>1, <2>2
  <2>4. 0 .. e \in SUBSET Nat /\ 0 .. d \in SUBSET Nat
    OBVIOUS
  <2>5. <<0 .. e, 0 .. d>> \in StrictSubsetOrdering(Nat)
    BY <2>3, <2>4 DEF StrictSubsetOrdering
  <2> QED
    BY <1>1, <1>3, <1>8, <2>5
<1> QED
  BY <1>9

\* And integers, when something is below all of them.
LEMMA LeastIs ==
  ASSUME NEW S \in SUBSET Int, S # {}, NEW b \in Int, \A s \in S : b <= s
  PROVE  Least(S) \in S /\ \A e \in S : Least(S) <= e
<1>1. PICK T : T = {s - b : s \in S}
  OBVIOUS
<1>2. ASSUME NEW s \in S PROVE s - b \in Nat
  <2>1. s \in Int /\ b <= s
    OBVIOUS
  <2> QED
    BY <2>1
<1>3. T \in SUBSET Nat /\ T # {}
  BY <1>1, <1>2
<1>4. \E d \in T : \A e \in T : d <= e
  BY ONLY <1>3, LeastOfNaturals
<1>5. PICK d \in S : \A e \in T : d - b <= e
  BY <1>1, <1>4
<1>6. ASSUME NEW e \in S PROVE d <= e
  <2>1. e - b \in T
    BY <1>1
  <2>2. d - b <= e - b
    BY <1>5, <2>1
  <2> QED
    BY <2>2
<1> QED
  BY <1>6 DEF Least

\* Of a set of candidates, one is the first.
LEMMA FirstIs ==
  ASSUME NEW best \in SUBSET (Nat \X Int \X Int), best # {}, NEW b \in Int,
         \A k \in best : b <= k[2] /\ b <= k[3]
  PROVE  LET first == CHOOSE k \in best : \A l \in best : k = l \/ Earlier(k, l)
         IN  first \in best
<1>1. PICK A : A = {k[1] : k \in best}
  OBVIOUS
<1>2. A \in SUBSET Nat /\ A # {}
  BY <1>1
<1>3. PICK u \in A : \A e \in A : u <= e
  BY ONLY <1>2, LeastOfNaturals
<1>4. PICK B : B = {k[2] : k \in {k \in best : k[1] = u}}
  OBVIOUS
<1>5. B \in SUBSET Int /\ B # {} /\ \A e \in B : b <= e
  BY <1>1, <1>4
<1>6. PICK v \in B : \A e \in B : v <= e
  BY ONLY <1>5, b \in Int, LeastIs
<1>7. PICK C : C = {k[3] : k \in {k \in best : k[1] = u /\ k[2] = v}}
  OBVIOUS
<1>8. C \in SUBSET Int /\ C # {} /\ \A e \in C : b <= e
  BY <1>4, <1>7
<1>9. PICK w \in C : \A e \in C : w <= e
  BY ONLY <1>8, b \in Int, LeastIs
<1>10. PICK k \in best : k[1] = u /\ k[2] = v /\ k[3] = w
  BY <1>7
<1>11. ASSUME NEW l \in best PROVE k = l \/ Earlier(k, l)
  <2>1. /\ k[1] \in Int /\ k[2] \in Int /\ k[3] \in Int
        /\ l[1] \in Int /\ l[2] \in Int /\ l[3] \in Int
        /\ k = <<k[1], k[2], k[3]>> /\ l = <<l[1], l[2], l[3]>>
    OBVIOUS
  <2>2. k[1] <= l[1]
    BY <1>1, <1>3, <1>10
  <2>3. l[1] = k[1] => k[2] <= l[2]
    BY <1>4, <1>6, <1>10
  <2>4. l[1] = k[1] /\ l[2] = k[2] => k[3] <= l[3]
    BY <1>7, <1>9, <1>10
  <2>5. k[1] = l[1] /\ k[2] = l[2] /\ k[3] = l[3] => k = l
    BY <2>1
  <2> QED
    BY <2>1, <2>2, <2>3, <2>4, <2>5 DEF Earlier
<1> QED
  BY <1>11

\* The smaller of two distances has the smaller square.
LEMMA SquareGrows ==
  ASSUME NEW x \in Int, NEW y \in Int, (-y <= x /\ x <= y) \/ (y <= x /\ x <= -y)
  PROVE  Square(x) <= Square(y) /\ Square(x) \in Nat
<1>1. CASE -y <= x /\ x <= y
  <2>1. (y - x) * (y + x) >= 0
    BY <1>1
  <2> QED
    BY <2>1 DEF Square
<1>2. CASE y <= x /\ x <= -y
  <2>1. ((-y) - x) * ((-y) + x) >= 0
    BY <1>2
  <2> QED
    BY <2>1 DEF Square
<1>3. Square(x) \in Nat
  BY DEF Square
<1> QED
  BY <1>1, <1>2, <1>3

\* The copies of the world where a place is looked for.
Far == IF world_is_wrapped THEN -3 .. 3 ELSE {0}

\* Along one axis, whatever copy of a place is the nearest to a visible one, some image
\* that was sent reaches a place at least as near within one shift.
LEMMA OneAxis ==
  ASSUME world_is_wrapped \in BOOLEAN, NEW extent \in Nat, extent > 0, Margin <= extent,
         NEW p \in Int, 0 <= p, p < extent,
         NEW c \in Int, -Margin <= c, c <= extent + Margin - 1,
         NEW a \in Far
  PROVE  \E i \in Tiles(world_is_wrapped) : \E s \in Shifts(extent) :
           /\ -Margin <= p + i * extent /\ p + i * extent <= extent + Margin - 1
           /\ Square(p + i * extent + s - c) <= Square(p + a * extent - c)
<1>1. Margin \in Int /\ Margin >= 0
  BY Sizes
<1>2. CASE ~world_is_wrapped
  <2>1. a = 0 /\ 0 \in Tiles(world_is_wrapped) /\ 0 \in Shifts(extent)
    BY <1>2 DEF Far, Tiles, Shifts
  <2>2. -Margin <= p + 0 * extent /\ p + 0 * extent <= extent + Margin - 1
    BY <1>1
  <2>3. p + 0 * extent + 0 - c = p + a * extent - c /\ p + a * extent - c \in Int
    BY <2>1
  <2>4. Square(p + 0 * extent + 0 - c) <= Square(p + a * extent - c)
    BY <2>3 DEF Square
  <2> QED
    BY <2>1, <2>2, <2>4
<1>3. CASE world_is_wrapped
  <2>1. Tiles(world_is_wrapped) = {-1, 0, 1} /\ Shifts(extent) = {-extent, 0, extent}
    BY <1>3 DEF Tiles, Shifts
  <2>2. a \in {-3, -2, -1, 0, 1, 2, 3}
    BY <1>3 DEF Far
  <2>3. PICK y \in Int : y = p + a * extent - c
    BY <2>2
  <2>4. \E i \in {-1, 0, 1} : \E s \in {-extent, 0, extent} :
          /\ -Margin <= p + i * extent /\ p + i * extent <= extent + Margin - 1
          /\ \/ -y <= p + i * extent + s - c /\ p + i * extent + s - c <= y
             \/ y <= p + i * extent + s - c /\ p + i * extent + s - c <= -y
    <3> DEFINE Near(i, s) ==
          /\ -Margin <= p + i * extent /\ p + i * extent <= extent + Margin - 1
          /\ \/ -y <= p + i * extent + s - c /\ p + i * extent + s - c <= y
             \/ y <= p + i * extent + s - c /\ p + i * extent + s - c <= -y
    <3>1. CASE a = 3
      <4>1. Near(0, extent) \/ Near(1, extent)
        BY <1>1, <2>3, <3>1
      <4> QED
        BY <4>1
    <3>2. CASE a = 2
      <4>1. Near(0, extent) \/ Near(1, extent)
        BY <1>1, <2>3, <3>2
      <4> QED
        BY <4>1
    <3>3. CASE a = 1
      <4>1. Near(0, extent)
        BY <1>1, <2>3, <3>3
      <4> QED
        BY <4>1
    <3>4. CASE a = 0
      <4>1. Near(0, 0)
        BY <1>1, <2>3, <3>4
      <4> QED
        BY <4>1
    <3>5. CASE a = -1
      <4>1. Near(0, -extent)
        BY <1>1, <2>3, <3>5
      <4> QED
        BY <4>1
    <3>6. CASE a = -2
      <4>1. Near(0, -extent) \/ Near(-1, -extent)
        BY <1>1, <2>3, <3>6
      <4> QED
        BY <4>1
    <3>7. CASE a = -3
      <4>1. Near(0, -extent) \/ Near(-1, -extent)
        BY <1>1, <2>3, <3>7
      <4> QED
        BY <4>1
    <3> QED
      BY <2>2, <3>1, <3>2, <3>3, <3>4, <3>5, <3>6, <3>7
  <2>5. PICK i \in {-1, 0, 1}, s \in {-extent, 0, extent} :
          /\ -Margin <= p + i * extent /\ p + i * extent <= extent + Margin - 1
          /\ \/ -y <= p + i * extent + s - c /\ p + i * extent + s - c <= y
             \/ y <= p + i * extent + s - c /\ p + i * extent + s - c <= -y
    BY <2>4
  <2>6. PICK x \in Int : x = p + i * extent + s - c
    OBVIOUS
  <2>7. Square(x) <= Square(y)
    BY <2>5, <2>6, SquareGrows
  <2> QED
    BY <2>1, <2>3, <2>5, <2>6, <2>7
<1> QED
  BY <1>2, <1>3

\* What a snapshot shows: every visible image and nothing else.
Shows(prev, at) ==
  /\ prev \in Seq(Visible)
  /\ \A i \in 1 .. Len(prev) : prev[i] \in Seen(world_is_wrapped, at)
  /\ \A r \in Seen(world_is_wrapped, at) : \E i \in 1 .. Len(prev) : prev[i] = r

\* A shift moves a record and does nothing else to it.
LEMMA ShiftedIs ==
  ASSUME NEW prev, NEW k, NEW b, NEW x, NEW y,
         prev[k[1]] = [shape_id |-> 0, body_id |-> b, x |-> x, y |-> y]
  PROVE  Shifted(prev, k).x = x + k[2] /\ Shifted(prev, k).y = y + k[3]
<1>1. PICK r : r = prev[k[1]]
  OBVIOUS
<1>2. PICK u, v : u = r.x + k[2] /\ v = r.y + k[3]
  OBVIOUS
<1>3. PICK q : q = [r EXCEPT !.x = u, !.y = v]
  OBVIOUS
<1>4. Shifted(prev, k) = q
  BY <1>1, <1>2, <1>3 DEF Shifted
<1>5. r = [shape_id |-> 0, body_id |-> b, x |-> x, y |-> y]
  BY <1>1
<1>6. r.x = x /\ r.y = y
  BY <1>5
<1>7. q.x = u /\ q.y = v
  BY ONLY <1>3, <1>5
<1> QED
  BY ONLY <1>2, <1>4, <1>6, <1>7

\* A square of an integer is one.
LEMMA SquareIs ==
  ASSUME NEW v \in Int PROVE Square(v) \in Int
BY DEF Square

\* The shifted candidates of a body that was at p are images of it in the plane, and
\* none of its images in the plane is nearer than all of them.
LEMMA CandidatesAre ==
  ASSUME world_is_wrapped \in BOOLEAN, NEW was \in Somewhere, NEW prev, Shows(prev, was),
         NEW c \in Visible, NEW p, was[c.body_id] = {p}
  PROVE  /\ Candidates(prev, c) \in SUBSET (Nat \X Int \X Int)
         /\ \A k \in Candidates(prev, c) :
              /\ -(Width + Height) <= k[2] /\ -(Width + Height) <= k[3]
              /\ \E i, j \in Far : /\ Shifted(prev, k).x = p.x + i * Width
                                  /\ Shifted(prev, k).y = p.y + j * Height
         /\ \A i, j \in Far : \E k \in Candidates(prev, c) :
              Distance2(Shifted(prev, k), c)
                <= Square(p.x + i * Width - c.x) + Square(p.y + j * Height - c.y)
<1>1. PICK b \in Bodies : b = c.body_id
  BY DEF Visible
<1>2. /\ p.x \in Int /\ 0 <= p.x /\ p.x < Width
      /\ p.y \in Int /\ 0 <= p.y /\ p.y < Height
  BY <1>1, PlacesAre
<1>3. /\ c.x \in Int /\ -Margin <= c.x /\ c.x <= Width + Margin - 1
      /\ c.y \in Int /\ -Margin <= c.y /\ c.y <= Height + Margin - 1
  <2>1. c.x \in Columns /\ c.y \in Rows
    BY DEF Visible
  <2> QED
    BY <2>1 DEF Columns, Rows
<1>4. /\ Width \in Nat /\ Width > 0 /\ Margin <= Width
      /\ Height \in Nat /\ Height > 0 /\ Margin <= Height
  BY Sizes
<1>5. ASSUME NEW i \in 1 .. Len(prev), prev[i].body_id = b
      PROVE  \E m, n \in Tiles(world_is_wrapped) :
               prev[i] = [shape_id |-> 0, body_id |-> b,
                          x |-> p.x + m * Width, y |-> p.y + n * Height]
  <2>1. prev[i] \in Seen(world_is_wrapped, was)
    BY DEF Shows
  <2>2. PICK d \in Bodies : \E q \in was[d] : \E m, n \in Tiles(world_is_wrapped) :
          prev[i] = [shape_id |-> 0, body_id |-> d, x |-> q.x + m * Width, y |-> q.y + n * Height]
    BY <2>1, SeenAre
  <2>3. d = b
    BY <1>5, <2>2
  <2> QED
    BY <1>1, <2>2, <2>3
<1>6. /\ \A m \in Tiles(world_is_wrapped) : m \in Int
      /\ \A s \in Shifts(Width) : s \in Int
      /\ \A s \in Shifts(Height) : s \in Int
      /\ \A i \in Far : i \in Int
  BY <1>4 DEF Tiles, Shifts, Far
<1>7. DOMAIN prev = 1 .. Len(prev) /\ Len(prev) \in Nat
  BY DEF Shows
<1>8. ASSUME NEW k \in Candidates(prev, c)
      PROVE  /\ k[1] \in 1 .. Len(prev) /\ k[2] \in Shifts(Width) /\ k[3] \in Shifts(Height)
             /\ k = <<k[1], k[2], k[3]>> /\ prev[k[1]].body_id = b
  BY <1>1, <1>7 DEF Candidates
<1>9. Candidates(prev, c) \in SUBSET (Nat \X Int \X Int)
  BY <1>6, <1>7, <1>8
<1>10. ASSUME NEW extent \in Nat, NEW m \in Tiles(world_is_wrapped), NEW s \in Shifts(extent)
       PROVE  \E i \in Far : m * extent + s = i * extent
  <2>1. CASE ~world_is_wrapped
    <3>1. m = 0 /\ s = 0 /\ 0 \in Far
      BY <2>1 DEF Tiles, Shifts, Far
    <3> QED
      BY <3>1
  <2>2. CASE world_is_wrapped
    <3>1. m \in {-1, 0, 1} /\ s \in {-extent, 0, extent} /\ Far = -3 .. 3
      BY <2>2 DEF Tiles, Shifts, Far
    <3>2. PICK t \in {-1, 0, 1} : s = t * extent
      BY <3>1
    <3>3. m + t \in -3 .. 3 /\ m * extent + s = (m + t) * extent
      BY <3>1, <3>2
    <3> QED
      BY <3>1, <3>3
  <2> QED
    BY <2>1, <2>2
<1>11. ASSUME NEW k \in Candidates(prev, c)
       PROVE  \E i, j \in Far : /\ Shifted(prev, k).x = p.x + i * Width
                               /\ Shifted(prev, k).y = p.y + j * Height
  <2>1. PICK m \in Tiles(world_is_wrapped), n \in Tiles(world_is_wrapped) :
          prev[k[1]] = [shape_id |-> 0, body_id |-> b,
                        x |-> p.x + m * Width, y |-> p.y + n * Height]
    BY <1>5, <1>8
  <2>2. /\ Shifted(prev, k).x = (p.x + m * Width) + k[2]
        /\ Shifted(prev, k).y = (p.y + n * Height) + k[3]
    BY <2>1, ShiftedIs
  <2>3. PICK i \in Far : m * Width + k[2] = i * Width
    BY <1>4, <1>8, <1>10
  <2>4. PICK j \in Far : n * Height + k[3] = j * Height
    BY <1>4, <1>8, <1>10
  <2>5. /\ m * Width \in Int /\ n * Height \in Int /\ k[2] \in Int /\ k[3] \in Int
        /\ i * Width \in Int /\ j * Height \in Int
    BY <1>4, <1>6, <1>8, SMTT(30)
  <2>6. (p.x + m * Width) + k[2] = p.x + i * Width /\ (p.y + n * Height) + k[3] = p.y + j * Height
    BY <1>2, <2>3, <2>4, <2>5
  <2> QED
    BY <1>1, <2>2, <2>6
<1>12. ASSUME NEW k \in Candidates(prev, c)
       PROVE  -(Width + Height) <= k[2] /\ -(Width + Height) <= k[3]
  <2>1. k[2] \in {-Width, 0, Width} /\ k[3] \in {-Height, 0, Height}
    BY <1>8 DEF Shifts
  <2> QED
    BY <1>4, <2>1
<1>13. ASSUME NEW i \in Far, NEW j \in Far
       PROVE  \E k \in Candidates(prev, c) :
                Distance2(Shifted(prev, k), c)
                  <= Square(p.x + i * Width - c.x) + Square(p.y + j * Height - c.y)
  <2>1. PICK m \in Tiles(world_is_wrapped), s \in Shifts(Width) :
          /\ -Margin <= p.x + m * Width /\ p.x + m * Width <= Width + Margin - 1
          /\ Square(p.x + m * Width + s - c.x) <= Square(p.x + i * Width - c.x)
    BY <1>2, <1>3, <1>4, OneAxis
  <2>2. PICK n \in Tiles(world_is_wrapped), t \in Shifts(Height) :
          /\ -Margin <= p.y + n * Height /\ p.y + n * Height <= Height + Margin - 1
          /\ Square(p.y + n * Height + t - c.y) <= Square(p.y + j * Height - c.y)
    BY <1>2, <1>3, <1>4, OneAxis
  <2>3. PICK x \in Int : x = p.x + m * Width
    BY <1>2, <1>4, <1>6
  <2>4. PICK y \in Int : y = p.y + n * Height
    BY <1>2, <1>4, <1>6
  <2>5. PICK r : r = [shape_id |-> 0, body_id |-> b, x |-> x, y |-> y]
    OBVIOUS
  <2>6. r \in Seen(world_is_wrapped, was)
    <3>1. x \in Columns /\ y \in Rows
      BY <2>1, <2>2, <2>3, <2>4 DEF Columns, Rows
    <3>2. p \in was[b]
      BY <1>1
    <3> QED
      BY <2>3, <2>4, <2>5, <3>1, <3>2, SeenAre
  <2>7. PICK l \in 1 .. Len(prev) : prev[l] = r
    BY <2>6 DEF Shows
  <2>8. PICK k : k = <<l, s, t>>
    OBVIOUS
  <2>9. k \in Candidates(prev, c)
    BY <1>1, <1>7, <2>5, <2>7, <2>8 DEF Candidates
  <2>10. s \in Int /\ t \in Int
    BY <1>6
  <2>11. PICK d \in Int, e \in Int : d = x + s /\ e = y + t
    BY <2>10
  <2>12. Distance2(Shifted(prev, k), c) = Square(d - c.x) + Square(e - c.y)
    <3>1. prev[k[1]] = [shape_id |-> 0, body_id |-> b, x |-> x, y |-> y]
      BY <2>5, <2>7, <2>8
    <3>2. Shifted(prev, k).x = x + k[2] /\ Shifted(prev, k).y = y + k[3]
      BY ONLY <3>1, ShiftedIs
    <3>3. Shifted(prev, k).x = d /\ Shifted(prev, k).y = e
      BY <2>8, <2>11, <3>2
    <3> QED
      BY <3>3 DEF Distance2
  <2>13. i * Width \in Int /\ j * Height \in Int
    BY <1>4, <1>6
  <2>14. /\ d - c.x \in Int /\ p.x + i * Width - c.x \in Int
         /\ e - c.y \in Int /\ p.y + j * Height - c.y \in Int
    <3>1. p.x \in Int /\ p.y \in Int /\ c.x \in Int /\ c.y \in Int
      BY <1>2, <1>3
    <3> QED
      BY ONLY <2>13, <3>1, d \in Int, e \in Int, SMTT(30)
  <2>15. PICK u \in Int, v \in Int : u = Square(d - c.x) /\ v = Square(e - c.y)
    BY <2>14, SquareIs
  <2>16. PICK g \in Int, h \in Int :
           g = Square(p.x + i * Width - c.x) /\ h = Square(p.y + j * Height - c.y)
    BY <2>14, SquareIs
  <2>17. u <= g /\ v <= h
    <3>1. p.x + m * Width + s - c.x = d - c.x /\ p.y + n * Height + t - c.y = e - c.y
      <4>1. p.x \in Int /\ p.y \in Int /\ c.x \in Int /\ c.y \in Int
        BY <1>2, <1>3
      <4>2. m * Width \in Int /\ n * Height \in Int
        BY <1>4, <1>6
      <4>3. p.x + m * Width + s - c.x = d - c.x
        BY ONLY <2>3, <2>10, <2>11, <4>1, <4>2
      <4>4. p.y + n * Height + t - c.y = e - c.y
        BY ONLY <2>4, <2>10, <2>11, <4>1, <4>2
      <4> QED
        BY <4>3, <4>4
    <3>2. Square(d - c.x) <= Square(p.x + i * Width - c.x)
      BY ONLY <2>1, <3>1
    <3>3. Square(e - c.y) <= Square(p.y + j * Height - c.y)
      BY ONLY <2>2, <3>1
    <3> QED
      BY ONLY <2>15, <2>16, <3>2, <3>3
  <2>18. u + v <= g + h
    BY <2>17
  <2> QED
    BY <2>9, <2>12, <2>15, <2>16, <2>18
<1> QED
  BY <1>9, <1>11, <1>12, <1>13

\* The nearest are those with the least distance, and there is one.
LEMMA NearestAre ==
  ASSUME NEW S, S # {}, NEW c, \A r \in S : Distance2(r, c) \in Nat
  PROVE  /\ Nearest(S, c) # {} /\ Nearest(S, c) \subseteq S
         /\ \A r \in S : r \in Nearest(S, c) <=> \A e \in S : Distance2(r, c) <= Distance2(e, c)
<1>1. PICK D : D = {Distance2(r, c) : r \in S}
  OBVIOUS
<1>2. D \in SUBSET Int /\ D # {} /\ \A e \in D : 0 <= e
  BY <1>1
<1>3. PICK d \in D : d = Least(D) /\ \A e \in D : d <= e
  BY ONLY <1>2, LeastIs, 0 \in Int
<1>4. Nearest(S, c) = {r \in S : Distance2(r, c) = d}
  BY <1>1, <1>3 DEF Nearest
<1>5. Nearest(S, c) # {}
  BY <1>1, <1>3, <1>4
<1>6. ASSUME NEW r \in S, r \in Nearest(S, c), NEW e \in S PROVE Distance2(r, c) <= Distance2(e, c)
  <2>1. Distance2(r, c) = d
    BY <1>4, <1>6
  <2>2. Distance2(e, c) \in D
    BY <1>1
  <2> QED
    BY <1>3, <2>1, <2>2
<1>7. ASSUME NEW r \in S, \A e \in S : Distance2(r, c) <= Distance2(e, c) PROVE r \in Nearest(S, c)
  <2>1. PICK e \in S : Distance2(e, c) = d
    BY <1>1
  <2>2. Distance2(r, c) <= d /\ d <= Distance2(r, c) /\ d \in Int /\ Distance2(r, c) \in Int
    BY <1>1, <1>2, <1>3, <1>7, <2>1
  <2>3. Distance2(r, c) = d
    BY <2>2
  <2> QED
    BY <1>4, <2>3
<1> QED
  BY <1>4, <1>5, <1>6, <1>7

\* The images of a place in the plane, one by one.
LEMMA EverywhereAre ==
  ASSUME NEW p
  PROVE  \A q : q \in Everywhere({p}) <=>
           \E i, j \in Far : q = [x |-> p.x + i * Width, y |-> p.y + j * Height]
BY DEF Everywhere, Far

\* The image of a body that the blend starts from is a nearest place where it was.
StartsNear(prev, c, p) ==
  /\ Candidates(prev, c) # {}
  /\ \E q \in Nearest(Everywhere({p}), c) : Image(prev, c).x = q.x /\ Image(prev, c).y = q.y

\* It is so for every snapshot and every body in it.
LEMMA ImageIsNearest ==
  ASSUME world_is_wrapped \in BOOLEAN, NEW was \in Somewhere, NEW prev, Shows(prev, was),
         NEW c \in Visible, NEW p, was[c.body_id] = {p}
  PROVE  StartsNear(prev, c, p)
<1>1. PICK all : all = Candidates(prev, c)
  OBVIOUS
<1>2. /\ all \in SUBSET (Nat \X Int \X Int)
      /\ \A k \in all :
           /\ -(Width + Height) <= k[2] /\ -(Width + Height) <= k[3]
           /\ \E i, j \in Far : /\ Shifted(prev, k).x = p.x + i * Width
                               /\ Shifted(prev, k).y = p.y + j * Height
      /\ \A i, j \in Far : \E k \in all :
           Distance2(Shifted(prev, k), c)
             <= Square(p.x + i * Width - c.x) + Square(p.y + j * Height - c.y)
  BY <1>1, CandidatesAre
<1>3. 0 \in Far /\ \A i \in Far : i \in Int
  BY DEF Far
<1>4. all # {}
  BY <1>2, <1>3
<1>5. p.x \in Int /\ p.y \in Int /\ c.x \in Int /\ c.y \in Int
  <2>1. c.body_id \in Bodies /\ c.x \in Columns /\ c.y \in Rows
    BY DEF Visible
  <2>2. p.x \in Int /\ p.y \in Int
    BY <2>1, PlacesAre
  <2> QED
    BY <2>1, <2>2 DEF Columns, Rows
<1>6. ASSUME NEW i \in Far, NEW j \in Far
      PROVE  Square(p.x + i * Width - c.x) + Square(p.y + j * Height - c.y) \in Nat
  <2>1. i * Width \in Int /\ j * Height \in Int
    BY <1>3, Sizes
  <2>2. PICK x \in Int, y \in Int : x = p.x + i * Width - c.x /\ y = p.y + j * Height - c.y
    BY <1>5, <2>1
  <2>3. Square(x) \in Nat /\ Square(y) \in Nat
    BY SquareGrows
  <2> QED
    BY <2>2, <2>3
<1>7. ASSUME NEW r, NEW i \in Far, NEW j \in Far, r.x = p.x + i * Width, r.y = p.y + j * Height
      PROVE  /\ Distance2(r, c) = Square(p.x + i * Width - c.x) + Square(p.y + j * Height - c.y)
             /\ Distance2(r, c) \in Nat
  <2>1. i * Width \in Int /\ j * Height \in Int
    BY <1>3, Sizes
  <2>2. PICK u \in Int, v \in Int : u = p.x + i * Width /\ v = p.y + j * Height
    BY <1>5, <2>1
  <2>3. r.x = u /\ r.y = v
    BY <1>7, <2>2
  <2>4. Distance2(r, c) = Square(u - c.x) + Square(v - c.y)
    BY <2>3 DEF Distance2
  <2>5. u - c.x = p.x + i * Width - c.x /\ v - c.y = p.y + j * Height - c.y
    BY ONLY <1>5, <2>1, <2>2
  <2>6. Square(u - c.x) = Square(p.x + i * Width - c.x)
    BY ONLY <2>5
  <2>7. Square(v - c.y) = Square(p.y + j * Height - c.y)
    BY ONLY <2>5
  <2>8. Square(u - c.x) + Square(v - c.y) \in Nat
    BY ONLY <1>6, <2>6, <2>7, i \in Far, j \in Far
  <2> QED
    BY ONLY <2>4, <2>6, <2>7, <2>8
<1>8. PICK E : E = Everywhere({p})
  OBVIOUS
<1>9. \A q : q \in E <=> \E i, j \in Far : q = [x |-> p.x + i * Width, y |-> p.y + j * Height]
  BY <1>8, EverywhereAre
<1>10. E # {} /\ \A q \in E : Distance2(q, c) \in Nat
  <2>1. ASSUME NEW q \in E PROVE Distance2(q, c) \in Nat
    <3>1. PICK i, j \in Far : q = [x |-> p.x + i * Width, y |-> p.y + j * Height]
      BY <1>9
    <3>2. q.x = p.x + i * Width /\ q.y = p.y + j * Height
      BY <3>1
    <3> QED
      BY <1>7, <3>2
  <2> QED
    BY <1>3, <1>9, <2>1
<1>11. PICK S : S = {Shifted(prev, k) : k \in all}
  OBVIOUS
<1>12. S # {} /\ \A r \in S : Distance2(r, c) \in Nat
  BY <1>2, <1>4, <1>7, <1>11
<1>13. PICK near : near = Nearest(S, c)
  OBVIOUS
<1>14. /\ near # {} /\ near \subseteq S
       /\ \A r \in S : r \in near <=> \A e \in S : Distance2(r, c) <= Distance2(e, c)
  BY ONLY <1>12, <1>13, NearestAre
<1>15. PICK best : best = {k \in all : Shifted(prev, k) \in near}
  OBVIOUS
<1>16. PICK b \in Int : b = -(Width + Height)
  BY Sizes
<1>17. best \in SUBSET (Nat \X Int \X Int) /\ best # {} /\ \A k \in best : b <= k[2] /\ b <= k[3]
  <2>1. best \subseteq all /\ best # {}
    BY <1>11, <1>14, <1>15
  <2> QED
    BY <1>2, <1>16, <2>1
<1>18. PICK first : first = CHOOSE k \in best : \A l \in best : k = l \/ Earlier(k, l)
  OBVIOUS
<1>19. first \in best
  BY ONLY <1>17, <1>18, FirstIs, b \in Int
<1>20. Image(prev, c) = Shifted(prev, first)
  BY <1>1, <1>11, <1>13, <1>15, <1>18 DEF Image
<1>21. PICK i, j \in Far : /\ Shifted(prev, first).x = p.x + i * Width
                          /\ Shifted(prev, first).y = p.y + j * Height
  BY <1>2, <1>15, <1>19
<1>22. PICK q \in E : q = [x |-> p.x + i * Width, y |-> p.y + j * Height]
  BY <1>9
<1>23. Distance2(q, c) = Distance2(Shifted(prev, first), c)
  <2>1. q.x = p.x + i * Width /\ q.y = p.y + j * Height
    BY <1>22
  <2> QED
    BY <1>7, <1>21, <2>1
<1>24. ASSUME NEW e \in E PROVE Distance2(q, c) <= Distance2(e, c)
  <2>1. PICK m, n \in Far : e = [x |-> p.x + m * Width, y |-> p.y + n * Height]
    BY <1>9
  <2>2. e.x = p.x + m * Width /\ e.y = p.y + n * Height
    BY <2>1
  <2>3. Distance2(e, c) = Square(p.x + m * Width - c.x) + Square(p.y + n * Height - c.y)
    BY <1>7, <2>2
  <2>4. PICK l \in all : Distance2(Shifted(prev, l), c) <= Distance2(e, c)
    BY <1>2, <2>3
  <2>5. Distance2(Shifted(prev, first), c) <= Distance2(Shifted(prev, l), c)
    BY <1>11, <1>14, <1>15, <1>19
  <2>6. /\ Distance2(Shifted(prev, first), c) \in Int /\ Distance2(Shifted(prev, l), c) \in Int
        /\ Distance2(e, c) \in Int
    BY <1>10, <1>11, <1>12, <1>15, <1>19
  <2> QED
    BY <1>23, <2>4, <2>5, <2>6
<1>25. q \in Nearest(E, c)
  <2>1. \A r \in E : r \in Nearest(E, c) <=> \A e \in E : Distance2(r, c) <= Distance2(e, c)
    BY ONLY <1>10, NearestAre
  <2> QED
    BY <1>24, <2>1
<1>26. q.x = p.x + i * Width /\ q.y = p.y + j * Height
  BY <1>22
<1>27. Image(prev, c).x = q.x /\ Image(prev, c).y = q.y
  BY <1>20, <1>21, <1>26
<1> QED
  BY <1>1, <1>4, <1>8, <1>25, <1>27 DEF StartsNear

-----------------------------------------------------------------------------
(* The blend.                                                              *)

\* Where the blend is along one axis, after e of n ticks.
PartOf(f, t, e, n) == f + Quotient((t - f) * e, n)

\* A part of the way, rounded as C rounds, ends on the way.
LEMMA PartOfTheWay ==
  ASSUME NEW f \in Int, NEW t \in Int, NEW e \in Nat, NEW n \in Nat, e < n
  PROVE  /\ PartOf(f, t, e, n) \in Int /\ Between(f, PartOf(f, t, e, n), t)
         /\ e = 0 => PartOf(f, t, e, n) = f
<1>1. PICK q : q = Quotient((t - f) * e, n)
  OBVIOUS
<1> SUFFICES f + q \in Int /\ Between(f, f + q, t) /\ (e = 0 => f + q = f)
  BY <1>1 DEF PartOf
<1>2. CASE t >= f
  <2>1. PICK d \in Nat : d = t - f
    BY <1>2
  <2>2. PICK p \in Nat : p = d * e
    OBVIOUS
  <2>3. p <= d * n
    BY <2>2
  <2>4. q = p \div n
    <3>1. q = Quotient(p, n)
      BY <1>1, <2>1, <2>2
    <3> QED
      BY <3>1 DEF Quotient
  <2>5. 0 <= q /\ q <= d /\ q \in Int
    <3>1. PICK g \in Int : g = p \div n
      OBVIOUS
    <3>2. g * n <= p
      BY <3>1
    <3>3. g * n <= d * n
      BY <2>3, <3>2
    <3>4. g <= d
      BY <3>3
    <3>5. g >= 0
      BY <3>1
    <3> QED
      BY <2>4, <3>1, <3>4, <3>5
  <2>6. e = 0 => q = 0
    BY <2>2, <2>4
  <2> QED
    BY <1>1, <2>1, <2>5, <2>6 DEF Between
<1>3. CASE t < f
  <2>1. PICK d \in Nat : d = f - t
    BY <1>3
  <2>2. PICK p \in Nat : p = d * e
    OBVIOUS
  <2>3. p <= d * n /\ (t - f) * e = -p
    BY <2>1, <2>2
  <2>4. IF p = 0 THEN q = 0 ELSE q = -(p \div n)
    <3>1. q = Quotient(-p, n)
      BY <1>1, <2>3
    <3> QED
      BY <3>1 DEF Quotient
  <2>5. -d <= q /\ q <= 0 /\ q \in Int
    <3>1. PICK g \in Int : g = p \div n
      OBVIOUS
    <3>2. g * n <= p
      BY <3>1
    <3>3. g * n <= d * n
      BY <2>3, <3>2
    <3>4. g <= d
      BY <3>3
    <3>5. g >= 0
      BY <3>1
    <3> QED
      BY <2>4, <3>1, <3>4, <3>5
  <2>6. e = 0 => q = 0
    BY <2>2, <2>4
  <2> QED
    BY <1>1, <2>1, <2>5, <2>6 DEF Between
<1> QED
  BY <1>2, <1>3

\* The snapshots are those of the two latest worlds.
Consistent ==
  /\ world_is_wrapped \in BOOLEAN
  /\ body \in Somewhere /\ body_before \in Somewhere
  /\ arrived \in {1, 2}
  /\ interval \in Nat /\ elapsed \in Nat
  /\ published = Sent(world_is_wrapped, body)
  /\ arrived = 1 => \A b \in Bodies : body_before[b] = {}
  /\ arrived = 2 => previous = Sent(world_is_wrapped, body_before)

\* What is sent shows the world.
LEMMA SentShows ==
  ASSUME world_is_wrapped \in BOOLEAN, NEW at \in Somewhere
  PROVE  Shows(Sent(world_is_wrapped, at), at)
BY SentAre DEF Shows

\* A body that was away has no image to start from.
LEMMA NobodyWas ==
  ASSUME world_is_wrapped \in BOOLEAN, NEW was \in Somewhere, NEW prev, Shows(prev, was),
         NEW c, was[c.body_id] = {}
  PROVE  Candidates(prev, c) = {}
<1>1. SUFFICES ASSUME NEW k \in Candidates(prev, c) PROVE FALSE
  OBVIOUS
<1>2. prev \in Seq(Visible) /\ \A j \in 1 .. Len(prev) : prev[j] \in Seen(world_is_wrapped, was)
  BY DEF Shows
<1>3. k[1] \in 1 .. Len(prev) /\ prev[k[1]].body_id = c.body_id
  BY <1>2 DEF Candidates
<1>4. prev[k[1]] \in Seen(world_is_wrapped, was)
  BY <1>2, <1>3
<1>5. PICK b \in Bodies : \E p \in was[b] : \E m, n \in Tiles(world_is_wrapped) :
        prev[k[1]] = [shape_id |-> 0, body_id |-> b,
                      x |-> p.x + m * Width, y |-> p.y + n * Height]
  BY <1>4, SeenAre
<1>6. b = c.body_id
  BY <1>3, <1>5
<1> QED
  BY <1>5, <1>6

\* Where a body is drawn by a frame.
LEMMA DrawnIs ==
  ASSUME Consistent, NEW i \in 1 .. Len(published)
  PROVE  LET c == published[i]
             d == Drawn(previous, c)
             was == body_before[c.body_id]
         IN  /\ c \in Visible /\ d.body_id = c.body_id /\ d.x \in Int /\ d.y \in Int
             /\ was = {} => d = c
             /\ \A p \in was :
                  /\ was = {p}
                  /\ \E q \in Nearest(Everywhere(was), c) :
                       Between(q.x, d.x, c.x) /\ Between(q.y, d.y, c.y)
                  /\ Blending /\ elapsed = 0 =>
                       \E m, n \in Far : d.x = p.x + m * Width /\ d.y = p.y + n * Height
<1>1. PICK c : c = published[i]
  OBVIOUS
<1>2. PICK d : d = Drawn(previous, c)
  OBVIOUS
<1>3. world_is_wrapped \in BOOLEAN /\ body \in Somewhere /\ body_before \in Somewhere
  BY DEF Consistent
<1>4. published \in Seq(Visible)
  BY <1>3, SentAre DEF Consistent
<1>5. c \in Visible
  BY <1>1, <1>4
<1>6. c.body_id \in Bodies /\ c.x \in Int /\ c.y \in Int
  BY <1>5 DEF Visible, Columns, Rows
<1>7. PICK was : was = body_before[c.body_id]
  OBVIOUS
<1>8. was = {} \/ \E p \in was : was = {p}
  BY <1>3, <1>6, <1>7, PlacesAre
<1>9. Blending => /\ arrived = 2 /\ interval \in Nat /\ elapsed \in Nat /\ elapsed < interval
                  /\ previous = Sent(world_is_wrapped, body_before)
  BY DEF Blending, Consistent
<1>10. Blending => Shows(previous, body_before)
  BY <1>3, <1>9, SentShows
<1>11. d = IF Blending /\ Candidates(previous, c) # {} THEN Blend(Image(previous, c), c) ELSE c
  BY <1>2 DEF Drawn
<1>12. d.body_id = c.body_id
  BY <1>5, <1>11 DEF Blend, Visible
<1>13. ASSUME was = {} PROVE d = c
  <2>1. SUFFICES ASSUME Blending PROVE Candidates(previous, c) = {}
    BY <1>11
  <2>2. body_before[c.body_id] = {}
    BY <1>7, <1>13
  <2>3. Shows(previous, body_before) /\ body_before \in Somewhere /\ world_is_wrapped \in BOOLEAN
    BY <1>3, <1>10, <2>1
  <2> QED
    BY ONLY <2>2, <2>3, NobodyWas
<1>14. ASSUME NEW p \in was
       PROVE  /\ was = {p} /\ d.x \in Int /\ d.y \in Int
              /\ \E q \in Nearest(Everywhere(was), c) :
                   Between(q.x, d.x, c.x) /\ Between(q.y, d.y, c.y)
              /\ Blending /\ elapsed = 0 =>
                   \E m, n \in Far : d.x = p.x + m * Width /\ d.y = p.y + n * Height
  <2>1. was = {p}
    BY <1>8
  <2>2. PICK prev : prev = Sent(world_is_wrapped, body_before)
    OBVIOUS
  <2>3. Shows(prev, body_before)
    BY <1>3, <2>2, SentShows
  <2>4. body_before[c.body_id] = {p}
    BY <1>7, <2>1
  <2>5. StartsNear(prev, c, p)
    <3>1. world_is_wrapped \in BOOLEAN
      BY <1>3
    <3>2. body_before \in Somewhere
      BY <1>3
    <3> QED
      BY ONLY <1>5, <2>3, <2>4, <3>1, <3>2, ImageIsNearest
  <2>6. PICK q \in Nearest(Everywhere({p}), c) : Image(prev, c).x = q.x /\ Image(prev, c).y = q.y
    BY <2>5 DEF StartsNear
  <2>7. PICK m, n \in Far : q.x = p.x + m * Width /\ q.y = p.y + n * Height
    <3>1. q \in Everywhere({p})
      BY DEF Nearest
    <3>2. PICK m, n \in Far : q = [x |-> p.x + m * Width, y |-> p.y + n * Height]
      BY <3>1, EverywhereAre
    <3> QED
      BY <3>2
  <2>8. PICK x \in Int, y \in Int : q.x = x /\ q.y = y
    <3>1. p.x \in Int /\ p.y \in Int
      BY <1>3, <1>6, <1>7, PlacesAre
    <3>2. m \in Int /\ n \in Int
      BY DEF Far
    <3>3. m * Width \in Int /\ n * Height \in Int
      BY <3>2, Sizes
    <3>4. p.x + m * Width \in Int /\ p.y + n * Height \in Int
      BY <3>1, <3>3
    <3> QED
      BY <2>7, <3>4
  <2>9. CASE ~Blending
    <3>1. d.x = c.x /\ d.y = c.y
      BY <1>11, <2>9
    <3>2. Between(q.x, d.x, c.x) /\ Between(q.y, d.y, c.y)
      BY <1>6, <2>8, <3>1 DEF Between
    <3> QED
      BY <1>6, <2>1, <2>9, <3>1, <3>2
  <2>10. CASE Blending
    <3>1. d = Blend(Image(prev, c), c)
      BY <1>9, <1>11, <2>2, <2>5, <2>10 DEF StartsNear
    <3>2. PICK u, v : /\ u = x + Quotient((c.x - x) * elapsed, interval)
                     /\ v = y + Quotient((c.y - y) * elapsed, interval)
      OBVIOUS
    <3>3. d = [c EXCEPT !.x = u, !.y = v]
      BY <2>6, <2>8, <3>1, <3>2 DEF Blend
    <3>4. d.x = u /\ d.y = v
      BY <1>5, <3>3 DEF Visible
    <3>5. elapsed \in Nat /\ interval \in Nat /\ elapsed < interval
      BY <1>9, <2>10
    <3>6. u \in Int /\ Between(x, u, c.x) /\ (elapsed = 0 => u = x)
      <4>1. x \in Int /\ c.x \in Int
        BY <1>6, <2>8
      <4>2. u = PartOf(x, c.x, elapsed, interval)
        BY <3>2 DEF PartOf
      <4> QED
        BY ONLY <3>5, <4>1, <4>2, PartOfTheWay
    <3>7. v \in Int /\ Between(y, v, c.y) /\ (elapsed = 0 => v = y)
      <4>1. y \in Int /\ c.y \in Int
        BY <1>6, <2>8
      <4>2. v = PartOf(y, c.y, elapsed, interval)
        BY <3>2 DEF PartOf
      <4> QED
        BY ONLY <3>5, <4>1, <4>2, PartOfTheWay
    <3>8. Between(q.x, d.x, c.x) /\ Between(q.y, d.y, c.y)
      BY <2>8, <3>4, <3>6, <3>7
    <3>9. elapsed = 0 => d.x = p.x + m * Width /\ d.y = p.y + n * Height
      BY <2>7, <2>8, <3>4, <3>6, <3>7
    <3> QED
      BY <2>1, <3>4, <3>6, <3>7, <3>8, <3>9
  <2> QED
    BY <2>9, <2>10
<1>15. d.x \in Int /\ d.y \in Int
  <2>1. CASE was = {}
    BY <1>6, <1>13, <2>1
  <2>2. CASE was # {}
    BY <1>14, <2>2
  <2> QED
    BY <2>1, <2>2
<1> QED
  BY <1>1, <1>2, <1>5, <1>7, <1>12, <1>13, <1>14, <1>15

\* An image of a place is congruent to it.
LEMMA ImageIsCongruent ==
  ASSUME world_is_wrapped \in BOOLEAN, NEW v \in Int, NEW m \in Far, NEW extent \in Nat, extent > 0
  PROVE  Congruent(v, v + m * extent, extent)
<1>1. CASE ~world_is_wrapped
  <2>1. m = 0
    BY <1>1 DEF Far
  <2>2. v + m * extent = v
    BY <2>1
  <2> QED
    BY <1>1, <2>2 DEF Congruent
<1>2. CASE world_is_wrapped
  <2>1. m \in {-3, -2, -1, 0, 1, 2, 3}
    BY <1>2 DEF Far
  <2>2. PICK n \in {-3, -2, -1, 0, 1, 2, 3} : n = -m
    BY <2>1
  <2>3. v - (v + m * extent) = n * extent
    BY <2>1, <2>2
  <2>4. (n * extent) % extent = 0
    <3>1. CASE n = -3
      BY <3>1
    <3>2. CASE n = -2
      BY <3>2
    <3>3. CASE n \in {-1, 0, 1}
      BY <3>3
    <3>4. CASE n = 2
      BY <3>4
    <3>5. CASE n = 3
      BY <3>5
    <3> QED
      BY <3>1, <3>2, <3>3, <3>4, <3>5
  <2>5. (v - (v + m * extent)) % extent = 0
    BY ONLY <2>3, <2>4
  <2> QED
    BY <1>2, <2>5 DEF Congruent
<1> QED
  BY <1>1, <1>2

-----------------------------------------------------------------------------
(* The order of the records.                                               *)

\* A snapshot in reverse shows the same.
LEMMA ReversedShows ==
  ASSUME NEW prev, NEW at, Shows(prev, at) PROVE Shows(Reverse(prev), at)
<1>1. PICK n \in Nat : n = Len(prev)
  BY DEF Shows
<1>2. PICK t : t = Reverse(prev)
  OBVIOUS
<1>3. t = [i \in 1 .. n |-> prev[(n - i) + 1]]
  BY <1>1, <1>2 DEF Reverse
<1>4. \A i \in 1 .. n : (n - i) + 1 \in 1 .. n /\ (n - ((n - i) + 1)) + 1 = i
  OBVIOUS
<1>5. \A i \in 1 .. n : prev[i] \in Visible /\ prev[i] \in Seen(world_is_wrapped, at)
  BY <1>1 DEF Shows
<1>6. t \in Seq(Visible) /\ Len(t) = n
  BY <1>3, <1>4, <1>5
<1>7. \A i \in 1 .. n : t[i] \in Seen(world_is_wrapped, at)
  BY <1>3, <1>4, <1>5
<1>8. ASSUME NEW r \in Seen(world_is_wrapped, at) PROVE \E i \in 1 .. n : t[i] = r
  <2>1. PICK j \in 1 .. n : prev[j] = r
    BY <1>1 DEF Shows
  <2>2. PICK i \in 1 .. n : i = (n - j) + 1
    BY <1>4
  <2>3. (n - i) + 1 = j
    BY <2>2
  <2>4. t[i] = prev[(n - i) + 1]
    BY <1>3
  <2> QED
    BY <2>1, <2>3, <2>4
<1> QED
  BY <1>2, <1>6, <1>7, <1>8 DEF Shows

\* When no two places are as near, there is one nearest.
LEMMA NearestIsOne ==
  ASSUME NEW p, NEW c, ~(Cardinality(Nearest(Everywhere({p}), c)) > 1)
  PROVE  \A q, r \in Nearest(Everywhere({p}), c) : q = r
<1>1. PICK E : E = Everywhere({p})
  OBVIOUS
<1>2. IsFiniteSet(Far)
  <2>1. IsFiniteSet(-3 .. 3)
    BY ONLY FS_Interval, -3 \in Int, 3 \in Int
  <2>2. IsFiniteSet({0})
    BY ONLY FS_Singleton
  <2> QED
    BY ONLY <2>1, <2>2 DEF Far
<1>3. PICK F : F = Far \X Far
  OBVIOUS
<1>4. IsFiniteSet(F)
  BY <1>2, <1>3, FS_Product
<1>5. PICK f : f = [k \in F |-> [x |-> p.x + k[1] * Width, y |-> p.y + k[2] * Height]]
  OBVIOUS
<1>6. f \in Surjection(F, E)
  <2>1. \A q : q \in E <=> \E i, j \in Far : q = [x |-> p.x + i * Width, y |-> p.y + j * Height]
    BY <1>1, EverywhereAre
  <2>2. f \in [F -> E]
    BY <1>3, <1>5, <2>1
  <2>3. \A q \in E : \E k \in F : f[k] = q
    <3> TAKE q \in E
    <3>1. PICK i, j \in Far : q = [x |-> p.x + i * Width, y |-> p.y + j * Height]
      BY <2>1
    <3>2. PICK k \in F : k = <<i, j>>
      BY <1>3
    <3> QED
      BY <1>5, <3>1, <3>2
  <2> QED
    BY <2>2, <2>3, Fun_IsSurj
<1>7. IsFiniteSet(E)
  BY <1>4, <1>6, FS_Surjection
<1>8. PICK N : N = Nearest(E, c)
  OBVIOUS
<1>9. N \in SUBSET E
  BY <1>8 DEF Nearest
<1>10. IsFiniteSet(N)
  BY <1>7, <1>9, FS_Subset
<1>11. Cardinality(N) \in Nat /\ ~(Cardinality(N) > 1)
  BY <1>1, <1>8, <1>10, FS_CardinalityType
<1>12. CASE Cardinality(N) = 0
  BY <1>1, <1>8, <1>10, <1>12, FS_EmptySet
<1>13. CASE Cardinality(N) = 1
  BY <1>1, <1>8, <1>10, <1>13, FS_Singleton
<1> QED
  BY <1>11, <1>12, <1>13

\* Two snapshots that show the same give the same picture.
LEMMA SameIsDrawn ==
  ASSUME Consistent, NEW i \in 1 .. Len(published),
         ~(Cardinality(Nearest(Everywhere(body_before[published[i].body_id]), published[i])) > 1)
  PROVE  Drawn(Reverse(previous), published[i]) = Drawn(previous, published[i])
<1>1. PICK c : c = published[i]
  OBVIOUS
<1>2. PICK back : back = Reverse(previous)
  OBVIOUS
<1>3. SUFFICES ASSUME Blending
               PROVE  /\ Candidates(back, c) = {} <=> Candidates(previous, c) = {}
                      /\ Candidates(previous, c) # {} =>
                           Blend(Image(back, c), c) = Blend(Image(previous, c), c)
  BY <1>1, <1>2 DEF Drawn
<1>4. world_is_wrapped \in BOOLEAN /\ body \in Somewhere /\ body_before \in Somewhere
  BY DEF Consistent
<1>5. c \in Visible /\ c.body_id \in Bodies
  <2>1. published \in Seq(Visible)
    BY <1>4, SentAre DEF Consistent
  <2>2. c \in Visible
    BY <1>1, <2>1
  <2> QED
    BY <2>2 DEF Visible
<1>6. Shows(previous, body_before)
  <2>1. previous = Sent(world_is_wrapped, body_before)
    BY <1>3 DEF Blending, Consistent
  <2> QED
    BY <1>4, <2>1, SentShows
<1>7. Shows(back, body_before)
  BY <1>2, <1>6, ReversedShows
<1>8. PICK was : was = body_before[c.body_id]
  OBVIOUS
<1>9. CASE was = {}
  <2>1. body_before[c.body_id] = {}
    BY <1>8, <1>9
  <2>2. world_is_wrapped \in BOOLEAN /\ body_before \in Somewhere
    BY <1>4
  <2>3. Candidates(previous, c) = {}
    BY ONLY <1>6, <2>1, <2>2, NobodyWas
  <2>4. Candidates(back, c) = {}
    BY ONLY <1>7, <2>1, <2>2, NobodyWas
  <2> QED
    BY <2>3, <2>4
<1>10. CASE \E p \in was : was = {p}
  <2>1. PICK p : body_before[c.body_id] = {p}
    BY <1>8, <1>10
  <2>2. world_is_wrapped \in BOOLEAN
    BY <1>4
  <2>3. body_before \in Somewhere
    BY <1>4
  <2>4. StartsNear(previous, c, p)
    BY ONLY <1>5, <1>6, <2>1, <2>2, <2>3, ImageIsNearest
  <2>5. StartsNear(back, c, p)
    BY ONLY <1>5, <1>7, <2>1, <2>2, <2>3, ImageIsNearest
  <2>6. ~(Cardinality(Nearest(Everywhere({p}), c)) > 1)
    BY <1>1, <2>1
  <2>7. \A q, r \in Nearest(Everywhere({p}), c) : q = r
    BY ONLY <2>6, NearestIsOne
  <2>8. Image(back, c).x = Image(previous, c).x /\ Image(back, c).y = Image(previous, c).y
    BY <2>4, <2>5, <2>7 DEF StartsNear
  <2>9. Blend(Image(back, c), c) = Blend(Image(previous, c), c)
    BY <2>8 DEF Blend
  <2> QED
    BY <2>4, <2>5, <2>9 DEF StartsNear
<1>11. was = {} \/ \E p \in was : was = {p}
  BY <1>4, <1>5, <1>8, PlacesAre
<1> QED
  BY <1>9, <1>10, <1>11

-----------------------------------------------------------------------------
(* Between two snapshots.                                                  *)

\* The snapshots, and what the frame shows of them.
IInv == Consistent /\ NeverExtrapolates /\ NoJumpAtArrival

\* What the server sent is what the frame is drawn from.
LEMMA PublishedIs ==
  ASSUME Consistent PROVE Records[<<world_is_wrapped, body>>] = published
BY ReceivedIsSent DEF Consistent

\* NeverExtrapolates, of a frame that is drawn of two worlds.
EverywhereIn(wrapped, was) ==
  LET Copies == IF wrapped THEN -3 .. 3 ELSE {0}
  IN  {[x |-> p.x + i * Width, y |-> p.y + j * Height] : p \in was, i \in Copies, j \in Copies}

OnTheWay(wrapped, at, was, pixels) ==
  \A i \in DOMAIN pixels :
    LET c == Records[<<wrapped, at>>][i]
        before == EverywhereIn(wrapped, was[c.body_id])
    IN  \/ before = {} /\ pixels[i] = c
        \/ \E q \in Nearest(before, c) :
             Between(q.x, pixels[i].x, c.x) /\ Between(q.y, pixels[i].y, c.y)

\* It is that property.
LEMMA NeverExtrapolatesIs ==
  /\ NeverExtrapolates <=> (shown => OnTheWay(world_is_wrapped, body, body_before, drawn))
  /\ NeverExtrapolates' <=> (shown' => OnTheWay(world_is_wrapped', body', body_before', drawn'))
<1>1. NeverExtrapolates <=> (shown => OnTheWay(world_is_wrapped, body, body_before, drawn))
  BY DEF NeverExtrapolates, OnTheWay, Everywhere, EverywhereIn
<1>2. NeverExtrapolates' <=> (shown' => OnTheWay(world_is_wrapped', body', body_before', drawn'))
  BY DEF NeverExtrapolates, OnTheWay, Everywhere, EverywhereIn
<1> QED
  BY <1>1, <1>2

\* It holds of the first snapshot.
LEMMA IInvInit == Init => IInv
<1> SUFFICES ASSUME Init PROVE IInv
  OBVIOUS
<1>1. world_is_wrapped \in BOOLEAN /\ body \in Somewhere
  BY DEF Init
<1>2. body_before = [b \in Bodies |-> {}] /\ body_before \in Somewhere
  BY DEF Init, Somewhere
<1>3. published = Sent(world_is_wrapped, body)
  BY <1>1, ReceivedIsSent DEF Init
<1>4. arrived = 1 /\ interval = 0 /\ elapsed = 0 /\ shown = FALSE
  BY DEF Init
<1>5. Consistent
  BY <1>1, <1>2, <1>3, <1>4 DEF Consistent
<1> QED
  BY <1>4, <1>5 DEF IInv, NeverExtrapolates, NoJumpAtArrival

\* Every step keeps it.
LEMMA IInvNext == IInv /\ [Next]_vars => IInv'
<1> SUFFICES ASSUME IInv, [Next]_vars PROVE IInv'
  OBVIOUS
<1>1. Consistent /\ NeverExtrapolates /\ NoJumpAtArrival
  BY DEF IInv
<1>2. CASE Tick
  <2>1. elapsed' = elapsed + 1 /\ elapsed \in Nat
    BY <1>1, <1>2 DEF Tick, Consistent
  <2>2. UNCHANGED <<world_is_wrapped, body, body_before, published, previous, arrived, interval,
                    bwc_interpolation_enabled, drawn, shown, reached>>
    BY <1>2 DEF Tick, world, snapshots, frame
  <2>3. Consistent'
    BY <1>1, <2>1, <2>2 DEF Consistent
  <2>4. NeverExtrapolates'
    BY <1>1, <2>2, NeverExtrapolatesIs
  <2>5. NoJumpAtArrival'
    BY <2>1 DEF NoJumpAtArrival
  <2> QED
    BY <2>3, <2>4, <2>5 DEF IInv
<1>3. CASE Publish
  <2>1. /\ world_is_wrapped' = world_is_wrapped /\ body' \in Somewhere /\ body_before' = body
        /\ arrived' = 2 /\ interval' = elapsed /\ elapsed' = 0 /\ previous' = published
        /\ published' = Received[<<world_is_wrapped, body'>>]
    BY <1>3 DEF Publish
  <2>2. world_is_wrapped \in BOOLEAN /\ body \in Somewhere /\ elapsed \in Nat
        /\ published = Sent(world_is_wrapped, body)
    BY <1>1 DEF Consistent
  <2>3. published' = Sent(world_is_wrapped, body')
    BY <2>1, <2>2, ReceivedIsSent
  <2>4. Consistent'
    BY <2>1, <2>2, <2>3 DEF Consistent
  <2>5. shown' = FALSE
    BY <1>3 DEF Publish
  <2> QED
    BY <2>4, <2>5 DEF IInv, NeverExtrapolates, NoJumpAtArrival
<1>4. CASE Frame
  <2>1. UNCHANGED <<world_is_wrapped, body, body_before, published, previous, arrived, interval,
                    elapsed, bwc_interpolation_enabled, reached>>
    BY <1>4 DEF Frame, world, snapshots, clock
  <2>2. drawn' = [i \in DOMAIN published |-> Drawn(previous, published[i])]
    BY <1>4 DEF Frame
  <2>3. Consistent'
    BY <1>1, <2>1 DEF Consistent
  <2>4. DOMAIN published = 1 .. Len(published)
    BY <1>1, SentAre DEF Consistent
  <2>5. ASSUME NEW i \in DOMAIN published
        PROVE  LET c == published[i]
                   d == Drawn(previous, c)
                   was == body_before[c.body_id]
               IN  /\ c \in Visible /\ d.body_id = c.body_id
                   /\ was = {} => d = c
                   /\ \A p \in was :
                        /\ was = {p}
                        /\ \E q \in Nearest(Everywhere(was), c) :
                             Between(q.x, d.x, c.x) /\ Between(q.y, d.y, c.y)
                        /\ Blending /\ elapsed = 0 =>
                             \E m, n \in Far : d.x = p.x + m * Width /\ d.y = p.y + n * Height
    BY <1>1, <2>4, DrawnIs
  <2>6. NeverExtrapolates'
    <3>1. OnTheWay(world_is_wrapped, body, body_before, drawn')
      <4>1. published = Records[<<world_is_wrapped, body>>]
        BY <1>1, PublishedIs
      <4>2. DOMAIN drawn' = DOMAIN published
        BY <2>2
      <4>3. ASSUME NEW i \in DOMAIN published
            PROVE  LET c == Records[<<world_is_wrapped, body>>][i]
                       before == EverywhereIn(world_is_wrapped, body_before[c.body_id])
                   IN  \/ before = {} /\ drawn'[i] = c
                       \/ \E q \in Nearest(before, c) :
                            Between(q.x, drawn'[i].x, c.x) /\ Between(q.y, drawn'[i].y, c.y)
        <5>1. PICK c : c = published[i]
          OBVIOUS
        <5>2. PICK d : d = Drawn(previous, c)
          OBVIOUS
        <5>3. PICK was : was = body_before[c.body_id]
          OBVIOUS
        <5>4. drawn'[i] = d
          BY <2>2, <5>1, <5>2
        <5>5. EverywhereIn(world_is_wrapped, was) = Everywhere(was)
          BY DEF EverywhereIn, Everywhere
        <5>6. PICK before : before = Everywhere(was)
          OBVIOUS
        <5>7. \/ before = {} /\ d = c
              \/ \E q \in Nearest(before, c) : Between(q.x, d.x, c.x) /\ Between(q.y, d.y, c.y)
          <6>1. CASE was = {}
            <7>1. before = {}
              BY <5>6, <6>1 DEF Everywhere
            <7> QED
              BY <2>5, <5>1, <5>2, <5>3, <6>1, <7>1
          <6>2. CASE was # {}
            BY <2>5, <5>1, <5>2, <5>3, <5>6, <6>2
          <6> QED
            BY <6>1, <6>2
        <5> QED
          BY <4>1, <5>1, <5>3, <5>4, <5>5, <5>6, <5>7
      <4> QED
        BY <4>2, <4>3 DEF OnTheWay
    <3> QED
      BY <2>1, <3>1, NeverExtrapolatesIs
  <2>7. NoJumpAtArrival'
    <3>1. ASSUME NEW i \in DOMAIN published, Blending, elapsed = 0,
                 NEW p \in body_before[drawn'[i].body_id]
          PROVE  Congruent(p.x, drawn'[i].x, Width) /\ Congruent(p.y, drawn'[i].y, Height)
      <4>1. PICK c : c = published[i]
        OBVIOUS
      <4>2. PICK d : d = Drawn(previous, c)
        OBVIOUS
      <4>3. drawn'[i] = d
        BY <2>2, <4>1, <4>2
      <4>4. PICK was : was = body_before[c.body_id]
        OBVIOUS
      <4>5. /\ c \in Visible /\ d.body_id = c.body_id
            /\ \A z \in was : Blending /\ elapsed = 0 =>
                 \E m, n \in Far : d.x = z.x + m * Width /\ d.y = z.y + n * Height
        BY <2>5, <4>1, <4>2, <4>4
      <4>6. p \in was
        BY <3>1, <4>3, <4>4, <4>5
      <4>7. PICK m, n \in Far : d.x = p.x + m * Width /\ d.y = p.y + n * Height
        BY <3>1, <4>5, <4>6
      <4>8. c.body_id \in Bodies
        BY <4>5 DEF Visible
      <4>9. p.x \in Int /\ p.y \in Int
        BY <1>1, <4>4, <4>6, <4>8, PlacesAre DEF Consistent
      <4>10. world_is_wrapped \in BOOLEAN
        BY <1>1 DEF Consistent
      <4>11. Congruent(p.x, d.x, Width)
        BY <4>7, <4>9, <4>10, ImageIsCongruent, Sizes
      <4>12. Congruent(p.y, d.y, Height)
        BY <4>7, <4>9, <4>10, ImageIsCongruent, Sizes
      <4> QED
        BY <4>3, <4>11, <4>12
    <3> QED
      BY <2>1, <2>2, <3>1 DEF NoJumpAtArrival, Congruent, Blending
  <2> QED
    BY <2>3, <2>6, <2>7 DEF IInv
<1>5. CASE ToggleInterpolation
  <2>1. shown' = FALSE
    BY <1>5 DEF ToggleInterpolation
  <2>2. Consistent'
    BY <1>1, <1>5 DEF ToggleInterpolation, world, snapshots, clock, Consistent
  <2> QED
    BY <2>1, <2>2 DEF IInv, NeverExtrapolates, NoJumpAtArrival
<1>6. CASE UNCHANGED vars
  <2>1. UNCHANGED <<world_is_wrapped, body, body_before, published, previous, arrived, interval,
                    elapsed, bwc_interpolation_enabled, drawn, shown, reached>>
    BY <1>6 DEF vars, world, snapshots, clock, frame
  <2>2. Consistent'
    BY <1>1, <2>1 DEF Consistent
  <2>3. NeverExtrapolates'
    BY <1>1, <2>1, NeverExtrapolatesIs
  <2>4. NoJumpAtArrival'
    BY <1>1, <2>1 DEF NoJumpAtArrival, Congruent, Blending
  <2> QED
    BY <2>2, <2>3, <2>4 DEF IInv
<1> QED
  BY <1>2, <1>3, <1>4, <1>5, <1>6 DEF Next

\* "You never guess, so you never diverge" (docs/snapshot-interpolation.md): whatever
\* the places, the size of the screen and the time between the snapshots, a body is
\* drawn between where it is and the nearest place where it was, and one that was
\* not there where it is.
THEOREM BlendingStaysBetween == Spec => []NeverExtrapolates
<1>1. IInv => NeverExtrapolates
  BY DEF IInv
<1> QED
  BY <1>1, IInvInit, IInvNext, PTL DEF Spec

\* The first frame of a snapshot that is blended shows every body where it was, up to
\* the seams of the world.
THEOREM ArrivalsAreSmooth == Spec => []NoJumpAtArrival
<1>1. IInv => NoJumpAtArrival
  BY DEF IInv
<1> QED
  BY <1>1, IInvInit, IInvNext, PTL DEF Spec

\* "This is independent of the server's packet/set order" (bwc_interpolation_math.c):
\* a snapshot in reverse is blended to the same picture, unless a body has moved so
\* that two places are as near.
THEOREM OrderDoesNotMatter == Spec => []OrderIrrelevant
<1>1. ASSUME IInv PROVE OrderIrrelevant
  <2>1. Consistent
    BY <1>1 DEF IInv
  <2>2. DOMAIN published = 1 .. Len(published)
    BY <2>1, SentAre DEF Consistent
  <2> QED
    BY <2>1, <2>2, SameIsDrawn DEF OrderIrrelevant
<1> QED
  BY <1>1, IInvInit, IInvNext, PTL DEF Spec

-----------------------------------------------------------------------------
(* Recursion.                                                              *)

\* What holds of 0 and with each number of the next holds of all.
LEMMA Induction ==
  ASSUME NEW n \in Nat, NEW T, 0 \in T, \A k \in 0 .. n - 1 : k \in T => k + 1 \in T
  PROVE  \A k \in 0 .. n : k \in T
<1>1. PICK S : S = {k \in 0 .. n : k \notin T}
  OBVIOUS
<1>2. ASSUME S # {} PROVE FALSE
  <2>1. S \in SUBSET Nat
    BY <1>1
  <2>2. PICK d \in S : \A e \in S : d <= e
    BY ONLY <1>2, <2>1, LeastOfNaturals
  <2>3. d \in 0 .. n /\ d \notin T /\ d # 0
    BY <1>1
  <2>4. d - 1 \in 0 .. n - 1 /\ d - 1 \notin S /\ d - 1 + 1 = d
    BY <2>2, <2>3
  <2> QED
    BY <1>1, <2>3, <2>4
<1> QED
  BY <1>1, <1>2

\* The steps of a recursive function with values in S, and their results from b on.
Steps(n, S, b, step) == n \in Nat /\ b \in S /\ step \in [1 .. n -> [S -> S]]
Results(g, n, S, b, step) ==
  g \in [0 .. n -> S] /\ g[0] = b /\ \A k \in 1 .. n : g[k] = step[k][g[k - 1]]

\* A function that is defined by steps from the one before exists.
LEMMA Recursion ==
  ASSUME NEW n, NEW S, NEW b, NEW step, Steps(n, S, b, step)
  PROVE  \E g : Results(g, n, S, b, step)
<1> USE DEF Steps, Results
<1> DEFINE Good(g, m) == g[0] = b /\ \A k \in 1 .. m : g[k] = step[k][g[k - 1]]
<1>1. PICK T : T = {m \in 0 .. n : \E g \in [0 .. m -> S] : Good(g, m)}
  OBVIOUS
<1>2. 0 \in T
  <2>1. PICK g : g = [k \in 0 .. 0 |-> b]
    OBVIOUS
  <2>2. g \in [0 .. 0 -> S] /\ Good(g, 0)
    BY <2>1
  <2> QED
    BY <1>1, <2>2
<1>3. ASSUME NEW m \in 0 .. n - 1, m \in T PROVE m + 1 \in T
  <2>1. PICK g \in [0 .. m -> S] : Good(g, m)
    BY <1>1, <1>3
  <2>2. PICK h : h = [k \in 0 .. m + 1 |-> IF k = m + 1 THEN step[m + 1][g[m]] ELSE g[k]]
    OBVIOUS
  <2>3. g[m] \in S /\ step[m + 1] \in [S -> S]
    OBVIOUS
  <2>4. h \in [0 .. m + 1 -> S]
    BY <2>2, <2>3
  <2>5. h[0] = b
    BY <2>1, <2>2
  <2>6. ASSUME NEW k \in 1 .. m + 1 PROVE h[k] = step[k][h[k - 1]]
    <3>1. k - 1 \in 0 .. m /\ h[k - 1] = g[k - 1]
      BY <2>2
    <3>2. CASE k = m + 1
      BY <2>2, <3>1, <3>2
    <3>3. CASE k # m + 1
      <4>1. k \in 1 .. m /\ h[k] = g[k]
        BY <2>2, <3>3
      <4> QED
        BY <2>1, <3>1, <4>1
    <3> QED
      BY <3>2, <3>3
  <2>7. Good(h, m + 1)
    BY <2>5, <2>6
  <2>8. m + 1 \in 0 .. n
    OBVIOUS
  <2> HIDE DEF Good
  <2> QED
    BY <1>1, <2>4, <2>7, <2>8
<1>4. \A k \in 0 .. n : k \in T
  <2>1. \A m \in 0 .. n - 1 : m \in T => m + 1 \in T
    BY <1>3
  <2> QED
    BY ONLY <1>2, <2>1, n \in Nat, Induction
<1>5. n \in T
  BY <1>4
<1> QED
  BY <1>1, <1>5

\* A function with the first value and the steps of a recursion has its results.
LEMMA Unfolded ==
  ASSUME NEW n, NEW S, NEW b, NEW step, Steps(n, S, b, step),
         NEW r, r = [k \in 0 .. n |-> r[k]], r[0] = b,
         \A k \in 1 .. n : r[k - 1] \in S => r[k] = step[k][r[k - 1]]
  PROVE  Results(r, n, S, b, step)
<1>1. PICK T : T = {k \in 0 .. n : r[k] \in S}
  OBVIOUS
<1>2. n \in Nat /\ 0 \in T
  BY <1>1 DEF Steps
<1>3. ASSUME NEW k \in 0 .. n - 1, k \in T PROVE k + 1 \in T
  <2>1. PICK j \in 1 .. n : j = k + 1 /\ j - 1 = k /\ j \in 0 .. n
    BY <1>2
  <2>2. r[j] = step[j][r[k]] /\ r[k] \in S
    BY <1>1, <1>3, <2>1
  <2>3. step[j] \in [S -> S]
    BY DEF Steps
  <2>4. r[j] \in S
    BY <2>2, <2>3
  <2> QED
    BY <1>1, <2>1, <2>4
<1>4. \A k \in 0 .. n : k \in T
  <2>1. \A k \in 0 .. n - 1 : k \in T => k + 1 \in T
    BY <1>3
  <2> QED
    BY ONLY <1>2, <2>1, Induction
<1>5. \A k \in 0 .. n : r[k] \in S
  BY <1>1, <1>4
<1>6. r \in [0 .. n -> S]
  BY <1>5
<1>7. \A k \in 1 .. n : k - 1 \in 0 .. n
  BY <1>2
<1> QED
  BY <1>5, <1>6, <1>7 DEF Results
-----------------------------------------------------------------------------
(* The boundary of a shape.                                                *)

\* A bitmap of at most five cells a side that is not empty.
IsShape(shape) ==
  /\ shape.width \in 1 .. 5 /\ shape.cells # {}
  /\ shape.cells \subseteq (0 .. shape.width - 1) \X (0 .. shape.width - 1)

Points == Int \X Int
Edges == [from : Points, to : Points, of : Points, beyond : Points]
SideCount(w) == 4 * (w * w)

\* A number is divided into a multiple and the rest.
LEMMA Division ==
  ASSUME NEW v \in Nat, NEW base \in Nat \ {0}
  PROVE  /\ v \div base \in Nat /\ v % base \in 0 .. base - 1
         /\ v % base = v - base * (v \div base)
OBVIOUS

\* Numbers of sides are numbers of cells and of the side in the cell.
LEMMA SideNumber ==
  ASSUME NEW w \in 1 .. 5, NEW k \in 0 .. SideCount(w) - 1
  PROVE  /\ (k \div 4) % w \in 0 .. w - 1 /\ (k \div 4) \div w \in 0 .. w - 1 /\ (k % 4) + 1 \in 1 .. 4
         /\ k = 4 * (((k \div 4) \div w) * w + ((k \div 4) % w)) + (k % 4)
<1> DEFINE q == k \div 4
           r == k % 4
<1>2. q \in 0 .. w * w - 1 /\ r \in 0 .. 3 /\ k = 4 * q + r
  <2>1. PICK m \in Int : m = w * w
    OBVIOUS
  <2>2. k \in 0 .. 4 * m - 1
    BY <2>1 DEF SideCount
  <2>3. q \in 0 .. m - 1 /\ r \in 0 .. 3 /\ k = 4 * q + r
    BY ONLY <2>1, <2>2, SMT
  <2> QED
    BY <2>1, <2>3
<1> HIDE DEF q, r
<1>3. q % w \in 0 .. w - 1 /\ q \div w \in 0 .. w - 1 /\ q = (q \div w) * w + (q % w)
  <2> DEFINE d == q \div w
             e == q % w
  <2>2. q \in Nat /\ w \in Nat \ {0}
    BY <1>2
  <2>3. d \in Nat /\ e \in 0 .. w - 1 /\ e = q - w * d
    BY <2>2, Division
  <2> HIDE DEF d, e
  <2>4. w = 1 \/ w = 2 \/ w = 3 \/ w = 4 \/ w = 5
    OBVIOUS
  <2>5. d < w
    <3>1. CASE w = 1
      BY <1>2, <2>3, <3>1
    <3>2. CASE w = 2
      BY <1>2, <2>3, <3>2
    <3>3. CASE w = 3
      BY <1>2, <2>3, <3>3
    <3>4. CASE w = 4
      BY <1>2, <2>3, <3>4
    <3>5. CASE w = 5
      BY <1>2, <2>3, <3>5
    <3> QED
      BY <2>4, <3>1, <3>2, <3>3, <3>4, <3>5
  <2>6. d * w = w * d
    BY <2>3
  <2>7. q = d * w + e
    BY <2>2, <2>3, <2>6
  <2>8. d \in 0 .. w - 1
    BY <2>3, <2>5
  <2> QED
    BY <2>3, <2>7, <2>8, Zenon DEF d, e
<1>4. r + 1 \in 1 .. 4
  BY <1>2
<1>5. k = 4 * ((q \div w) * w + (q % w)) + r
  BY <1>2, <1>3
<1> QED
  BY <1>3, <1>4, <1>5, Zenon DEF q, r

Numbers(k, w, x, y, i) == (k \div 4) % w = x /\ (k \div 4) \div w = y /\ (k % 4) + 1 = i

\* Each side of each cell of a square of at most five has a number.
LEMMA NumberOfSide ==
  ASSUME NEW w \in 1 .. 5, NEW x \in 0 .. w - 1, NEW y \in 0 .. w - 1, NEW i \in 1 .. 4
  PROVE  \E k \in 0 .. SideCount(w) - 1 : Numbers(k, w, x, y, i)
<1>1. PICK k \in Int : k = 4 * (y * w + x) + i - 1
  OBVIOUS
<1>2. CASE w = 1
  BY <1>1, <1>2, SMT DEF SideCount, Numbers
<1>3. CASE w = 2
  BY <1>1, <1>3, SMT DEF SideCount, Numbers
<1>4. CASE w = 3
  BY <1>1, <1>4, SMT DEF SideCount, Numbers
<1>5. CASE w = 4
  BY <1>1, <1>5, SMT DEF SideCount, Numbers
<1>6. CASE w = 5
  BY <1>1, <1>6, SMT DEF SideCount, Numbers
<1> QED
  BY <1>2, <1>3, <1>4, <1>5, <1>6

\* A side, its ends, its cell and the cell beyond.
LEMMA SidesAre ==
  ASSUME NEW x \in Int, NEW y \in Int
  PROVE  /\ Sides(x, y)[1] = [from |-> <<x, y>>, to |-> <<x + 1, y>>, of |-> <<x, y>>, beyond |-> <<x, y - 1>>]
         /\ Sides(x, y)[2] = [from |-> <<x + 1, y>>, to |-> <<x + 1, y + 1>>, of |-> <<x, y>>, beyond |-> <<x + 1, y>>]
         /\ Sides(x, y)[3] = [from |-> <<x + 1, y + 1>>, to |-> <<x, y + 1>>, of |-> <<x, y>>, beyond |-> <<x, y + 1>>]
         /\ Sides(x, y)[4] = [from |-> <<x, y + 1>>, to |-> <<x, y>>, of |-> <<x, y>>, beyond |-> <<x - 1, y>>]
         /\ \A i \in 1 .. 4 : Sides(x, y)[i] \in Edges /\ Sides(x, y)[i].of = <<x, y>>
<1>1. /\ Sides(x, y)[1] = [from |-> <<x, y>>, to |-> <<x + 1, y>>, of |-> <<x, y>>, beyond |-> <<x, y - 1>>]
      /\ Sides(x, y)[2] = [from |-> <<x + 1, y>>, to |-> <<x + 1, y + 1>>, of |-> <<x, y>>, beyond |-> <<x + 1, y>>]
      /\ Sides(x, y)[3] = [from |-> <<x + 1, y + 1>>, to |-> <<x, y + 1>>, of |-> <<x, y>>, beyond |-> <<x, y + 1>>]
      /\ Sides(x, y)[4] = [from |-> <<x, y + 1>>, to |-> <<x, y>>, of |-> <<x, y>>, beyond |-> <<x - 1, y>>]
  BY DEF Sides
<1>2. \A i \in 1 .. 4 : i = 1 \/ i = 2 \/ i = 3 \/ i = 4
  OBVIOUS
<1>3. \A i \in 1 .. 4 : Sides(x, y)[i].of = <<x, y>>
  BY <1>1, <1>2
<1>4. \A i \in 1 .. 4 : Sides(x, y)[i] \in Edges
  <2>1. <<x, y>> \in Points /\ <<x + 1, y>> \in Points /\ <<x, y + 1>> \in Points /\ <<x + 1, y + 1>> \in Points
        /\ <<x - 1, y>> \in Points /\ <<x, y - 1>> \in Points
    BY DEF Points
  <2> HIDE DEF Points
  <2> QED
    BY <1>1, <1>2, <2>1 DEF Edges
<1> QED
  BY <1>1, <1>3, <1>4

\* A side tells its cell and which of the four it is.
LEMMA SidesDiffer ==
  ASSUME NEW x \in Int, NEW y \in Int, NEW i \in 1 .. 4, NEW j \in 1 .. 4, i # j
  PROVE  Sides(x, y)[i].from # Sides(x, y)[j].from
<1>1. \A k \in {i, j} : k = 1 \/ k = 2 \/ k = 3 \/ k = 4
  OBVIOUS
<1>2. /\ Sides(x, y)[1].from = <<x, y>> /\ Sides(x, y)[2].from = <<x + 1, y>>
      /\ Sides(x, y)[3].from = <<x + 1, y + 1>> /\ Sides(x, y)[4].from = <<x, y + 1>>
  BY DEF Sides
<1>3. x # x + 1 /\ y # y + 1
  OBVIOUS
<1> QED
  BY <1>1, <1>2, <1>3

\* Each number is the side of a cell, and each side of a cell has one.
LEMMA SideIs ==
  ASSUME NEW shape, IsShape(shape), NEW k \in 0 .. SideCount(shape.width) - 1
  PROVE  \E x, y \in 0 .. shape.width - 1 : \E i \in 1 .. 4 :
           Side(shape, k) = Sides(x, y)[i] /\ k = 4 * (y * shape.width + x) + (i - 1)
<1> DEFINE w == shape.width
           x == (k \div 4) % w
           y == (k \div 4) \div w
           i == (k % 4) + 1
<1>1. w \in 1 .. 5
  BY DEF IsShape
<1>2. x \in 0 .. w - 1 /\ y \in 0 .. w - 1 /\ i \in 1 .. 4 /\ k = 4 * (y * w + x) + (k % 4)
  BY <1>1, SideNumber
<1>3. k % 4 = i - 1
  OBVIOUS
<1>4. Side(shape, k) = Sides(x, y)[i]
  BY DEF Side
<1> HIDE DEF w, x, y, i
<1>5. k = 4 * (y * w + x) + (i - 1)
  BY <1>2, <1>3
<1>6. w = shape.width
  BY DEF w
<1> QED
  BY ONLY <1>2, <1>4, <1>5, <1>6

\* Each side of each cell of a shape is one of its sides by number.
LEMMA SideAt ==
  ASSUME NEW shape, IsShape(shape), NEW x \in 0 .. shape.width - 1, NEW y \in 0 .. shape.width - 1,
         NEW i \in 1 .. 4
  PROVE  \E k \in 0 .. SideCount(shape.width) - 1 : Side(shape, k) = Sides(x, y)[i]
<1>1. PICK w \in 1 .. 5 : w = shape.width
  BY DEF IsShape
<1>2. x \in 0 .. w - 1 /\ y \in 0 .. w - 1
  BY <1>1
<1>3. PICK k \in 0 .. SideCount(w) - 1 : Numbers(k, w, x, y, i)
  BY <1>2, NumberOfSide
<1> QED
  BY <1>1, <1>3 DEF Side, Numbers

\* No side of a shape has two numbers.
LEMMA SideApart ==
  ASSUME NEW shape, IsShape(shape), NEW k \in 0 .. SideCount(shape.width) - 1,
         NEW l \in 0 .. SideCount(shape.width) - 1, Side(shape, k) = Side(shape, l)
  PROVE  k = l
<1>1. PICK w \in 1 .. 5 : w = shape.width
  BY DEF IsShape
<1>2. PICK x, y \in 0 .. w - 1, i \in 1 .. 4 :
        Side(shape, k) = Sides(x, y)[i] /\ k = 4 * (y * w + x) + (i - 1)
  BY ONLY <1>1, IsShape(shape), k \in 0 .. SideCount(shape.width) - 1, SideIs
<1>3. PICK u, v \in 0 .. w - 1, j \in 1 .. 4 :
        Side(shape, l) = Sides(u, v)[j] /\ l = 4 * (v * w + u) + (j - 1)
  BY ONLY <1>1, IsShape(shape), l \in 0 .. SideCount(shape.width) - 1, SideIs
<1>4. x \in Int /\ y \in Int /\ u \in Int /\ v \in Int
  BY <1>1
<1>5. Sides(x, y)[i].of = <<x, y>> /\ Sides(u, v)[j].of = <<u, v>>
  BY ONLY <1>4, i \in 1 .. 4, j \in 1 .. 4, SidesAre
<1>6. x = u /\ y = v
  <2>1. <<x, y>> = <<u, v>>
    BY <1>2, <1>3, <1>5
  <2> QED
    BY <2>1
<1>7. i = j
  BY <1>2, <1>3, <1>4, <1>6, SidesDiffer
<1> QED
  BY <1>2, <1>3, <1>6, <1>7

\* What one side more makes of the edges.
Push(shape, s, k) ==
  IF OnBoundary(shape, Side(shape, k)) THEN Append(s, Side(shape, k)) ELSE s

Pushes(shape) ==
  CHOOSE push : push = [k \in 0 .. 4 * (shape.width * shape.width) |->
    IF k = 0 THEN <<>>
    ELSE IF OnBoundary(shape, Side(shape, k - 1)) THEN Append(push[k - 1], Side(shape, k - 1))
    ELSE push[k - 1]]

\* What vo_trace collects is the last of the lists that grow side by side.
LEMMA PushesAre ==
  ASSUME NEW shape, IsShape(shape)
  PROVE  \E n \in Nat : \E push \in [0 .. n -> Seq(Edges)] :
           /\ n = SideCount(shape.width) /\ BoundaryEdges(shape) = push[n] /\ push[0] = <<>>
           /\ \A k \in 1 .. n : push[k] = Push(shape, push[k - 1], k - 1)
<1>1. PICK n \in Nat : n = SideCount(shape.width)
  BY DEF IsShape, SideCount
<1>2. PICK S : S = Seq(Edges)
  OBVIOUS
<1>3. \A k \in 0 .. n - 1 : Side(shape, k) \in Edges
  <2> SUFFICES ASSUME NEW k \in 0 .. n - 1 PROVE Side(shape, k) \in Edges
    OBVIOUS
  <2>1. PICK x, y \in 0 .. shape.width - 1, i \in 1 .. 4 : Side(shape, k) = Sides(x, y)[i]
    BY <1>1, SideIs
  <2>2. x \in Int /\ y \in Int
    BY DEF IsShape
  <2>3. Sides(x, y)[i] \in Edges
    BY ONLY <2>2, i \in 1 .. 4, SidesAre
  <2> QED
    BY ONLY <2>1, <2>3
<1>4. PICK step : step = [k \in 1 .. n |-> [s \in S |-> Push(shape, s, k - 1)]]
  OBVIOUS
<1>5. Steps(n, S, <<>>, step)
  <2>1. \A k \in 1 .. n : \A s \in S : Push(shape, s, k - 1) \in S
    <3> SUFFICES ASSUME NEW k \in 1 .. n, NEW s \in S PROVE Push(shape, s, k - 1) \in S
      OBVIOUS
    <3>1. k - 1 \in 0 .. n - 1
      OBVIOUS
    <3> QED
      BY <1>2, <1>3, <3>1 DEF Push
  <2>2. <<>> \in S
    BY <1>2
  <2> QED
    BY <1>4, <2>1, <2>2 DEF Steps
<1>6. PICK g : Results(g, n, S, <<>>, step)
  BY <1>5, Recursion
<1> DEFINE Is(r) == r = [k \in 0 .. n |-> IF k = 0 THEN <<>> ELSE Push(shape, r[k - 1], k - 1)]
<1>7. Is(g)
  <2>1. g \in [0 .. n -> S] /\ g[0] = <<>> /\ \A k \in 1 .. n : g[k] = step[k][g[k - 1]]
    BY <1>6 DEF Results
  <2>2. \A k \in 1 .. n : k - 1 \in 0 .. n
    OBVIOUS
  <2>3. \A k \in 1 .. n : g[k] = Push(shape, g[k - 1], k - 1)
    BY <1>4, <2>1, <2>2
  <2>4. PICK h : h = [k \in 0 .. n |-> IF k = 0 THEN <<>> ELSE Push(shape, g[k - 1], k - 1)]
    OBVIOUS
  <2>5. \A k \in 0 .. n : k = 0 \/ k \in 1 .. n
    OBVIOUS
  <2>6. \A k \in 0 .. n : g[k] = h[k]
    BY <2>1, <2>3, <2>4, <2>5
  <2>7. g = h
    BY <2>1, <2>4, <2>6
  <2> QED
    BY <2>4, <2>7
<1>8. Is(CHOOSE r : Is(r))
  BY <1>7
<1>9. PICK r : r = Pushes(shape) /\ Is(r)
  BY <1>1, <1>8, Zenon DEF Pushes, Push, SideCount
<1>10. r[0] = <<>> /\ \A k \in 1 .. n : r[k] = Push(shape, r[k - 1], k - 1)
  <2>1. 0 \in 0 .. n /\ \A k \in 1 .. n : k \in 0 .. n /\ k # 0
    OBVIOUS
  <2> QED
    BY <1>9, <2>1
<1>11. r = [k \in 0 .. n |-> r[k]]
  BY <1>9
<1> HIDE DEF Is
<1>12. \A k \in 1 .. n : r[k - 1] \in S => r[k] = step[k][r[k - 1]]
  BY <1>4, <1>10
<1>13. Results(r, n, S, <<>>, step)
  BY ONLY <1>5, <1>10, <1>11, <1>12, Unfolded
<1>14. r \in [0 .. n -> Seq(Edges)]
  BY <1>2, <1>13 DEF Results
<1>15. BoundaryEdges(shape) = r[n]
  BY <1>1, <1>9 DEF BoundaryEdges, Pushes, SideCount
<1> QED
  BY <1>1, <1>10, <1>14, <1>15

\* Of the first k sides, those on the boundary are in the list, each once.
SoFar(shape, s, k) ==
  /\ Len(s) <= k
  /\ \A i \in 1 .. Len(s) : \E j \in 0 .. k - 1 : s[i] = Side(shape, j) /\ OnBoundary(shape, s[i])
  /\ \A j \in 0 .. k - 1 :
       OnBoundary(shape, Side(shape, j)) => \E i \in 1 .. Len(s) : s[i] = Side(shape, j)
  /\ \A i, m \in 1 .. Len(s) : s[i] = s[m] => i = m

\* A further side goes to the end of the list if it is on the boundary.
LEMMA PushSoFar ==
  ASSUME NEW shape, IsShape(shape), NEW k \in 0 .. SideCount(shape.width) - 1,
         NEW s \in Seq(Edges), SoFar(shape, s, k), Side(shape, k) \in Edges
  PROVE  SoFar(shape, Push(shape, s, k), k + 1)
<1>1. PICK n \in Nat : n = SideCount(shape.width)
  BY DEF IsShape, SideCount
<1>2. PICK e \in Edges : e = Side(shape, k)
  OBVIOUS
<1>3. k \in Nat /\ \A j \in 0 .. k : j = k \/ j \in 0 .. k - 1
  BY <1>1
<1>4. \A j \in 0 .. k - 1 : Side(shape, j) # e
  <2> SUFFICES ASSUME NEW j \in 0 .. k - 1, Side(shape, j) = e PROVE FALSE
    OBVIOUS
  <2>1. j \in 0 .. SideCount(shape.width) - 1 /\ j # k
    BY <1>1, <1>3
  <2> QED
    BY <1>2, <2>1, SideApart
<1>5. CASE ~OnBoundary(shape, e)
  <2>1. Push(shape, s, k) = s
    BY <1>2, <1>5 DEF Push
  <2>2. \A i \in 1 .. Len(s) : \E j \in 0 .. k : s[i] = Side(shape, j) /\ OnBoundary(shape, s[i])
    BY <1>3 DEF SoFar
  <2>3. \A j \in 0 .. k :
          OnBoundary(shape, Side(shape, j)) => \E i \in 1 .. Len(s) : s[i] = Side(shape, j)
    BY <1>2, <1>3, <1>5 DEF SoFar
  <2>4. Len(s) <= k + 1 /\ k + 1 - 1 = k
    BY <1>3 DEF SoFar
  <2> QED
    BY <2>1, <2>2, <2>3, <2>4 DEF SoFar
<1>6. CASE OnBoundary(shape, e)
  <2>0. Append(s, e) \in Seq(Edges)
    BY ONLY s \in Seq(Edges), e \in Edges
  <2>1. PICK t \in Seq(Edges) : t = Append(s, e)
    BY <2>0
  <2>2. Push(shape, s, k) = t
    BY <1>2, <1>6, <2>1 DEF Push
  <2>3. PICK l \in Nat : l = Len(s)
    OBVIOUS
  <2>4. Len(t) = l + 1 /\ t[l + 1] = e /\ \A i \in 1 .. l : t[i] = s[i]
    BY <2>1, <2>3
  <2>5. \A i \in 1 .. l + 1 : i = l + 1 \/ i \in 1 .. l
    BY <2>3
  <2>6. \A i \in 1 .. l + 1 : \E j \in 0 .. k : t[i] = Side(shape, j) /\ OnBoundary(shape, t[i])
    <3>1. \A i \in 1 .. l : \E j \in 0 .. k : t[i] = Side(shape, j) /\ OnBoundary(shape, t[i])
      BY <1>3, <2>3, <2>4 DEF SoFar
    <3>2. k \in 0 .. k
      BY <1>3
    <3> QED
      BY <1>2, <1>6, <2>4, <2>5, <3>1, <3>2
  <2>7. \A j \in 0 .. k :
          OnBoundary(shape, Side(shape, j)) => \E i \in 1 .. l + 1 : t[i] = Side(shape, j)
    <3>1. \A j \in 0 .. k - 1 :
            OnBoundary(shape, Side(shape, j)) => \E i \in 1 .. l : t[i] = Side(shape, j)
      BY <2>3, <2>4 DEF SoFar
    <3>2. l + 1 \in 1 .. l + 1 /\ \A i \in 1 .. l : i \in 1 .. l + 1
      BY <2>3
    <3> QED
      BY <1>2, <1>3, <2>4, <3>1, <3>2
  <2>8. \A i, m \in 1 .. l + 1 : t[i] = t[m] => i = m
    <3>1. \A i, m \in 1 .. l : t[i] = t[m] => i = m
      BY <2>3, <2>4 DEF SoFar
    <3>2. \A i \in 1 .. l : t[i] # e
      BY <1>4, <2>3, <2>4 DEF SoFar
    <3> QED
      BY <2>4, <2>5, <3>1, <3>2
  <2>9. l + 1 <= k + 1 /\ k + 1 - 1 = k
    BY <1>3, <2>3 DEF SoFar
  <2> QED
    BY <2>2, <2>4, <2>6, <2>7, <2>8, <2>9 DEF SoFar
<1> QED
  BY <1>5, <1>6

\* The sides on the boundary, each once.
IsBoundary(shape, edges) ==
  /\ edges \in Seq(Edges) /\ Len(edges) <= SideCount(shape.width)
  /\ \A i \in 1 .. Len(edges) :
       \E x, y \in 0 .. shape.width - 1 : \E n \in 1 .. 4 :
         edges[i] = Sides(x, y)[n] /\ OnBoundary(shape, Sides(x, y)[n])
  /\ \A x, y \in 0 .. shape.width - 1 : \A n \in 1 .. 4 :
       OnBoundary(shape, Sides(x, y)[n]) => \E i \in 1 .. Len(edges) : edges[i] = Sides(x, y)[n]
  /\ \A i, m \in 1 .. Len(edges) : edges[i] = edges[m] => i = m

\* The edges collected are those between a filled cell and an empty one, each once.
LEMMA BoundaryIs ==
  ASSUME NEW shape, IsShape(shape)
  PROVE  IsBoundary(shape, BoundaryEdges(shape))
<1>0. PICK n \in Nat : \E push \in [0 .. n -> Seq(Edges)] :
        /\ n = SideCount(shape.width) /\ BoundaryEdges(shape) = push[n] /\ push[0] = <<>>
        /\ \A k \in 1 .. n : push[k] = Push(shape, push[k - 1], k - 1)
  BY PushesAre
<1>1. PICK push \in [0 .. n -> Seq(Edges)] :
        /\ n = SideCount(shape.width) /\ BoundaryEdges(shape) = push[n] /\ push[0] = <<>>
        /\ \A k \in 1 .. n : push[k] = Push(shape, push[k - 1], k - 1)
  BY <1>0
<1>2. \A k \in 0 .. n - 1 : Side(shape, k) \in Edges
  <2> SUFFICES ASSUME NEW k \in 0 .. n - 1 PROVE Side(shape, k) \in Edges
    OBVIOUS
  <2>1. PICK x, y \in 0 .. shape.width - 1, i \in 1 .. 4 : Side(shape, k) = Sides(x, y)[i]
    BY <1>1, SideIs
  <2>2. x \in Int /\ y \in Int
    BY DEF IsShape
  <2>3. Sides(x, y)[i] \in Edges
    BY ONLY <2>2, i \in 1 .. 4, SidesAre
  <2> QED
    BY ONLY <2>1, <2>3
<1>3. PICK T : T = {k \in 0 .. n : SoFar(shape, push[k], k)}
  OBVIOUS
<1>4. 0 \in T
  <2>1. SoFar(shape, <<>>, 0)
    BY DEF SoFar
  <2> QED
    BY <1>1, <1>3, <2>1
<1>5. ASSUME NEW k \in 0 .. n - 1, k \in T PROVE k + 1 \in T
  <2>1. PICK j \in 1 .. n : j = k + 1 /\ j - 1 = k
    OBVIOUS
  <2>2. push[j] = Push(shape, push[k], k) /\ push[k] \in Seq(Edges)
    BY <1>1, <2>1
  <2>3. SoFar(shape, push[j], k + 1)
    BY <1>1, <1>2, <1>3, <1>5, <2>2, PushSoFar
  <2> QED
    BY <1>3, <2>1, <2>3
<1>6. n \in T
  <2>1. \A k \in 0 .. n - 1 : k \in T => k + 1 \in T
    BY <1>5
  <2>2. \A k \in 0 .. n : k \in T
    BY ONLY n \in Nat, <1>4, <2>1, Induction
  <2> QED
    BY <2>2
<1>7. PICK s \in Seq(Edges) : s = BoundaryEdges(shape) /\ SoFar(shape, s, n)
  BY <1>1, <1>3, <1>6
<1>8. ASSUME NEW i \in 1 .. Len(s)
      PROVE  \E x, y \in 0 .. shape.width - 1 : \E m \in 1 .. 4 :
               s[i] = Sides(x, y)[m] /\ OnBoundary(shape, Sides(x, y)[m])
  <2>1. PICK j \in 0 .. n - 1 : s[i] = Side(shape, j) /\ OnBoundary(shape, s[i])
    BY <1>7 DEF SoFar
  <2>2. PICK x, y \in 0 .. shape.width - 1, m \in 1 .. 4 : Side(shape, j) = Sides(x, y)[m]
    BY <1>1, SideIs
  <2> QED
    BY <2>1, <2>2
<1>9. ASSUME NEW x \in 0 .. shape.width - 1, NEW y \in 0 .. shape.width - 1, NEW m \in 1 .. 4,
             OnBoundary(shape, Sides(x, y)[m])
      PROVE  \E i \in 1 .. Len(s) : s[i] = Sides(x, y)[m]
  <2>1. n = SideCount(shape.width)
    BY <1>1
  <2>2. PICK j \in 0 .. n - 1 : Side(shape, j) = Sides(x, y)[m]
    BY ONLY <2>1, IsShape(shape), x \in 0 .. shape.width - 1, y \in 0 .. shape.width - 1, m \in 1 .. 4, SideAt
  <2>3. \A k \in 0 .. n - 1 :
          OnBoundary(shape, Side(shape, k)) => \E i \in 1 .. Len(s) : s[i] = Side(shape, k)
    BY <1>7 DEF SoFar
  <2> QED
    BY ONLY <1>9, <2>2, <2>3
<1> QED
  BY <1>1, <1>7, <1>8, <1>9 DEF IsBoundary, SoFar

-----------------------------------------------------------------------------
(* At each corner as many edges come as leave.                             *)

One(p) == IF p THEN 1 ELSE 0
Part(p, j) == IF p THEN {j} ELSE {}

\* Adding what was not there adds one.
LEMMA PartAdded ==
  ASSUME NEW S, IsFiniteSet(S), NEW p \in BOOLEAN, NEW j, p => j \notin S
  PROVE  /\ IsFiniteSet(S \cup Part(p, j))
         /\ Cardinality(S \cup Part(p, j)) = Cardinality(S) + One(p)
<1>1. Cardinality(S) \in Nat
  BY FS_CardinalityType
<1>2. CASE p
  <2>1. S \cup Part(p, j) = S \cup {j} /\ One(p) = 1
    BY <1>2 DEF Part, One
  <2>2. IsFiniteSet(S \cup {j}) /\ Cardinality(S \cup {j}) = Cardinality(S) + 1
    BY <1>2, FS_AddElement
  <2> QED
    BY <2>1, <2>2
<1>3. CASE ~p
  <2>1. S \cup Part(p, j) = S /\ One(p) = 0
    BY <1>3 DEF Part, One
  <2> QED
    BY <1>1, <2>1
<1> QED
  BY <1>2, <1>3

\* Of a list without repetitions, the places of up to four members.
Places4(list, n, p1, e1, p2, e2, p3, e3, p4, e4) ==
  {j \in 1 .. n : \/ p1 /\ list[j] = e1
                  \/ p2 /\ list[j] = e2
                  \/ p3 /\ list[j] = e3
                  \/ p4 /\ list[j] = e4}

Holds(list, n, p, e) == p => \E j \in 1 .. n : list[j] = e
NoneTwice(list, n) == \A i, m \in 1 .. n : list[i] = list[m] => i = m
FourApart(e1, e2, e3, e4) == e1 # e2 /\ e1 # e3 /\ e1 # e4 /\ e2 # e3 /\ e2 # e4 /\ e3 # e4

\* The places in a list of four different values count those that are there.
LEMMA PlacesCounted ==
  ASSUME NEW list, NEW n \in Nat, NoneTwice(list, n),
         NEW p1 \in BOOLEAN, NEW p2 \in BOOLEAN, NEW p3 \in BOOLEAN, NEW p4 \in BOOLEAN,
         NEW e1, NEW e2, NEW e3, NEW e4, FourApart(e1, e2, e3, e4),
         Holds(list, n, p1, e1), Holds(list, n, p2, e2), Holds(list, n, p3, e3), Holds(list, n, p4, e4)
  PROVE  Cardinality(Places4(list, n, p1, e1, p2, e2, p3, e3, p4, e4)) = One(p1) + One(p2) + One(p3) + One(p4)
<1>1. PICK j1 : p1 => j1 \in 1 .. n /\ list[j1] = e1
  BY DEF Holds
<1>2. PICK j2 : p2 => j2 \in 1 .. n /\ list[j2] = e2
  BY DEF Holds
<1>3. PICK j3 : p3 => j3 \in 1 .. n /\ list[j3] = e3
  BY DEF Holds
<1>4. PICK j4 : p4 => j4 \in 1 .. n /\ list[j4] = e4
  BY DEF Holds
<1>5. PICK S1, S2, S3, S4 : /\ S1 = {} \cup Part(p1, j1) /\ S2 = S1 \cup Part(p2, j2)
                            /\ S3 = S2 \cup Part(p3, j3) /\ S4 = S3 \cup Part(p4, j4)
  OBVIOUS
<1>6. Places4(list, n, p1, e1, p2, e2, p3, e3, p4, e4) = S4
  <2>1. ASSUME NEW j \in Places4(list, n, p1, e1, p2, e2, p3, e3, p4, e4) PROVE j \in S4
    BY <1>1, <1>2, <1>3, <1>4, <1>5 DEF Places4, Part, NoneTwice
  <2>2. ASSUME NEW j \in S4 PROVE j \in Places4(list, n, p1, e1, p2, e2, p3, e3, p4, e4)
    BY <1>1, <1>2, <1>3, <1>4, <1>5 DEF Places4, Part, NoneTwice
  <2> QED
    BY <2>1, <2>2
<1>7. IsFiniteSet({}) /\ Cardinality({}) = 0
  BY FS_EmptySet
<1>8. IsFiniteSet(S1) /\ Cardinality(S1) = 0 + One(p1)
  BY <1>5, <1>7, PartAdded
<1>9. p2 => j2 \notin S1
  BY <1>1, <1>2, <1>5 DEF Part, FourApart
<1>10. IsFiniteSet(S2) /\ Cardinality(S2) = Cardinality(S1) + One(p2)
  BY <1>5, <1>8, <1>9, PartAdded
<1>11. p3 => j3 \notin S2
  BY <1>1, <1>2, <1>3, <1>5 DEF Part, FourApart
<1>12. IsFiniteSet(S3) /\ Cardinality(S3) = Cardinality(S2) + One(p3)
  BY <1>5, <1>10, <1>11, PartAdded
<1>13. p4 => j4 \notin S3
  BY <1>1, <1>2, <1>3, <1>4, <1>5 DEF Part, FourApart
<1>14. IsFiniteSet(S4) /\ Cardinality(S4) = Cardinality(S3) + One(p4)
  BY <1>5, <1>12, <1>13, PartAdded
<1>15. One(p1) \in Nat /\ One(p2) \in Nat /\ One(p3) \in Nat /\ One(p4) \in Nat
  BY DEF One
<1> QED
  BY <1>6, <1>8, <1>10, <1>12, <1>14, <1>15

Leaving(edges, used, v) == {j \in DOMAIN edges \ used : edges[j].from = v}
Coming(edges, used, v) == {j \in DOMAIN edges \ used : edges[j].to = v}

Balanced(edges, used) ==
  \A v \in Points : Cardinality(Leaving(edges, used, v)) = Cardinality(Coming(edges, used, v))

\* The edges that leave a corner are sides of the four cells around it.
LEMMA BoundaryLeaves ==
  ASSUME NEW shape, IsShape(shape), NEW edges, IsBoundary(shape, edges), NEW x \in Int, NEW y \in Int
  PROVE  Leaving(edges, {}, <<x, y>>) =
           Places4(edges, Len(edges),
             OnBoundary(shape, Sides(x, y)[1]), Sides(x, y)[1],
             OnBoundary(shape, Sides(x - 1, y)[2]), Sides(x - 1, y)[2],
             OnBoundary(shape, Sides(x - 1, y - 1)[3]), Sides(x - 1, y - 1)[3],
             OnBoundary(shape, Sides(x, y - 1)[4]), Sides(x, y - 1)[4])
<1>1. DOMAIN edges = 1 .. Len(edges)
  BY DEF IsBoundary
<1>2. PICK P : P = Places4(edges, Len(edges),
             OnBoundary(shape, Sides(x, y)[1]), Sides(x, y)[1],
             OnBoundary(shape, Sides(x - 1, y)[2]), Sides(x - 1, y)[2],
             OnBoundary(shape, Sides(x - 1, y - 1)[3]), Sides(x - 1, y - 1)[3],
             OnBoundary(shape, Sides(x, y - 1)[4]), Sides(x, y - 1)[4])
  OBVIOUS
<1>3. /\ Sides(x, y)[1].from = <<x, y>> /\ Sides(x - 1, y)[2].from = <<x, y>>
      /\ Sides(x - 1, y - 1)[3].from = <<x, y>> /\ Sides(x, y - 1)[4].from = <<x, y>>
  BY DEF Sides
<1>4. ASSUME NEW j \in 1 .. Len(edges), edges[j].from = <<x, y>> PROVE j \in P
  <2>1. PICK u, v \in 0 .. shape.width - 1, m \in 1 .. 4 :
          edges[j] = Sides(u, v)[m] /\ OnBoundary(shape, Sides(u, v)[m])
    BY DEF IsBoundary
  <2>2. u \in Int /\ v \in Int
    BY DEF IsShape
  <2>3. m = 1 \/ m = 2 \/ m = 3 \/ m = 4
    OBVIOUS
  <2>4. /\ Sides(u, v)[1].from = <<u, v>> /\ Sides(u, v)[2].from = <<u + 1, v>>
        /\ Sides(u, v)[3].from = <<u + 1, v + 1>> /\ Sides(u, v)[4].from = <<u, v + 1>>
    BY DEF Sides
  <2>5. CASE m = 1
    <3>1. u = x /\ v = y
      BY <1>4, <2>1, <2>4, <2>5
    <3> QED
      BY <1>2, <2>1, <2>5, <3>1 DEF Places4
  <2>6. CASE m = 2
    <3>1. <<u + 1, v>> = <<x, y>>
      BY <1>4, <2>1, <2>4, <2>6
    <3>2. u = x - 1 /\ v = y
      BY <2>2, <3>1
    <3> QED
      BY <1>2, <2>1, <2>6, <3>2 DEF Places4
  <2>7. CASE m = 3
    <3>1. <<u + 1, v + 1>> = <<x, y>>
      BY <1>4, <2>1, <2>4, <2>7
    <3>2. u = x - 1 /\ v = y - 1
      BY <2>2, <3>1
    <3> QED
      BY <1>2, <2>1, <2>7, <3>2 DEF Places4
  <2>8. CASE m = 4
    <3>1. <<u, v + 1>> = <<x, y>>
      BY <1>4, <2>1, <2>4, <2>8
    <3>2. u = x /\ v = y - 1
      BY <2>2, <3>1
    <3> QED
      BY <1>2, <2>1, <2>8, <3>2 DEF Places4
  <2> QED
    BY <2>3, <2>5, <2>6, <2>7, <2>8
<1>5. ASSUME NEW j \in P PROVE j \in 1 .. Len(edges) /\ edges[j].from = <<x, y>>
  BY <1>2, <1>3 DEF Places4
<1> QED
  BY <1>1, <1>2, <1>4, <1>5 DEF Leaving

\* And so are those that come to it.
LEMMA BoundaryComes ==
  ASSUME NEW shape, IsShape(shape), NEW edges, IsBoundary(shape, edges), NEW x \in Int, NEW y \in Int
  PROVE  Coming(edges, {}, <<x, y>>) =
           Places4(edges, Len(edges),
             OnBoundary(shape, Sides(x - 1, y)[1]), Sides(x - 1, y)[1],
             OnBoundary(shape, Sides(x - 1, y - 1)[2]), Sides(x - 1, y - 1)[2],
             OnBoundary(shape, Sides(x, y - 1)[3]), Sides(x, y - 1)[3],
             OnBoundary(shape, Sides(x, y)[4]), Sides(x, y)[4])
<1>1. DOMAIN edges = 1 .. Len(edges)
  BY DEF IsBoundary
<1>2. PICK P : P = Places4(edges, Len(edges),
             OnBoundary(shape, Sides(x - 1, y)[1]), Sides(x - 1, y)[1],
             OnBoundary(shape, Sides(x - 1, y - 1)[2]), Sides(x - 1, y - 1)[2],
             OnBoundary(shape, Sides(x, y - 1)[3]), Sides(x, y - 1)[3],
             OnBoundary(shape, Sides(x, y)[4]), Sides(x, y)[4])
  OBVIOUS
<1>3. /\ Sides(x - 1, y)[1].to = <<x, y>> /\ Sides(x - 1, y - 1)[2].to = <<x, y>>
      /\ Sides(x, y - 1)[3].to = <<x, y>> /\ Sides(x, y)[4].to = <<x, y>>
  BY DEF Sides
<1>4. ASSUME NEW j \in 1 .. Len(edges), edges[j].to = <<x, y>> PROVE j \in P
  <2>1. PICK u, v \in 0 .. shape.width - 1, m \in 1 .. 4 :
          edges[j] = Sides(u, v)[m] /\ OnBoundary(shape, Sides(u, v)[m])
    BY DEF IsBoundary
  <2>2. u \in Int /\ v \in Int
    BY DEF IsShape
  <2>3. m = 1 \/ m = 2 \/ m = 3 \/ m = 4
    OBVIOUS
  <2>4. /\ Sides(u, v)[1].to = <<u + 1, v>> /\ Sides(u, v)[2].to = <<u + 1, v + 1>>
        /\ Sides(u, v)[3].to = <<u, v + 1>> /\ Sides(u, v)[4].to = <<u, v>>
    BY DEF Sides
  <2>5. CASE m = 1
    <3>1. <<u + 1, v>> = <<x, y>>
      BY <1>4, <2>1, <2>4, <2>5
    <3>2. u = x - 1 /\ v = y
      BY <2>2, <3>1
    <3> QED
      BY <1>2, <2>1, <2>5, <3>2 DEF Places4
  <2>6. CASE m = 2
    <3>1. <<u + 1, v + 1>> = <<x, y>>
      BY <1>4, <2>1, <2>4, <2>6
    <3>2. u = x - 1 /\ v = y - 1
      BY <2>2, <3>1
    <3> QED
      BY <1>2, <2>1, <2>6, <3>2 DEF Places4
  <2>7. CASE m = 3
    <3>1. <<u, v + 1>> = <<x, y>>
      BY <1>4, <2>1, <2>4, <2>7
    <3>2. u = x /\ v = y - 1
      BY <2>2, <3>1
    <3> QED
      BY <1>2, <2>1, <2>7, <3>2 DEF Places4
  <2>8. CASE m = 4
    <3>1. u = x /\ v = y
      BY <1>4, <2>1, <2>4, <2>8
    <3> QED
      BY <1>2, <2>1, <2>8, <3>1 DEF Places4
  <2> QED
    BY <2>3, <2>5, <2>6, <2>7, <2>8
<1>5. ASSUME NEW j \in P PROVE j \in 1 .. Len(edges) /\ edges[j].to = <<x, y>>
  BY <1>2, <1>3 DEF Places4
<1> QED
  BY <1>1, <1>2, <1>4, <1>5 DEF Coming

\* At each corner as many edges of the boundary leave as come.
LEMMA StartsBalanced ==
  ASSUME NEW shape, IsShape(shape), NEW edges, IsBoundary(shape, edges)
  PROVE  Balanced(edges, {})
<1> SUFFICES ASSUME NEW x \in Int, NEW y \in Int
             PROVE  Cardinality(Leaving(edges, {}, <<x, y>>)) = Cardinality(Coming(edges, {}, <<x, y>>))
  BY DEF Balanced, Points
<1>1. PICK n \in Nat : n = Len(edges)
  BY DEF IsBoundary
<1>2. NoneTwice(edges, n)
  BY <1>1 DEF IsBoundary, NoneTwice
<1> DEFINE a == <<x, y>> \in shape.cells
           b == <<x - 1, y>> \in shape.cells
           c == <<x - 1, y - 1>> \in shape.cells
           d == <<x, y - 1>> \in shape.cells
<1>3. \A u, v \in Int : \A m \in 1 .. 4 :
        Holds(edges, n, OnBoundary(shape, Sides(u, v)[m]), Sides(u, v)[m])
  <2> SUFFICES ASSUME NEW u \in Int, NEW v \in Int, NEW m \in 1 .. 4, OnBoundary(shape, Sides(u, v)[m])
               PROVE  \E j \in 1 .. n : edges[j] = Sides(u, v)[m]
    BY DEF Holds
  <2>1. Sides(u, v)[m].of = <<u, v>>
    BY SidesAre
  <2>2. <<u, v>> \in shape.cells
    BY <2>1 DEF OnBoundary
  <2>3. u \in 0 .. shape.width - 1 /\ v \in 0 .. shape.width - 1
    BY <2>2 DEF IsShape
  <2> QED
    BY <1>1, <2>3 DEF IsBoundary
<1>4. /\ x \in Int /\ y \in Int /\ x - 1 \in Int /\ y - 1 \in Int
      /\ 1 \in 1 .. 4 /\ 2 \in 1 .. 4 /\ 3 \in 1 .. 4 /\ 4 \in 1 .. 4
  OBVIOUS
<1>5. x # x - 1 /\ y # y - 1
  OBVIOUS
<1>6. \A u, v \in Int : \A m \in 1 .. 4 : Sides(u, v)[m].of = <<u, v>>
  BY SidesAre
<1>7. Cardinality(Leaving(edges, {}, <<x, y>>)) = One(a /\ ~d) + One(b /\ ~a) + One(c /\ ~b) + One(d /\ ~c)
  <2> DEFINE e1 == Sides(x, y)[1]
             e2 == Sides(x - 1, y)[2]
             e3 == Sides(x - 1, y - 1)[3]
             e4 == Sides(x, y - 1)[4]
  <2>1. e1.of = <<x, y>> /\ e2.of = <<x - 1, y>> /\ e3.of = <<x - 1, y - 1>> /\ e4.of = <<x, y - 1>>
    BY <1>4, <1>6
  <2>2. e1.beyond = <<x, y - 1>> /\ e2.beyond = <<x - 1 + 1, y>> /\ e3.beyond = <<x - 1, y - 1 + 1>>
        /\ e4.beyond = <<x - 1, y - 1>>
    BY <1>4 DEF Sides
  <2>3. x - 1 + 1 = x /\ y - 1 + 1 = y
    OBVIOUS
  <2>4. /\ OnBoundary(shape, e1) = (a /\ ~d) /\ OnBoundary(shape, e2) = (b /\ ~a)
        /\ OnBoundary(shape, e3) = (c /\ ~b) /\ OnBoundary(shape, e4) = (d /\ ~c)
    BY <2>1, <2>2, <2>3, Zenon DEF OnBoundary
  <2>5. FourApart(e1, e2, e3, e4)
    BY <1>5, <2>1 DEF FourApart
  <2>6. /\ Holds(edges, n, OnBoundary(shape, e1), e1) /\ Holds(edges, n, OnBoundary(shape, e2), e2)
        /\ Holds(edges, n, OnBoundary(shape, e3), e3) /\ Holds(edges, n, OnBoundary(shape, e4), e4)
    BY <1>3, <1>4
  <2>7. Leaving(edges, {}, <<x, y>>) =
          Places4(edges, n, OnBoundary(shape, e1), e1, OnBoundary(shape, e2), e2,
                  OnBoundary(shape, e3), e3, OnBoundary(shape, e4), e4)
    BY <1>1, BoundaryLeaves
  <2> HIDE DEF e1, e2, e3, e4, a, b, c, d
  <2>8. /\ (a /\ ~d) \in BOOLEAN /\ (b /\ ~a) \in BOOLEAN /\ (c /\ ~b) \in BOOLEAN /\ (d /\ ~c) \in BOOLEAN
    OBVIOUS
  <2> DEFINE p1 == OnBoundary(shape, e1)
             p2 == OnBoundary(shape, e2)
             p3 == OnBoundary(shape, e3)
             p4 == OnBoundary(shape, e4)
  <2>9. p1 \in BOOLEAN /\ p2 \in BOOLEAN /\ p3 \in BOOLEAN /\ p4 \in BOOLEAN
    BY <2>4, <2>8
  <2>10. Holds(edges, n, p1, e1) /\ Holds(edges, n, p2, e2) /\ Holds(edges, n, p3, e3) /\ Holds(edges, n, p4, e4)
    BY <2>6
  <2>11. Leaving(edges, {}, <<x, y>>) = Places4(edges, n, p1, e1, p2, e2, p3, e3, p4, e4)
    BY <2>7
  <2> HIDE DEF p1, p2, p3, p4
  <2>12. Cardinality(Places4(edges, n, p1, e1, p2, e2, p3, e3, p4, e4)) = One(p1) + One(p2) + One(p3) + One(p4)
    BY ONLY n \in Nat, <1>2, <2>5, <2>9, <2>10, PlacesCounted
  <2> QED
    BY <2>4, <2>11, <2>12 DEF p1, p2, p3, p4
<1>8. Cardinality(Coming(edges, {}, <<x, y>>)) = One(b /\ ~c) + One(c /\ ~d) + One(d /\ ~a) + One(a /\ ~b)
  <2> DEFINE e1 == Sides(x - 1, y)[1]
             e2 == Sides(x - 1, y - 1)[2]
             e3 == Sides(x, y - 1)[3]
             e4 == Sides(x, y)[4]
  <2>1. e1.of = <<x - 1, y>> /\ e2.of = <<x - 1, y - 1>> /\ e3.of = <<x, y - 1>> /\ e4.of = <<x, y>>
    BY <1>4, <1>6
  <2>2. e1.beyond = <<x - 1, y - 1>> /\ e2.beyond = <<x - 1 + 1, y - 1>> /\ e3.beyond = <<x, y - 1 + 1>>
        /\ e4.beyond = <<x - 1, y>>
    BY <1>4 DEF Sides
  <2>3. x - 1 + 1 = x /\ y - 1 + 1 = y
    OBVIOUS
  <2>4. /\ OnBoundary(shape, e1) = (b /\ ~c) /\ OnBoundary(shape, e2) = (c /\ ~d)
        /\ OnBoundary(shape, e3) = (d /\ ~a) /\ OnBoundary(shape, e4) = (a /\ ~b)
    BY <2>1, <2>2, <2>3, Zenon DEF OnBoundary
  <2>5. FourApart(e1, e2, e3, e4)
    BY <1>5, <2>1 DEF FourApart
  <2>6. /\ Holds(edges, n, OnBoundary(shape, e1), e1) /\ Holds(edges, n, OnBoundary(shape, e2), e2)
        /\ Holds(edges, n, OnBoundary(shape, e3), e3) /\ Holds(edges, n, OnBoundary(shape, e4), e4)
    BY <1>3, <1>4
  <2>7. Coming(edges, {}, <<x, y>>) =
          Places4(edges, n, OnBoundary(shape, e1), e1, OnBoundary(shape, e2), e2,
                  OnBoundary(shape, e3), e3, OnBoundary(shape, e4), e4)
    BY <1>1, BoundaryComes
  <2> HIDE DEF e1, e2, e3, e4, a, b, c, d
  <2>8. /\ (b /\ ~c) \in BOOLEAN /\ (c /\ ~d) \in BOOLEAN /\ (d /\ ~a) \in BOOLEAN /\ (a /\ ~b) \in BOOLEAN
    OBVIOUS
  <2> DEFINE p1 == OnBoundary(shape, e1)
             p2 == OnBoundary(shape, e2)
             p3 == OnBoundary(shape, e3)
             p4 == OnBoundary(shape, e4)
  <2>9. p1 \in BOOLEAN /\ p2 \in BOOLEAN /\ p3 \in BOOLEAN /\ p4 \in BOOLEAN
    BY <2>4, <2>8
  <2>10. Holds(edges, n, p1, e1) /\ Holds(edges, n, p2, e2) /\ Holds(edges, n, p3, e3) /\ Holds(edges, n, p4, e4)
    BY <2>6
  <2>11. Coming(edges, {}, <<x, y>>) = Places4(edges, n, p1, e1, p2, e2, p3, e3, p4, e4)
    BY <2>7
  <2> HIDE DEF p1, p2, p3, p4
  <2>12. Cardinality(Places4(edges, n, p1, e1, p2, e2, p3, e3, p4, e4)) = One(p1) + One(p2) + One(p3) + One(p4)
    BY ONLY n \in Nat, <1>2, <2>5, <2>9, <2>10, PlacesCounted
  <2> QED
    BY <2>4, <2>11, <2>12 DEF p1, p2, p3, p4
<1>9. a \in BOOLEAN /\ b \in BOOLEAN /\ c \in BOOLEAN /\ d \in BOOLEAN
  OBVIOUS
<1> HIDE DEF a, b, c, d
<1>10. One(a /\ ~d) + One(b /\ ~a) + One(c /\ ~b) + One(d /\ ~c)
         = One(b /\ ~c) + One(c /\ ~d) + One(d /\ ~a) + One(a /\ ~b)
  BY ONLY <1>9 DEF One
<1> QED
  BY <1>7, <1>8, <1>10

-----------------------------------------------------------------------------
(* A walk along the edges.                                                 *)

\* Where an edge goes on, next_edge is one of the edges that go on.
LEMMA NextEdgeIs ==
  ASSUME NEW edges \in Seq(Edges), NEW used, NEW cur, NextEdges(edges, used, cur) # {}
  PROVE  next_edge(edges, used, cur) \in NextEdges(edges, used, cur)
<1>1. PICK N : N = NextEdges(edges, used, cur)
  OBVIOUS
<1>2. N \subseteq Nat /\ N # {}
  BY <1>1 DEF NextEdges
<1> DEFINE R(j) == Rank(edges[cur], edges[j])
<1>3. \A j \in N : R(j) \in {0, 1, 2}
  BY DEF Rank
<1> HIDE DEF R
<1>4. PICK Rs : Rs = {R(j) : j \in N}
  OBVIOUS
<1>5. Rs \in SUBSET Nat /\ Rs # {}
  <2>1. Rs \subseteq {0, 1, 2}
    BY <1>3, <1>4
  <2>2. {0, 1, 2} \subseteq Nat
    OBVIOUS
  <2>3. Rs # {}
    BY <1>2, <1>4
  <2> QED
    BY <2>1, <2>2, <2>3
<1>6. PICK r \in Rs : \A s \in Rs : r <= s
  BY ONLY <1>5, LeastOfNaturals
<1>7. PICK M : M = {j \in N : R(j) = r}
  OBVIOUS
<1>8. M \in SUBSET Nat /\ M # {}
  BY <1>2, <1>4, <1>6, <1>7
<1>9. PICK m \in M : \A k \in M : m <= k
  BY ONLY <1>8, LeastOfNaturals
<1>10. m \in N /\ \A k \in N : R(m) < R(k) \/ (R(m) = R(k) /\ m <= k)
  <2>1. m \in N /\ R(m) = r
    BY <1>7, <1>9
  <2>2. ASSUME NEW k \in N PROVE R(m) < R(k) \/ (R(m) = R(k) /\ m <= k)
    <3>1. r <= R(k) /\ R(k) \in Int /\ r \in Int
      BY <1>3, <1>4, <1>5, <1>6
    <3>2. CASE R(k) = r
      BY <1>7, <1>9, <2>1, <3>2
    <3>3. CASE R(k) # r
      BY <2>1, <3>1, <3>3
    <3> QED
      BY <3>2, <3>3
  <2> QED
    BY <2>1, <2>2
<1> DEFINE Best(j) == \A k \in N : R(j) < R(k) \/ (R(j) = R(k) /\ j <= k)
<1>11. (CHOOSE j \in N : Best(j)) \in N
  BY <1>10
<1>12. next_edge(edges, used, cur) = CHOOSE j \in N : Best(j)
  BY <1>1 DEF next_edge, R
<1> QED
  BY <1>1, <1>11, <1>12

\* The corner where an edge ends, or begins.
At(v, w) == IF v = w THEN 1 ELSE 0

\* A walk of edges that were not used before, each once: at each corner as many
\* other edges come as leave, but where the walk begins and where it has got to.
Walks(edges, used, start) ==
  {c \in Seq(DOMAIN edges) :
     /\ c # <<>> /\ c[1] = start
     /\ \A i \in 1 .. Len(c) - 1 : edges[c[i + 1]].from = edges[c[i]].to
     /\ \A i \in 1 .. Len(c) : c[i] \notin used
     /\ Cardinality(ToSet(c)) = Len(c)
     /\ \A v \in Points :
          Cardinality(Leaving(edges, used \cup ToSet(c), v)) + At(v, edges[start].from) =
          Cardinality(Coming(edges, used \cup ToSet(c), v)) + At(v, edges[c[Len(c)]].to)}

\* Using one more edge takes it from where it leaves and from where it comes.
LEMMA OneMoreUsed ==
  ASSUME NEW edges \in Seq(Edges), NEW used, NEW j \in DOMAIN edges \ used, NEW v \in Points
  PROVE  /\ Cardinality(Leaving(edges, used \cup {j}, v)) + At(v, edges[j].from)
              = Cardinality(Leaving(edges, used, v))
         /\ Cardinality(Coming(edges, used \cup {j}, v)) + At(v, edges[j].to)
              = Cardinality(Coming(edges, used, v))
         /\ Cardinality(Leaving(edges, used, v)) \in Nat /\ Cardinality(Coming(edges, used, v)) \in Nat
<1>1. PICK n \in Nat : DOMAIN edges = 1 .. n
  OBVIOUS
<1>2. IsFiniteSet(1 .. n)
  BY FS_Interval
<1>3. /\ IsFiniteSet(Leaving(edges, used, v)) /\ IsFiniteSet(Coming(edges, used, v))
      /\ IsFiniteSet(Leaving(edges, used \cup {j}, v)) /\ IsFiniteSet(Coming(edges, used \cup {j}, v))
  <2>1. /\ Leaving(edges, used, v) \subseteq 1 .. n /\ Coming(edges, used, v) \subseteq 1 .. n
        /\ Leaving(edges, used \cup {j}, v) \subseteq 1 .. n /\ Coming(edges, used \cup {j}, v) \subseteq 1 .. n
    BY <1>1 DEF Leaving, Coming
  <2> QED
    BY <1>2, <2>1, FS_Subset
<1>4. /\ Cardinality(Leaving(edges, used, v)) \in Nat /\ Cardinality(Coming(edges, used, v)) \in Nat
      /\ Cardinality(Leaving(edges, used \cup {j}, v)) \in Nat
      /\ Cardinality(Coming(edges, used \cup {j}, v)) \in Nat
  BY <1>3, FS_CardinalityType
<1>5. Cardinality(Leaving(edges, used \cup {j}, v)) + At(v, edges[j].from) = Cardinality(Leaving(edges, used, v))
  <2>1. PICK L, K : L = Leaving(edges, used, v) /\ K = Leaving(edges, used \cup {j}, v)
    OBVIOUS
  <2>2. CASE edges[j].from = v
    <3>1. L = K \cup {j} /\ j \notin K
      BY <2>1, <2>2 DEF Leaving
    <3>2. Cardinality(L) = Cardinality(K) + 1
      BY <1>3, <2>1, <3>1, FS_AddElement
    <3>3. At(v, edges[j].from) = 1
      BY <2>2 DEF At
    <3> QED
      BY <2>1, <3>2, <3>3
  <2>3. CASE edges[j].from # v
    <3>1. L = K
      BY <2>1, <2>3 DEF Leaving
    <3>2. At(v, edges[j].from) = 0
      BY <2>3 DEF At
    <3> QED
      BY <1>4, <2>1, <3>1, <3>2
  <2> QED
    BY <2>2, <2>3
<1>6. Cardinality(Coming(edges, used \cup {j}, v)) + At(v, edges[j].to) = Cardinality(Coming(edges, used, v))
  <2>1. PICK L, K : L = Coming(edges, used, v) /\ K = Coming(edges, used \cup {j}, v)
    OBVIOUS
  <2>2. CASE edges[j].to = v
    <3>1. L = K \cup {j} /\ j \notin K
      BY <2>1, <2>2 DEF Coming
    <3>2. Cardinality(L) = Cardinality(K) + 1
      BY <1>3, <2>1, <3>1, FS_AddElement
    <3>3. At(v, edges[j].to) = 1
      BY <2>2 DEF At
    <3> QED
      BY <2>1, <3>2, <3>3
  <2>3. CASE edges[j].to # v
    <3>1. L = K
      BY <2>1, <2>3 DEF Coming
    <3>2. At(v, edges[j].to) = 0
      BY <2>3 DEF At
    <3> QED
      BY <1>4, <2>1, <3>1, <3>2
  <2> QED
    BY <2>2, <2>3
<1> QED
  BY <1>4, <1>5, <1>6

\* A sequence with one more member.
LEMMA OneMoreIn ==
  ASSUME NEW S, NEW c \in Seq(S), NEW j \in S
  PROVE  /\ Append(c, j) \in Seq(S) /\ Len(Append(c, j)) = Len(c) + 1 /\ Len(c) \in Nat
         /\ Append(c, j)[Len(c) + 1] = j /\ \A i \in 1 .. Len(c) : Append(c, j)[i] = c[i]
         /\ ToSet(Append(c, j)) = ToSet(c) \cup {j}
         /\ ToSet(c) = {c[i] : i \in 1 .. Len(c)}
<1>1. PICK n \in Nat : n = Len(c)
  OBVIOUS
<1>0. Append(c, j) \in Seq(S)
  BY ONLY c \in Seq(S), j \in S
<1>2. PICK d \in Seq(S) : d = Append(c, j)
  BY <1>0
<1>3. Len(d) = n + 1 /\ d[n + 1] = j /\ \A i \in 1 .. n : d[i] = c[i]
  BY <1>1, <1>2
<1>4. DOMAIN c = 1 .. n /\ DOMAIN d = 1 .. n + 1
  BY <1>1, <1>3
<1>5. \A i \in 1 .. n + 1 : i = n + 1 \/ i \in 1 .. n
  BY <1>1
<1>6. n + 1 \in 1 .. n + 1 /\ \A i \in 1 .. n : i \in 1 .. n + 1
  BY <1>1
<1>7. ToSet(d) = ToSet(c) \cup {j}
  BY <1>3, <1>4, <1>5, <1>6 DEF ToSet
<1>8. ToSet(c) = {c[i] : i \in 1 .. n}
  BY <1>4 DEF ToSet
<1> QED
  BY <1>1, <1>2, <1>3, <1>7, <1>8

\* An unused edge is a walk.
LEMMA WalkStarts ==
  ASSUME NEW edges \in Seq(Edges), NEW used, Balanced(edges, used), NEW start \in DOMAIN edges \ used
  PROVE  <<start>> \in Walks(edges, used, start)
<1>1. PICK c : c = <<start>>
  OBVIOUS
<1>2. c \in Seq(DOMAIN edges) /\ c # <<>> /\ c[1] = start /\ Len(c) = 1
  BY <1>1
<1>3. ToSet(c) = {start}
  BY <1>1 DEF ToSet
<1>4. Cardinality(ToSet(c)) = Len(c)
  BY <1>2, <1>3, FS_Singleton
<1>5. \A i \in 1 .. Len(c) - 1 : edges[c[i + 1]].from = edges[c[i]].to
  BY <1>2
<1>6. \A i \in 1 .. Len(c) : c[i] \notin used
  BY <1>2
<1>7. ASSUME NEW v \in Points
      PROVE  Cardinality(Leaving(edges, used \cup ToSet(c), v)) + At(v, edges[start].from) =
             Cardinality(Coming(edges, used \cup ToSet(c), v)) + At(v, edges[c[Len(c)]].to)
  <2>1. /\ Cardinality(Leaving(edges, used \cup {start}, v)) + At(v, edges[start].from)
             = Cardinality(Leaving(edges, used, v))
        /\ Cardinality(Coming(edges, used \cup {start}, v)) + At(v, edges[start].to)
             = Cardinality(Coming(edges, used, v))
    BY OneMoreUsed
  <2>2. Cardinality(Leaving(edges, used, v)) = Cardinality(Coming(edges, used, v))
    BY DEF Balanced
  <2>3. c[Len(c)] = start
    BY <1>2
  <2> QED
    BY <1>3, <2>1, <2>2, <2>3
<1> QED
  BY <1>1, <1>2, <1>4, <1>5, <1>6, <1>7 DEF Walks

\* A walk goes on with an unused edge from where it has come to.
LEMMA WalkExtends ==
  ASSUME NEW edges \in Seq(Edges), NEW used, NEW start, NEW c \in Walks(edges, used, start),
         NEW j \in NextEdges(edges, used \cup ToSet(c), c[Len(c)])
  PROVE  Append(c, j) \in Walks(edges, used, start)
<1>1. PICK n \in Nat : n = Len(c)
  BY DEF Walks
<1>2. PICK T : T = ToSet(c)
  OBVIOUS
<1>3. PICK last : last = c[n]
  OBVIOUS
<1>4. PICK D : D = DOMAIN edges
  OBVIOUS
<1>5. /\ c \in Seq(D) /\ c # <<>> /\ c[1] = start
      /\ \A i \in 1 .. n - 1 : edges[c[i + 1]].from = edges[c[i]].to
      /\ \A i \in 1 .. n : c[i] \notin used
      /\ Cardinality(T) = n
      /\ \A v \in Points :
           Cardinality(Leaving(edges, used \cup T, v)) + At(v, edges[start].from) =
           Cardinality(Coming(edges, used \cup T, v)) + At(v, edges[last].to)
  BY <1>1, <1>2, <1>3, <1>4 DEF Walks
<1>6. j \in D /\ j \notin used \cup T /\ edges[j].from = edges[last].to
  BY <1>1, <1>2, <1>3, <1>4 DEF NextEdges
<1>7. n # 0
  BY <1>1, <1>5
<1>8. PICK d : d = Append(c, j)
  OBVIOUS
<1>9. /\ d \in Seq(D) /\ Len(d) = n + 1 /\ d[n + 1] = j /\ \A i \in 1 .. n : d[i] = c[i]
      /\ ToSet(d) = T \cup {j} /\ T = {c[i] : i \in 1 .. n}
  <2>1. c \in Seq(D) /\ j \in D
    BY <1>5, <1>6
  <2> QED
    BY ONLY <1>1, <1>2, <1>8, <2>1, OneMoreIn
<1>10. d # <<>> /\ d[1] = start
  BY <1>1, <1>5, <1>7, <1>9
<1>11. \A i \in 1 .. n : edges[d[i + 1]].from = edges[d[i]].to
  <2> SUFFICES ASSUME NEW i \in 1 .. n PROVE edges[d[i + 1]].from = edges[d[i]].to
    OBVIOUS
  <2>1. CASE i = n
    BY <1>3, <1>6, <1>9, <2>1
  <2>2. CASE i # n
    <3>1. i \in 1 .. n - 1 /\ i + 1 \in 1 .. n
      BY <1>1, <2>2
    <3> QED
      BY <1>5, <1>9, <3>1
  <2> QED
    BY <2>1, <2>2
<1>12. \A i \in 1 .. n + 1 : d[i] \notin used
  BY <1>1, <1>5, <1>6, <1>9
<1>13. Cardinality(T \cup {j}) = n + 1
  <2>1. IsFiniteSet(T)
    <3>1. T \subseteq D
      BY <1>5, <1>9
    <3>2. IsFiniteSet(D)
      BY <1>4, FS_Interval
    <3> QED
      BY <3>1, <3>2, FS_Subset
  <2> QED
    BY <1>5, <1>6, <2>1, FS_AddElement
<1>14. ASSUME NEW v \in Points
       PROVE  Cardinality(Leaving(edges, used \cup (T \cup {j}), v)) + At(v, edges[start].from) =
              Cardinality(Coming(edges, used \cup (T \cup {j}), v)) + At(v, edges[j].to)
  <2>1. used \cup (T \cup {j}) = (used \cup T) \cup {j}
    OBVIOUS
  <2>2. PICK U : U = used \cup T
    OBVIOUS
  <2>3. j \in DOMAIN edges \ U
    BY <1>4, <1>6, <2>2
  <2>4. /\ Cardinality(Leaving(edges, U \cup {j}, v)) + At(v, edges[j].from) = Cardinality(Leaving(edges, U, v))
        /\ Cardinality(Coming(edges, U \cup {j}, v)) + At(v, edges[j].to) = Cardinality(Coming(edges, U, v))
        /\ Cardinality(Leaving(edges, U, v)) \in Nat /\ Cardinality(Coming(edges, U, v)) \in Nat
    BY ONLY edges \in Seq(Edges), v \in Points, <2>3, OneMoreUsed
  <2>5. Cardinality(Leaving(edges, U, v)) + At(v, edges[start].from) =
        Cardinality(Coming(edges, U, v)) + At(v, edges[last].to)
    BY <1>5, <2>2
  <2>6. \A w : At(v, w) \in Nat
    BY DEF At
  <2>7. At(v, edges[j].from) = At(v, edges[last].to)
    BY <1>6
  <2>8. Cardinality(Leaving(edges, U \cup {j}, v)) \in Int /\ Cardinality(Coming(edges, U \cup {j}, v)) \in Int
    <3>1. IsFiniteSet(Leaving(edges, U \cup {j}, v)) /\ IsFiniteSet(Coming(edges, U \cup {j}, v))
      <4>1. Leaving(edges, U \cup {j}, v) \subseteq D /\ Coming(edges, U \cup {j}, v) \subseteq D
        BY <1>4 DEF Leaving, Coming
      <4>2. IsFiniteSet(D)
        BY <1>4, FS_Interval
      <4> QED
        BY <4>1, <4>2, FS_Subset
    <3> QED
      BY <3>1, FS_CardinalityType
  <2>9. PICK a, b, la, ca, lb, cb, u :
          /\ a = At(v, edges[start].from) /\ b = At(v, edges[last].to) /\ u = At(v, edges[j].to)
          /\ la = Cardinality(Leaving(edges, U, v)) /\ ca = Cardinality(Coming(edges, U, v))
          /\ lb = Cardinality(Leaving(edges, U \cup {j}, v)) /\ cb = Cardinality(Coming(edges, U \cup {j}, v))
    OBVIOUS
  <2>10. a \in Int /\ b \in Int /\ u \in Int /\ la \in Int /\ ca \in Int /\ lb \in Int /\ cb \in Int
    BY <2>4, <2>6, <2>8, <2>9
  <2>11. lb + b = la /\ cb + u = ca /\ la + a = ca + b
    BY <2>4, <2>5, <2>7, <2>9
  <2>12. lb + a = cb + u
    BY ONLY <2>10, <2>11
  <2> QED
    BY <2>1, <2>2, <2>9, <2>12
<1>15. /\ d \in Seq(DOMAIN edges) /\ d # <<>> /\ d[1] = start
       /\ \A i \in 1 .. Len(d) - 1 : edges[d[i + 1]].from = edges[d[i]].to
       /\ \A i \in 1 .. Len(d) : d[i] \notin used
       /\ Cardinality(ToSet(d)) = Len(d)
  <2>1. Len(d) - 1 = n
    BY <1>9
  <2> QED
    BY <1>4, <1>9, <1>10, <1>11, <1>12, <1>13, <2>1
<1>16. \A v \in Points :
          Cardinality(Leaving(edges, used \cup ToSet(d), v)) + At(v, edges[start].from) =
          Cardinality(Coming(edges, used \cup ToSet(d), v)) + At(v, edges[d[Len(d)]].to)
  BY <1>9, <1>14
<1> QED
  BY <1>8, <1>15, <1>16 DEF Walks

\* A walk that cannot go on has come to where it began.
LEMMA WalkCloses ==
  ASSUME NEW edges \in Seq(Edges), NEW used, NEW start \in DOMAIN edges, NEW c \in Walks(edges, used, start),
         NextEdges(edges, used \cup ToSet(c), c[Len(c)]) = {}
  PROVE  edges[c[Len(c)]].to = edges[start].from
<1>1. PICK n \in Nat : n = Len(c)
  BY DEF Walks
<1>2. PICK U : U = used \cup ToSet(c)
  OBVIOUS
<1>3. c \in Seq(DOMAIN edges) /\ n # 0
  BY <1>1 DEF Walks
<1>4. c[n] \in DOMAIN edges
  BY <1>1, <1>3
<1>5. PICK v \in Points : v = edges[c[n]].to
  <2>1. edges[c[n]] \in Edges
    BY <1>4
  <2> HIDE DEF Points
  <2>2. edges[c[n]].to \in Points
    BY <2>1 DEF Edges
  <2> QED
    BY <2>2
<1>6. Cardinality(Leaving(edges, U, v)) + At(v, edges[start].from) = Cardinality(Coming(edges, U, v)) + At(v, v)
  BY <1>1, <1>2, <1>5 DEF Walks
<1>7. Leaving(edges, U, v) = {}
  BY <1>1, <1>2, <1>5 DEF Leaving, NextEdges
<1>8. Cardinality(Leaving(edges, U, v)) = 0
  BY <1>7, FS_EmptySet
<1>9. Cardinality(Coming(edges, U, v)) \in Nat
  <2>1. Coming(edges, U, v) \subseteq DOMAIN edges
    BY DEF Coming
  <2>2. IsFiniteSet(DOMAIN edges)
    BY FS_Interval
  <2> QED
    BY <2>1, <2>2, FS_Subset, FS_CardinalityType
<1>10. At(v, v) = 1 /\ At(v, edges[start].from) \in {0, 1}
  BY DEF At
<1>11. At(v, edges[start].from) = 1
  BY <1>6, <1>8, <1>9, <1>10
<1>12. v = edges[start].from
  BY <1>11 DEF At
<1> QED
  BY <1>1, <1>5, <1>12

\* What a contour does with one edge more.
Goes(edges, used, start, c) ==
  IF \/ edges[Last(c)].to = edges[start].from
     \/ NextEdges(edges, used \cup ToSet(c), Last(c)) = {}
  THEN c ELSE Append(c, next_edge(edges, used \cup ToSet(c), Last(c)))

Chain(edges, used, start) ==
  CHOOSE chain : chain = [n \in 0 .. Len(edges) - 1 |->
    IF n = 0 THEN <<start>>
    ELSE IF \/ edges[Last(chain[n - 1])].to = edges[start].from
            \/ NextEdges(edges, used \cup ToSet(chain[n - 1]), Last(chain[n - 1])) = {}
    THEN chain[n - 1]
    ELSE Append(chain[n - 1], next_edge(edges, used \cup ToSet(chain[n - 1]), Last(chain[n - 1])))]

\* A walk goes on as a walk.
LEMMA WalkGoes ==
  ASSUME NEW edges \in Seq(Edges), NEW used, NEW start \in DOMAIN edges, NEW c \in Walks(edges, used, start)
  PROVE  /\ Goes(edges, used, start, c) \in Walks(edges, used, start)
         /\ \/ edges[c[Len(c)]].to = edges[start].from /\ Goes(edges, used, start, c) = c
            \/ Len(Goes(edges, used, start, c)) = Len(c) + 1
<1>1. Last(c) = c[Len(c)]
  BY DEF Last
<1>2. PICK N : N = NextEdges(edges, used \cup ToSet(c), c[Len(c)])
  OBVIOUS
<1>3. CASE edges[c[Len(c)]].to = edges[start].from
  BY <1>1, <1>3 DEF Goes
<1>4. CASE N = {}
  BY <1>2, <1>4, <1>3, WalkCloses
<1>5. CASE edges[c[Len(c)]].to # edges[start].from /\ N # {}
  <2>1. PICK j : j = next_edge(edges, used \cup ToSet(c), c[Len(c)])
    OBVIOUS
  <2>2. j \in N
    BY <1>2, <1>5, <2>1, NextEdgeIs
  <2>3. Goes(edges, used, start, c) = Append(c, j)
    BY <1>1, <1>2, <1>5, <2>1 DEF Goes
  <2>4. Append(c, j) \in Walks(edges, used, start)
    BY <1>2, <2>2, WalkExtends
  <2>5. c \in Seq(DOMAIN edges)
    BY DEF Walks
  <2>6. Len(Append(c, j)) = Len(c) + 1
    BY <2>5
  <2> QED
    BY <2>3, <2>4, <2>6
<1> QED
  BY <1>3, <1>4, <1>5

\* The edges of a contour are a walk that is closed.
LEMMA ContourCloses ==
  ASSUME NEW edges \in Seq(Edges), NEW used, Balanced(edges, used), NEW start \in DOMAIN edges \ used
  PROVE  \E c \in Walks(edges, used, start) :
           c = Contour(edges, used, start) /\ edges[c[Len(c)]].to = edges[start].from
<1>1. PICK n \in Nat : n = Len(edges) - 1
  <2>1. Len(edges) \in Nat /\ start \in 1 .. Len(edges)
    OBVIOUS
  <2> QED
    BY <2>1
<1>2. PICK S : S = Walks(edges, used, start)
  OBVIOUS
<1>3. \A c \in S : /\ Goes(edges, used, start, c) \in S
                   /\ \/ edges[c[Len(c)]].to = edges[start].from /\ Goes(edges, used, start, c) = c
                      \/ Len(Goes(edges, used, start, c)) = Len(c) + 1
  BY <1>2, WalkGoes
<1>4. PICK step : step = [k \in 1 .. n |-> [c \in S |-> Goes(edges, used, start, c)]]
  OBVIOUS
<1>5. Steps(n, S, <<start>>, step)
  <2>1. <<start>> \in S
    BY <1>2, WalkStarts
  <2>2. step \in [1 .. n -> [S -> S]]
    BY <1>3, <1>4
  <2> QED
    BY <2>1, <2>2 DEF Steps
<1>6. PICK g : Results(g, n, S, <<start>>, step)
  BY <1>5, Recursion
<1> DEFINE Is(r) == r = [k \in 0 .. n |-> IF k = 0 THEN <<start>> ELSE Goes(edges, used, start, r[k - 1])]
<1>7. Is(g)
  <2>1. g \in [0 .. n -> S] /\ g[0] = <<start>> /\ \A k \in 1 .. n : g[k] = step[k][g[k - 1]]
    BY <1>6 DEF Results
  <2>2. \A k \in 1 .. n : k - 1 \in 0 .. n
    OBVIOUS
  <2>3. \A k \in 1 .. n : g[k] = Goes(edges, used, start, g[k - 1])
    BY <1>4, <2>1, <2>2
  <2>4. PICK h : h = [k \in 0 .. n |-> IF k = 0 THEN <<start>> ELSE Goes(edges, used, start, g[k - 1])]
    OBVIOUS
  <2>5. \A k \in 0 .. n : k = 0 \/ k \in 1 .. n
    OBVIOUS
  <2>6. \A k \in 0 .. n : g[k] = h[k]
    BY <2>1, <2>3, <2>4, <2>5
  <2>7. g = h
    BY <2>1, <2>4, <2>6
  <2> QED
    BY <2>4, <2>7
<1>8. Is(CHOOSE r : Is(r))
  BY <1>7, Zenon
<1>9. PICK r : r = Chain(edges, used, start) /\ Is(r)
  BY <1>1, <1>8, Zenon DEF Chain, Goes
<1>10. r[0] = <<start>> /\ \A k \in 1 .. n : r[k] = Goes(edges, used, start, r[k - 1])
  <2>1. 0 \in 0 .. n /\ \A k \in 1 .. n : k \in 0 .. n /\ k # 0
    OBVIOUS
  <2> QED
    BY <1>9, <2>1
<1>11. r = [k \in 0 .. n |-> r[k]]
  BY <1>9
<1> HIDE DEF Is
<1>12. \A k \in 1 .. n : r[k - 1] \in S => r[k] = step[k][r[k - 1]]
  BY <1>4, <1>10
<1>13. Results(r, n, S, <<start>>, step)
  BY ONLY <1>5, <1>10, <1>11, <1>12, Unfolded
<1>14. r \in [0 .. n -> S]
  BY <1>13 DEF Results
<1>15. Contour(edges, used, start) = r[n]
  BY <1>1, <1>9 DEF Contour, Chain
<1>16. PICK T : T = {k \in 0 .. n : edges[r[k][Len(r[k])]].to = edges[start].from \/ Len(r[k]) = k + 1}
  OBVIOUS
<1>17. 0 \in T
  <2>1. Len(<<start>>) = 0 + 1 /\ 0 \in 0 .. n
    OBVIOUS
  <2> QED
    BY <1>10, <1>16, <2>1
<1>18. ASSUME NEW k \in 0 .. n - 1, k \in T PROVE k + 1 \in T
  <2>1. PICK j \in 1 .. n : j = k + 1 /\ j - 1 = k /\ j \in 0 .. n
    OBVIOUS
  <2>2. PICK c \in S : c = r[k]
    BY <1>14
  <2>3. r[j] = Goes(edges, used, start, c)
    BY <1>10, <2>1, <2>2
  <2>4. CASE edges[c[Len(c)]].to = edges[start].from /\ r[j] = c
    BY <1>16, <2>1, <2>4
  <2>5. CASE edges[c[Len(c)]].to # edges[start].from
    <3>1. Len(c) = k + 1
      BY <1>16, <1>18, <2>2, <2>5
    <3>2. Len(r[j]) = Len(c) + 1
      BY <1>3, <2>3, <2>5
    <3> QED
      BY <1>16, <2>1, <3>1, <3>2
  <2>6. CASE edges[c[Len(c)]].to = edges[start].from
    <3>1. r[j] = c
      BY <2>3, <2>6 DEF Goes, Last
    <3> QED
      BY <2>4, <2>6, <3>1
  <2> QED
    BY <2>5, <2>6
<1>19. n \in T
  <2>1. \A k \in 0 .. n - 1 : k \in T => k + 1 \in T
    BY <1>18
  <2>2. \A k \in 0 .. n : k \in T
    BY ONLY n \in Nat, <1>17, <2>1, Induction
  <2> QED
    BY <2>2
<1>20. PICK c \in S : c = r[n]
  BY <1>14
<1>21. edges[c[Len(c)]].to = edges[start].from
  <2> SUFFICES ASSUME Len(c) = n + 1 PROVE edges[c[Len(c)]].to = edges[start].from
    BY <1>16, <1>19, <1>20
  <2>1. c \in Seq(DOMAIN edges) /\ Cardinality(ToSet(c)) = Len(c) /\ Len(c) = Len(edges)
    BY <1>1, <1>2 DEF Walks
  <2>2. PICK l \in Nat : l = Len(edges)
    OBVIOUS
  <2>3. DOMAIN edges = 1 .. l
    BY <2>2
  <2>4. ToSet(c) \subseteq 1 .. l
    BY <2>1, <2>3 DEF ToSet
  <2>5. IsFiniteSet(1 .. l) /\ Cardinality(1 .. l) = l
    BY FS_Interval
  <2>6. ToSet(c) = 1 .. l
    BY <2>1, <2>2, <2>4, <2>5, FS_Subset
  <2>7. NextEdges(edges, used \cup ToSet(c), c[Len(c)]) = {}
    BY <2>3, <2>6 DEF NextEdges
  <2>8. c \in Walks(edges, used, start)
    BY <1>2
  <2> QED
    BY ONLY <2>7, <2>8, edges \in Seq(Edges), WalkCloses
<1> QED
  BY <1>2, <1>15, <1>20, <1>21

-----------------------------------------------------------------------------
(* A closed walk has four edges or more.                                   *)

\* An edge goes from a corner to one beside it.
Goes1(from, to) ==
  \E u, v, p, q \in Int :
    /\ from = <<u, v>> /\ to = <<p, q>>
    /\ (p = u /\ (q = v + 1 \/ q = v - 1)) \/ (q = v /\ (p = u + 1 \/ p = u - 1))

\* The sides of a cell do.
LEMMA SidesGo ==
  ASSUME NEW x \in Int, NEW y \in Int, NEW i \in 1 .. 4
  PROVE  Goes1(Sides(x, y)[i].from, Sides(x, y)[i].to)
<1> USE DEF Goes1
<1>1. i = 1 \/ i = 2 \/ i = 3 \/ i = 4
  OBVIOUS
<1>2. /\ Sides(x, y)[1].from = <<x, y>> /\ Sides(x, y)[1].to = <<x + 1, y>>
      /\ Sides(x, y)[2].from = <<x + 1, y>> /\ Sides(x, y)[2].to = <<x + 1, y + 1>>
      /\ Sides(x, y)[3].from = <<x + 1, y + 1>> /\ Sides(x, y)[3].to = <<x, y + 1>>
      /\ Sides(x, y)[4].from = <<x, y + 1>> /\ Sides(x, y)[4].to = <<x, y>>
  BY DEF Sides
<1>3. x + 1 \in Int /\ y + 1 \in Int
  OBVIOUS
<1>4. CASE i = 1
  BY <1>2, <1>3, <1>4
<1>5. CASE i = 2
  BY <1>2, <1>3, <1>5
<1>6. CASE i = 3
  <2>1. x = x + 1 - 1
    OBVIOUS
  <2> QED
    BY <1>2, <1>3, <1>6, <2>1
<1>7. CASE i = 4
  <2>1. y = y + 1 - 1
    OBVIOUS
  <2> QED
    BY <1>2, <1>3, <1>7, <2>1
<1> QED
  BY <1>1, <1>4, <1>5, <1>6, <1>7

\* What is a side of the one cell and of the other is on the boundary from one of them.
LEMMA SidesFace ==
  ASSUME NEW x \in Int, NEW y \in Int, NEW u \in Int, NEW v \in Int, NEW i \in 1 .. 4, NEW j \in 1 .. 4,
         Sides(x, y)[i].from = Sides(u, v)[j].to, Sides(x, y)[i].to = Sides(u, v)[j].from
  PROVE  Sides(x, y)[i].of = Sides(u, v)[j].beyond
<1>1. (i = 1 \/ i = 2 \/ i = 3 \/ i = 4) /\ (j = 1 \/ j = 2 \/ j = 3 \/ j = 4)
  OBVIOUS
<1>2. /\ Sides(x, y)[1].from = <<x, y>> /\ Sides(x, y)[1].to = <<x + 1, y>>
      /\ Sides(x, y)[2].from = <<x + 1, y>> /\ Sides(x, y)[2].to = <<x + 1, y + 1>>
      /\ Sides(x, y)[3].from = <<x + 1, y + 1>> /\ Sides(x, y)[3].to = <<x, y + 1>>
      /\ Sides(x, y)[4].from = <<x, y + 1>> /\ Sides(x, y)[4].to = <<x, y>>
      /\ Sides(x, y)[i].of = <<x, y>>
  <2>1. Sides(x, y)[i].of = <<x, y>>
    BY ONLY x \in Int, y \in Int, i \in 1 .. 4, SidesAre
  <2> QED
    BY <2>1 DEF Sides
<1>3. /\ Sides(u, v)[1].from = <<u, v>> /\ Sides(u, v)[1].to = <<u + 1, v>>
      /\ Sides(u, v)[2].from = <<u + 1, v>> /\ Sides(u, v)[2].to = <<u + 1, v + 1>>
      /\ Sides(u, v)[3].from = <<u + 1, v + 1>> /\ Sides(u, v)[3].to = <<u, v + 1>>
      /\ Sides(u, v)[4].from = <<u, v + 1>> /\ Sides(u, v)[4].to = <<u, v>>
      /\ Sides(u, v)[1].beyond = <<u, v - 1>> /\ Sides(u, v)[2].beyond = <<u + 1, v>>
      /\ Sides(u, v)[3].beyond = <<u, v + 1>> /\ Sides(u, v)[4].beyond = <<u - 1, v>>
  BY DEF Sides
<1>4. PICK a, b, c, d \in Int : Sides(x, y)[i].from = <<a, b>> /\ Sides(x, y)[i].to = <<c, d>>
  <2>1. Goes1(Sides(x, y)[i].from, Sides(x, y)[i].to)
    BY SidesGo
  <2> QED
    BY ONLY <2>1 DEF Goes1
<1>5. Sides(u, v)[j].to = <<a, b>> /\ Sides(u, v)[j].from = <<c, d>>
  BY <1>4
<1>6. \/ a = x /\ b = y /\ c = x + 1 /\ d = y
      \/ a = x + 1 /\ b = y /\ c = x + 1 /\ d = y + 1
      \/ a = x + 1 /\ b = y + 1 /\ c = x /\ d = y + 1
      \/ a = x /\ b = y + 1 /\ c = x /\ d = y
  BY <1>1, <1>2, <1>4
<1>7. \/ c = u /\ d = v /\ a = u + 1 /\ b = v /\ Sides(u, v)[j].beyond = <<u, v - 1>>
      \/ c = u + 1 /\ d = v /\ a = u + 1 /\ b = v + 1 /\ Sides(u, v)[j].beyond = <<u + 1, v>>
      \/ c = u + 1 /\ d = v + 1 /\ a = u /\ b = v + 1 /\ Sides(u, v)[j].beyond = <<u, v + 1>>
      \/ c = u /\ d = v + 1 /\ a = u /\ b = v /\ Sides(u, v)[j].beyond = <<u - 1, v>>
  BY <1>1, <1>3, <1>5
<1>8. \/ Sides(u, v)[j].beyond = <<u, v - 1>> /\ x = u /\ y = v - 1
      \/ Sides(u, v)[j].beyond = <<u + 1, v>> /\ x = u + 1 /\ y = v
      \/ Sides(u, v)[j].beyond = <<u, v + 1>> /\ x = u /\ y = v + 1
      \/ Sides(u, v)[j].beyond = <<u - 1, v>> /\ x = u - 1 /\ y = v
  BY <1>6, <1>7
<1>9. Sides(u, v)[j].beyond = <<x, y>>
  BY <1>8
<1> QED
  BY <1>2, <1>9

IsSide(e) == \E x, y \in Int : \E i \in 1 .. 4 : e = Sides(x, y)[i]

\* The same of sides whose cells are not named.
LEMMA FacingSides ==
  ASSUME NEW e, NEW f, IsSide(e), IsSide(f), e.from = f.to, e.to = f.from
  PROVE  e.of = f.beyond
<1>1. PICK x, y \in Int, i \in 1 .. 4 : e = Sides(x, y)[i]
  BY DEF IsSide
<1>2. PICK u, v \in Int, j \in 1 .. 4 : f = Sides(u, v)[j]
  BY DEF IsSide
<1>3. Sides(x, y)[i].from = Sides(u, v)[j].to /\ Sides(x, y)[i].to = Sides(u, v)[j].from
  BY <1>1, <1>2
<1>4. Sides(x, y)[i].of = Sides(u, v)[j].beyond
  BY ONLY <1>3, x \in Int, y \in Int, u \in Int, v \in Int, i \in 1 .. 4, j \in 1 .. 4, SidesFace
<1> QED
  BY <1>1, <1>2, <1>4

\* No edge is the way back of another.
LEMMA NoWayBack ==
  ASSUME NEW shape, IsShape(shape), NEW edges, IsBoundary(shape, edges),
         NEW i \in 1 .. Len(edges), NEW j \in 1 .. Len(edges),
         edges[i].from = edges[j].to, edges[i].to = edges[j].from
  PROVE  FALSE
<1>1. PICK x, y \in 0 .. shape.width - 1, m \in 1 .. 4 :
        edges[i] = Sides(x, y)[m] /\ OnBoundary(shape, Sides(x, y)[m])
  BY DEF IsBoundary
<1>2. PICK u, v \in 0 .. shape.width - 1, n \in 1 .. 4 :
        edges[j] = Sides(u, v)[n] /\ OnBoundary(shape, Sides(u, v)[n])
  BY DEF IsBoundary
<1>3. x \in Int /\ y \in Int /\ u \in Int /\ v \in Int
  BY DEF IsShape
<1>4. Sides(x, y)[m].of = Sides(u, v)[n].beyond
  <2>1. IsSide(edges[i]) /\ IsSide(edges[j])
    BY <1>1, <1>2, <1>3 DEF IsSide
  <2>2. edges[i].of = edges[j].beyond
    BY <2>1, FacingSides
  <2> QED
    BY <1>1, <1>2, <2>2
<1> QED
  BY <1>1, <1>2, <1>4 DEF OnBoundary

\* Three steps from a corner to one beside it do not come back.
LEMMA NoTriangle ==
  ASSUME NEW a, NEW b, NEW c, Goes1(a, b), Goes1(b, c), Goes1(c, a)
  PROVE  FALSE
<1>1. PICK a1, a2, b1, b2 \in Int :
        /\ a = <<a1, a2>> /\ b = <<b1, b2>>
        /\ (b1 = a1 /\ (b2 = a2 + 1 \/ b2 = a2 - 1)) \/ (b2 = a2 /\ (b1 = a1 + 1 \/ b1 = a1 - 1))
  BY ONLY Goes1(a, b) DEF Goes1
<1>2. PICK u1, u2, c1, c2 \in Int :
        /\ b = <<u1, u2>> /\ c = <<c1, c2>>
        /\ (c1 = u1 /\ (c2 = u2 + 1 \/ c2 = u2 - 1)) \/ (c2 = u2 /\ (c1 = u1 + 1 \/ c1 = u1 - 1))
  BY ONLY Goes1(b, c) DEF Goes1
<1>3. PICK v1, v2, w1, w2 \in Int :
        /\ c = <<v1, v2>> /\ a = <<w1, w2>>
        /\ (w1 = v1 /\ (w2 = v2 + 1 \/ w2 = v2 - 1)) \/ (w2 = v2 /\ (w1 = v1 + 1 \/ w1 = v1 - 1))
  BY ONLY Goes1(c, a) DEF Goes1
<1>4. u1 = b1 /\ u2 = b2
  <2>1. <<u1, u2>> = <<b1, b2>>
    BY <1>1, <1>2
  <2> QED
    BY <2>1
<1>5. v1 = c1 /\ v2 = c2
  <2>1. <<v1, v2>> = <<c1, c2>>
    BY <1>2, <1>3
  <2> QED
    BY <2>1
<1>6. w1 = a1 /\ w2 = a2
  <2>1. <<w1, w2>> = <<a1, a2>>
    BY <1>1, <1>3
  <2> QED
    BY <2>1
<1> QED
  BY <1>1, <1>2, <1>3, <1>4, <1>5, <1>6

\* A walk that comes back has at least four edges.
LEMMA ClosedWalkIsLong ==
  ASSUME NEW shape, IsShape(shape), NEW edges, IsBoundary(shape, edges), NEW used, NEW start \in DOMAIN edges,
         NEW c \in Walks(edges, used, start), edges[c[Len(c)]].to = edges[start].from
  PROVE  Len(c) >= 4
<1>1. PICK n \in Nat : n = Len(c)
  BY DEF Walks
<1>2. /\ c \in Seq(DOMAIN edges) /\ n # 0 /\ c[1] = start
      /\ \A i \in 1 .. n - 1 : edges[c[i + 1]].from = edges[c[i]].to
  BY <1>1 DEF Walks
<1>3. \A i \in DOMAIN edges : Goes1(edges[i].from, edges[i].to)
  <2> SUFFICES ASSUME NEW i \in 1 .. Len(edges) PROVE Goes1(edges[i].from, edges[i].to)
    BY DEF IsBoundary
  <2>1. PICK x, y \in 0 .. shape.width - 1, m \in 1 .. 4 : edges[i] = Sides(x, y)[m]
    BY DEF IsBoundary
  <2>2. x \in Int /\ y \in Int
    BY DEF IsShape
  <2>3. Goes1(Sides(x, y)[m].from, Sides(x, y)[m].to)
    BY ONLY <2>2, m \in 1 .. 4, SidesGo
  <2> QED
    BY <2>1, <2>3
<1>4. \A i \in 1 .. n : c[i] \in DOMAIN edges /\ Goes1(edges[c[i]].from, edges[c[i]].to)
  BY <1>1, <1>2, <1>3
<1>5. n # 1
  <2> SUFFICES ASSUME n = 1 PROVE FALSE
    OBVIOUS
  <2>1. edges[c[1]].from = edges[c[1]].to
    BY <1>1, <1>2
  <2>2. Goes1(edges[c[1]].from, edges[c[1]].from)
    BY <1>4, <2>1
  <2> QED
    BY <2>2, NoTriangle
<1>6. n # 2
  <2> SUFFICES ASSUME n = 2 PROVE FALSE
    OBVIOUS
  <2>1. 1 + 1 = 2 /\ 1 \in 1 .. n - 1 /\ 1 \in 1 .. n /\ 2 \in 1 .. n
    OBVIOUS
  <2>2. edges[c[2]].from = edges[c[1]].to /\ edges[c[2]].to = edges[c[1]].from
    BY <1>1, <1>2, <2>1
  <2>3. c[1] \in 1 .. Len(edges) /\ c[2] \in 1 .. Len(edges)
    BY <1>4, <2>1 DEF IsBoundary
  <2> QED
    BY <2>2, <2>3, NoWayBack
<1>7. n # 3
  <2> SUFFICES ASSUME n = 3 PROVE FALSE
    OBVIOUS
  <2>1. 1 + 1 = 2 /\ 2 + 1 = 3 /\ 1 \in 1 .. n - 1 /\ 2 \in 1 .. n - 1 /\ 1 \in 1 .. n /\ 2 \in 1 .. n /\ 3 \in 1 .. n
    OBVIOUS
  <2>2. edges[c[2]].from = edges[c[1]].to /\ edges[c[3]].from = edges[c[2]].to /\ edges[c[3]].to = edges[c[1]].from
    BY <1>1, <1>2, <2>1
  <2>3. Goes1(edges[c[1]].from, edges[c[1]].to) /\ Goes1(edges[c[2]].from, edges[c[2]].to)
        /\ Goes1(edges[c[3]].from, edges[c[3]].to)
    BY <1>4, <2>1
  <2> QED
    BY <2>2, <2>3, NoTriangle
<1> QED
  BY <1>1, <1>2, <1>5, <1>6, <1>7

-----------------------------------------------------------------------------
(* There are at most 60 edges: a line between two cells is one of them once. *)

\* A side goes from corner to corner, and is told by these.
LEMMA SameSides ==
  ASSUME NEW e, NEW f, IsSide(e), IsSide(f), e.from = f.from, e.to = f.to
  PROVE  e = f
<1>1. PICK x, y \in Int, i \in 1 .. 4 : e = Sides(x, y)[i]
  BY DEF IsSide
<1>2. PICK u, v \in Int, j \in 1 .. 4 : f = Sides(u, v)[j]
  BY DEF IsSide
<1>3. (i = 1 \/ i = 2 \/ i = 3 \/ i = 4) /\ (j = 1 \/ j = 2 \/ j = 3 \/ j = 4)
  OBVIOUS
<1>4. /\ Sides(x, y)[1].from = <<x, y>> /\ Sides(x, y)[1].to = <<x + 1, y>>
      /\ Sides(x, y)[2].from = <<x + 1, y>> /\ Sides(x, y)[2].to = <<x + 1, y + 1>>
      /\ Sides(x, y)[3].from = <<x + 1, y + 1>> /\ Sides(x, y)[3].to = <<x, y + 1>>
      /\ Sides(x, y)[4].from = <<x, y + 1>> /\ Sides(x, y)[4].to = <<x, y>>
  BY DEF Sides
<1>5. /\ Sides(u, v)[1].from = <<u, v>> /\ Sides(u, v)[1].to = <<u + 1, v>>
      /\ Sides(u, v)[2].from = <<u + 1, v>> /\ Sides(u, v)[2].to = <<u + 1, v + 1>>
      /\ Sides(u, v)[3].from = <<u + 1, v + 1>> /\ Sides(u, v)[3].to = <<u, v + 1>>
      /\ Sides(u, v)[4].from = <<u, v + 1>> /\ Sides(u, v)[4].to = <<u, v>>
  BY DEF Sides
<1>6. PICK a, b, c, d \in Int : e.from = <<a, b>> /\ e.to = <<c, d>>
  <2>1. Goes1(Sides(x, y)[i].from, Sides(x, y)[i].to)
    BY SidesGo
  <2>2. Goes1(e.from, e.to)
    BY <1>1, <2>1
  <2> QED
    BY ONLY <2>2 DEF Goes1
<1>7. f.from = <<a, b>> /\ f.to = <<c, d>>
  BY <1>6
<1>8. \/ a = x /\ b = y /\ c = x + 1 /\ d = y /\ i = 1
      \/ a = x + 1 /\ b = y /\ c = x + 1 /\ d = y + 1 /\ i = 2
      \/ a = x + 1 /\ b = y + 1 /\ c = x /\ d = y + 1 /\ i = 3
      \/ a = x /\ b = y + 1 /\ c = x /\ d = y /\ i = 4
  BY <1>1, <1>3, <1>4, <1>6
<1>9. \/ a = u /\ b = v /\ c = u + 1 /\ d = v /\ j = 1
      \/ a = u + 1 /\ b = v /\ c = u + 1 /\ d = v + 1 /\ j = 2
      \/ a = u + 1 /\ b = v + 1 /\ c = u /\ d = v + 1 /\ j = 3
      \/ a = u /\ b = v + 1 /\ c = u /\ d = v /\ j = 4
  BY <1>2, <1>3, <1>5, <1>7
<1>10. x = u /\ y = v /\ i = j
  BY ONLY <1>8, <1>9, x \in Int, y \in Int, u \in Int, v \in Int
<1> QED
  BY <1>1, <1>2, <1>10

\* Twice the middle of an edge, as a number.
Middle(e) == e.from[1] + e.to[1] + 11 * (e.from[2] + e.to[2])

\* In a shape of at most five cells the middles are 60.
LEMMA MiddleIs ==
  ASSUME NEW x \in 0 .. 4, NEW y \in 0 .. 4, NEW i \in 1 .. 4
  PROVE  \E k \in 1 .. 60 : Middle(Sides(x, y)[i]) = 2 * k - 1
<1>1. i = 1 \/ i = 2 \/ i = 3 \/ i = 4
  OBVIOUS
<1>2. /\ Middle(Sides(x, y)[1]) = x + (x + 1) + 11 * (y + y)
      /\ Middle(Sides(x, y)[2]) = (x + 1) + (x + 1) + 11 * (y + (y + 1))
      /\ Middle(Sides(x, y)[3]) = (x + 1) + x + 11 * ((y + 1) + (y + 1))
      /\ Middle(Sides(x, y)[4]) = x + x + 11 * ((y + 1) + y)
  BY DEF Sides, Middle
<1>3. CASE i = 1
  <2>1. x + (x + 1) + 11 * (y + y) = 2 * (x + 1 + 11 * y) - 1 /\ x + 1 + 11 * y \in 1 .. 60
    OBVIOUS
  <2> QED
    BY <1>2, <1>3, <2>1
<1>4. CASE i = 2
  <2>1. (x + 1) + (x + 1) + 11 * (y + (y + 1)) = 2 * (x + 7 + 11 * y) - 1 /\ x + 7 + 11 * y \in 1 .. 60
    OBVIOUS
  <2> QED
    BY <1>2, <1>4, <2>1
<1>5. CASE i = 3
  <2>1. (x + 1) + x + 11 * ((y + 1) + (y + 1)) = 2 * (x + 12 + 11 * y) - 1 /\ x + 12 + 11 * y \in 1 .. 60
    OBVIOUS
  <2> QED
    BY <1>2, <1>5, <2>1
<1>6. CASE i = 4
  <2>1. x + x + 11 * ((y + 1) + y) = 2 * (x + 6 + 11 * y) - 1 /\ x + 6 + 11 * y \in 1 .. 60
    OBVIOUS
  <2> QED
    BY <1>2, <1>6, <2>1
<1> QED
  BY <1>1, <1>3, <1>4, <1>5, <1>6

SameLine(e, f) == (e.from = f.from /\ e.to = f.to) \/ (e.from = f.to /\ e.to = f.from)

\* Edges of one middle are on one line.
LEMMA MiddlesDiffer ==
  ASSUME NEW x \in 0 .. 4, NEW y \in 0 .. 4, NEW i \in 1 .. 4,
         NEW u \in 0 .. 4, NEW v \in 0 .. 4, NEW j \in 1 .. 4,
         NEW e, e = Sides(x, y)[i], NEW f, f = Sides(u, v)[j], Middle(e) = Middle(f)
  PROVE  SameLine(e, f)
<1>1. (i = 1 \/ i = 2 \/ i = 3 \/ i = 4) /\ (j = 1 \/ j = 2 \/ j = 3 \/ j = 4)
  OBVIOUS
<1>2. PICK a, b, c, d \in Int :
        /\ e.from = <<a, b>> /\ e.to = <<c, d>>
        /\ \/ a = x /\ b = y /\ c = x + 1 /\ d = y
           \/ a = x + 1 /\ b = y /\ c = x + 1 /\ d = y + 1
           \/ a = x + 1 /\ b = y + 1 /\ c = x /\ d = y + 1
           \/ a = x /\ b = y + 1 /\ c = x /\ d = y
  <2>1. /\ Sides(x, y)[1].from = <<x, y>> /\ Sides(x, y)[1].to = <<x + 1, y>>
        /\ Sides(x, y)[2].from = <<x + 1, y>> /\ Sides(x, y)[2].to = <<x + 1, y + 1>>
        /\ Sides(x, y)[3].from = <<x + 1, y + 1>> /\ Sides(x, y)[3].to = <<x, y + 1>>
        /\ Sides(x, y)[4].from = <<x, y + 1>> /\ Sides(x, y)[4].to = <<x, y>>
    BY DEF Sides
  <2>2. x \in Int /\ y \in Int /\ x + 1 \in Int /\ y + 1 \in Int
    OBVIOUS
  <2> QED
    BY ONLY e = Sides(x, y)[i], <1>1, <2>1, <2>2
<1>3. PICK p, q, r, s \in Int :
        /\ f.from = <<p, q>> /\ f.to = <<r, s>>
        /\ \/ p = u /\ q = v /\ r = u + 1 /\ s = v
           \/ p = u + 1 /\ q = v /\ r = u + 1 /\ s = v + 1
           \/ p = u + 1 /\ q = v + 1 /\ r = u /\ s = v + 1
           \/ p = u /\ q = v + 1 /\ r = u /\ s = v
  <2>1. /\ Sides(u, v)[1].from = <<u, v>> /\ Sides(u, v)[1].to = <<u + 1, v>>
        /\ Sides(u, v)[2].from = <<u + 1, v>> /\ Sides(u, v)[2].to = <<u + 1, v + 1>>
        /\ Sides(u, v)[3].from = <<u + 1, v + 1>> /\ Sides(u, v)[3].to = <<u, v + 1>>
        /\ Sides(u, v)[4].from = <<u, v + 1>> /\ Sides(u, v)[4].to = <<u, v>>
    BY DEF Sides
  <2>2. u \in Int /\ v \in Int /\ u + 1 \in Int /\ v + 1 \in Int
    OBVIOUS
  <2> QED
    BY ONLY f = Sides(u, v)[j], <1>1, <2>1, <2>2
<1>4. Middle(e) = a + c + 11 * (b + d) /\ Middle(f) = p + r + 11 * (q + s)
  BY <1>2, <1>3 DEF Middle
<1>5. a + c \in 0 .. 10 /\ b + d \in 0 .. 10 /\ p + r \in 0 .. 10 /\ q + s \in 0 .. 10
  BY ONLY <1>2, <1>3, x \in 0 .. 4, y \in 0 .. 4, u \in 0 .. 4, v \in 0 .. 4
<1>6. a + c = p + r /\ b + d = q + s
  <2>1. PICK k, l, m, n \in 0 .. 10 : k = a + c /\ l = b + d /\ m = p + r /\ n = q + s
    BY <1>5, Zenon
  <2>2. k + 11 * l = m + 11 * n
    BY <1>4, <2>1
  <2>3. k = m /\ l = n
    BY ONLY <2>2, k \in 0 .. 10, l \in 0 .. 10, m \in 0 .. 10, n \in 0 .. 10
  <2> QED
    BY ONLY <2>1, <2>3, Zenon
<1>7. (a = p /\ b = q /\ c = r /\ d = s) \/ (a = r /\ b = s /\ c = p /\ d = q)
  BY ONLY <1>2, <1>3, <1>6, x \in 0 .. 4, y \in 0 .. 4, u \in 0 .. 4, v \in 0 .. 4
<1> QED
  BY <1>2, <1>3, <1>7 DEF SameLine

\* So the boundary has at most 60 edges, of the VO_MAX_EDGES = 104 there is room for.
LEMMA EdgesFew ==
  ASSUME NEW shape, IsShape(shape), NEW edges, IsBoundary(shape, edges)
  PROVE  Len(edges) <= 60
<1>1. PICK n \in Nat : n = Len(edges)
  BY DEF IsBoundary
<1>2. ASSUME NEW i \in 1 .. n
      PROVE  \E x, y \in 0 .. 4 : \E m \in 1 .. 4 :
               edges[i] = Sides(x, y)[m] /\ OnBoundary(shape, Sides(x, y)[m])
  <2>1. PICK x, y \in 0 .. shape.width - 1, m \in 1 .. 4 :
          edges[i] = Sides(x, y)[m] /\ OnBoundary(shape, Sides(x, y)[m])
    BY <1>1 DEF IsBoundary
  <2>2. x \in 0 .. 4 /\ y \in 0 .. 4
    BY DEF IsShape
  <2> QED
    BY <2>1, <2>2
<1>3. \A i \in 1 .. n : \E k \in 1 .. 60 : Middle(edges[i]) = 2 * k - 1
  <2> SUFFICES ASSUME NEW i \in 1 .. n PROVE \E k \in 1 .. 60 : Middle(edges[i]) = 2 * k - 1
    OBVIOUS
  <2>1. PICK x, y \in 0 .. 4, m \in 1 .. 4 : edges[i] = Sides(x, y)[m] /\ OnBoundary(shape, Sides(x, y)[m])
    BY <1>2
  <2>2. \E k \in 1 .. 60 : Middle(Sides(x, y)[m]) = 2 * k - 1
    BY ONLY x \in 0 .. 4, y \in 0 .. 4, m \in 1 .. 4, MiddleIs, Zenon
  <2> QED
    BY <2>1, <2>2
<1>4. PICK f : f = [i \in 1 .. n |-> CHOOSE k \in 1 .. 60 : Middle(edges[i]) = 2 * k - 1]
  OBVIOUS
<1>5. \A i \in 1 .. n : f[i] \in 1 .. 60 /\ Middle(edges[i]) = 2 * f[i] - 1
  BY <1>3, <1>4
<1>6. \A i, j \in 1 .. n : f[i] = f[j] => i = j
  <2> SUFFICES ASSUME NEW i \in 1 .. n, NEW j \in 1 .. n, f[i] = f[j] PROVE i = j
    OBVIOUS
  <2>1. Middle(edges[i]) = Middle(edges[j])
    BY <1>5
  <2>2. PICK x, y \in 0 .. 4, m \in 1 .. 4 : edges[i] = Sides(x, y)[m]
    BY <1>2
  <2>3. PICK u, v \in 0 .. 4, l \in 1 .. 4 : edges[j] = Sides(u, v)[l]
    BY <1>2
  <2>4. \/ edges[i].from = edges[j].from /\ edges[i].to = edges[j].to
        \/ edges[i].from = edges[j].to /\ edges[i].to = edges[j].from
    <3>1. PICK e, g : e = edges[i] /\ g = edges[j]
      OBVIOUS
    <3>2. e = Sides(x, y)[m] /\ g = Sides(u, v)[l] /\ Middle(e) = Middle(g)
      BY ONLY <2>1, <2>2, <2>3, <3>1, Zenon
    <3>3. SameLine(e, g)
      BY ONLY <3>2, MiddlesDiffer, x \in 0 .. 4, y \in 0 .. 4, m \in 1 .. 4, u \in 0 .. 4, v \in 0 .. 4, l \in 1 .. 4, Zenon
    <3> QED
      BY <3>1, <3>3 DEF SameLine
  <2>5. ~(edges[i].from = edges[j].to /\ edges[i].to = edges[j].from)
    BY <1>1, NoWayBack
  <2>6. IsSide(edges[i]) /\ IsSide(edges[j])
    <3>1. x \in Int /\ y \in Int /\ u \in Int /\ v \in Int
      OBVIOUS
    <3> QED
      BY <2>2, <2>3, <3>1 DEF IsSide
  <2>7. edges[i] = edges[j]
    BY <2>4, <2>5, <2>6, SameSides
  <2> QED
    BY <1>1, <2>7 DEF IsBoundary
<1>7. f \in Injection(1 .. n, 1 .. 60)
  <2>1. f \in [1 .. n -> 1 .. 60]
    BY <1>4, <1>5
  <2> QED
    BY <1>6, <2>1 DEF Injection, IsInjective
<1>8. Cardinality(1 .. n) = n /\ Cardinality(1 .. 60) = 60 /\ IsFiniteSet(1 .. 60)
  <2>1. \A k \in Nat : IsFiniteSet(1 .. k) /\ Cardinality(1 .. k) = k
    <3> SUFFICES ASSUME NEW k \in Nat PROVE IsFiniteSet(1 .. k) /\ Cardinality(1 .. k) = k
      OBVIOUS
    <3>1. IsFiniteSet(1 .. k) /\ Cardinality(1 .. k) = IF 1 > k THEN 0 ELSE k - 1 + 1
      BY FS_Interval
    <3> QED
      BY <3>1
  <2>2. 60 \in Nat
    OBVIOUS
  <2> QED
    BY <2>1, <2>2
<1>9. Cardinality(1 .. n) <= Cardinality(1 .. 60)
  BY <1>7, <1>8, FS_Injection
<1> QED
  BY <1>1, <1>8, <1>9

-----------------------------------------------------------------------------
(* The contours that vo_trace finds have the boundary's edges, and no others. *)

\* The place in a contour of n corners after place i.
After(n, i) == IF i = n THEN 1 ELSE i + 1

\* Each corner of a contour and the next one are an edge's; an edge is of a contour.
IsContour(edges, pts) ==
  /\ pts \in Seq(Points) /\ Len(pts) >= 2
  /\ \A i \in 1 .. Len(pts) :
       \E e \in DOMAIN edges : pts[i] = edges[e].from /\ pts[After(Len(pts), i)] = edges[e].to
HasEdge(pts, e) == \E i \in 1 .. Len(pts) : pts[i] = e.from /\ pts[After(Len(pts), i)] = e.to

\* What is so of the contours found so far.
IsTrace(edges, t) ==
  /\ Balanced(edges, t.used) /\ ~t.truncated
  /\ \A k \in DOMAIN t.contours : IsContour(edges, t.contours[k])
  /\ \A e \in t.used : \E k \in DOMAIN t.contours : HasEdge(t.contours[k], edges[e])
  /\ 4 * Len(t.contours) <= Cardinality(t.used)

Traces(edges) ==
  {t \in [used : SUBSET DOMAIN edges, contours : Seq(Seq(Points)), truncated : BOOLEAN] : IsTrace(edges, t)}

\* The corners of a closed walk are a contour, which has its edges.
LEMMA WalkIsContour ==
  ASSUME NEW edges \in Seq(Edges), NEW used, NEW start \in DOMAIN edges, NEW c \in Walks(edges, used, start),
         edges[c[Len(c)]].to = edges[start].from, Len(c) >= 4,
         NEW pts, pts = [i \in DOMAIN c |-> edges[c[i]].from]
  PROVE  /\ pts \in Seq(Points) /\ IsContour(edges, pts)
         /\ \A e \in ToSet(c) : HasEdge(pts, edges[e])
<1>1. PICK n \in Nat : n = Len(c)
  BY DEF Walks
<1>2. /\ c \in Seq(DOMAIN edges) /\ c[1] = start /\ DOMAIN c = 1 .. n
      /\ \A i \in 1 .. n - 1 : edges[c[i + 1]].from = edges[c[i]].to
  BY <1>1 DEF Walks
<1>3. \A i \in 1 .. n : c[i] \in DOMAIN edges
  BY <1>1, <1>2
<1>4. \A e \in DOMAIN edges : edges[e].from \in Points
  <2>1. \A e \in DOMAIN edges : edges[e] \in Edges
    OBVIOUS
  <2> HIDE DEF Points
  <2> QED
    BY <2>1 DEF Edges
<1>5. pts \in Seq(Points) /\ Len(pts) = n
  <2>1. \A i \in 1 .. n : edges[c[i]].from \in Points
    BY <1>3, <1>4
  <2>2. pts \in [1 .. n -> Points]
    BY <1>2, <2>1
  <2> QED
    BY <2>2
<1>6. \A i \in 1 .. n : pts[i] = edges[c[i]].from /\ pts[After(n, i)] = edges[c[i]].to
  <2> SUFFICES ASSUME NEW i \in 1 .. n
               PROVE  pts[i] = edges[c[i]].from /\ pts[After(n, i)] = edges[c[i]].to
    OBVIOUS
  <2>1. pts[i] = edges[c[i]].from
    BY <1>2
  <2>2. CASE i = n
    <3>1. After(n, i) = 1 /\ 1 \in DOMAIN c
      BY <1>1, <1>2, <2>2 DEF After
    <3> QED
      BY <1>1, <1>2, <2>1, <2>2, <3>1
  <2>3. CASE i # n
    <3>1. After(n, i) = i + 1
      BY ONLY <2>3 DEF After
    <3>2. i \in 1 .. n - 1 /\ i + 1 \in 1 .. n
      BY ONLY <2>3, i \in 1 .. n, n \in Nat
    <3> QED
      BY <1>2, <2>1, <3>1, <3>2
  <2> QED
    BY <2>2, <2>3
<1>7. IsContour(edges, pts)
  <2>1. Len(pts) >= 2
    BY <1>1, <1>5
  <2>2. \A i \in 1 .. n : \E e \in DOMAIN edges : pts[i] = edges[e].from /\ pts[After(n, i)] = edges[e].to
    BY <1>3, <1>6
  <2> QED
    BY ONLY <1>5, <2>1, <2>2 DEF IsContour
<1>8. ASSUME NEW e \in ToSet(c) PROVE HasEdge(pts, edges[e])
  <2>1. PICK i \in 1 .. n : e = c[i]
    BY <1>2 DEF ToSet
  <2>2. pts[i] = edges[e].from /\ pts[After(n, i)] = edges[e].to
    BY ONLY <1>6, <2>1
  <2>3. Len(pts) = n
    BY <1>5
  <2> QED
    BY ONLY <2>2, <2>3, i \in 1 .. n DEF HasEdge
<1> QED
  BY <1>5, <1>7, <1>8

\* One contour more: there is room for it, and it is closed.
LEMMA ContourAdded ==
  ASSUME NEW shape, IsShape(shape), NEW edges, IsBoundary(shape, edges),
         NEW t \in Traces(edges), NEW i \in DOMAIN edges \ t.used
  PROVE  /\ AddContour(edges, t, i) \in Traces(edges)
         /\ t.used \subseteq AddContour(edges, t, i).used /\ i \in AddContour(edges, t, i).used
<1>1. edges \in Seq(Edges)
  BY DEF IsBoundary
<1>2. PICK n \in Nat : n = Len(edges) /\ DOMAIN edges = 1 .. n
  BY <1>1
<1>3. PICK U, C : U = t.used /\ C = t.contours
  OBVIOUS
<1>4. U \subseteq 1 .. n /\ C \in Seq(Seq(Points)) /\ ~t.truncated /\ t.truncated \in BOOLEAN
  BY <1>2, <1>3 DEF Traces, IsTrace
<1>5. /\ Balanced(edges, U) /\ \A k \in DOMAIN C : IsContour(edges, C[k])
      /\ \A e \in U : \E k \in DOMAIN C : HasEdge(C[k], edges[e])
      /\ 4 * Len(C) <= Cardinality(U)
  BY <1>3 DEF Traces, IsTrace
<1>6. IsFiniteSet(U) /\ Cardinality(U) \in Nat /\ Cardinality(U) <= 60
  <2>1. IsFiniteSet(1 .. n) /\ Cardinality(1 .. n) = n
    <3>1. IsFiniteSet(1 .. n) /\ Cardinality(1 .. n) = IF 1 > n THEN 0 ELSE n - 1 + 1
      BY FS_Interval
    <3> QED
      BY <3>1
  <2>2. IsFiniteSet(U) /\ Cardinality(U) <= n
    BY <1>4, <2>1, FS_Subset
  <2>3. n <= 60
    BY <1>2, EdgesFew
  <2>4. Cardinality(U) \in Nat
    BY <2>2, FS_CardinalityType
  <2> QED
    BY <2>2, <2>3, <2>4
<1>7. Len(C) \in Nat /\ Len(C) # VO_MAX_CONTOURS
  <2>1. Len(C) \in Nat
    BY <1>4
  <2>2. PICK l, u \in Nat : l = Len(C) /\ u = Cardinality(U)
    BY <1>6, <2>1
  <2>3. 4 * l <= u /\ u <= 60
    BY <1>5, <1>6, <2>2
  <2>4. l # 16
    BY ONLY <2>3, l \in Nat, u \in Nat
  <2> QED
    BY <2>1, <2>2, <2>4, Zenon DEF VO_MAX_CONTOURS
<1>8. i \in 1 .. n /\ i \in DOMAIN edges /\ i \notin U
  BY <1>2, <1>3
<1>9. PICK c \in Walks(edges, U, i) : c = Contour(edges, U, i) /\ edges[c[Len(c)]].to = edges[i].from
  BY <1>1, <1>5, <1>8, ContourCloses
<1>10. Len(c) >= 4
  BY <1>8, <1>9, ClosedWalkIsLong
<1>11. PICK pts : pts = [j \in DOMAIN c |-> edges[c[j]].from]
  OBVIOUS
<1>12. /\ pts \in Seq(Points) /\ IsContour(edges, pts)
       /\ \A e \in ToSet(c) : HasEdge(pts, edges[e])
  BY ONLY <1>1, <1>8, <1>9, <1>10, <1>11, c \in Walks(edges, U, i), WalkIsContour, Zenon
<1>13. PICK D : D = Append(C, pts)
  OBVIOUS
<1>14. PICK V : V = U \cup ToSet(c)
  OBVIOUS
<1>15. AddContour(edges, t, i) = [used |-> V, contours |-> D, truncated |-> FALSE]
  <2>1. Last(c) = c[Len(c)]
    BY DEF Last
  <2>2. (t.truncated \/ edges[Last(c)].to # edges[i].from) = FALSE
    BY <1>4, <1>9, <2>1
  <2> QED
    BY <1>3, <1>7, <1>9, <1>11, <1>13, <1>14, <2>2 DEF AddContour
<1>16. PICK m \in Nat : m = Len(C)
  BY <1>7
<1>17. /\ D \in Seq(Seq(Points)) /\ Len(D) = m + 1 /\ DOMAIN D = 1 .. m + 1 /\ DOMAIN C = 1 .. m
       /\ D[m + 1] = pts /\ \A k \in 1 .. m : D[k] = C[k]
  <2>0. D \in Seq(Seq(Points))
    BY ONLY <1>4, <1>12, <1>13
  <2>1. Len(D) = m + 1 /\ D[m + 1] = pts /\ \A k \in 1 .. m : D[k] = C[k]
    BY <1>4, <1>13, <1>16
  <2> QED
    BY <1>4, <1>16, <2>0, <2>1
<1>18. \A k \in 1 .. m + 1 : k = m + 1 \/ k \in 1 .. m
  OBVIOUS
<1>19. \A k \in DOMAIN D : IsContour(edges, D[k])
  BY <1>5, <1>12, <1>17, <1>18
<1>20. \A e \in V : \E k \in DOMAIN D : HasEdge(D[k], edges[e])
  <2>1. \A k \in 1 .. m : k \in DOMAIN D
    BY <1>17
  <2>2. m + 1 \in DOMAIN D
    BY <1>17
  <2> QED
    BY <1>5, <1>12, <1>14, <1>17, <2>1, <2>2
<1>21. c \in Seq(DOMAIN edges) /\ (\A j \in 1 .. Len(c) : c[j] \notin U) /\ Cardinality(ToSet(c)) = Len(c) /\ c[1] = i
  BY DEF Walks
<1>22. ToSet(c) = {c[j] : j \in 1 .. Len(c)} /\ Len(c) \in Nat
  BY <1>21 DEF ToSet
<1>23. ToSet(c) \subseteq 1 .. n /\ U \cap ToSet(c) = {} /\ i \in ToSet(c)
  <2>1. 1 \in 1 .. Len(c)
    BY <1>10, <1>22
  <2> QED
    <3>1. \A j \in 1 .. Len(c) : c[j] \in 1 .. n
      BY <1>2, <1>21
    <3> QED
      BY ONLY <1>21, <1>22, <2>1, <3>1, Zenon
<1>24. V \subseteq DOMAIN edges /\ U \subseteq V /\ i \in V
  BY <1>2, <1>4, <1>14, <1>23, Zenon
<1>25. 4 * Len(D) <= Cardinality(V)
  <2>1. IsFiniteSet(ToSet(c))
    <3>1. IsFiniteSet(1 .. n)
      BY FS_Interval
    <3> QED
      BY <1>23, <3>1, FS_Subset
  <2>2. Cardinality(V) = Cardinality(U) + Cardinality(ToSet(c)) - Cardinality(U \cap ToSet(c))
    BY <1>6, <1>14, <2>1, FS_Union
  <2>3. Cardinality(U \cap ToSet(c)) = 0
    BY <1>23, FS_EmptySet
  <2> QED
    <3>1. PICK u, w, l \in Nat : u = Cardinality(U) /\ w = Cardinality(ToSet(c)) /\ l = Len(c)
      BY <1>6, <1>21, <1>22, Zenon
    <3>2. Cardinality(V) = u + w /\ w = l /\ l >= 4 /\ 4 * m <= u
      BY <1>5, <1>10, <1>16, <1>21, <2>2, <2>3, <3>1
    <3>3. 4 * (m + 1) <= u + w
      BY ONLY <3>2, m \in Nat, u \in Nat, w \in Nat, l \in Nat
    <3> QED
      BY <1>17, <3>2, <3>3
<1>26. Balanced(edges, V)
  <2> SUFFICES ASSUME NEW v \in Points
               PROVE  Cardinality(Leaving(edges, V, v)) = Cardinality(Coming(edges, V, v))
    BY DEF Balanced
  <2>1. Cardinality(Leaving(edges, V, v)) + At(v, edges[i].from) =
        Cardinality(Coming(edges, V, v)) + At(v, edges[i].from)
    BY <1>9, <1>14 DEF Walks
  <2>2. At(v, edges[i].from) \in Int
    BY DEF At
  <2>3. Cardinality(Leaving(edges, V, v)) \in Int /\ Cardinality(Coming(edges, V, v)) \in Int
    <3>1. IsFiniteSet(Leaving(edges, V, v)) /\ IsFiniteSet(Coming(edges, V, v))
      <4>1. Leaving(edges, V, v) \subseteq 1 .. n /\ Coming(edges, V, v) \subseteq 1 .. n
        BY <1>2 DEF Leaving, Coming
      <4>2. IsFiniteSet(1 .. n)
        BY FS_Interval
      <4> QED
        BY <4>1, <4>2, FS_Subset
    <3> QED
      BY <3>1, FS_CardinalityType
  <2>4. PICK a, b, d \in Int : /\ a = Cardinality(Leaving(edges, V, v)) /\ b = Cardinality(Coming(edges, V, v))
                                /\ d = At(v, edges[i].from)
    BY <2>2, <2>3
  <2>5. a + d = b + d
    BY <2>1, <2>4
  <2>6. a = b
    BY ONLY <2>5, a \in Int, b \in Int, d \in Int
  <2> QED
    BY <2>4, <2>6
<1>27. PICK s : s = AddContour(edges, t, i)
  OBVIOUS
<1>28. s.used = V /\ s.contours = D /\ s.truncated = FALSE
       /\ s \in [used : SUBSET DOMAIN edges, contours : Seq(Seq(Points)), truncated : BOOLEAN]
  BY ONLY <1>15, <1>17, <1>24, <1>27
<1>29. IsTrace(edges, s)
  BY <1>19, <1>20, <1>25, <1>26, <1>28 DEF IsTrace
<1> QED
  BY <1>3, <1>24, <1>27, <1>28, <1>29 DEF Traces

\* What vo_trace does with one edge more.
TraceStep(edges, t, i) == IF i \in t.used THEN t ELSE AddContour(edges, t, i)

TraceOf(edges, all) ==
  CHOOSE trace : trace = [i \in 0 .. Len(edges) |->
    IF i = 0 THEN [used |-> {}, contours |-> <<>>, truncated |-> Len(all) > VO_MAX_EDGES]
    ELSE IF i \in trace[i - 1].used THEN trace[i - 1] ELSE AddContour(edges, trace[i - 1], i)]

\* The trace uses all the edges, in closed contours that there is room for.
LEMMA TraceIs ==
  ASSUME NEW shape, IsShape(shape)
  PROVE  vo_trace(shape) \in Traces(BoundaryEdges(shape)) /\ vo_trace(shape).used = DOMAIN BoundaryEdges(shape)
<1>1. PICK edges : edges = BoundaryEdges(shape)
  OBVIOUS
<1>2. IsBoundary(shape, edges)
  BY <1>1, BoundaryIs
<1>3. PICK n \in Nat : n = Len(edges) /\ DOMAIN edges = 1 .. n /\ n <= 60
  <2>1. edges \in Seq(Edges)
    BY <1>2 DEF IsBoundary
  <2> QED
    BY <1>2, <2>1, EdgesFew
<1>4. ~(Len(edges) > VO_MAX_EDGES) /\ (Len(edges) > VO_MAX_EDGES) = FALSE
  BY <1>3 DEF VO_MAX_EDGES, VO_MAX_PTS
<1>5. PICK S : S = Traces(edges)
  OBVIOUS
<1>6. PICK b : b = [used |-> {}, contours |-> <<>>, truncated |-> FALSE]
  OBVIOUS
<1>7. b \in S
  <2>1. b \in [used : SUBSET DOMAIN edges, contours : Seq(Seq(Points)), truncated : BOOLEAN]
    BY <1>6
  <2>2. b.used = {} /\ b.contours = <<>> /\ b.truncated = FALSE
    BY <1>6
  <2>3. Balanced(edges, b.used)
    BY <1>2, <2>2, StartsBalanced
  <2>4. 4 * Len(b.contours) <= Cardinality(b.used)
    <3>1. Len(<<>>) = 0 /\ Cardinality({}) = 0
      BY FS_EmptySet
    <3> QED
      BY <2>2, <3>1
  <2>5. DOMAIN b.contours = {}
    BY <2>2
  <2>6. IsTrace(edges, b)
    BY <2>2, <2>3, <2>4, <2>5 DEF IsTrace
  <2> QED
    BY <1>5, <2>1, <2>6 DEF Traces
<1>8. \A t \in S : \A i \in 1 .. n :
        TraceStep(edges, t, i) \in S /\ t.used \subseteq TraceStep(edges, t, i).used /\ i \in TraceStep(edges, t, i).used
  <2> SUFFICES ASSUME NEW t \in S, NEW i \in 1 .. n
               PROVE  /\ TraceStep(edges, t, i) \in S /\ t.used \subseteq TraceStep(edges, t, i).used
                      /\ i \in TraceStep(edges, t, i).used
    OBVIOUS
  <2>1. CASE i \in t.used
    BY <2>1 DEF TraceStep
  <2>2. CASE i \notin t.used
    <3>1. i \in DOMAIN edges \ t.used /\ t \in Traces(edges)
      BY <1>3, <1>5, <2>2
    <3>2. /\ AddContour(edges, t, i) \in Traces(edges)
          /\ t.used \subseteq AddContour(edges, t, i).used /\ i \in AddContour(edges, t, i).used
      BY <1>2, <3>1, ContourAdded
    <3> QED
      BY <1>5, <2>2, <3>2 DEF TraceStep
  <2> QED
    BY <2>1, <2>2
<1>9. PICK step : step = [i \in 1 .. n |-> [t \in S |-> TraceStep(edges, t, i)]]
  OBVIOUS
<1>10. Steps(n, S, b, step)
  <2>1. step \in [1 .. n -> [S -> S]]
    BY <1>8, <1>9
  <2> QED
    BY <1>7, <2>1 DEF Steps
<1>11. PICK g : Results(g, n, S, b, step)
  BY <1>10, Recursion
<1> DEFINE Is(r) == r = [i \in 0 .. n |-> IF i = 0 THEN b ELSE TraceStep(edges, r[i - 1], i)]
<1>12. Is(g)
  <2>1. g \in [0 .. n -> S] /\ g[0] = b /\ \A k \in 1 .. n : g[k] = step[k][g[k - 1]]
    BY <1>11 DEF Results
  <2>2. \A k \in 1 .. n : k - 1 \in 0 .. n
    OBVIOUS
  <2>3. \A k \in 1 .. n : g[k] = TraceStep(edges, g[k - 1], k)
    BY <1>9, <2>1, <2>2
  <2>4. PICK h : h = [k \in 0 .. n |-> IF k = 0 THEN b ELSE TraceStep(edges, g[k - 1], k)]
    OBVIOUS
  <2>5. \A k \in 0 .. n : k = 0 \/ k \in 1 .. n
    OBVIOUS
  <2>6. \A k \in 0 .. n : g[k] = h[k]
    BY <2>1, <2>3, <2>4, <2>5
  <2>7. g = h
    BY <2>1, <2>4, <2>6
  <2> QED
    BY <2>4, <2>7
<1>13. Is(CHOOSE r : Is(r))
  BY <1>12
<1>14. PICK r : r = TraceOf(edges, edges) /\ Is(r)
  <2>1. TraceOf(edges, edges) = CHOOSE r : Is(r)
    BY <1>3, <1>4, <1>6 DEF TraceOf, TraceStep
  <2> QED
    BY <1>13, <2>1
<1>15. r[0] = b /\ \A k \in 1 .. n : r[k] = TraceStep(edges, r[k - 1], k)
  <2>1. 0 \in 0 .. n /\ \A k \in 1 .. n : k \in 0 .. n /\ k # 0
    OBVIOUS
  <2> QED
    BY <1>14, <2>1
<1>16. r = [k \in 0 .. n |-> r[k]]
  BY <1>14
<1> HIDE DEF Is
<1>17. \A k \in 1 .. n : r[k - 1] \in S => r[k] = step[k][r[k - 1]]
  BY <1>9, <1>15
<1>18. Results(r, n, S, b, step)
  BY ONLY <1>10, <1>15, <1>16, <1>17, Unfolded
<1>19. r \in [0 .. n -> S]
  BY <1>18 DEF Results
<1>20. vo_trace(shape) = r[n]
  BY <1>1, <1>3, <1>4, <1>14 DEF vo_trace, TraceOf
<1>21. PICK T : T = {k \in 0 .. n : 1 .. k \subseteq r[k].used}
  OBVIOUS
<1>22. 0 \in T
  BY <1>21
<1>23. ASSUME NEW k \in 0 .. n - 1, k \in T PROVE k + 1 \in T
  <2>1. PICK j \in 1 .. n : j = k + 1 /\ j - 1 = k /\ j \in 0 .. n
    OBVIOUS
  <2>2. PICK t \in S : t = r[k]
    BY <1>19
  <2>3. r[j] = TraceStep(edges, t, j)
    BY <1>15, <2>1, <2>2
  <2>4. t.used \subseteq r[j].used /\ j \in r[j].used
    BY <1>8, <2>3
  <2>5. 1 .. k \subseteq t.used
    BY <1>21, <1>23, <2>2
  <2>6. \A m \in 1 .. j : m = j \/ m \in 1 .. k
    BY <2>1
  <2>7. 1 .. j \subseteq r[j].used
    BY <2>4, <2>5, <2>6
  <2> QED
    BY <1>21, <2>1, <2>7
<1>24. n \in T
  <2>1. \A k \in 0 .. n - 1 : k \in T => k + 1 \in T
    BY <1>23
  <2>2. \A k \in 0 .. n : k \in T
    BY ONLY n \in Nat, <1>22, <2>1, Induction
  <2> QED
    BY <2>2
<1>25. PICK t \in S : t = r[n]
  BY <1>19
<1>26. t.used = 1 .. n
  <2>1. t.used \subseteq 1 .. n
    BY <1>3, <1>5 DEF Traces
  <2> QED
    BY <1>21, <1>24, <1>25, <2>1
<1> QED
  BY <1>1, <1>3, <1>5, <1>20, <1>25, <1>26

-----------------------------------------------------------------------------
(* The part of a line that is on the screen.                               *)

\* The lines that a shape has: the sides of its cells with an empty one beyond.
BoundaryLine(shape, p, q) ==
  \E x, y \in 0 .. shape.width - 1 : \E m \in 1 .. 4 :
    OnBoundary(shape, Sides(x, y)[m]) /\ Sides(x, y)[m].from = p /\ Sides(x, y)[m].to = q

HasLine(pts, p, q) == \E i \in 1 .. Len(pts) : pts[i] = p /\ pts[After(Len(pts), i)] = q

\* A shape is traced: its contours have its lines, and no others.
LEMMA ShapeTraced ==
  ASSUME NEW shape, IsShape(shape), NEW o, o = vo_trace(shape)
  PROVE  /\ ~o.truncated /\ o.contours # <<>> /\ o.contours \in Seq(Seq(Points))
         /\ \A k \in DOMAIN o.contours : Len(o.contours[k]) >= 2
         /\ \A k \in DOMAIN o.contours : \A i \in 1 .. Len(o.contours[k]) :
              BoundaryLine(shape, o.contours[k][i], o.contours[k][After(Len(o.contours[k]), i)])
         /\ \A p, q : BoundaryLine(shape, p, q) => \E k \in DOMAIN o.contours : HasLine(o.contours[k], p, q)
<1>1. PICK edges : edges = BoundaryEdges(shape)
  OBVIOUS
<1>2. IsBoundary(shape, edges)
  BY <1>1, BoundaryIs
<1>3. o \in Traces(edges) /\ o.used = DOMAIN edges /\ DOMAIN edges = 1 .. Len(edges)
  BY <1>1, <1>2, TraceIs DEF IsBoundary
<1>4. PICK C : C = o.contours
  OBVIOUS
<1>5. /\ ~o.truncated /\ C \in Seq(Seq(Points))
      /\ \A k \in DOMAIN C : IsContour(edges, C[k])
      /\ \A e \in DOMAIN edges : \E k \in DOMAIN C : HasEdge(C[k], edges[e])
  BY <1>3, <1>4 DEF Traces, IsTrace
<1>6. ASSUME NEW p, NEW q, BoundaryLine(shape, p, q) PROVE \E k \in DOMAIN C : HasLine(C[k], p, q)
  <2>1. PICK x, y \in 0 .. shape.width - 1, m \in 1 .. 4 :
          OnBoundary(shape, Sides(x, y)[m]) /\ Sides(x, y)[m].from = p /\ Sides(x, y)[m].to = q
    BY <1>6 DEF BoundaryLine
  <2>2. PICK e \in DOMAIN edges : edges[e] = Sides(x, y)[m]
    <3>1. \A u, v \in 0 .. shape.width - 1 : \A n \in 1 .. 4 :
            OnBoundary(shape, Sides(u, v)[n]) => \E e \in 1 .. Len(edges) : edges[e] = Sides(u, v)[n]
      BY <1>2 DEF IsBoundary
    <3>2. \E e \in 1 .. Len(edges) : edges[e] = Sides(x, y)[m]
      BY <2>1, <3>1, Zenon
    <3>3. PICK e \in 1 .. Len(edges) : edges[e] = Sides(x, y)[m]
      BY <3>2, Zenon
    <3>4. e \in DOMAIN edges
      BY <1>3
    <3> QED
      BY <3>3, <3>4, Zenon
  <2>3. PICK k \in DOMAIN C : HasEdge(C[k], edges[e])
    BY <1>5
  <2>4. HasLine(C[k], p, q)
    BY <2>1, <2>2, <2>3 DEF HasEdge, HasLine
  <2> QED
    BY <2>4
<1>7. ASSUME NEW k \in DOMAIN C, NEW i \in 1 .. Len(C[k])
      PROVE  BoundaryLine(shape, C[k][i], C[k][After(Len(C[k]), i)])
  <2>1. PICK pts : pts = C[k]
    OBVIOUS
  <2>2. PICK e \in DOMAIN edges : pts[i] = edges[e].from /\ pts[After(Len(pts), i)] = edges[e].to
    BY <1>5, <1>7, <2>1 DEF IsContour
  <2>3. PICK x, y \in 0 .. shape.width - 1, m \in 1 .. 4 :
          edges[e] = Sides(x, y)[m] /\ OnBoundary(shape, Sides(x, y)[m])
    <3>1. \A j \in 1 .. Len(edges) : \E x, y \in 0 .. shape.width - 1 : \E n \in 1 .. 4 :
            edges[j] = Sides(x, y)[n] /\ OnBoundary(shape, Sides(x, y)[n])
      BY <1>2 DEF IsBoundary
    <3>2. e \in 1 .. Len(edges)
      BY <1>3
    <3> QED
      BY ONLY <3>1, <3>2
  <2>4. BoundaryLine(shape, pts[i], pts[After(Len(pts), i)])
    BY <2>2, <2>3 DEF BoundaryLine
  <2> QED
    BY <2>1, <2>4
<1>8. \A k \in DOMAIN C : Len(C[k]) >= 2
  BY <1>5 DEF IsContour
<1>9. C # <<>>
  <2>1. PICK w \in 1 .. 5 : w = shape.width
    BY DEF IsShape
  <2>2. PICK rows : rows = {y \in 0 .. w - 1 : \E x \in 0 .. w - 1 : <<x, y>> \in shape.cells}
    OBVIOUS
  <2>3. rows \in SUBSET Nat /\ rows # {}
    <3>1. PICK c \in shape.cells : c \in (0 .. w - 1) \X (0 .. w - 1)
      BY <2>1 DEF IsShape
    <3>2. PICK x, y \in 0 .. w - 1 : c = <<x, y>>
      BY <3>1
    <3>3. y \in rows
      BY <2>2, <3>2
    <3>4. \A z \in 0 .. w - 1 : z \in Nat
      OBVIOUS
    <3>5. rows \subseteq 0 .. w - 1
      BY <2>2
    <3> QED
      BY <3>3, <3>4, <3>5
  <2>4. PICK y \in rows : \A z \in rows : y <= z
    BY ONLY <2>3, LeastOfNaturals
  <2>5. PICK x \in 0 .. w - 1 : <<x, y>> \in shape.cells
    BY <2>2
  <2>6. y \in 0 .. w - 1 /\ x \in Int /\ y \in Int
    BY <2>2
  <2>7. <<x, y - 1>> \notin shape.cells
    <3> SUFFICES ASSUME <<x, y - 1>> \in shape.cells PROVE FALSE
      OBVIOUS
    <3>1. <<x, y - 1>> \in (0 .. w - 1) \X (0 .. w - 1)
      BY <2>1 DEF IsShape
    <3>2. y - 1 \in 0 .. w - 1
      BY <3>1
    <3>3. y - 1 \in rows
      BY <2>2, <3>2
    <3> QED
      BY <2>4, <2>6, <3>3
  <2>8. Sides(x, y)[1].of = <<x, y>> /\ Sides(x, y)[1].beyond = <<x, y - 1>>
    BY DEF Sides
  <2>9. OnBoundary(shape, Sides(x, y)[1])
    BY <2>5, <2>7, <2>8 DEF OnBoundary
  <2>10. 1 \in 1 .. 4
    OBVIOUS
  <2>11. BoundaryLine(shape, Sides(x, y)[1].from, Sides(x, y)[1].to)
    BY <2>1, <2>6, <2>9, <2>10 DEF BoundaryLine
  <2>12. PICK k \in DOMAIN C : TRUE
    BY <1>6, <2>11
  <2> QED
    BY <2>12
<1> QED
  BY <1>4, <1>5, <1>6, <1>7, <1>8, <1>9

\* A number that is not outside of 0 .. top, or the end that is beside it.
Clamp(v, top) == IF v < 0 THEN 0 ELSE IF v > top THEN top ELSE v
Out(p) == vo_out_code(p, Corner)
Segments == [a : Points, b : Points]

\* The width and the height, as the last column and row.
LEMMA ScreenIs ==
  \E w, h \in Nat : /\ w = Width - 1 /\ h = Height - 1 /\ Corner = <<w, h>>
                    /\ Screen = (0 .. w) \X (0 .. h)
  BY ScreenAssumption DEF Corner, Screen

\* The sides that a point is beyond.
LEMMA OutIs ==
  ASSUME NEW w \in Nat, NEW h \in Nat, Corner = <<w, h>>, NEW x \in Int, NEW y \in Int, NEW p, p = <<x, y>>
  PROVE  /\ ("left" \in Out(p)) = (x < 0) /\ ("right" \in Out(p)) = (x > w)
         /\ ("above" \in Out(p)) = (y < 0) /\ ("below" \in Out(p)) = (y > h)
         /\ \A d \in Out(p) : d = "left" \/ d = "right" \/ d = "above" \/ d = "below"
<1>1. p[1] = x /\ p[2] = y /\ Corner[1] = w /\ Corner[2] = h
  OBVIOUS
<1> DEFINE X == IF x < 0 THEN {"left"} ELSE IF x > w THEN {"right"} ELSE {}
           Y == IF y < 0 THEN {"above"} ELSE IF y > h THEN {"below"} ELSE {}
<1>2. Out(p) = X \cup Y
  BY <1>1 DEF Out, vo_out_code
<1>3. ("left" \in X) = (x < 0) /\ ("right" \in X) = (x > w) /\ "above" \notin X /\ "below" \notin X
      /\ \A d \in X : d = "left" \/ d = "right"
  OBVIOUS
<1>4. ("above" \in Y) = (y < 0) /\ ("below" \in Y) = (y > h) /\ "left" \notin Y /\ "right" \notin Y
      /\ \A d \in Y : d = "above" \/ d = "below"
  OBVIOUS
<1> HIDE DEF X, Y
<1> QED
  BY <1>2, <1>3, <1>4

\* A point that is beyond none is on the screen.
LEMMA OutOfNone ==
  ASSUME NEW w \in Nat, NEW h \in Nat, Corner = <<w, h>>, NEW x \in Int, NEW y \in Int, NEW p, p = <<x, y>>
  PROVE  (Out(p) = {}) = (x \in 0 .. w /\ y \in 0 .. h)
<1>1. /\ ("left" \in Out(p)) = (x < 0) /\ ("right" \in Out(p)) = (x > w)
      /\ ("above" \in Out(p)) = (y < 0) /\ ("below" \in Out(p)) = (y > h)
      /\ \A d \in Out(p) : d = "left" \/ d = "right" \/ d = "above" \/ d = "below"
  BY OutIs
<1>2. (x \in 0 .. w /\ y \in 0 .. h) = (~(x < 0) /\ ~(x > w) /\ ~(y < 0) /\ ~(y > h))
  OBVIOUS
<1>3. (Out(p) = {}) = (~(x < 0) /\ ~(x > w) /\ ~(y < 0) /\ ~(y > h))
  BY ONLY <1>1
<1> QED
  BY <1>2, <1>3

\* Nothing divided is nothing.
LEMMA QuotientOfZero ==
  ASSUME NEW d \in Int, d # 0
  PROVE  Quotient(0, d) = 0
<1>1. CASE d < 0
  <2>1. Quotient(0, d) = -(0 \div (-d))
    BY <1>1 DEF Quotient
  <2>2. 0 \div (-d) = 0
    BY <1>1
  <2> QED
    BY <2>1, <2>2
<1>2. CASE d > 0
  <2>1. Quotient(0, d) = 0 \div d
    BY <1>2 DEF Quotient
  <2> QED
    BY <1>2, <2>1
<1> QED
  BY <1>1, <1>2

NoSlope(a1, a2, b1, b2) == a1 = b1 \/ a2 = b2
IsEnd(e1, e2, a1, a2, b1, b2) == (e1 = a1 /\ e2 = a2) \/ (e1 = b1 /\ e2 = b2)

\* A segment without a slope that an end is outside of the screen of, but not all of it.
Crosses(s, a1, a2, b1, b2, e1, e2) ==
  /\ s = [a |-> <<a1, a2>>, b |-> <<b1, b2>>] /\ NoSlope(a1, a2, b1, b2)
  /\ IsEnd(e1, e2, a1, a2, b1, b2) /\ Out(<<e1, e2>>) # {} /\ Out(s.a) \cap Out(s.b) = {}
MeetsNear(s, e1, e2, w, h) == Meets(s, Out(<<e1, e2>>), Corner) = <<Clamp(e1, w), Clamp(e2, h)>>

\* A segment without a slope meets the side that one of its ends is beyond, and the other
\* is not, at the point of the screen that is nearest to that end.
LEMMA MeetsIs ==
  ASSUME NEW w \in Nat, NEW h \in Nat, Corner = <<w, h>>,
         NEW a1 \in Int, NEW a2 \in Int, NEW b1 \in Int, NEW b2 \in Int,
         NEW s, NEW e1, NEW e2, Crosses(s, a1, a2, b1, b2, e1, e2)
  PROVE  MeetsNear(s, e1, e2, w, h)
<1> USE DEF NoSlope, IsEnd, Crosses, MeetsNear
<1>1. s.a = <<a1, a2>> /\ s.b = <<b1, b2>>
  OBVIOUS
<1>2. s.a[1] = a1 /\ s.a[2] = a2 /\ s.b[1] = b1 /\ s.b[2] = b2 /\ Corner[1] = w /\ Corner[2] = h
  BY <1>1
<1>3. PICK dx, dy \in Int : dx = b1 - a1 /\ dy = b2 - a2
  OBVIOUS
<1>4. PICK O : O = Out(<<e1, e2>>)
  OBVIOUS
<1>5. e1 \in Int /\ e2 \in Int
  OBVIOUS
<1>6. /\ ("left" \in O) = (e1 < 0) /\ ("right" \in O) = (e1 > w)
      /\ ("above" \in O) = (e2 < 0) /\ ("below" \in O) = (e2 > h)
      /\ \A d \in O : d = "left" \/ d = "right" \/ d = "above" \/ d = "below"
  BY ONLY w \in Nat, h \in Nat, Corner = <<w, h>>, <1>4, <1>5, OutIs
<1>7. /\ ("left" \in Out(s.a)) = (a1 < 0) /\ ("right" \in Out(s.a)) = (a1 > w)
      /\ ("above" \in Out(s.a)) = (a2 < 0) /\ ("below" \in Out(s.a)) = (a2 > h)
  BY ONLY w \in Nat, h \in Nat, Corner = <<w, h>>, a1 \in Int, a2 \in Int, <1>1, OutIs
<1>8. /\ ("left" \in Out(s.b)) = (b1 < 0) /\ ("right" \in Out(s.b)) = (b1 > w)
      /\ ("above" \in Out(s.b)) = (b2 < 0) /\ ("below" \in Out(s.b)) = (b2 > h)
  BY ONLY w \in Nat, h \in Nat, Corner = <<w, h>>, b1 \in Int, b2 \in Int, <1>1, OutIs
<1>9. /\ ~(a1 < 0 /\ b1 < 0) /\ ~(a1 > w /\ b1 > w) /\ ~(a2 < 0 /\ b2 < 0) /\ ~(a2 > h /\ b2 > h)
  BY <1>7, <1>8
<1>10. Meets(s, O, Corner) =
         IF "below" \in O THEN <<a1 + Quotient(dx * (h - a2), dy), h>>
         ELSE IF "above" \in O THEN <<a1 + Quotient(dx * (0 - a2), dy), 0>>
         ELSE IF "right" \in O THEN <<w, a2 + Quotient(dy * (w - a1), dx)>>
         ELSE <<0, a2 + Quotient(dy * (0 - a1), dx)>>
  BY <1>2, <1>3 DEF Meets
<1>11. e1 < 0 \/ e1 > w \/ e2 < 0 \/ e2 > h
  BY <1>4, <1>6
<1>12. PICK p, q, r, t \in Int : p = h - a2 /\ q = 0 - a2 /\ r = w - a1 /\ t = 0 - a1
  OBVIOUS
<1>13. 0 * p = 0 /\ 0 * q = 0 /\ 0 * r = 0 /\ 0 * t = 0
  OBVIOUS
<1>14. CASE e2 < 0 \/ e2 > h
  <2>1. dx = 0 /\ dy # 0 /\ e1 = a1
    BY <1>3, <1>9, <1>14
  <2>2. a1 + Quotient(dx * p, dy) = a1 /\ a1 + Quotient(dx * q, dy) = a1
    BY <1>13, <2>1, QuotientOfZero
  <2>3. e1 \in 0 .. w
    BY <1>3, <1>9, <2>1
  <2>4. Clamp(e1, w) = e1
    BY <2>3 DEF Clamp
  <2>5. CASE e2 > h
    <3>1. Clamp(e2, h) = h
      BY <1>5, <2>5 DEF Clamp
    <3>2. Meets(s, O, Corner) = <<a1, h>>
      BY <1>6, <1>10, <1>12, <2>2, <2>5
    <3> QED
      BY <1>4, <2>1, <2>4, <3>1, <3>2
  <2>6. CASE e2 < 0
    <3>1. Clamp(e2, h) = 0
      BY <1>5, <2>6 DEF Clamp
    <3>2. Meets(s, O, Corner) = <<a1, 0>>
      BY <1>6, <1>10, <1>12, <2>2, <2>6
    <3> QED
      BY <1>4, <2>1, <2>4, <3>1, <3>2
  <2> QED
    BY <1>14, <2>5, <2>6
<1>15. CASE ~(e2 < 0) /\ ~(e2 > h)
  <2>1. dy = 0 /\ dx # 0 /\ e2 = a2
    BY <1>3, <1>9, <1>11, <1>15
  <2>2. a2 + Quotient(dy * r, dx) = a2 /\ a2 + Quotient(dy * t, dx) = a2
    BY <1>13, <2>1, QuotientOfZero
  <2>3. e2 \in 0 .. h
    BY <1>5, <1>15
  <2>4. Clamp(e2, h) = e2
    BY <2>3 DEF Clamp
  <2>5. CASE e1 > w
    <3>1. Clamp(e1, w) = w
      BY <1>5, <2>5 DEF Clamp
    <3>2. Meets(s, O, Corner) = <<w, a2>>
      BY <1>6, <1>10, <1>12, <1>15, <2>2, <2>5
    <3> QED
      BY <1>4, <2>1, <2>4, <3>1, <3>2
  <2>6. CASE e1 < 0
    <3>1. Clamp(e1, w) = 0
      BY <1>5, <2>6 DEF Clamp
    <3>2. Meets(s, O, Corner) = <<0, a2>>
      BY <1>5, <1>6, <1>10, <1>12, <1>15, <2>2, <2>6
    <3> QED
      BY <1>4, <2>1, <2>4, <3>1, <3>2
  <2> QED
    BY <1>11, <1>15, <2>5, <2>6
<1> QED
  BY <1>14, <1>15

Among(x, y, p1, p2, q1, q2) ==
  \/ p1 <= x /\ x <= q1 /\ p2 <= y /\ y <= q2
  \/ q1 <= x /\ x <= p1 /\ q2 <= y /\ y <= p2

\* The points of a line without a slope.
LEMMA LineIs ==
  ASSUME NEW p1 \in Int, NEW p2 \in Int, NEW q1 \in Int, NEW q2 \in Int, NEW x \in Int, NEW y \in Int
  PROVE  (<<x, y>> \in Line(<<p1, p2>>, <<q1, q2>>)) = Among(x, y, p1, p2, q1, q2)
<1>1. Line(<<p1, p2>>, <<q1, q2>>) = ((p1 .. q1) \X (p2 .. q2)) \cup ((q1 .. p1) \X (q2 .. p2))
  BY DEF Line, Rectangle
<1>2. (<<x, y>> \in (p1 .. q1) \X (p2 .. q2)) = (p1 <= x /\ x <= q1 /\ p2 <= y /\ y <= q2)
  OBVIOUS
<1>3. (<<x, y>> \in (q1 .. p1) \X (q2 .. p2)) = (q1 <= x /\ x <= p1 /\ q2 <= y /\ y <= p2)
  OBVIOUS
<1>4. (<<x, y>> \in Line(<<p1, p2>>, <<q1, q2>>)) =
        (<<x, y>> \in (p1 .. q1) \X (p2 .. q2) \/ <<x, y>> \in (q1 .. p1) \X (q2 .. p2))
  <2>1. PICK e, A, B : e = <<x, y>> /\ A = (p1 .. q1) \X (p2 .. q2) /\ B = (q1 .. p1) \X (q2 .. p2)
    OBVIOUS
  <2>2. (e \in A \cup B) = (e \in A \/ e \in B)
    OBVIOUS
  <2> QED
    BY ONLY <1>1, <2>1, <2>2, Zenon
<1>5. (<<x, y>> \in Line(<<p1, p2>>, <<q1, q2>>)) =
        ((p1 <= x /\ x <= q1 /\ p2 <= y /\ y <= q2) \/ (q1 <= x /\ x <= p1 /\ q2 <= y /\ y <= p2))
  BY ONLY <1>2, <1>3, <1>4, Zenon
<1> QED
  BY ONLY <1>5, Zenon DEF Among

SameIn(w, h, p1, p2, q1, q2, u1, u2, v1, v2) ==
  \A x \in 0 .. w : \A y \in 0 .. h : Among(x, y, p1, p2, q1, q2) = Among(x, y, u1, u2, v1, v2)

\* Two lines that have the same points of the screen.
LEMMA SameOnScreen ==
  ASSUME NEW w \in Nat, NEW h \in Nat, Screen = (0 .. w) \X (0 .. h),
         NEW p1 \in Int, NEW p2 \in Int, NEW q1 \in Int, NEW q2 \in Int,
         NEW u1 \in Int, NEW u2 \in Int, NEW v1 \in Int, NEW v2 \in Int,
         SameIn(w, h, p1, p2, q1, q2, u1, u2, v1, v2)
  PROVE  Line(<<p1, p2>>, <<q1, q2>>) \cap Screen = Line(<<u1, u2>>, <<v1, v2>>) \cap Screen
<1> SUFFICES ASSUME NEW r \in Screen
             PROVE  (r \in Line(<<p1, p2>>, <<q1, q2>>)) = (r \in Line(<<u1, u2>>, <<v1, v2>>))
  OBVIOUS
<1>1. PICK x \in 0 .. w, y \in 0 .. h : r = <<x, y>>
  OBVIOUS
<1>2. x \in Int /\ y \in Int
  OBVIOUS
<1>3. (r \in Line(<<p1, p2>>, <<q1, q2>>)) = Among(x, y, p1, p2, q1, q2)
  BY <1>1, <1>2, LineIs
<1>4. (r \in Line(<<u1, u2>>, <<v1, v2>>)) = Among(x, y, u1, u2, v1, v2)
  BY <1>1, <1>2, LineIs
<1>5. Among(x, y, p1, p2, q1, q2) = Among(x, y, u1, u2, v1, v2)
  BY DEF SameIn
<1> QED
  BY <1>3, <1>4, <1>5

\* The ends are not both beyond one side.
NotBeyond(w, h, a1, a2, b1, b2) ==
  ~(a1 < 0 /\ b1 < 0) /\ ~(a1 > w /\ b1 > w) /\ ~(a2 < 0 /\ b2 < 0) /\ ~(a2 > h /\ b2 > h)

\* To move an end to the nearest point of the screen leaves what is on the screen.
LEMMA ClampKeeps ==
  ASSUME NEW w \in Nat, NEW h \in Nat,
         NEW a1 \in Int, NEW a2 \in Int, NEW b1 \in Int, NEW b2 \in Int, NoSlope(a1, a2, b1, b2),
         NotBeyond(w, h, a1, a2, b1, b2)
  PROVE  /\ SameIn(w, h, a1, a2, b1, b2, Clamp(a1, w), Clamp(a2, h), b1, b2)
         /\ SameIn(w, h, a1, a2, b1, b2, a1, a2, Clamp(b1, w), Clamp(b2, h))
         /\ NoSlope(Clamp(a1, w), Clamp(a2, h), b1, b2)
         /\ NoSlope(a1, a2, Clamp(b1, w), Clamp(b2, h))
<1> USE DEF NoSlope, NotBeyond
<1>1. PICK c1, c2, d1, d2 : c1 = Clamp(a1, w) /\ c2 = Clamp(a2, h) /\ d1 = Clamp(b1, w) /\ d2 = Clamp(b2, h)
  OBVIOUS
<1>2. /\ c1 = (IF a1 < 0 THEN 0 ELSE IF a1 > w THEN w ELSE a1)
      /\ c2 = (IF a2 < 0 THEN 0 ELSE IF a2 > h THEN h ELSE a2)
      /\ d1 = (IF b1 < 0 THEN 0 ELSE IF b1 > w THEN w ELSE b1)
      /\ d2 = (IF b2 < 0 THEN 0 ELSE IF b2 > h THEN h ELSE b2)
  BY <1>1 DEF Clamp
<1>3. ASSUME NEW x \in 0 .. w, NEW y \in 0 .. h
      PROVE  Among(x, y, a1, a2, b1, b2) = Among(x, y, c1, c2, b1, b2)
  BY <1>2 DEF Among
<1>4. ASSUME NEW x \in 0 .. w, NEW y \in 0 .. h
      PROVE  Among(x, y, a1, a2, b1, b2) = Among(x, y, a1, a2, d1, d2)
  BY <1>2 DEF Among
<1>5. (c1 = b1 \/ c2 = b2) /\ (a1 = d1 \/ a2 = d2)
  BY <1>2
<1> QED
  BY <1>1, <1>3, <1>4, <1>5 DEF SameIn

Straight == {s \in Segments : s.a[1] = s.b[1] \/ s.a[2] = s.b[2]}
Visible2(s) == Line(s.a, s.b) \cap Screen

\* Both ends are on the screen, or beyond one side of it.
Settled(s) == (Out(s.a) = {} /\ Out(s.b) = {}) \/ Out(s.a) \cap Out(s.b) # {}

\* A step of the clipping leaves what is on the screen; the first brings one end to
\* the screen, and the second the other.
LEMMA ClipStep ==
  ASSUME NEW s \in Straight
  PROVE  /\ ClipOnce(s, Corner) \in Straight /\ Visible2(ClipOnce(s, Corner)) = Visible2(s)
         /\ Settled(s) => ClipOnce(s, Corner) = s
         /\ Settled(ClipOnce(s, Corner)) \/ Out(ClipOnce(s, Corner).a) = {}
         /\ Out(s.a) = {} => Settled(ClipOnce(s, Corner))
<1>1. PICK w, h \in Nat : Corner = <<w, h>> /\ Screen = (0 .. w) \X (0 .. h)
  BY ScreenIs
<1>2. s \in Segments /\ (s.a[1] = s.b[1] \/ s.a[2] = s.b[2])
  BY DEF Straight
<1>3. s.a \in Int \X Int /\ s.b \in Int \X Int
  BY <1>2 DEF Segments, Points
<1>4. PICK a1, a2, b1, b2 \in Int : s.a = <<a1, a2>> /\ s.b = <<b1, b2>>
  BY <1>3
<1>5. NoSlope(a1, a2, b1, b2)
  BY <1>2, <1>4 DEF NoSlope
<1>6. s = [a |-> <<a1, a2>>, b |-> <<b1, b2>>]
  BY <1>2, <1>4 DEF Segments
<1>7. PICK ca, cb : ca = Out(s.a) /\ cb = Out(s.b)
  OBVIOUS
<1>8. CASE (ca = {} /\ cb = {}) \/ ca \cap cb # {}
  <2>1. ClipOnce(s, Corner) = s
    BY <1>7, <1>8 DEF ClipOnce, Out
  <2>2. Settled(s)
    BY <1>7, <1>8 DEF Settled
  <2> QED
    BY <2>1, <2>2
<1>9. CASE ~(ca = {} /\ cb = {}) /\ ca \cap cb = {}
  <2>1. ~Settled(s) /\ Out(s.a) \cap Out(s.b) = {}
    BY <1>7, <1>9 DEF Settled
  <2>2. /\ ("left" \in ca) = (a1 < 0) /\ ("right" \in ca) = (a1 > w)
        /\ ("above" \in ca) = (a2 < 0) /\ ("below" \in ca) = (a2 > h)
    BY ONLY <1>1, <1>4, <1>7, w \in Nat, h \in Nat, a1 \in Int, a2 \in Int, OutIs
  <2>3. /\ ("left" \in cb) = (b1 < 0) /\ ("right" \in cb) = (b1 > w)
        /\ ("above" \in cb) = (b2 < 0) /\ ("below" \in cb) = (b2 > h)
    BY ONLY <1>1, <1>4, <1>7, w \in Nat, h \in Nat, b1 \in Int, b2 \in Int, OutIs
  <2>4. NotBeyond(w, h, a1, a2, b1, b2)
    BY <1>9, <2>2, <2>3 DEF NotBeyond
  <2>5. PICK c1, c2, d1, d2 : c1 = Clamp(a1, w) /\ c2 = Clamp(a2, h) /\ d1 = Clamp(b1, w) /\ d2 = Clamp(b2, h)
    OBVIOUS
  <2>6. c1 \in 0 .. w /\ c2 \in 0 .. h /\ d1 \in 0 .. w /\ d2 \in 0 .. h
    BY <2>5 DEF Clamp
  <2>7. c1 \in Int /\ c2 \in Int /\ d1 \in Int /\ d2 \in Int
    BY <2>6
  <2>8. /\ SameIn(w, h, a1, a2, b1, b2, c1, c2, b1, b2) /\ SameIn(w, h, a1, a2, b1, b2, a1, a2, d1, d2)
        /\ NoSlope(c1, c2, b1, b2) /\ NoSlope(a1, a2, d1, d2)
    BY ONLY <1>5, <2>4, <2>5, w \in Nat, h \in Nat, a1 \in Int, a2 \in Int, b1 \in Int, b2 \in Int, ClampKeeps
  <2>10. Out(<<c1, c2>>) = {} /\ Out(<<d1, d2>>) = {}
    <3>1. (Out(<<c1, c2>>) = {}) = (c1 \in 0 .. w /\ c2 \in 0 .. h)
      BY ONLY <1>1, <2>7, w \in Nat, h \in Nat, OutOfNone
    <3>2. (Out(<<d1, d2>>) = {}) = (d1 \in 0 .. w /\ d2 \in 0 .. h)
      BY ONLY <1>1, <2>7, w \in Nat, h \in Nat, OutOfNone
    <3> QED
      BY <2>6, <3>1, <3>2
  <2>11. Visible2(s) = Line(<<a1, a2>>, <<b1, b2>>) \cap Screen
    BY <1>4 DEF Visible2
  <2>12. CASE ca # {}
    <3>1. PICK t : t = [a |-> <<c1, c2>>, b |-> <<b1, b2>>]
      OBVIOUS
    <3>2. Meets(s, ca, Corner) = <<c1, c2>>
      <4>1. Out(<<a1, a2>>) # {} /\ ca = Out(<<a1, a2>>)
        BY <1>4, <1>7, <2>12
      <4> QED
        <5>1. IsEnd(a1, a2, a1, a2, b1, b2)
          BY DEF IsEnd
        <5>2. Crosses(s, a1, a2, b1, b2, a1, a2)
          BY <1>5, <1>6, <2>1, <4>1, <5>1 DEF Crosses
        <5>3. MeetsNear(s, a1, a2, w, h)
          BY ONLY <1>1, <5>2, MeetsIs, w \in Nat, h \in Nat, a1 \in Int, a2 \in Int, b1 \in Int, b2 \in Int
        <5> QED
          BY ONLY <2>5, <4>1, <5>3 DEF MeetsNear
    <3>3. ClipOnce(s, Corner) = t
      <4>1. ClipOnce(s, Corner) = [s EXCEPT !.a = Meets(s, ca, Corner)]
        BY <1>7, <1>9, <2>12 DEF ClipOnce, Out
      <4> QED
        BY <1>6, <3>1, <3>2, <4>1
    <3>4. t.a = <<c1, c2>> /\ t.b = <<b1, b2>> /\ t.a \in Int \X Int /\ t.b \in Int \X Int
      BY <2>7, <3>1
    <3>5. t \in Straight
      BY <2>8, <3>1, <3>4 DEF Straight, Segments, Points, NoSlope
    <3>6. Line(<<a1, a2>>, <<b1, b2>>) \cap Screen = Line(<<c1, c2>>, <<b1, b2>>) \cap Screen
      BY ONLY <1>1, <2>7, <2>8, SameOnScreen,
              w \in Nat, h \in Nat, a1 \in Int, a2 \in Int, b1 \in Int, b2 \in Int
    <3>7. Visible2(t) = Visible2(s)
      BY <2>11, <3>4, <3>6 DEF Visible2
    <3>8. Out(t.a) = {} /\ Out(s.a) # {}
      BY <1>7, <2>10, <2>12, <3>4
    <3> QED
      BY <2>1, <3>3, <3>5, <3>7, <3>8
  <2>13. CASE ca = {} /\ cb # {}
    <3>1. PICK t : t = [a |-> <<a1, a2>>, b |-> <<d1, d2>>]
      OBVIOUS
    <3>2. Meets(s, cb, Corner) = <<d1, d2>>
      <4>1. Out(<<b1, b2>>) # {} /\ cb = Out(<<b1, b2>>)
        BY <1>4, <1>7, <2>13
      <4> QED
        <5>1. IsEnd(b1, b2, a1, a2, b1, b2)
          BY DEF IsEnd
        <5>2. Crosses(s, a1, a2, b1, b2, b1, b2)
          BY <1>5, <1>6, <2>1, <4>1, <5>1 DEF Crosses
        <5>3. MeetsNear(s, b1, b2, w, h)
          BY ONLY <1>1, <5>2, MeetsIs, w \in Nat, h \in Nat, a1 \in Int, a2 \in Int, b1 \in Int, b2 \in Int
        <5> QED
          BY ONLY <2>5, <4>1, <5>3 DEF MeetsNear
    <3>3. ClipOnce(s, Corner) = t
      <4>1. ClipOnce(s, Corner) = [s EXCEPT !.b = Meets(s, cb, Corner)]
        BY <1>7, <1>9, <2>13 DEF ClipOnce, Out
      <4> QED
        BY <1>6, <3>1, <3>2, <4>1
    <3>4. t.a = <<a1, a2>> /\ t.b = <<d1, d2>> /\ t.a \in Int \X Int /\ t.b \in Int \X Int
      BY <2>7, <3>1
    <3>5. t \in Straight
      BY <2>8, <3>1, <3>4 DEF Straight, Segments, Points, NoSlope
    <3>6. Line(<<a1, a2>>, <<b1, b2>>) \cap Screen = Line(<<a1, a2>>, <<d1, d2>>) \cap Screen
      BY ONLY <1>1, <2>7, <2>8, SameOnScreen,
              w \in Nat, h \in Nat, a1 \in Int, a2 \in Int, b1 \in Int, b2 \in Int
    <3>7. Visible2(t) = Visible2(s)
      BY <2>11, <3>4, <3>6 DEF Visible2
    <3>8. Out(t.a) = {} /\ Out(t.b) = {}
      BY <1>4, <1>7, <2>10, <2>13, <3>4
    <3>9. Settled(t)
      BY <3>8 DEF Settled
    <3> QED
      BY <2>1, <3>3, <3>5, <3>7, <3>9
  <2> QED
    BY <1>9, <2>12, <2>13
<1> QED
  BY <1>8, <1>9

\* The segments that vo_clip_segment goes through.
Clipping(a, b) ==
  CHOOSE s : s = [guard \in 0 .. 7 |-> IF guard = 0 THEN [a |-> a, b |-> b] ELSE ClipOnce(s[guard - 1], Corner)]

\* The clipping ends, at a segment of which all is on the screen or nothing, as before.
LEMMA ClippingIs ==
  ASSUME NEW s \in Straight
  PROVE  \E t \in Straight : t = Clipping(s.a, s.b)[7] /\ Visible2(t) = Visible2(s) /\ Settled(t)
<1>1. PICK S : S = Straight
  OBVIOUS
<1>2. s = [a |-> s.a, b |-> s.b]
  BY DEF Straight, Segments
<1>3. PICK n \in Nat : n = 7
  OBVIOUS
<1>4. \A t \in S : /\ ClipOnce(t, Corner) \in S /\ Visible2(ClipOnce(t, Corner)) = Visible2(t)
                   /\ Settled(t) => ClipOnce(t, Corner) = t
                   /\ Settled(ClipOnce(t, Corner)) \/ Out(ClipOnce(t, Corner).a) = {}
                   /\ Out(t.a) = {} => Settled(ClipOnce(t, Corner))
  BY <1>1, ClipStep
<1>5. PICK step : step = [k \in 1 .. n |-> [t \in S |-> ClipOnce(t, Corner)]]
  OBVIOUS
<1>6. Steps(n, S, s, step)
  <2>1. step \in [1 .. n -> [S -> S]]
    BY <1>4, <1>5
  <2> QED
    BY <1>1, <2>1 DEF Steps
<1>7. PICK g : Results(g, n, S, s, step)
  BY <1>6, Recursion
<1> DEFINE Is(r) == r = [k \in 0 .. 7 |-> IF k = 0 THEN [a |-> s.a, b |-> s.b] ELSE ClipOnce(r[k - 1], Corner)]
<1>8. Is(g)
  <2>1. g \in [0 .. n -> S] /\ g[0] = s /\ \A k \in 1 .. n : g[k] = step[k][g[k - 1]]
    BY <1>7 DEF Results
  <2>2. \A k \in 1 .. n : k - 1 \in 0 .. n
    OBVIOUS
  <2>3. \A k \in 1 .. n : g[k] = ClipOnce(g[k - 1], Corner)
    BY <1>5, <2>1, <2>2
  <2>4. PICK h : h = [k \in 0 .. 7 |-> IF k = 0 THEN [a |-> s.a, b |-> s.b] ELSE ClipOnce(g[k - 1], Corner)]
    OBVIOUS
  <2>5. \A k \in 0 .. n : k = 0 \/ k \in 1 .. n
    OBVIOUS
  <2>6. \A k \in 0 .. n : g[k] = h[k]
    BY <1>2, <1>3, <2>1, <2>3, <2>4, <2>5
  <2>7. g = h
    BY <1>3, <2>1, <2>4, <2>6
  <2> QED
    BY <2>4, <2>7
<1>9. Is(CHOOSE r : Is(r))
  <2> HIDE DEF Is
  <2> QED
    BY <1>8, Zenon
<1>10. PICK r : r = Clipping(s.a, s.b) /\ Is(r)
  BY <1>9, Zenon DEF Clipping
<1>11. r[0] = s /\ \A k \in 1 .. n : r[k] = ClipOnce(r[k - 1], Corner)
  <2>1. 0 \in 0 .. n /\ \A k \in 1 .. n : k \in 0 .. n /\ k # 0
    OBVIOUS
  <2> QED
    BY <1>2, <1>3, <1>10, <2>1
<1>12. r = [k \in 0 .. n |-> r[k]]
  BY <1>3, <1>10
<1> HIDE DEF Is
<1>13. \A k \in 1 .. n : r[k - 1] \in S => r[k] = step[k][r[k - 1]]
  BY <1>5, <1>11
<1>14. Results(r, n, S, s, step)
  BY ONLY <1>6, <1>11, <1>12, <1>13, Unfolded
<1>15. r \in [0 .. n -> S]
  BY <1>14 DEF Results
<1>16. PICK T : T = {k \in 0 .. n : /\ Visible2(r[k]) = Visible2(s)
                                    /\ k >= 1 => Settled(r[k]) \/ Out(r[k].a) = {}
                                    /\ k >= 2 => Settled(r[k])}
  OBVIOUS
<1>17. 0 \in T
  BY <1>11, <1>16
<1>18. ASSUME NEW k \in 0 .. n - 1, k \in T PROVE k + 1 \in T
  <2>1. PICK j \in 1 .. n : j = k + 1 /\ j - 1 = k /\ j \in 0 .. n
    OBVIOUS
  <2>2. PICK t, u \in S : t = r[k] /\ u = r[j]
    BY <1>15, <2>1
  <2>3. u = ClipOnce(t, Corner)
    BY <1>11, <2>1, <2>2
  <2>4. /\ Visible2(u) = Visible2(t) /\ (Settled(t) => u = t) /\ (Settled(u) \/ Out(u.a) = {})
        /\ (Out(t.a) = {} => Settled(u))
    BY <1>4, <2>3
  <2>5. Visible2(u) = Visible2(s)
    BY <1>16, <1>18, <2>2, <2>4
  <2>6. ASSUME j >= 2 PROVE Settled(u)
    <3>1. k >= 1
      BY <2>1, <2>6
    <3>2. Settled(t) \/ Out(t.a) = {}
      BY <1>16, <1>18, <2>2, <3>1
    <3> QED
      BY <2>4, <3>2
  <2> QED
    BY <1>16, <2>1, <2>2, <2>4, <2>5, <2>6
<1>19. n \in T
  <2>1. \A k \in 0 .. n - 1 : k \in T => k + 1 \in T
    BY <1>18
  <2>2. \A k \in 0 .. n : k \in T
    BY ONLY n \in Nat, <1>17, <2>1, Induction
  <2> QED
    BY <2>2
<1>20. PICK t \in S : t = r[n]
  BY <1>15
<1>21. Visible2(t) = Visible2(s) /\ Settled(t)
  BY <1>3, <1>16, <1>19, <1>20
<1> QED
  BY <1>1, <1>3, <1>10, <1>20, <1>21

\* What a drawn segment lights is what of it is on the screen.
LEMMA SegmentLights ==
  ASSUME NEW s \in Straight
  PROVE  UNION {Line(t.a, t.b) : t \in vo_clip_segment(s.a, s.b, Corner)} = Line(s.a, s.b) \cap Screen
<1>1. PICK t \in Straight : t = Clipping(s.a, s.b)[7] /\ Visible2(t) = Visible2(s) /\ Settled(t)
  BY ClippingIs
<1>2. vo_clip_segment(s.a, s.b, Corner) = {u \in {t} : Out(u.a) = {} /\ Out(u.b) = {}}
  BY <1>1 DEF vo_clip_segment, Clipping, Out
<1>3. PICK w, h \in Nat : Corner = <<w, h>> /\ Screen = (0 .. w) \X (0 .. h)
  BY ScreenIs
<1>4. t.a \in Int \X Int /\ t.b \in Int \X Int
  BY DEF Straight, Segments, Points
<1>5. PICK a1, a2, b1, b2 \in Int : t.a = <<a1, a2>> /\ t.b = <<b1, b2>>
  BY <1>4
<1>6. CASE Out(t.a) = {} /\ Out(t.b) = {}
  <2>1. vo_clip_segment(s.a, s.b, Corner) = {t}
    BY <1>2, <1>6
  <2>2. UNION {Line(u.a, u.b) : u \in {t}} = Line(t.a, t.b)
    OBVIOUS
  <2>3. a1 \in 0 .. w /\ a2 \in 0 .. h /\ b1 \in 0 .. w /\ b2 \in 0 .. h
    <3>1. (Out(t.a) = {}) = (a1 \in 0 .. w /\ a2 \in 0 .. h)
      BY ONLY <1>3, <1>5, w \in Nat, h \in Nat, a1 \in Int, a2 \in Int, OutOfNone
    <3>2. (Out(t.b) = {}) = (b1 \in 0 .. w /\ b2 \in 0 .. h)
      BY ONLY <1>3, <1>5, w \in Nat, h \in Nat, b1 \in Int, b2 \in Int, OutOfNone
    <3> QED
      BY <1>6, <3>1, <3>2
  <2>4. Line(t.a, t.b) \subseteq Screen
    <3>1. Line(t.a, t.b) = ((a1 .. b1) \X (a2 .. b2)) \cup ((b1 .. a1) \X (b2 .. a2))
      BY <1>5 DEF Line, Rectangle
    <3>2. a1 .. b1 \subseteq 0 .. w /\ a2 .. b2 \subseteq 0 .. h /\ b1 .. a1 \subseteq 0 .. w /\ b2 .. a2 \subseteq 0 .. h
      BY <2>3
    <3>3. \A A, B, C, D : A \subseteq C /\ B \subseteq D => A \X B \subseteq C \X D
      OBVIOUS
    <3>4. ((a1 .. b1) \X (a2 .. b2)) \subseteq Screen /\ ((b1 .. a1) \X (b2 .. a2)) \subseteq Screen
      BY ONLY <1>3, <3>2, <3>3
    <3> QED
      BY ONLY <3>1, <3>4
  <2>5. Line(t.a, t.b) \cap Screen = Line(t.a, t.b)
    BY <2>4
  <2> QED
    BY <1>1, <2>1, <2>2, <2>5 DEF Visible2
<1>7. CASE Out(t.a) \cap Out(t.b) # {}
  <2>1. vo_clip_segment(s.a, s.b, Corner) = {}
    BY <1>2, <1>7
  <2>2. /\ ("left" \in Out(t.a)) = (a1 < 0) /\ ("right" \in Out(t.a)) = (a1 > w)
        /\ ("above" \in Out(t.a)) = (a2 < 0) /\ ("below" \in Out(t.a)) = (a2 > h)
        /\ \A d \in Out(t.a) : d = "left" \/ d = "right" \/ d = "above" \/ d = "below"
    BY ONLY <1>3, <1>5, w \in Nat, h \in Nat, a1 \in Int, a2 \in Int, OutIs
  <2>3. /\ ("left" \in Out(t.b)) = (b1 < 0) /\ ("right" \in Out(t.b)) = (b1 > w)
        /\ ("above" \in Out(t.b)) = (b2 < 0) /\ ("below" \in Out(t.b)) = (b2 > h)
    BY ONLY <1>3, <1>5, w \in Nat, h \in Nat, b1 \in Int, b2 \in Int, OutIs
  <2>4. (a1 < 0 /\ b1 < 0) \/ (a1 > w /\ b1 > w) \/ (a2 < 0 /\ b2 < 0) \/ (a2 > h /\ b2 > h)
    BY <1>7, <2>2, <2>3
  <2>5. ASSUME NEW r \in Screen, r \in Line(t.a, t.b) PROVE FALSE
    <3>1. PICK x \in 0 .. w, y \in 0 .. h : r = <<x, y>>
      BY <1>3
    <3>2. (<<x, y>> \in Line(<<a1, a2>>, <<b1, b2>>)) = Among(x, y, a1, a2, b1, b2)
      <4>1. x \in Int /\ y \in Int
        OBVIOUS
      <4> QED
        BY <4>1, LineIs
    <3>3. Among(x, y, a1, a2, b1, b2)
      BY <1>5, <2>5, <3>1, <3>2
    <3> QED
      BY <2>4, <3>3 DEF Among
  <2>6. Visible2(t) = {}
    BY <2>5 DEF Visible2
  <2> QED
    BY <1>1, <2>1, <2>6 DEF Visible2
<1> QED
  BY <1>1, <1>6, <1>7 DEF Settled

-----------------------------------------------------------------------------
(* From corners to pixels.                                                 *)

\* A larger number, times what is not negative, is not less.
LEMMA TimesMonotone ==
  ASSUME NEW a \in Int, NEW b \in Int, a <= b, NEW c \in Nat
  PROVE  a * c <= b * c /\ a * c \in Int /\ b * c \in Int
<1>1. PICK d \in Nat : d = b - a
  OBVIOUS
<1>2. b = a + d
  BY <1>1
<1>3. d * c >= 0
  OBVIOUS
<1>4. (a + d) * c = a * c + d * c
  OBVIOUS
<1> QED
  BY <1>2, <1>3, <1>4

\* What fits into a number k times, its quotient is at least k.
LEMMA QuotientLeast ==
  ASSUME NEW a \in Nat, NEW d \in Nat \ {0}, NEW k \in Int, k * d <= a
  PROVE  k <= a \div d
<1>1. PICK q, r \in Nat : q = a \div d /\ r <= d - 1 /\ r = a - d * q
  <2>1. a \div d \in Nat /\ a % d \in 0 .. d - 1 /\ a % d = a - d * (a \div d)
    BY Division
  <2>2. a % d \in Nat /\ a % d <= d - 1
    BY <2>1
  <2> QED
    BY <2>1, <2>2
<1> SUFFICES ASSUME q + 1 <= k PROVE FALSE
  BY <1>1
<1>2. (q + 1) * d <= k * d
  BY TimesMonotone
<1>3. (q + 1) * d = d * q + d
  OBVIOUS
<1>4. PICK m, l \in Int : m = d * q /\ l = k * d
  OBVIOUS
<1>5. r = a - m /\ m + d <= l /\ l <= a
  BY <1>1, <1>2, <1>3, <1>4
<1> QED
  BY <1>1, <1>5

\* A larger number has not a smaller quotient.
LEMMA QuotientMonotone ==
  ASSUME NEW a \in Nat, NEW b \in Nat, a <= b, NEW d \in Nat \ {0}
  PROVE  a \div d <= b \div d /\ a \div d \in Nat /\ b \div d \in Nat
<1>1. PICK q, r \in Nat : q = a \div d /\ r = a - d * q
  <2>1. a \div d \in Nat /\ a % d \in 0 .. d - 1 /\ a % d = a - d * (a \div d)
    BY Division
  <2>2. a % d \in Nat
    BY <2>1
  <2> QED
    BY <2>1, <2>2
<1>2. q * d <= b
  <2>1. PICK m \in Int : m = q * d /\ m = d * q
    OBVIOUS
  <2> QED
    BY <1>1, <2>1
<1>3. q <= b \div d
  BY <1>2, QuotientLeast
<1>4. b \div d \in Nat
  BY Division
<1> QED
  BY <1>1, <1>3, <1>4

\* The pixel of a corner of a shape.
At2(base, p) == Plus(base, Scale(p))

\* The columns and rows that corners are scaled to grow with these, and not beyond the
\* width and the height of the shape.
LEMMA ScaleGrows ==
  ASSUME NEW w \in 1 .. 5, NEW i \in 0 .. w, NEW j \in 0 .. w
  PROVE  /\ Scale(<<i, j>>)[1] \in Nat /\ Scale(<<i, j>>)[2] \in Nat
         /\ Scale(<<i, j>>)[1] <= (w * Width) \div WorldWidth
         /\ Scale(<<i, j>>)[2] <= (w * Height) \div WorldHeight
         /\ (w * Width) \div WorldWidth \in Nat /\ (w * Height) \div WorldHeight \in Nat
         /\ \A k, l \in 0 .. w : /\ Scale(<<i, j>>)[1] = Scale(<<i, l>>)[1] /\ Scale(<<i, j>>)[2] = Scale(<<k, j>>)[2]
                                 /\ i <= k => Scale(<<i, j>>)[1] <= Scale(<<k, l>>)[1]
                                 /\ j <= l => Scale(<<i, j>>)[2] <= Scale(<<k, l>>)[2]
<1>1. Width \in Nat \ {0} /\ Height \in Nat \ {0} /\ WorldWidth \in Nat \ {0} /\ WorldHeight \in Nat \ {0}
  BY ScreenAssumption
<1>2. PICK s, r \in Nat : s = Width \div WorldWidth /\ r = Width - WorldWidth * s
  <2>1. /\ Width \div WorldWidth \in Nat /\ Width % WorldWidth \in 0 .. WorldWidth - 1
        /\ Width % WorldWidth = Width - WorldWidth * (Width \div WorldWidth)
    BY <1>1, Division
  <2>2. Width % WorldWidth \in Nat
    BY <1>1, <2>1
  <2> QED
    BY <2>1, <2>2
<1>3. \A k, l \in 0 .. w : Scale(<<k, l>>)[1] = k * s /\ Scale(<<k, l>>)[2] = (l * Height) \div WorldHeight
  BY <1>2 DEF Scale
<1>4. \A k \in 0 .. w : k * s \in Nat /\ k * Height \in Nat /\ k * Width \in Nat
  BY <1>1
<1>5. \A k \in 0 .. w : i <= k => i * s <= k * s
  BY TimesMonotone
<1>6. \A k, l \in 0 .. w : k <= l => (k * Height) \div WorldHeight <= (l * Height) \div WorldHeight
                                     /\ (k * Height) \div WorldHeight \in Nat
  <2> SUFFICES ASSUME NEW k \in 0 .. w, NEW l \in 0 .. w, k <= l
               PROVE  (k * Height) \div WorldHeight <= (l * Height) \div WorldHeight
                      /\ (k * Height) \div WorldHeight \in Nat
    OBVIOUS
  <2>1. k * Height <= l * Height
    BY <1>1, TimesMonotone
  <2> QED
    BY <1>1, <1>4, <2>1, QuotientMonotone
<1>7. w \in 0 .. w /\ i <= w /\ j <= w
  OBVIOUS
<1>8. i * s <= (w * Width) \div WorldWidth
  <2>1. i * s <= w * s
    BY <1>5, <1>7
  <2>2. (w * s) * WorldWidth <= w * Width
    <3>1. s * WorldWidth <= Width /\ s * WorldWidth \in Int
      BY <1>1, <1>2
    <3>2. (s * WorldWidth) * w <= Width * w
      BY <1>1, <3>1, TimesMonotone
    <3>3. (s * WorldWidth) * w = (w * s) * WorldWidth /\ Width * w = w * Width
      BY <1>1
    <3> QED
      BY <3>2, <3>3
  <2>3. w * s <= (w * Width) \div WorldWidth
    BY <1>1, <1>4, <1>7, <2>2, QuotientLeast
  <2>4. (w * Width) \div WorldWidth \in Nat
    BY <1>1, <1>4, <1>7, Division
  <2>5. i * s \in Int /\ w * s \in Int
    OBVIOUS
  <2> QED
    BY <2>1, <2>3, <2>4, <2>5
<1>9. (w * Width) \div WorldWidth \in Nat /\ (w * Height) \div WorldHeight \in Nat
  BY <1>1, <1>4, <1>7, Division
<1>10. (j * Height) \div WorldHeight <= (w * Height) \div WorldHeight /\ (j * Height) \div WorldHeight \in Nat
  BY <1>6, <1>7
<1> QED
  BY <1>3, <1>4, <1>5, <1>6, <1>8, <1>9, <1>10

\* A line of a shape goes along a row or a column of corners.
LEMMA LineEnds ==
  ASSUME NEW shape, IsShape(shape), NEW p, NEW q, BoundaryLine(shape, p, q)
  PROVE  \E x, y, u, v \in 0 .. shape.width : p = <<x, y>> /\ q = <<u, v>> /\ (x = u \/ y = v)
<1>1. PICK w \in 1 .. 5 : w = shape.width
  BY DEF IsShape
<1>2. PICK x, y \in 0 .. w - 1, m \in 1 .. 4 : Sides(x, y)[m].from = p /\ Sides(x, y)[m].to = q
  BY <1>1 DEF BoundaryLine
<1>3. x \in 0 .. w /\ y \in 0 .. w /\ x + 1 \in 0 .. w /\ y + 1 \in 0 .. w
  OBVIOUS
<1>4. m = 1 \/ m = 2 \/ m = 3 \/ m = 4
  OBVIOUS
<1>5. /\ Sides(x, y)[1].from = <<x, y>> /\ Sides(x, y)[1].to = <<x + 1, y>>
      /\ Sides(x, y)[2].from = <<x + 1, y>> /\ Sides(x, y)[2].to = <<x + 1, y + 1>>
      /\ Sides(x, y)[3].from = <<x + 1, y + 1>> /\ Sides(x, y)[3].to = <<x, y + 1>>
      /\ Sides(x, y)[4].from = <<x, y + 1>> /\ Sides(x, y)[4].to = <<x, y>>
  BY DEF Sides
<1> QED
  BY ONLY <1>1, <1>2, <1>3, <1>4, <1>5

\* The drawn line has no slope, and its ends are on it.
LEMMA LineIsStraight ==
  ASSUME NEW shape, IsShape(shape), NEW base \in Points, NEW p, NEW q, BoundaryLine(shape, p, q)
  PROVE  /\ [a |-> At2(base, p), b |-> At2(base, q)] \in Straight
         /\ At2(base, p) \in Line(At2(base, p), At2(base, q)) /\ At2(base, q) \in Line(At2(base, p), At2(base, q))
<1>1. PICK w \in 1 .. 5 : w = shape.width
  BY DEF IsShape
<1>2. PICK x, y, u, v \in 0 .. w : p = <<x, y>> /\ q = <<u, v>> /\ (x = u \/ y = v)
  BY <1>1, LineEnds
<1>3. PICK b1, b2 \in Int : base = <<b1, b2>>
  BY DEF Points
<1>4. PICK c1, c2, d1, d2 : /\ c1 = Scale(<<x, y>>)[1] /\ c2 = Scale(<<x, y>>)[2]
                            /\ d1 = Scale(<<u, v>>)[1] /\ d2 = Scale(<<u, v>>)[2]
  OBVIOUS
<1>5. c1 \in Nat /\ c2 \in Nat /\ d1 \in Nat /\ d2 \in Nat
  BY <1>4, ScaleGrows, Zenon
<1>6. (x <= u => c1 <= d1) /\ (y <= v => c2 <= d2) /\ (u <= x => d1 <= c1) /\ (v <= y => d2 <= c2)
  BY <1>4, ScaleGrows, Zenon
<1>7. (x = u => c1 = d1) /\ (y = v => c2 = d2)
  BY <1>5, <1>6
<1>8. PICK k1, k2, l1, l2 \in Int : k1 = b1 + c1 /\ k2 = b2 + c2 /\ l1 = b1 + d1 /\ l2 = b2 + d2
  BY <1>5
<1>9. At2(base, p) = <<k1, k2>> /\ At2(base, q) = <<l1, l2>>
  <2>1. At2(<<b1, b2>>, <<x, y>>) = <<b1 + Scale(<<x, y>>)[1], b2 + Scale(<<x, y>>)[2]>>
    BY DEF At2, Plus
  <2>2. At2(<<b1, b2>>, <<u, v>>) = <<b1 + Scale(<<u, v>>)[1], b2 + Scale(<<u, v>>)[2]>>
    BY DEF At2, Plus
  <2> QED
    BY ONLY <1>2, <1>3, <1>4, <1>8, <2>1, <2>2
<1>10. k1 = l1 \/ k2 = l2
  BY <1>2, <1>7, <1>8
<1>11. PICK s : s = [a |-> <<k1, k2>>, b |-> <<l1, l2>>]
  OBVIOUS
<1>12. s \in Straight
  <2>1. <<k1, k2>> \in Points /\ <<l1, l2>> \in Points
    BY DEF Points
  <2>2. s \in Segments /\ s.a = <<k1, k2>> /\ s.b = <<l1, l2>>
    BY <1>11, <2>1 DEF Segments
  <2> QED
    BY <1>10, <2>2 DEF Straight
<1>13. Among(k1, k2, k1, k2, l1, l2) /\ Among(l1, l2, k1, k2, l1, l2)
  BY <1>10 DEF Among
<1>14. <<k1, k2>> \in Line(<<k1, k2>>, <<l1, l2>>) /\ <<l1, l2>> \in Line(<<k1, k2>>, <<l1, l2>>)
  <2>1. (<<k1, k2>> \in Line(<<k1, k2>>, <<l1, l2>>)) = Among(k1, k2, k1, k2, l1, l2)
    BY ONLY k1 \in Int, k2 \in Int, l1 \in Int, l2 \in Int, LineIs
  <2>2. (<<l1, l2>> \in Line(<<k1, k2>>, <<l1, l2>>)) = Among(l1, l2, k1, k2, l1, l2)
    BY ONLY k1 \in Int, k2 \in Int, l1 \in Int, l2 \in Int, LineIs
  <2> QED
    BY <1>13, <2>1, <2>2
<1> QED
  BY <1>9, <1>11, <1>12, <1>14

\* What a contour lights.
LEMMA ContourLights ==
  ASSUME NEW pts, NEW n \in Nat, n >= 2, Len(pts) = n, DOMAIN pts = 1 .. n,
         \A i \in 1 .. n : [a |-> pts[i], b |-> pts[After(n, i)]] \in Straight, NEW r
  PROVE  (r \in ContourLines(pts)) = (r \in Screen /\ \E i \in 1 .. n : r \in Line(pts[i], pts[After(n, i)]))
<1> DEFINE Lights(i) == UNION {Line(s.a, s.b) : s \in vo_clip_segment(pts[i], pts[After(n, i)], Corner)}
<1>1. ContourLines(pts) = UNION {Lights(i) : i \in 1 .. n}
  BY DEF ContourLines, After
<1>2. \A i \in 1 .. n : Lights(i) = Line(pts[i], pts[After(n, i)]) \cap Screen
  <2> SUFFICES ASSUME NEW i \in 1 .. n PROVE Lights(i) = Line(pts[i], pts[After(n, i)]) \cap Screen
    OBVIOUS
  <2>1. PICK s \in Straight : s = [a |-> pts[i], b |-> pts[After(n, i)]]
    OBVIOUS
  <2>2. s.a = pts[i] /\ s.b = pts[After(n, i)]
    BY <2>1
  <2>3. UNION {Line(t.a, t.b) : t \in vo_clip_segment(s.a, s.b, Corner)} = Line(s.a, s.b) \cap Screen
    BY SegmentLights
  <2> QED
    BY <2>2, <2>3
<1> HIDE DEF Lights
<1>3. ASSUME r \in ContourLines(pts)
      PROVE  r \in Screen /\ \E i \in 1 .. n : r \in Line(pts[i], pts[After(n, i)])
  <2>1. PICK i \in 1 .. n : r \in Lights(i)
    BY <1>1, <1>3
  <2> QED
    BY <1>2, <2>1
<1>4. ASSUME r \in Screen, NEW i \in 1 .. n, r \in Line(pts[i], pts[After(n, i)])
      PROVE  r \in ContourLines(pts)
  <2>1. r \in Lights(i)
    BY <1>2, <1>4
  <2> QED
    BY <1>1, <2>1
<1> QED
  BY <1>3, <1>4

\* The pixels of the screen on the lines of a shape.
LitLines(shape, base) ==
  {r \in Screen : \E p, q \in Points : BoundaryLine(shape, p, q) /\ r \in Line(At2(base, p), At2(base, q))}

\* What the contours of a shape light is on its lines.
LEMMA VectorLights ==
  ASSUME NEW shape, IsShape(shape), NEW base \in Points
  PROVE  Vector(vo_trace(shape).contours, base) = LitLines(shape, base)
<1>1. PICK C : C = vo_trace(shape).contours
  OBVIOUS
<1>2. /\ C \in Seq(Seq(Points)) /\ (\A k \in DOMAIN C : Len(C[k]) >= 2)
      /\ \A k \in DOMAIN C : \A i \in 1 .. Len(C[k]) : BoundaryLine(shape, C[k][i], C[k][After(Len(C[k]), i)])
      /\ \A p, q : BoundaryLine(shape, p, q) => \E k \in DOMAIN C : HasLine(C[k], p, q)
  BY <1>1, ShapeTraced
<1> DEFINE Pts(k) == [i \in DOMAIN C[k] |-> Plus(base, Scale(C[k][i]))]
<1>3. Vector(C, base) = UNION {ContourLines(Pts(k)) : k \in DOMAIN C}
  BY DEF Vector
<1>4. ASSUME NEW k \in DOMAIN C, NEW r
      PROVE  (r \in ContourLines(Pts(k))) =
             (r \in Screen /\ \E i \in 1 .. Len(C[k]) :
                r \in Line(At2(base, C[k][i]), At2(base, C[k][After(Len(C[k]), i)])))
  <2>1. PICK c : c = C[k]
    OBVIOUS
  <2>2. c \in Seq(Points) /\ DOMAIN C = 1 .. Len(C)
    BY <1>2, <2>1
  <2>3. PICK n \in Nat : n = Len(c) /\ DOMAIN c = 1 .. n /\ n >= 2
    BY <1>2, <2>1, <2>2
  <2>4. PICK pts : pts = [i \in 1 .. n |-> At2(base, c[i])]
    OBVIOUS
  <2>5. Pts(k) = pts
    BY <2>1, <2>3, <2>4 DEF At2
  <2>6. \A i \in 1 .. n : After(n, i) \in 1 .. n
    BY <2>3 DEF After
  <2>7. Len(pts) = n /\ DOMAIN pts = 1 .. n
    BY <2>4
  <2>8. \A i \in 1 .. n : pts[i] = At2(base, c[i]) /\ pts[After(n, i)] = At2(base, c[After(n, i)])
    BY <2>4, <2>6
  <2>9. \A i \in 1 .. n : [a |-> pts[i], b |-> pts[After(n, i)]] \in Straight
    <3> SUFFICES ASSUME NEW i \in 1 .. n PROVE [a |-> pts[i], b |-> pts[After(n, i)]] \in Straight
      OBVIOUS
    <3>1. BoundaryLine(shape, c[i], c[After(n, i)])
      BY <1>2, <2>1, <2>3
    <3>2. [a |-> At2(base, c[i]), b |-> At2(base, c[After(n, i)])] \in Straight
      BY <3>1, LineIsStraight
    <3> QED
      BY <2>8, <3>2
  <2>10. (r \in ContourLines(pts)) = (r \in Screen /\ \E i \in 1 .. n : r \in Line(pts[i], pts[After(n, i)]))
    BY ONLY n \in Nat, <2>3, <2>7, <2>9, ContourLights
  <2>11. (\E i \in 1 .. n : r \in Line(pts[i], pts[After(n, i)])) =
         (\E i \in 1 .. n : r \in Line(At2(base, c[i]), At2(base, c[After(n, i)])))
    BY <2>8
  <2> QED
    BY <2>1, <2>3, <2>5, <2>10, <2>11
<1> HIDE DEF Pts
<1>5. ASSUME NEW r \in Vector(C, base) PROVE r \in LitLines(shape, base)
  <2>1. PICK k \in DOMAIN C : r \in ContourLines(Pts(k))
    BY <1>3, <1>5
  <2>2. r \in Screen /\ \E i \in 1 .. Len(C[k]) :
          r \in Line(At2(base, C[k][i]), At2(base, C[k][After(Len(C[k]), i)]))
    BY <1>4, <2>1
  <2>3. PICK i \in 1 .. Len(C[k]) : r \in Line(At2(base, C[k][i]), At2(base, C[k][After(Len(C[k]), i)]))
    BY <2>2
  <2>4. PICK p, q : p = C[k][i] /\ q = C[k][After(Len(C[k]), i)]
    OBVIOUS
  <2>5. BoundaryLine(shape, p, q)
    BY <1>2, <2>4
  <2>6. p \in Points /\ q \in Points
    <3>1. PICK x, y, u, v \in 0 .. shape.width : p = <<x, y>> /\ q = <<u, v>>
      BY <2>5, LineEnds
    <3>2. x \in Int /\ y \in Int /\ u \in Int /\ v \in Int
      BY DEF IsShape
    <3> QED
      BY <3>1, <3>2 DEF Points
  <2> QED
    BY <2>2, <2>3, <2>4, <2>5, <2>6 DEF LitLines
<1>6. ASSUME NEW r \in LitLines(shape, base) PROVE r \in Vector(C, base)
  <2>1. PICK p, q \in Points : BoundaryLine(shape, p, q) /\ r \in Line(At2(base, p), At2(base, q))
    BY DEF LitLines
  <2>2. r \in Screen
    BY DEF LitLines
  <2>3. PICK k \in DOMAIN C : HasLine(C[k], p, q)
    BY <1>2, <2>1
  <2>4. PICK i \in 1 .. Len(C[k]) : C[k][i] = p /\ C[k][After(Len(C[k]), i)] = q
    BY <2>3 DEF HasLine
  <2>5. r \in ContourLines(Pts(k))
    BY <1>4, <2>1, <2>2, <2>4
  <2> QED
    BY <1>3, <2>5
<1> QED
  BY <1>1, <1>5, <1>6

-----------------------------------------------------------------------------
(* The outline is what the lines of a shape light.                         *)

CornersOf(c) == {<<c[1] + i, c[2] + j>> : i, j \in 0 .. 1}
NearOf(c) == {<<c[1] + 1, c[2]>>, <<c[1] - 1, c[2]>>, <<c[1], c[2] + 1>>, <<c[1], c[2] - 1>>}

\* A cell has four corners.
LEMMA CornersAre ==
  ASSUME NEW x \in Int, NEW y \in Int
  PROVE  CornersOf(<<x, y>>) = {<<x, y>>, <<x + 1, y>>, <<x, y + 1>>, <<x + 1, y + 1>>}
<1>1. PICK c : c = <<x, y>>
  OBVIOUS
<1>2. CornersOf(c) = {<<x + i, y + j>> : i, j \in 0 .. 1}
  BY <1>1 DEF CornersOf
<1>3. ASSUME NEW r \in {<<x + i, y + j>> : i, j \in 0 .. 1}
      PROVE  r \in {<<x, y>>, <<x + 1, y>>, <<x, y + 1>>, <<x + 1, y + 1>>}
  <2>1. PICK i, j \in 0 .. 1 : r = <<x + i, y + j>>
    OBVIOUS
  <2>2. (i = 0 \/ i = 1) /\ (j = 0 \/ j = 1) /\ x + 0 = x /\ y + 0 = y
    OBVIOUS
  <2> QED
    BY <2>1, <2>2
<1>4. ASSUME NEW r \in {<<x, y>>, <<x + 1, y>>, <<x, y + 1>>, <<x + 1, y + 1>>}
      PROVE  r \in {<<x + i, y + j>> : i, j \in 0 .. 1}
  <2>1. 0 \in 0 .. 1 /\ 1 \in 0 .. 1 /\ x + 0 = x /\ y + 0 = y
    OBVIOUS
  <2>2. \/ r = <<x + 0, y + 0>> \/ r = <<x + 1, y + 0>> \/ r = <<x + 0, y + 1>> \/ r = <<x + 1, y + 1>>
    BY <2>1
  <2> QED
    BY ONLY <2>1, <2>2
<1> QED
  BY <1>1, <1>2, <1>3, <1>4

\* A side of a cell goes between the corners that it shares with the cell beyond.
LEMMA SharedAre ==
  ASSUME NEW x \in Int, NEW y \in Int, NEW m \in 1 .. 4
  PROVE  CornersOf(<<x, y>>) \cap CornersOf(Sides(x, y)[m].beyond) = {Sides(x, y)[m].from, Sides(x, y)[m].to}
<1>1. m = 1 \/ m = 2 \/ m = 3 \/ m = 4
  OBVIOUS
<1>2. /\ Sides(x, y)[1].from = <<x, y>> /\ Sides(x, y)[1].to = <<x + 1, y>>
      /\ Sides(x, y)[2].from = <<x + 1, y>> /\ Sides(x, y)[2].to = <<x + 1, y + 1>>
      /\ Sides(x, y)[3].from = <<x + 1, y + 1>> /\ Sides(x, y)[3].to = <<x, y + 1>>
      /\ Sides(x, y)[4].from = <<x, y + 1>> /\ Sides(x, y)[4].to = <<x, y>>
      /\ Sides(x, y)[1].beyond = <<x, y - 1>> /\ Sides(x, y)[2].beyond = <<x + 1, y>>
      /\ Sides(x, y)[3].beyond = <<x, y + 1>> /\ Sides(x, y)[4].beyond = <<x - 1, y>>
  BY DEF Sides
<1>3. CornersOf(<<x, y>>) = {<<x, y>>, <<x + 1, y>>, <<x, y + 1>>, <<x + 1, y + 1>>}
  BY CornersAre
<1>4. x - 1 \in Int /\ y - 1 \in Int /\ x + 1 \in Int /\ y + 1 \in Int /\ x - 1 + 1 = x /\ y - 1 + 1 = y
  OBVIOUS
<1>5. x - 1 # x /\ x - 1 # x + 1 /\ x # x + 1 /\ x + 1 + 1 # x /\ x + 1 + 1 # x + 1
  OBVIOUS
<1>6. y - 1 # y /\ y - 1 # y + 1 /\ y # y + 1 /\ y + 1 + 1 # y /\ y + 1 + 1 # y + 1
  OBVIOUS
<1>7. CASE m = 1
  <2>1. CornersOf(<<x, y - 1>>) = {<<x, y - 1>>, <<x + 1, y - 1>>, <<x, y - 1 + 1>>, <<x + 1, y - 1 + 1>>}
    BY <1>4, CornersAre
  <2>2. CornersOf(<<x, y - 1>>) = {<<x, y - 1>>, <<x + 1, y - 1>>, <<x, y>>, <<x + 1, y>>}
    BY ONLY <1>4, <2>1
  <2>3. CornersOf(<<x, y>>) \cap CornersOf(<<x, y - 1>>) = {<<x, y>>, <<x + 1, y>>}
    BY ONLY <1>3, <1>5, <1>6, <2>2
  <2> QED
    BY <1>2, <1>7, <2>3
<1>8. CASE m = 2
  <2>1. CornersOf(<<x + 1, y>>) = {<<x + 1, y>>, <<x + 1 + 1, y>>, <<x + 1, y + 1>>, <<x + 1 + 1, y + 1>>}
    BY <1>4, CornersAre
  <2>2. CornersOf(<<x, y>>) \cap CornersOf(<<x + 1, y>>) = {<<x + 1, y>>, <<x + 1, y + 1>>}
    BY ONLY <1>3, <1>5, <1>6, <2>1
  <2> QED
    BY <1>2, <1>8, <2>2
<1>9. CASE m = 3
  <2>1. CornersOf(<<x, y + 1>>) = {<<x, y + 1>>, <<x + 1, y + 1>>, <<x, y + 1 + 1>>, <<x + 1, y + 1 + 1>>}
    BY <1>4, CornersAre
  <2>2. CornersOf(<<x, y>>) \cap CornersOf(<<x, y + 1>>) = {<<x + 1, y + 1>>, <<x, y + 1>>}
    BY ONLY <1>3, <1>5, <1>6, <2>1
  <2> QED
    BY <1>2, <1>9, <2>2
<1>10. CASE m = 4
  <2>1. CornersOf(<<x - 1, y>>) = {<<x - 1, y>>, <<x - 1 + 1, y>>, <<x - 1, y + 1>>, <<x - 1 + 1, y + 1>>}
    BY <1>4, CornersAre
  <2>2. CornersOf(<<x - 1, y>>) = {<<x - 1, y>>, <<x, y>>, <<x - 1, y + 1>>, <<x, y + 1>>}
    BY ONLY <1>4, <2>1
  <2>3. CornersOf(<<x, y>>) \cap CornersOf(<<x - 1, y>>) = {<<x, y + 1>>, <<x, y>>}
    BY ONLY <1>3, <1>5, <1>6, <2>2
  <2> QED
    BY <1>2, <1>10, <2>3
<1> QED
  BY <1>1, <1>7, <1>8, <1>9, <1>10

\* The cells beside a cell are those beyond its sides.
LEMMA NearAre ==
  ASSUME NEW x \in Int, NEW y \in Int
  PROVE  NearOf(<<x, y>>) = {Sides(x, y)[m].beyond : m \in 1 .. 4}
<1>1. PICK c : c = <<x, y>>
  OBVIOUS
<1>2. NearOf(c) = {<<x + 1, y>>, <<x - 1, y>>, <<x, y + 1>>, <<x, y - 1>>}
  BY <1>1 DEF NearOf
<1>3. /\ Sides(x, y)[1].beyond = <<x, y - 1>> /\ Sides(x, y)[2].beyond = <<x + 1, y>>
      /\ Sides(x, y)[3].beyond = <<x, y + 1>> /\ Sides(x, y)[4].beyond = <<x - 1, y>>
  BY DEF Sides
<1>4. \A m \in 1 .. 4 : m = 1 \/ m = 2 \/ m = 3 \/ m = 4
  OBVIOUS
<1>5. 1 \in 1 .. 4 /\ 2 \in 1 .. 4 /\ 3 \in 1 .. 4 /\ 4 \in 1 .. 4
  OBVIOUS
<1> QED
  BY ONLY <1>1, <1>2, <1>3, <1>4, <1>5

\* The rectangles between the corners that two cells share.
PixelsOf(base, corners) ==
  UNION {Rectangle(Plus(base, Scale(p)), Plus(base, Scale(q))) : p, q \in corners}

\* Those between the two corners of a line are the line.
LEMMA PixelsAre ==
  ASSUME NEW shape, IsShape(shape), NEW base \in Points, NEW p, NEW q, BoundaryLine(shape, p, q)
  PROVE  PixelsOf(base, {p, q}) = Line(At2(base, p), At2(base, q))
<1>1. PICK P, Q : P = At2(base, p) /\ Q = At2(base, q)
  OBVIOUS
<1>2. [a |-> P, b |-> Q] \in Straight /\ P \in Line(P, Q) /\ Q \in Line(P, Q)
  BY <1>1, LineIsStraight
<1>3. P \in Int \X Int /\ Q \in Int \X Int
  <2>1. PICK s : s = [a |-> P, b |-> Q]
    OBVIOUS
  <2>2. s \in Segments /\ s.a = P /\ s.b = Q
    BY <1>2, <2>1 DEF Straight
  <2> QED
    BY <2>2 DEF Segments, Points
<1>4. Rectangle(P, P) = {P} /\ Rectangle(Q, Q) = {Q}
  <2>1. ASSUME NEW u \in Int, NEW v \in Int PROVE Rectangle(<<u, v>>, <<u, v>>) = {<<u, v>>}
    <3>1. u .. u = {u} /\ v .. v = {v}
      OBVIOUS
    <3>2. Rectangle(<<u, v>>, <<u, v>>) = {u} \X {v}
      BY <3>1 DEF Rectangle
    <3> QED
      BY <3>2
  <2>2. PICK u1, v1, u2, v2 \in Int : P = <<u1, v1>> /\ Q = <<u2, v2>>
    BY <1>3
  <2> QED
    BY <2>1, <2>2
<1>5. Line(P, Q) = Rectangle(P, Q) \cup Rectangle(Q, P)
  BY DEF Line
<1>6. PixelsOf(base, {p, q}) = UNION {Rectangle(At2(base, i), At2(base, j)) : i, j \in {p, q}}
  BY DEF PixelsOf, At2
<1>7. ASSUME NEW r \in PixelsOf(base, {p, q}) PROVE r \in Line(P, Q)
  <2>1. PICK i, j \in {p, q} : r \in Rectangle(At2(base, i), At2(base, j))
    BY <1>6, <1>7
  <2>2. (i = p \/ i = q) /\ (j = p \/ j = q)
    OBVIOUS
  <2>3. r \in Rectangle(P, P) \/ r \in Rectangle(P, Q) \/ r \in Rectangle(Q, P) \/ r \in Rectangle(Q, Q)
    BY <1>1, <2>1, <2>2
  <2> QED
    BY <1>2, <1>4, <1>5, <2>3
<1>8. ASSUME NEW r \in Line(P, Q) PROVE r \in PixelsOf(base, {p, q})
  <2>1. CASE r \in Rectangle(P, Q)
    BY <1>1, <1>6, <2>1
  <2>2. CASE r \in Rectangle(Q, P)
    BY <1>1, <1>6, <2>2
  <2> QED
    BY <1>5, <1>8, <2>1, <2>2
<1> QED
  BY <1>1, <1>7, <1>8

BaseOf(shape, at) == <<at.x - Half(shape.width)[1], at.y - Half(shape.width)[2]>>

\* Half of the width and of the height of a shape are numbers.
LEMMA HalfIs ==
  ASSUME NEW w \in 1 .. 5
  PROVE  Half(w)[1] \in Nat /\ Half(w)[2] \in Nat
<1>1. (w * Width) \div WorldWidth \in Nat /\ (w * Height) \div WorldHeight \in Nat
  <2>1. 0 \in 0 .. w
    OBVIOUS
  <2> QED
    BY <2>1, ScaleGrows, Zenon
<1>2. ((w * Width) \div WorldWidth) \div 2 \in Nat /\ ((w * Height) \div WorldHeight) \div 2 \in Nat
  <2>1. 2 \in Nat \ {0}
    OBVIOUS
  <2> QED
    BY <1>1, <2>1, Division
<1> QED
  BY <1>2 DEF Half

\* The outline is made of the lines of the shape.
LEMMA OutlineIs ==
  ASSUME NEW shape, IsShape(shape), NEW at, BaseOf(shape, at) \in Points
  PROVE  Outline(shape, at) = LitLines(shape, BaseOf(shape, at))
<1>1. PICK base \in Points : base = BaseOf(shape, at)
  OBVIOUS
<1> DEFINE Of(c) == UNION {PixelsOf(base, CornersOf(c) \cap CornersOf(d)) : d \in NearOf(c) \ shape.cells}
<1>2. Outline(shape, at) = Screen \cap UNION {Of(c) : c \in shape.cells}
  BY <1>1 DEF Outline, BaseOf, NearOf, CornersOf, PixelsOf
<1>3. \A x, y \in 0 .. shape.width - 1 : x \in Int /\ y \in Int
  BY DEF IsShape
<1>4. ASSUME NEW r \in Outline(shape, at) PROVE r \in LitLines(shape, base)
  <2>1. r \in Screen
    BY <1>2, <1>4
  <2>2. PICK c \in shape.cells : r \in Of(c)
    BY <1>2, <1>4
  <2>3. PICK d \in NearOf(c) \ shape.cells : r \in PixelsOf(base, CornersOf(c) \cap CornersOf(d))
    BY <2>2
  <2>4. PICK x, y \in 0 .. shape.width - 1 : c = <<x, y>>
    BY DEF IsShape
  <2>5. x \in Int /\ y \in Int
    BY <1>3
  <2>6. PICK m \in 1 .. 4 : d = Sides(x, y)[m].beyond
    BY <2>4, <2>5, NearAre
  <2>7. PICK p, q : p = Sides(x, y)[m].from /\ q = Sides(x, y)[m].to
    OBVIOUS
  <2>8. CornersOf(c) \cap CornersOf(d) = {p, q}
    <3>1. CornersOf(<<x, y>>) \cap CornersOf(Sides(x, y)[m].beyond) = {Sides(x, y)[m].from, Sides(x, y)[m].to}
      BY ONLY <2>5, m \in 1 .. 4, SharedAre
    <3> QED
      BY ONLY <2>4, <2>6, <2>7, <3>1
  <2>9. Sides(x, y)[m].of = c
    BY <2>4, <2>5, SidesAre
  <2>10. BoundaryLine(shape, p, q)
    BY <2>3, <2>6, <2>7, <2>9 DEF BoundaryLine, OnBoundary
  <2>11. r \in Line(At2(base, p), At2(base, q))
    BY <2>3, <2>8, <2>10, PixelsAre
  <2>12. p \in Points /\ q \in Points
    <3>1. Sides(x, y)[m] \in Edges
      BY <2>5, SidesAre
    <3> HIDE DEF Points
    <3> QED
      BY <2>7, <3>1 DEF Edges
  <2> QED
    BY <2>1, <2>10, <2>11, <2>12 DEF LitLines
<1>5. ASSUME NEW r \in LitLines(shape, base) PROVE r \in Outline(shape, at)
  <2>1. r \in Screen
    BY DEF LitLines
  <2>2. PICK p, q \in Points : BoundaryLine(shape, p, q) /\ r \in Line(At2(base, p), At2(base, q))
    BY DEF LitLines
  <2>3. PICK x, y \in 0 .. shape.width - 1, m \in 1 .. 4 :
          OnBoundary(shape, Sides(x, y)[m]) /\ Sides(x, y)[m].from = p /\ Sides(x, y)[m].to = q
    BY <2>2 DEF BoundaryLine
  <2>4. x \in Int /\ y \in Int
    BY <1>3
  <2>5. PICK c, d : c = <<x, y>> /\ d = Sides(x, y)[m].beyond
    OBVIOUS
  <2>6. Sides(x, y)[m].of = c
    BY <2>4, <2>5, SidesAre
  <2>7. c \in shape.cells /\ d \notin shape.cells
    BY <2>3, <2>5, <2>6 DEF OnBoundary
  <2>8. d \in NearOf(c)
    BY <2>4, <2>5, NearAre
  <2>9. CornersOf(c) \cap CornersOf(d) = {p, q}
    BY <2>3, <2>4, <2>5, SharedAre
  <2>10. r \in PixelsOf(base, CornersOf(c) \cap CornersOf(d))
    BY <2>2, <2>9, PixelsAre
  <2>11. r \in Of(c)
    BY <2>7, <2>8, <2>10
  <2> HIDE DEF Of
  <2> QED
    BY <1>2, <2>1, <2>7, <2>11
<1> QED
  BY <1>1, <1>4, <1>5

\* What is drawn from a base beyond the screen lights nothing of it.
LEMMA OffScreenIs ==
  ASSUME NEW shape, IsShape(shape), NEW base \in Points, OffScreen(base, shape.width)
  PROVE  LitLines(shape, base) = {}
<1> SUFFICES ASSUME NEW r \in LitLines(shape, base) PROVE FALSE
  OBVIOUS
<1>1. PICK w \in 1 .. 5 : w = shape.width
  BY DEF IsShape
<1>2. PICK p, q \in Points : BoundaryLine(shape, p, q) /\ r \in Line(At2(base, p), At2(base, q))
  BY DEF LitLines
<1>3. PICK x, y, u, v \in 0 .. w : p = <<x, y>> /\ q = <<u, v>>
  BY <1>1, <1>2, LineEnds
<1>4. PICK b1, b2 \in Int : base = <<b1, b2>>
  BY DEF Points
<1>5. PICK c1, c2, d1, d2, e1, e2 : /\ c1 = Scale(<<x, y>>)[1] /\ c2 = Scale(<<x, y>>)[2]
                                    /\ d1 = Scale(<<u, v>>)[1] /\ d2 = Scale(<<u, v>>)[2]
                                    /\ e1 = (w * Width) \div WorldWidth /\ e2 = (w * Height) \div WorldHeight
  OBVIOUS
<1>6. /\ c1 \in Nat /\ c2 \in Nat /\ d1 \in Nat /\ d2 \in Nat /\ e1 \in Nat /\ e2 \in Nat
      /\ c1 <= e1 /\ d1 <= e1 /\ c2 <= e2 /\ d2 <= e2
  BY <1>5, ScaleGrows, Zenon
<1>7. PICK k1, k2, l1, l2 \in Int : k1 = b1 + c1 /\ k2 = b2 + c2 /\ l1 = b1 + d1 /\ l2 = b2 + d2
  BY <1>6
<1>8. At2(base, p) = <<k1, k2>> /\ At2(base, q) = <<l1, l2>>
  <2>1. At2(<<b1, b2>>, <<x, y>>) = <<b1 + Scale(<<x, y>>)[1], b2 + Scale(<<x, y>>)[2]>>
    BY DEF At2, Plus
  <2>2. At2(<<b1, b2>>, <<u, v>>) = <<b1 + Scale(<<u, v>>)[1], b2 + Scale(<<u, v>>)[2]>>
    BY DEF At2, Plus
  <2> QED
    BY ONLY <1>3, <1>4, <1>5, <1>7, <2>1, <2>2
<1>9. PICK m, n \in Nat : m = Width - 1 /\ n = Height - 1 /\ Screen = (0 .. m) \X (0 .. n)
  BY ScreenIs
<1>10. r \in Screen
  BY DEF LitLines
<1>11. PICK i \in 0 .. m, j \in 0 .. n : r = <<i, j>>
  BY <1>9, <1>10
<1>12. Among(i, j, k1, k2, l1, l2)
  <2>1. i \in Int /\ j \in Int
    OBVIOUS
  <2>2. (<<i, j>> \in Line(<<k1, k2>>, <<l1, l2>>)) = Among(i, j, k1, k2, l1, l2)
    BY ONLY <2>1, k1 \in Int, k2 \in Int, l1 \in Int, l2 \in Int, LineIs
  <2> QED
    BY <1>2, <1>8, <1>11, <2>2
<1>13. b1 >= m + 1 \/ b2 >= n + 1 \/ b1 + 2 * e1 < 0 \/ b2 + 2 * e2 < 0
  <2>1. Width = m + 1 /\ Height = n + 1
    BY <1>9, ScreenAssumption
  <2> QED
    BY <1>1, <1>4, <1>5, <2>1 DEF OffScreen
<1> QED
  BY ONLY <1>6, <1>7, <1>12, <1>13, i \in 0 .. m, j \in 0 .. n, m \in Nat, n \in Nat, b1 \in Int, b2 \in Int DEF Among

\* A block is the square of its shape, as far as the screen goes.
LEMMA BlockIs ==
  ASSUME NEW shape, IsShape(shape), NEW at, at.x \in Int, at.y \in Int
  PROVE  Block(<<at.x, at.y>>, shape.width) = SquareOf(shape, at)
<1>1. PICK w \in 1 .. 5 : w = shape.width
  BY DEF IsShape
<1>2. PICK h, g \in Nat : h = Half(w)[1] /\ g = Half(w)[2]
  BY HalfIs
<1>3. PICK m, n \in Nat : m = Width - 1 /\ n = Height - 1 /\ Screen = (0 .. m) \X (0 .. n)
  BY ScreenIs
<1>4. Width = m + 1 /\ Height = n + 1
  BY <1>3, ScreenAssumption
<1>5. PICK x, y \in Int : x = at.x /\ y = at.y
  OBVIOUS
<1>6. PICK a, b, c, d : /\ a = (IF x - h < 0 THEN 0 ELSE x - h)
                       /\ b = (IF y - g < 0 THEN 0 ELSE y - g)
                       /\ c = (IF x + h - 1 >= m + 1 THEN m ELSE x + h - 1)
                       /\ d = (IF y + g - 1 >= n + 1 THEN n ELSE y + g - 1)
  OBVIOUS
<1>7. a \in Int /\ b \in Int /\ c \in Int /\ d \in Int
  BY ONLY <1>6, x \in Int, y \in Int, h \in Nat, g \in Nat, m \in Nat, n \in Nat
<1>8. Block(<<x, y>>, w) = (a .. c) \X (b .. d)
  <2>1. Block(<<x, y>>, w) = Rectangle(<<a, b>>, <<c, d>>)
    BY <1>2, <1>3, <1>4, <1>6 DEF Block
  <2> QED
    BY <2>1 DEF Rectangle
<1>9. SquareOf(shape, at) = {p \in Screen : p[1] - x \in -h .. h - 1 /\ p[2] - y \in -g .. g - 1}
  BY <1>1, <1>2, <1>5 DEF SquareOf
<1>10. ASSUME NEW i \in Int
      PROVE  /\ i \in a .. c <=> i \in 0 .. m /\ i - x \in -h .. h - 1
             /\ i \in b .. d <=> i \in 0 .. n /\ i - y \in -g .. g - 1
  BY ONLY <1>6, <1>7, i \in Int, x \in Int, y \in Int, h \in Nat, g \in Nat, m \in Nat, n \in Nat
<1>11. ASSUME NEW p \in (a .. c) \X (b .. d) PROVE p \in SquareOf(shape, at)
  <2>1. PICK i \in a .. c, j \in b .. d : p = <<i, j>>
    OBVIOUS
  <2>2. /\ i \in 0 .. m /\ i - x \in -h .. h - 1
        /\ j \in 0 .. n /\ j - y \in -g .. g - 1
    BY ONLY <1>7, <1>10, i \in a .. c, j \in b .. d
  <2> QED
    BY <1>3, <1>9, <2>1, <2>2
<1>12. ASSUME NEW p \in SquareOf(shape, at) PROVE p \in (a .. c) \X (b .. d)
  <2>1. PICK i \in 0 .. m, j \in 0 .. n : p = <<i, j>>
    BY <1>3, <1>9
  <2>2. i - x \in -h .. h - 1 /\ j - y \in -g .. g - 1
    BY <1>9, <2>1
  <2>3. i \in Int /\ j \in Int
    OBVIOUS
  <2>4. i \in a .. c /\ j \in b .. d
    BY ONLY <1>10, <2>2, <2>3, i \in 0 .. m, j \in 0 .. n
  <2> QED
    BY <2>1, <2>4
<1> QED
  BY <1>1, <1>5, <1>8, <1>11, <1>12

\* What the table has is a shape.
LEMMA ShapesAre ==
  ASSUME NEW id \in DOMAIN shapes
  PROVE  IsShape(shapes[id])
<1>1. PICK i \in DOMAIN EmbeddedShapes : id = i - 1 /\ id + 1 = i
  <2>1. PICK i \in DOMAIN EmbeddedShapes : id = i - 1
    BY DEF shapes
  <2>2. i \in Int
    BY ShapeAssumption
  <2> QED
    BY <2>1, <2>2
<1>2. PICK e : e = EmbeddedShapes[i]
  OBVIOUS
<1>3. e.width \in 1 .. 5 /\ Len(e.rows) = e.width
  <2> DEFINE T == [width : 1 .. 5, rows : Seq(Seq({0, 1}))]
  <2>1. EmbeddedShapes \in Seq(T)
    BY ShapeAssumption
  <2>2. e \in T
    <3> HIDE DEF T
    <3> QED
      BY ONLY <1>2, <2>1, i \in DOMAIN EmbeddedShapes
  <2>3. Len(e.rows) = e.width
    BY <1>2, ShapeAssumption
  <2> QED
    BY <2>2, <2>3
<1>4. PICK x, y \in 1 .. e.width : e.rows[y][x] = 1
  BY <1>2, ShapeAssumption
<1>5. PICK w \in 1 .. 5 : w = e.width
  BY <1>3
<1>6. shapes[id] = [width |-> w, cells |-> Cells(e.rows)]
  BY <1>1, <1>2, <1>5 DEF shapes
<1>7. Cells(e.rows) \subseteq (0 .. w - 1) \X (0 .. w - 1)
  <2>1. \A u \in 1 .. w : u - 1 \in 0 .. w - 1
    OBVIOUS
  <2> QED
    BY <1>3, <1>5, <2>1 DEF Cells
<1>8. <<x - 1, y - 1>> \in Cells(e.rows)
  <2>1. (x - 1) + 1 = x /\ (y - 1) + 1 = y
    BY <1>3
  <2>2. PICK c : c = <<x - 1, y - 1>>
    OBVIOUS
  <2>3. e.rows[c[2] + 1][c[1] + 1] = 1
    BY <1>4, <2>1, <2>2
  <2>4. c \in {<<u - 1, v - 1>> : u, v \in 1 .. Len(e.rows)}
    BY <1>3, <2>2
  <2> QED
    BY <2>2, <2>3, <2>4 DEF Cells
<1> QED
  BY <1>6, <1>7, <1>8 DEF IsShape

\* What lights for a shape of the table is its outline or its square.
LEMMA PictureIs ==
  ASSUME NEW id \in Traced, NEW at, at.x \in Int, at.y \in Int
  PROVE  /\ Lit(id, "RENDER_VECTOR", at) = Outline(shapes[id], at)
         /\ Lit(id, "RENDER_BLOCK", at) = SquareOf(shapes[id], at)
<1>1. id \in DOMAIN shapes /\ id \notin DOMAIN s_hand_shapes
  BY DEF Traced
<1>2. PICK shape : shape = shapes[id]
  OBVIOUS
<1>3. IsShape(shape)
  BY <1>1, <1>2, ShapesAre
<1>4. shape.width \in 1 .. 5 /\ shape.width # 0
  BY <1>3 DEF IsShape
<1>5. PICK base : base = BaseOf(shape, at)
  OBVIOUS
<1>6. base \in Points
  <2>1. Half(shape.width)[1] \in Nat /\ Half(shape.width)[2] \in Nat
    BY <1>4, HalfIs
  <2> QED
    BY <1>5, <2>1 DEF BaseOf, Points
<1>7. \A mode : Lit(id, mode, at) = ShapeAt(id, <<at.x, at.y>>, base, mode)
  BY <1>1, <1>2, <1>4, <1>5 DEF Lit, gfx_show_shape_px, BaseOf
<1>8. Lit(id, "RENDER_BLOCK", at) = SquareOf(shape, at)
  <2>1. ShapeAt(id, <<at.x, at.y>>, base, "RENDER_BLOCK") = Block(<<at.x, at.y>>, shape.width)
    BY <1>2 DEF ShapeAt
  <2> QED
    BY <1>3, <1>7, <2>1, BlockIs
<1>9. Lit(id, "RENDER_VECTOR", at) = Outline(shape, at)
  <2>1. PICK o : o = vo_trace(shape)
    OBVIOUS
  <2>2. ~o.truncated /\ o.contours # <<>>
    BY <1>3, <2>1, ShapeTraced
  <2>3. Outlines[id] = o
    BY <1>1, <1>2, <2>1 DEF Outlines
  <2>4. ShapeAt(id, <<at.x, at.y>>, base, "RENDER_VECTOR")
          = IF OffScreen(base, shape.width) THEN {} ELSE Vector(o.contours, base)
    BY <1>1, <1>2, <2>2, <2>3 DEF ShapeAt
  <2>5. Outline(shape, at) = LitLines(shape, base)
    BY <1>3, <1>5, <1>6, OutlineIs
  <2>6. Vector(o.contours, base) = LitLines(shape, base)
    BY <1>3, <1>6, <2>1, VectorLights
  <2>7. OffScreen(base, shape.width) => LitLines(shape, base) = {}
    BY <1>3, <1>6, OffScreenIs
  <2> QED
    BY <1>7, <2>4, <2>5, <2>6, <2>7
<1> QED
  BY <1>2, <1>8, <1>9

-----------------------------------------------------------------------------
(* Every frame.                                                            *)

\* Where the bodies of a frame are drawn is within three screens around the screen.
Placed == shown => \A i \in DOMAIN drawn : [x |-> drawn[i].x, y |-> drawn[i].y] \in Area

\* A place between two that are at most three screens away.
LEMMA WithinArea ==
  ASSUME NEW w \in Nat, w > 0, NEW a \in Nat, a < w, NEW m \in Int, -3 <= m, m <= 3,
         NEW s \in Nat, s <= w, NEW c \in Int, -s <= c, c <= w + s - 1,
         NEW d \in Int, Between(a + m * w, d, c)
  PROVE  d \in -3 * w .. 4 * w
<1>1. m = -3 \/ m = -2 \/ m = -1 \/ m = 0 \/ m = 1 \/ m = 2 \/ m = 3
  OBVIOUS
<1>2. PICK q \in Int : q = a + m * w /\ -3 * w <= q /\ q <= 4 * w
  BY <1>1
<1>3. Between(q, d, c)
  BY <1>2
<1> QED
  BY ONLY <1>2, <1>3, q \in Int, d \in Int, c \in Int, w \in Nat, s \in Nat, s <= w, -s <= c, c <= w + s - 1
     DEF Between

\* A frame draws there.
LEMMA DrawnIsPlaced ==
  ASSUME Consistent, NEW i \in 1 .. Len(published), NEW d, d = Drawn(previous, published[i])
  PROVE  [x |-> d.x, y |-> d.y] \in Area
<1>1. PICK c : c = published[i]
  OBVIOUS
<1>2. PICK was : was = body_before[c.body_id]
  OBVIOUS
<1>3. /\ c \in Visible /\ d.x \in Int /\ d.y \in Int
      /\ was = {} => d = c
      /\ \A p \in was : /\ was = {p}
                        /\ \E q \in Nearest(Everywhere(was), c) :
                             Between(q.x, d.x, c.x) /\ Between(q.y, d.y, c.y)
  BY <1>1, <1>2, DrawnIs
<1>4. /\ c.body_id \in Bodies
      /\ c.x \in Int /\ -Margin <= c.x /\ c.x <= Width + Margin - 1
      /\ c.y \in Int /\ -Margin <= c.y /\ c.y <= Height + Margin - 1
  BY <1>3 DEF Visible, Columns, Rows
<1>5. d.x \in -3 * Width .. 4 * Width /\ d.y \in -3 * Height .. 4 * Height
  <2>1. CASE was = {}
    BY <1>3, <1>4, <2>1, Sizes
  <2>2. CASE was # {}
    <3>1. PICK p \in was : /\ was = {p}
                          /\ \E q \in Nearest(Everywhere(was), c) :
                               Between(q.x, d.x, c.x) /\ Between(q.y, d.y, c.y)
      BY <1>3, <2>2
    <3>2. PICK q \in Nearest(Everywhere(was), c) : Between(q.x, d.x, c.x) /\ Between(q.y, d.y, c.y)
      BY <3>1
    <3>3. q \in Everywhere({p})
      BY <3>1 DEF Nearest
    <3>4. PICK m, n \in Far : q = [x |-> p.x + m * Width, y |-> p.y + n * Height]
      BY <3>3, EverywhereAre
    <3>5. q.x = p.x + m * Width /\ q.y = p.y + n * Height
      BY <3>4
    <3>6. p.x \in Nat /\ p.x < Width /\ p.y \in Nat /\ p.y < Height
      <4>1. body_before \in Somewhere
        BY DEF Consistent
      <4>2. /\ p.x \in Int /\ 0 <= p.x /\ p.x < Width
            /\ p.y \in Int /\ 0 <= p.y /\ p.y < Height
        BY <1>2, <1>4, <4>1, PlacesAre
      <4> QED
        BY <4>2
    <3>7. m \in Int /\ -3 <= m /\ m <= 3 /\ n \in Int /\ -3 <= n /\ n <= 3
      BY DEF Far
    <3>8. Between(p.x + m * Width, d.x, c.x) /\ Between(p.y + n * Height, d.y, c.y)
      BY <3>2, <3>5
    <3>9. d.x \in -3 * Width .. 4 * Width
      <4>1. PICK a \in Nat, e \in Int, f \in Int, s \in Nat, w \in Nat :
              a = p.x /\ e = d.x /\ f = c.x /\ s = Margin /\ w = Width
        BY <1>3, <1>4, <3>6, Sizes
      <4>2. /\ w > 0 /\ a < w /\ s <= w /\ -s <= f /\ f <= w + s - 1
            /\ m \in Int /\ -3 <= m /\ m <= 3
        BY <1>4, <3>6, <3>7, <4>1, Sizes
      <4>3. Between(a + m * w, e, f)
        BY ONLY <3>8, <4>1
      <4>4. e \in -3 * w .. 4 * w
        BY ONLY <4>2, <4>3, a \in Nat, e \in Int, f \in Int, s \in Nat, w \in Nat, WithinArea
      <4> QED
        BY <4>1, <4>4
    <3>10. d.y \in -3 * Height .. 4 * Height
      <4>1. PICK a \in Nat, e \in Int, f \in Int, s \in Nat, w \in Nat :
              a = p.y /\ e = d.y /\ f = c.y /\ s = Margin /\ w = Height
        BY <1>3, <1>4, <3>6, Sizes
      <4>2. /\ w > 0 /\ a < w /\ s <= w /\ -s <= f /\ f <= w + s - 1
            /\ n \in Int /\ -3 <= n /\ n <= 3
        BY <1>4, <3>6, <3>7, <4>1, Sizes
      <4>3. Between(a + n * w, e, f)
        BY ONLY <3>8, <4>1
      <4>4. e \in -3 * w .. 4 * w
        BY ONLY <4>2, <4>3, a \in Nat, e \in Int, f \in Int, s \in Nat, w \in Nat, WithinArea
      <4> QED
        BY <4>1, <4>4
    <3> QED
      BY <3>9, <3>10
  <2> QED
    BY <2>1, <2>2
<1> QED
  BY <1>5 DEF Area

\* Every step keeps the frames there.
LEMMA PlacedNext == IInv /\ Placed /\ [Next]_vars => Placed'
<1> SUFFICES ASSUME IInv, Placed, [Next]_vars PROVE Placed'
  OBVIOUS
<1>1. Consistent
  BY DEF IInv
<1>2. CASE Frame
  <2>1. drawn' = [i \in DOMAIN published |-> Drawn(previous, published[i])]
    BY <1>2 DEF Frame
  <2>2. DOMAIN published = 1 .. Len(published)
    BY <1>1, SentAre DEF Consistent
  <2>3. ASSUME NEW i \in DOMAIN drawn' PROVE [x |-> drawn'[i].x, y |-> drawn'[i].y] \in Area
    <3>1. i \in 1 .. Len(published) /\ drawn'[i] = Drawn(previous, published[i])
      BY <2>1, <2>2
    <3> QED
      BY <1>1, <3>1, DrawnIsPlaced
  <2> QED
    BY <2>3 DEF Placed
<1>3. CASE Publish \/ ToggleInterpolation
  BY <1>3 DEF Publish, ToggleInterpolation, Placed
<1>4. CASE Tick \/ UNCHANGED vars
  <2>1. UNCHANGED <<drawn, shown>>
    BY <1>4 DEF Tick, vars, frame
  <2> QED
    BY <2>1 DEF Placed
<1> QED
  BY <1>2, <1>3, <1>4 DEF Next

\* "centres that may sit off-screen - segments are clipped with true slopes, never
\* vertex-clamped" (gfx.c), "bounds are sized for the embedded shape table"
\* (vector_outline.h): whatever the shapes of at most five cells a side, the size of
\* the screen and the places, wherever a body is drawn the pixels that light are the
\* outline of its shape or, as blocks, its square.
THEOREM BodiesAreOutlined == Spec => []OutlineDrawn
<1>1. Init => Placed
  BY DEF Init, Placed
<1>2. Placed => OutlineDrawn
  <2>1. ASSUME NEW at \in Area PROVE at \in Right
    <3>1. at.x \in Int /\ at.y \in Int
      BY Sizes DEF Area
    <3>2. ASSUME NEW id \in Traced
          PROVE  /\ Lit(id, "RENDER_VECTOR", at) = Outline(shapes[id], at)
                 /\ Lit(id, "RENDER_BLOCK", at) = SquareOf(shapes[id], at)
      BY <3>1, PictureIs
    <3> QED
      BY <3>2 DEF Right
  <2> QED
    BY <2>1 DEF Placed, OutlineDrawn
<1> QED
  BY <1>1, <1>2, IInvInit, IInvNext, PlacedNext, PTL DEF Spec
=============================================================================
