------------------------------ MODULE ShapeDecode ------------------------------
(***************************************************************************)
(* The records of an answer to "x-w" as bytes: what the server packs and   *)
(* what bwc_decode_shapes of src/common/shape_decode.c makes of it, for    *)
(* every set of the capabilities the two have agreed on.                   *)
(*                                                                         *)
(* The angles are skipped where they are sent: nothing on the client uses  *)
(* them.                                                                   *)
(***************************************************************************)
EXTENDS Integers, Sequences

\* BWC_CAP_WIDE_COORDS, BWC_CAP_ROTATION, BWC_CAP_BODY_ID
Caps == {"wide", "rotation", "body_id"}

\* What the Amiga asks for.
REQUESTED_CAPS == {"wide", "body_id"}

CoordBytes(caps) == IF "wide" \in caps THEN 2 ELSE 1
RotationBytes(caps) == IF "rotation" \in caps THEN 4 ELSE 0
BodyIdBytes(caps) == IF "body_id" \in caps THEN 4 ELSE 0
Stride(caps) == 1 + 2 * CoordBytes(caps) + RotationBytes(caps) + BodyIdBytes(caps)

-----------------------------------------------------------------------------
(* The server's side: little-endian numbers, one record behind the other.  *)

Bytes2(v) == <<v % 256, (v \div 256) % 256>>
Bytes4(v) == Bytes2(v) \o Bytes2(v \div 65536)
Coordinate(v, caps) == IF "wide" \in caps THEN Bytes2(v) ELSE <<v % 256>>

Encode(r, caps) ==
  <<r.shape_id>> \o Coordinate(r.x, caps) \o Coordinate(r.y, caps)
    \o (IF "rotation" \in caps THEN <<0, 0, 0, 0>> ELSE <<>>)
    \o (IF "body_id" \in caps THEN Bytes4(r.body_id) ELSE <<>>)

Payload(records, caps) ==
  [k \in 1 .. Len(records) * Stride(caps) |->
     Encode(records[((k - 1) \div Stride(caps)) + 1], caps)[((k - 1) % Stride(caps)) + 1]]

-----------------------------------------------------------------------------
(* The client's side.                                                      *)

rd_le16(p, at) == p[at] + 256 * p[at + 1]
rd_le32(p, at) == rd_le16(p, at) + 65536 * rd_le16(p, at + 2)

\* The casts to int8_t and int16_t.
Signed8(v) == IF v >= 128 THEN v - 256 ELSE v
Signed16(v) == IF v >= 32768 THEN v - 65536 ELSE v

\* How many records there are: as many as are told, fit, and have room.
Count(payload, count, caps, out_max) ==
  CHOOSE m \in {count, out_max, Len(payload) \div Stride(caps)} :
    m <= count /\ m <= out_max /\ m <= Len(payload) \div Stride(caps)

\* bwc_decode_shapes
Decode(payload, count, caps, out_max) ==
  LET Behind(i, bytes) == (i - 1) * Stride(caps) + bytes + 1
      Signed(at) == IF "wide" \in caps THEN Signed16(rd_le16(payload, at)) ELSE Signed8(payload[at])
  IN  [i \in 1 .. Count(payload, count, caps, out_max) |->
         [shape_id |-> payload[Behind(i, 0)],
          x        |-> Signed(Behind(i, 1)),
          y        |-> Signed(Behind(i, 1 + CoordBytes(caps))),
          body_id  |-> IF "body_id" \in caps
                       THEN rd_le32(payload, Behind(i, 1 + 2 * CoordBytes(caps) + RotationBytes(caps)))
                       ELSE 0]]
=============================================================================
