------------------------------ MODULE Interpolation ------------------------------
(***************************************************************************)
(* Where the Amiga draws the bodies between two snapshots: the blend of    *)
(* src/amiga/interpolation.c and src/common/bwc_interpolation_math.c, as   *)
(* time passes and snapshots of a wrapping or a solid world arrive.  A     *)
(* snapshot comes as bytes (ShapeDecode) and is drawn as pixels (AmigaGfx).*)
(*                                                                         *)
(* The clock is discrete.  Angles are not modelled: the client does not    *)
(* ask for them.  bwc_interp_match, which the client does not call, is     *)
(* left out.  The products fit in the code's int32 at these sizes.         *)
(***************************************************************************)
EXTENDS AmigaGfx, ShapeDecode, FiniteSets, SequencesExt, TLC

CONSTANTS
  Margin,          \* how far outside of the screen an image is still sent
  Places,          \* Places[b]: where body b may be
  MaxTicks         \* bound: the longest time without a snapshot

Bodies == DOMAIN Places

SHAPE_POS_MAX == 84

\* An image a whole screen away is not sent, and what is sent fits into 16 bits.
ASSUME MarginAssumption ==
  /\ Margin \in Nat /\ Margin <= Width /\ Margin <= Height
  /\ Width + Margin <= 32768 /\ Height + Margin <= 32768
\* Bodies are on the screen; their identifiers have 32 bits, and 0 is none.
ASSUME PlacesAssumption ==
  /\ IsFiniteSet(Bodies)
  /\ \A b \in Bodies :
       /\ b \in Nat \ {0} /\ b \div 65536 < 65536
       /\ Places[b] \subseteq [x : 0 .. Width - 1, y : 0 .. Height - 1]
ASSUME BoundAssumption == MaxTicks \in Nat \ {0}

VARIABLES
  world_is_wrapped,
  body, body_before,    \* the place of each body, {} if it is away, and the place before
  published, previous,  \* the snapshots' records
  interval, elapsed,    \* published_ticks - previous_ticks, now - published_ticks
  arrived,              \* snapshots so far, at most 2
  bwc_interpolation_enabled,
  drawn, shown,         \* the last frame, and whether it shows what there is now
  reached               \* history: the frame before this snapshot showed the last one

world == <<world_is_wrapped, body, body_before>>
snapshots == <<published, previous, arrived>>
clock == <<interval, elapsed>>
frame == <<drawn, shown, reached>>
vars == <<world, snapshots, clock, bwc_interpolation_enabled, frame>>

-----------------------------------------------------------------------------
(* The server.                                                             *)

Tiles(wrapped) == IF wrapped THEN -1 .. 1 ELSE {0}

Images(wrapped, b, at) ==
  {r \in {[shape_id |-> 0, body_id |-> b, x |-> at.x + i * Width, y |-> at.y + j * Height] :
            i, j \in Tiles(wrapped)} :
     r.x \in -Margin .. Width + Margin - 1 /\ r.y \in -Margin .. Height + Margin - 1}

Before(r, s) ==
  \/ r.body_id < s.body_id
  \/ r.body_id = s.body_id /\ (r.x < s.x \/ (r.x = s.x /\ r.y < s.y))

Seen(wrapped, at) == UNION {UNION {Images(wrapped, b, p) : p \in at[b]} : b \in Bodies}

\* By body, then by position of the visible image.
Sent(wrapped, at) ==
  LET all == Seen(wrapped, at)
  IN  [i \in 1 .. Cardinality(all) |->
         CHOOSE r \in all : Cardinality({s \in all : Before(s, r)}) = i - 1]

Somewhere ==
  {at \in [Bodies -> {{}} \union UNION {{{p} : p \in Places[b]} : b \in Bodies}] :
     \A b \in Bodies : at[b] \subseteq Places[b]}

\* TLC computes a function that it has compared once and for all.
Once(f) == CHOOSE g \in {f} : g = f

\* The answers, and what the worker makes of them, by wrapping and places.
\* The worker gives the decoder the room in app_data, which 84 records do not fill.
Worlds == BOOLEAN \X Somewhere
Records == Once([w \in Worlds |-> Sent(w[1], w[2])])
Received ==
  Once([w \in Worlds |->
     Decode(Payload(Records[w], REQUESTED_CAPS), Len(Records[w]), REQUESTED_CAPS, SHAPE_POS_MAX)])

\* A snapshot has room for all the records.
ASSUME RoomAssumption ==
  \A w \in Worlds : Len(Records[w]) <= SHAPE_POS_MAX

-----------------------------------------------------------------------------
(* bwc_interp_match_body_image and bwc_interp_blend.                       *)

Shifts(extent) == IF world_is_wrapped THEN {-extent, 0, extent} ELSE {0}

\* The candidates in the order of the loops, <<record, x shift, y shift>>
Candidates(prev, c) ==
  {k \in (DOMAIN prev) \X Shifts(Width) \X Shifts(Height) : prev[k[1]].body_id = c.body_id}

Earlier(k, l) ==
  \/ k[1] < l[1]
  \/ k[1] = l[1] /\ (k[2] < l[2] \/ (k[2] = l[2] /\ k[3] < l[3]))

Shifted(prev, k) == [prev[k[1]] EXCEPT !.x = @ + k[2], !.y = @ + k[3]]
Square(d) == d * d
Distance2(r, c) == Square(r.x - c.x) + Square(r.y - c.y)
Least(S) == CHOOSE d \in S : \A e \in S : d <= e
Nearest(S, c) == LET d == Least({Distance2(r, c) : r \in S}) IN {r \in S : Distance2(r, c) = d}

\* (mutant) the first record of the body
Image_First(prev, c) ==
  Shifted(prev, CHOOSE k \in Candidates(prev, c) :
    \A l \in Candidates(prev, c) : k = l \/ Earlier(k, l))

\* The first of the nearest.
Image(prev, c) ==
  LET all  == Candidates(prev, c)
      near == Nearest({Shifted(prev, k) : k \in all}, c)
      best == {k \in all : Shifted(prev, k) \in near}
  IN  Shifted(prev, CHOOSE k \in best : \A l \in best : k = l \/ Earlier(k, l))

Blend(from, to) ==
  [to EXCEPT !.x = from.x + Quotient((to.x - from.x) * elapsed, interval),
             !.y = from.y + Quotient((to.y - from.y) * elapsed, interval)]

\* (mutant) the blend goes on behind the newest snapshot
Blending_On == bwc_interpolation_enabled /\ arrived = 2 /\ interval # 0

Blending == bwc_interpolation_enabled /\ arrived = 2 /\ interval # 0 /\ elapsed < interval

Drawn(prev, c) == IF Blending /\ Candidates(prev, c) # {} THEN Blend(Image(prev, c), c) ELSE c

-----------------------------------------------------------------------------
Init ==
  /\ world_is_wrapped \in BOOLEAN
  /\ body \in Somewhere /\ body_before = [b \in Bodies |-> {}]
  /\ published = Received[<<world_is_wrapped, body>>] /\ previous = <<>> /\ arrived = 1
  /\ interval = 0 /\ elapsed = 0 /\ bwc_interpolation_enabled = TRUE
  /\ drawn = <<>> /\ shown = FALSE /\ reached = FALSE

Tick ==
  /\ elapsed < MaxTicks /\ elapsed' = elapsed + 1
  /\ UNCHANGED <<world, snapshots, interval, bwc_interpolation_enabled, frame>>

\* (mutant) the old snapshot is kept instead of the last one
Publish_Keeps ==
  /\ body' \in Somewhere /\ body_before' = body
  /\ published' = Received[<<world_is_wrapped, body'>>] /\ previous' = (IF arrived = 1 THEN published ELSE previous)
  /\ arrived' = 2 /\ interval' = elapsed /\ elapsed' = 0
  /\ reached' = (shown /\ drawn = published) /\ shown' = FALSE /\ drawn' = <<>>
  /\ UNCHANGED <<world_is_wrapped, bwc_interpolation_enabled>>

\* The worker's critical section.
Publish ==
  /\ body' \in Somewhere /\ body_before' = body
  /\ published' = Received[<<world_is_wrapped, body'>>] /\ previous' = published
  /\ arrived' = 2 /\ interval' = elapsed /\ elapsed' = 0
  /\ reached' = (shown /\ drawn = published) /\ shown' = FALSE /\ drawn' = <<>>
  /\ UNCHANGED <<world_is_wrapped, bwc_interpolation_enabled>>

\* bwc_async_fetch_copy
Frame ==
  /\ drawn' = [i \in DOMAIN published |-> Drawn(previous, published[i])]
  /\ shown' = TRUE
  /\ UNCHANGED <<world, snapshots, clock, bwc_interpolation_enabled, reached>>

ToggleInterpolation ==
  /\ bwc_interpolation_enabled' = ~bwc_interpolation_enabled
  /\ shown' = FALSE /\ drawn' = <<>> /\ reached' = FALSE
  /\ UNCHANGED <<world, snapshots, clock>>

Next == Tick \/ Publish \/ Frame \/ ToggleInterpolation

Spec == Init /\ [][Next]_vars

-----------------------------------------------------------------------------
(* Properties.                                                             *)

Between(a, x, b) == (a <= x /\ x <= b) \/ (b <= x /\ x <= a)

\* The places of the plane where a body could be thought to have been.
Everywhere(was) ==
  LET Far == IF world_is_wrapped THEN -3 .. 3 ELSE {0}
  IN  {[x |-> p.x + i * Width, y |-> p.y + j * Height] : p \in was, i \in Far, j \in Far}

\* "You never guess, so you never diverge" (docs/snapshot-interpolation.md): a body
\* is drawn between where it is and the nearest place where it was, whatever seam
\* it has crossed, and one that was not there is drawn where it is.
NeverExtrapolates ==
  shown => \A i \in DOMAIN drawn :
    LET c == Records[<<world_is_wrapped, body>>][i]
        before == Everywhere(body_before[c.body_id])
    IN  \/ before = {} /\ drawn[i] = c
        \/ \E q \in Nearest(before, c) :
             Between(q.x, drawn[i].x, c.x) /\ Between(q.y, drawn[i].y, c.y)

\* A snapshot that arrives when the last one had been reached moves nothing: in the
\* first frame every body is where it was, up to the world's seams.
Congruent(a, b, extent) == IF world_is_wrapped THEN (a - b) % extent = 0 ELSE a = b
NoJumpAtArrival ==
  shown /\ Blending /\ elapsed = 0 /\ reached =>
    \A i \in DOMAIN drawn : \A p \in body_before[drawn[i].body_id] :
      Congruent(p.x, drawn[i].x, Width) /\ Congruent(p.y, drawn[i].y, Height)

\* "This is independent of the server's packet/set order" (bwc_interpolation_math.c),
\* but where a body has moved by half of the world and two places are as near.
OrderIrrelevant ==
  \A i \in DOMAIN published :
    LET c == published[i]
    IN  \/ Drawn(Reverse(previous), c) = Drawn(previous, c)
        \/ Cardinality(Nearest(Everywhere(body_before[c.body_id]), c)) > 1

-----------------------------------------------------------------------------
(* The picture.                                                            *)

\* What lights for a shape at a place, and what should.
Lit(id, mode, at) == gfx_show_shape_px(id, <<at.x, at.y>>, mode)

Outline(shape, at) ==
  LET base == <<at.x - Half(shape.width)[1], at.y - Half(shape.width)[2]>>
      Near(c) == {<<c[1] + 1, c[2]>>, <<c[1] - 1, c[2]>>, <<c[1], c[2] + 1>>, <<c[1], c[2] - 1>>}
      \* the corners that two neighbouring cells share
      Shared(c, d) == {<<c[1] + i, c[2] + j>> : i, j \in 0 .. 1} \cap
                      {<<d[1] + i, d[2] + j>> : i, j \in 0 .. 1}
      Pixels(corners) == UNION {Rectangle(Plus(base, Scale(p)), Plus(base, Scale(q))) :
                                  p, q \in corners}
  IN  Screen \cap UNION {UNION {Pixels(Shared(c, d)) : d \in Near(c) \ shape.cells} :
                          c \in shape.cells}

SquareOf(shape, at) ==
  {p \in Screen : /\ p[1] - at.x \in -Half(shape.width)[1] .. Half(shape.width)[1] - 1
                  /\ p[2] - at.y \in -Half(shape.width)[2] .. Half(shape.width)[2] - 1}

Traced == DOMAIN shapes \ DOMAIN s_hand_shapes
\* No body is drawn further than three screens away.
Area == {[x |-> x, y |-> y] : x \in -3 * Width .. 4 * Width, y \in -3 * Height .. 4 * Height}
Right ==
  {at \in Area : \A id \in Traced :
     /\ Lit(id, "RENDER_VECTOR", at) = Outline(shapes[id], at)
     /\ Lit(id, "RENDER_BLOCK", at) = SquareOf(shapes[id], at)}

\* "centres that may sit off-screen - segments are clipped with true slopes, never
\* vertex-clamped" (gfx.c), "bounds are sized for the embedded shape table"
\* (vector_outline.h): wherever a body is drawn, over the edges of the screen too,
\* the pixels that light are those between a filled cell and an empty one of its
\* shape or, as blocks, those of its square.
OutlineDrawn == shown => \A i \in DOMAIN drawn : [x |-> drawn[i].x, y |-> drawn[i].y] \in Right
=============================================================================
