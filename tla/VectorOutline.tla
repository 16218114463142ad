----------------------------- MODULE VectorOutline -----------------------------
(***************************************************************************)
(* src/amiga/vector_outline.c: the outline of a bitmap as closed contours, *)
(* and the part of a segment that is within a rectangle.                   *)
(*                                                                         *)
(* A shape is its width and the set of its filled cells <<column, row>>; a *)
(* point is <<x, y>>, y downward.  is_hole is left out: it is only for a   *)
(* renderer that fills.  The functions are recursive, not the operators.   *)
(***************************************************************************)
EXTENDS Integers, Sequences, SequencesExt

VO_MAX_PTS      == 104
VO_MAX_EDGES    == VO_MAX_PTS
VO_MAX_CONTOURS == 16

-----------------------------------------------------------------------------
(* vo_trace                                                                *)

\* The sides of a cell, the inside at their right hand, and the cell beyond each.
Sides(x, y) ==
  << [from |-> <<x, y>>,         to |-> <<x + 1, y>>,     of |-> <<x, y>>, beyond |-> <<x, y - 1>>],
     [from |-> <<x + 1, y>>,     to |-> <<x + 1, y + 1>>, of |-> <<x, y>>, beyond |-> <<x + 1, y>>],
     [from |-> <<x + 1, y + 1>>, to |-> <<x, y + 1>>,     of |-> <<x, y>>, beyond |-> <<x, y + 1>>],
     [from |-> <<x, y + 1>>,     to |-> <<x, y>>,         of |-> <<x, y>>, beyond |-> <<x - 1, y>>] >>

\* The sides of all the cells, by rows and from 0 on.
Side(shape, k) ==
  Sides((k \div 4) % shape.width, (k \div 4) \div shape.width)[(k % 4) + 1]

\* What is outside of the bitmap is empty.
OnBoundary(shape, e) == e.of \in shape.cells /\ e.beyond \notin shape.cells

\* The directed boundary edges.
BoundaryEdges(shape) ==
  LET sides == 4 * (shape.width * shape.width)
      push[k \in 0 .. sides] ==
        IF k = 0 THEN <<>>
        ELSE IF OnBoundary(shape, Side(shape, k - 1)) THEN Append(push[k - 1], Side(shape, k - 1))
        ELSE push[k - 1]
  IN  push[sides]

Direction(e) == <<e.to[1] - e.from[1], e.to[2] - e.from[2]>>
RightOf(d) == <<-d[2], d[1]>>

\* How much next_edge likes to go on with e after cur.
Rank(cur, e) ==
  CASE Direction(e) = RightOf(Direction(cur)) -> 0
    [] Direction(e) = Direction(cur) -> 1
    [] OTHER -> 2

NextEdges(edges, used, cur) == {j \in DOMAIN edges \ used : edges[j].from = edges[cur].to}

\* The first of those with the best rank.
next_edge(edges, used, cur) ==
  CHOOSE j \in NextEdges(edges, used, cur) : \A k \in NextEdges(edges, used, cur) :
    LET rj == Rank(edges[cur], edges[j])
        rk == Rank(edges[cur], edges[k])
    IN  rj < rk \/ (rj = rk /\ j <= k)

\* The edges of the contour that begins with edge start, until it is closed or open.
Contour(edges, used, start) ==
  LET Ends(c) == \/ edges[Last(c)].to = edges[start].from
                 \/ NextEdges(edges, used \cup ToSet(c), Last(c)) = {}
      chain[n \in 0 .. Len(edges) - 1] ==
        IF n = 0 THEN <<start>>
        ELSE LET c == chain[n - 1]
             IN  IF Ends(c) THEN c ELSE Append(c, next_edge(edges, used \cup ToSet(c), Last(c)))
  IN  chain[Len(edges) - 1]

AddContour(edges, t, start) ==
  IF Len(t.contours) = VO_MAX_CONTOURS
  THEN [t EXCEPT !.used = @ \cup {start}, !.truncated = TRUE]
  ELSE LET c == Contour(edges, t.used, start)
       IN  [used      |-> t.used \cup ToSet(c),
            contours  |-> Append(t.contours, [i \in DOMAIN c |-> edges[c[i]].from]),
            truncated |-> t.truncated \/ edges[Last(c)].to # edges[start].from]

vo_trace(shape) ==
  LET all   == BoundaryEdges(shape)
      edges == IF Len(all) > VO_MAX_EDGES THEN SubSeq(all, 1, VO_MAX_EDGES) ELSE all
      trace[i \in 0 .. Len(edges)] ==
        IF i = 0 THEN [used |-> {}, contours |-> <<>>, truncated |-> Len(all) > VO_MAX_EDGES]
        ELSE LET t == trace[i - 1] IN IF i \in t.used THEN t ELSE AddContour(edges, t, i)
  IN  trace[Len(edges)]

-----------------------------------------------------------------------------
(* vo_clip_segment, for the rectangle from <<0, 0>> to a corner.           *)

\* C's division rounds towards zero.
Quotient(a, b) ==
  LET Size(v) == IF v < 0 THEN -v ELSE v
  IN  IF (a < 0) = (b < 0) THEN Size(a) \div Size(b) ELSE -(Size(a) \div Size(b))

vo_out_code(p, corner) ==
  (IF p[1] < 0 THEN {"left"} ELSE IF p[1] > corner[1] THEN {"right"} ELSE {}) \cup
  (IF p[2] < 0 THEN {"above"} ELSE IF p[2] > corner[2] THEN {"below"} ELSE {})

\* Where the segment meets the first side that the end is beyond.
Meets(s, out, corner) ==
  LET dx == s.b[1] - s.a[1]
      dy == s.b[2] - s.a[2]
      AtRow(y)    == <<s.a[1] + Quotient(dx * (y - s.a[2]), dy), y>>
      AtColumn(x) == <<x, s.a[2] + Quotient(dy * (x - s.a[1]), dx)>>
  IN  IF "below" \in out THEN AtRow(corner[2])
      ELSE IF "above" \in out THEN AtRow(0)
      ELSE IF "right" \in out THEN AtColumn(corner[1])
      ELSE AtColumn(0)

ClipOnce(s, corner) ==
  LET ca == vo_out_code(s.a, corner)
      cb == vo_out_code(s.b, corner)
  IN  CASE ca = {} /\ cb = {} -> s
        [] ca \cap cb # {}    -> s
        [] ca # {} /\ ca \cap cb = {} -> [s EXCEPT !.a = Meets(s, ca, corner)]
        [] ca = {} /\ cb # {} -> [s EXCEPT !.b = Meets(s, cb, corner)]

\* (mutant) the ends are moved to the rectangle one by one
vo_clip_segment_Clamps(a, b, corner) ==
  LET Clamp(v, top) == IF v < 0 THEN 0 ELSE IF v > top THEN top ELSE v
      Near(p) == <<Clamp(p[1], corner[1]), Clamp(p[2], corner[2])>>
  IN  {[a |-> Near(a), b |-> Near(b)]}

\* The visible part, at most one segment; 8 is the code's guard.
vo_clip_segment(a, b, corner) ==
  LET s[guard \in 0 .. 7] == IF guard = 0 THEN [a |-> a, b |-> b] ELSE ClipOnce(s[guard - 1], corner)
  IN  {t \in {s[7]} : vo_out_code(t.a, corner) = {} /\ vo_out_code(t.b, corner) = {}}
=============================================================================
