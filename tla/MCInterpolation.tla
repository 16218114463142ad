----------------------------- MODULE MCInterpolation -----------------------------
(* A body that may be at the edges and inside and one at the seam or away; the   *)
(* shapes as they are in embedded_shapes.c, from id 0, 1 where a cell is filled. *)
EXTENDS Interpolation

OneMoving == <<[x : {0, 1, 4, Width - 1}, y : {0, 2, Height - 1}], {[x |-> Width - 1, y |-> 0]}>>

TheShapes ==
  <<
    [width |-> 5, rows |-> <<<<0, 0, 1, 1, 0>>, <<1, 1, 1, 1, 1>>, <<1, 1, 0, 1, 1>>, <<0, 1, 1, 1, 0>>, <<0, 0, 1, 1, 0>>>>],
    [width |-> 5, rows |-> <<<<0, 1, 1, 0, 0>>, <<1, 1, 1, 1, 0>>, <<1, 1, 0, 1, 1>>, <<0, 1, 0, 1, 1>>, <<0, 1, 1, 1, 0>>>>],
    [width |-> 4, rows |-> <<<<0, 1, 1, 0>>, <<1, 1, 1, 1>>, <<1, 1, 1, 1>>, <<0, 1, 1, 0>>>>],
    [width |-> 4, rows |-> <<<<0, 1, 1, 0>>, <<1, 1, 1, 1>>, <<1, 1, 1, 1>>, <<1, 1, 1, 1>>>>],
    [width |-> 4, rows |-> <<<<0, 1, 1, 0>>, <<1, 1, 1, 1>>, <<1, 1, 1, 1>>, <<0, 1, 1, 0>>>>],
    [width |-> 3, rows |-> <<<<0, 1, 0>>, <<1, 1, 1>>, <<0, 1, 0>>>>],
    [width |-> 3, rows |-> <<<<0, 1, 0>>, <<1, 0, 1>>, <<0, 1, 0>>>>],
    [width |-> 3, rows |-> <<<<0, 1, 1>>, <<1, 1, 1>>, <<1, 1, 0>>>>],
    [width |-> 3, rows |-> <<<<1, 1, 0>>, <<1, 1, 1>>, <<0, 1, 1>>>>],
    [width |-> 2, rows |-> <<<<1, 1>>, <<1, 1>>>>],
    [width |-> 2, rows |-> <<<<1, 1>>, <<1, 1>>>>],
    [width |-> 2, rows |-> <<<<1, 1>>, <<1, 1>>>>],
    [width |-> 1, rows |-> <<<<1>>>>],
    [width |-> 1, rows |-> <<<<1>>>>],
    [width |-> 1, rows |-> <<<<1>>>>],
    [width |-> 1, rows |-> <<<<1>>>>],
    [width |-> 1, rows |-> <<<<1>>>>],
    [width |-> 1, rows |-> <<<<1>>>>],
    [width |-> 1, rows |-> <<<<1>>>>]
  >>
=============================================================================
