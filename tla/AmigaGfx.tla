------------------------------- MODULE AmigaGfx -------------------------------
(***************************************************************************)
(* src/amiga/gfx.c: the pixels that a shape lights, and the table of the   *)
(* shapes (parse_shape_records of src/common/shapes.c).                    *)
(***************************************************************************)
EXTENDS VectorOutline

CONSTANTS
  Width, Height,            \* of the screen, in pixels
  WorldWidth, WorldHeight,  \* REG_WORLD_WIDTH, REG_WORLD_HEIGHT
  EmbeddedShapes            \* the records of embedded_shapes.c, their rows as 0 and 1

ASSUME ScreenAssumption ==
  /\ {Width, Height, WorldWidth, WorldHeight} \subseteq Nat \ {0}
  /\ WorldWidth <= Width

\* "max width 5" (vector_outline.h); in each shape some cell is filled.
ASSUME ShapeAssumption ==
  /\ EmbeddedShapes \in Seq([width : 1 .. 5, rows : Seq(Seq({0, 1}))])
  /\ \A i \in DOMAIN EmbeddedShapes :
       LET shape == EmbeddedShapes[i]
       IN  /\ Len(shape.rows) = shape.width
           /\ \E x, y \in 1 .. shape.width : shape.rows[y][x] = 1

SHAPES_BUFFER_SIZE == 160

\* The filled cells of the rows of a shape.
Cells(rows) ==
  {c \in {<<x - 1, y - 1>> : x, y \in 1 .. Len(rows)} : rows[c[2] + 1][c[1] + 1] = 1}

\* parse_shape_records: the shapes whose data has room, by their index in the table.
shapes ==
  LET Data(i) == (EmbeddedShapes[i].width * EmbeddedShapes[i].width) % 256
      offset[i \in 0 .. Len(EmbeddedShapes)] == IF i = 0 THEN 0 ELSE offset[i - 1] + Data(i)
      Fits == {i \in DOMAIN EmbeddedShapes : offset[i] <= SHAPES_BUFFER_SIZE}
  IN  [id \in {i - 1 : i \in Fits} |->
         [width |-> EmbeddedShapes[id + 1].width, cells |-> Cells(EmbeddedShapes[id + 1].rows)]]

-----------------------------------------------------------------------------
Corner == <<Width - 1, Height - 1>>
Screen == (0 .. Width - 1) \X (0 .. Height - 1)

\* Cells to pixels.
Scale(p) == <<p[1] * (Width \div WorldWidth), (p[2] * Height) \div WorldHeight>>
Half(width) == <<((width * Width) \div WorldWidth) \div 2, ((width * Height) \div WorldHeight) \div 2>>

Plus(p, q) == <<p[1] + q[1], p[2] + q[2]>>

Rectangle(p, q) == (p[1] .. q[1]) \X (p[2] .. q[2])

\* graphics.library's Move and Draw; the contours have no slopes.
Line(p, q) == Rectangle(p, q) \cup Rectangle(q, p)

\* draw_contour_lines
ContourLines(pts) ==
  LET Next(i) == IF i = Len(pts) THEN 1 ELSE i + 1
  IN  IF Len(pts) < 2 THEN {}
      ELSE UNION {UNION {Line(s.a, s.b) : s \in vo_clip_segment(pts[i], pts[Next(i)], Corner)} :
                    i \in DOMAIN pts}

\* draw_vector, and the loops of a hand-crafted shape
Vector(contours, base) ==
  UNION {ContourLines([i \in DOMAIN contours[c] |-> Plus(base, Scale(contours[c][i]))]) :
           c \in DOMAIN contours}

\* draw_block
Block(center, width) ==
  LET x0 == center[1] - Half(width)[1]
      y0 == center[2] - Half(width)[2]
      x1 == center[1] + Half(width)[1] - 1
      y1 == center[2] + Half(width)[2] - 1
  IN  Rectangle(<<IF x0 < 0 THEN 0 ELSE x0, IF y0 < 0 THEN 0 ELSE y0>>,
                <<IF x1 >= Width THEN Width - 1 ELSE x1, IF y1 >= Height THEN Height - 1 ELSE y1>>)

-----------------------------------------------------------------------------
s_plus5_loop == << <<2, 0>>, <<3, 0>>, <<3, 2>>, <<5, 2>>, <<5, 3>>, <<3, 3>>,
                   <<3, 5>>, <<2, 5>>, <<2, 3>>, <<0, 3>>, <<0, 2>>, <<2, 2>> >>
s_hollow5_outer == << <<0, 0>>, <<5, 0>>, <<5, 5>>, <<0, 5>> >>
s_hollow5_hole  == << <<2, 2>>, <<3, 2>>, <<3, 3>>, <<2, 3>> >>

s_hand_shapes == [id \in {1, 2} |->
  IF id = 1 THEN <<s_plus5_loop>> ELSE <<s_hollow5_outer, s_hollow5_hole>>]

render_mode == {"RENDER_VECTOR", "RENDER_BLOCK"}

OffScreen(base, width) ==
  \/ base[1] >= Width \/ base[2] >= Height
  \/ base[1] + 2 * ((width * Width) \div WorldWidth) < 0
  \/ base[2] + 2 * ((width * Height) \div WorldHeight) < 0

Outlines == [id \in DOMAIN shapes |-> vo_trace(shapes[id])]

\* draw_shape_at
ShapeAt(id, center, base, mode) ==
  LET width == shapes[id].width
      o     == Outlines[id]
  IN  IF mode = "RENDER_BLOCK" THEN Block(center, width)
      ELSE IF id \in DOMAIN s_hand_shapes THEN Vector(s_hand_shapes[id], base)
      ELSE IF o.truncated \/ o.contours = <<>> THEN Block(center, width)
      ELSE IF OffScreen(base, width) THEN {}
      ELSE Vector(o.contours, base)

\* gfx_show_shape_px
gfx_show_shape_px(id, center, mode) ==
  IF id \notin DOMAIN shapes \/ shapes[id].width = 0 THEN {}
  ELSE LET half == Half(shapes[id].width)
       IN  ShapeAt(id, center, <<center[1] - half[1], center[2] - half[2]>>, mode)
=============================================================================
