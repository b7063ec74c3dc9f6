---------------------------- MODULE DesktopRegion ----------------------------
(***************************************************************************)
(* desktop_region, the set of pixels with which every capturer says what   *)
(* has changed: rows in the order of their bottoms, each with spans from   *)
(* left to right.  Its operations, and those that make regions out of      *)
(* regions, rectangles and frames, are translated from their loops; beside *)
(* the region stands the set of pixels each of them is meant to produce.   *)
(***************************************************************************)
EXTENDS Integers, SequencesExt

CONSTANTS
  Sizes,       \* the sizes <<width, height>> of the screen a region is part of
  BlockSize    \* k_differ_block_size, and the grid of screen_capturer_helper

ASSUME RegionAssumption == /\ \A z \in Sizes : z \in (Nat \ {0}) \X (Nat \ {0})
                           /\ BlockSize \in Nat \ {0}

-----------------------------------------------------------------------------
\* desktop_rect

Cells(z) == (0 .. z[1] - 1) \X (0 .. z[2] - 1)

Rects == [left : Int, top : Int, right : Int, bottom : Int]

make_ltrb(l, t, r, b) == [left |-> l, top |-> t, right |-> r, bottom |-> b]
make_xywh(x, y, w, h) == make_ltrb(x, y, x + w, y + h)
make_size(z) == make_ltrb(0, 0, z[1], z[2])

is_empty(rect) == rect.left >= rect.right \/ rect.top >= rect.bottom

intersect_rect(a, b) ==
  LET r == make_ltrb(Max({a.left, b.left}), Max({a.top, b.top}),
                     Min({a.right, b.right}), Min({a.bottom, b.bottom})) IN
  IF is_empty(r) THEN make_ltrb(0, 0, 0, 0) ELSE r

InRect(rect, c) == /\ c[1] \in rect.left .. rect.right - 1
                   /\ c[2] \in rect.top .. rect.bottom - 1

RectsIn(z) == {make_ltrb(l, t, r, b) : l \in 0 .. z[1] - 1, t \in 0 .. z[2] - 1,
                                       r \in 0 .. z[1], b \in 0 .. z[2]}

-----------------------------------------------------------------------------
\* Rows and spans.

Span == [left : Int, right : Int]
Spans == Seq(Span)
Row == [top : Int, bottom : Int, spans : Spans]
Rows == Seq(Row)

\* Spans and rows in order, none empty, with a gap between any two spans: what
\* upper_bound, lower_bound and the walks along two regions rely on.
InOrder(spans) == /\ \A k \in DOMAIN spans : spans[k].left < spans[k].right
                  /\ \A j, k \in DOMAIN spans : j < k => spans[j].right < spans[k].left

IsRow(row) == row.top < row.bottom /\ row.spans # <<>> /\ InOrder(row.spans)

IsRegion(rows) == /\ rows \in Rows
                  /\ \A i \in DOMAIN rows : IsRow(rows[i])
                  /\ \A i, j \in DOMAIN rows : i < j => rows[i].bottom <= rows[j].top

\* The pixels of a region.
Area(rows) == UNION {UNION {(span.left .. span.right - 1) \X (row.top .. row.bottom - 1) :
                              span \in Range(row.spans)} : row \in Range(rows)}

\* The first position from i on where Test holds, or the end.
LowerBound(s, i, Test(_)) == Min({k \in i .. Len(s) : Test(s[k])} \cup {Len(s) + 1})

Rest(rows, bottom) == IF Head(rows).bottom = bottom THEN Tail(rows) ELSE rows
RestOf(spans, right) == IF Head(spans).right = right THEN Tail(spans) ELSE spans

\* The spans from start to before end touch the new one.
Join(spans, start, end, left, right) ==
  LET joined == IF end = start THEN [left |-> left, right |-> right]
                ELSE [left |-> Min({left, spans[start].left}),
                      right |-> Max({right, spans[end - 1].right})]
  IN SubSeq(spans, 1, start - 1) \o <<joined>> \o SubSeq(spans, end, Len(spans))

\* Slip: a span that only touches the next one is not joined to it.
add_span_to_row_Touching(spans, left, right) ==
  LET start == LowerBound(spans, 1, LAMBDA s : s.right >= left)
  IN Join(spans, start, LowerBound(spans, start, LAMBDA s : s.left >= right), left, right)

add_span_to_row(spans, left, right) ==
  LET start == LowerBound(spans, 1, LAMBDA s : s.right >= left)
  IN Join(spans, start, LowerBound(spans, start, LAMBDA s : s.left >= right + 1), left, right)

\* One turn of the loop of intersect_rows: what is left of the two sets, and the output.
IntersectSpans(s) ==
  LET swap == Head(s.b).left < Head(s.a).left
      x == IF swap THEN s.b ELSE s.a
      y == IF swap THEN s.a ELSE s.b
      right == Min({Head(x).right, Head(y).right}) IN
  IF Head(x).right <= Head(y).left THEN [a |-> Tail(x), b |-> y, out |-> s.out]
  ELSE [a |-> RestOf(x, right), b |-> RestOf(y, right),
        out |-> Append(s.out, [left |-> Head(y).left, right |-> right])]

SpanWalk == [a : Spans, b : Spans, out : Spans]

IntersectingSpans[s \in SpanWalk] ==
  IF s.a = <<>> \/ s.b = <<>> THEN s.out ELSE IntersectingSpans[IntersectSpans(s)]

intersect_rows(a, b) == IntersectingSpans[[a |-> a, b |-> b, out |-> <<>>]]

\* One turn of the loops of subtract_rows: pos is where the first span of a now begins.
SubtractSpan(s) ==
  LET span == Head(s.a)
      pos == Max({span.left, Head(s.b).right})
      out == IF Head(s.b).left > span.left
             THEN Append(s.out, [left |-> span.left, right |-> Head(s.b).left]) ELSE s.out IN
  IF s.b = <<>> \/ Head(s.b).left >= span.right
  THEN [a |-> Tail(s.a), b |-> s.b, out |-> Append(s.out, span)]
  ELSE IF pos >= span.right THEN [a |-> Tail(s.a), b |-> s.b, out |-> out]
  ELSE [a |-> [s.a EXCEPT ![1].left = pos], b |-> Tail(s.b), out |-> out]

SubtractingSpans[s \in SpanWalk] ==
  IF s.a = <<>> THEN s.out ELSE SubtractingSpans[SubtractSpan(s)]

subtract_rows(a, b) == SubtractingSpans[[a |-> a, b |-> b, out |-> <<>>]]

-----------------------------------------------------------------------------
\* add_rect, intersect and subtract walk along the rows: those before the iterator,
\* and those from it on.

\* merge_with_preceding_row, and on to the next row.
Push(before, row) ==
  IF before # <<>> /\ Last(before).bottom = row.top /\ Last(before).spans = row.spans
  THEN [before EXCEPT ![Len(before)].bottom = row.bottom]
  ELSE Append(before, row)

\* The end of a walk.
Joined(before, rows) == IF rows = <<>> THEN before
                        ELSE Push(before, Head(rows)) \o Tail(rows)

\* The row split at top or bottom: the part above, the one between, the one below.
Above(before, row, top) ==
  IF top > row.top THEN Append(before, [row EXCEPT !.bottom = top]) ELSE before
Between(row, top, bottom) == [row EXCEPT !.top = top, !.bottom = Min({@, bottom})]
Below(row, bottom, rows) ==
  IF bottom < row.bottom THEN <<[row EXCEPT !.top = bottom]>> \o rows ELSE rows

upper_bound(rows, y) == LowerBound(rows, 1, LAMBDA r : r.bottom > y)
UpTo(rows, y) == SubSeq(rows, 1, upper_bound(rows, y) - 1)
From(rows, y) == SubSeq(rows, upper_bound(rows, y), Len(rows))

\* A new row above the next one.
NewRow(rows, rect) ==
  [top |-> rect.top, spans |-> <<>>,
   bottom |-> IF rows = <<>> THEN rect.bottom ELSE Min({rect.bottom, Head(rows).top})]

\* One turn of the loop of add_rect: what has not been inserted yet is s.rect.
AddToRow(s) ==
  LET rect == s.rect
      fresh == s.rows = <<>> \/ rect.top < Head(s.rows).top
      row == IF fresh THEN NewRow(s.rows, rect) ELSE Head(s.rows)
      rest == IF fresh THEN s.rows ELSE Tail(s.rows)
      part == Between(row, rect.top, rect.bottom) IN
  [before |-> Push(Above(s.before, row, rect.top),
                   [part EXCEPT !.spans = add_span_to_row(@, rect.left, rect.right)]),
   rows |-> Below(row, rect.bottom, rest),
   rect |-> [rect EXCEPT !.top = part.bottom]]

AddWalk == [before : Rows, rows : Rows, rect : Rects]

Adding[s \in AddWalk] ==
  IF s.rect.top >= s.rect.bottom THEN Joined(s.before, s.rows) ELSE Adding[AddToRow(s)]

add_rect(rows, rect) ==
  IF is_empty(rect) THEN rows
  ELSE Adding[[before |-> UpTo(rows, rect.top), rows |-> From(rows, rect.top), rect |-> rect]]

\* One turn of the loop of intersect: what is left of the two regions, and the output.
IntersectRow(s) ==
  LET swap == Head(s.b).top < Head(s.a).top
      x == IF swap THEN s.b ELSE s.a
      y == IF swap THEN s.a ELSE s.b
      bottom == Min({Head(x).bottom, Head(y).bottom})
      spans == intersect_rows(Head(x).spans, Head(y).spans) IN
  IF Head(x).bottom <= Head(y).top THEN [a |-> Tail(x), b |-> y, out |-> s.out]
  ELSE [a |-> Rest(x, bottom), b |-> Rest(y, bottom),
        out |-> IF spans = <<>> THEN s.out
                ELSE Push(s.out, [top |-> Head(y).top, bottom |-> bottom, spans |-> spans])]

RegionWalk == [a : Rows, b : Rows, out : Rows]

Intersecting[s \in RegionWalk] ==
  IF s.a = <<>> \/ s.b = <<>> THEN s.out ELSE Intersecting[IntersectRow(s)]

intersect(a, b) == Intersecting[[a |-> a, b |-> b, out |-> <<>>]]

\* Slip: the search goes on in the row of b the rows of a have passed.
NextTop_Stale(b, top) == top

\* Where subtraction goes on once the rows of b left are b.
NextTop(b, top) == IF b = <<>> THEN top ELSE Head(b).top

\* One turn of the loop of subtract, at the first row left, the first of b and the line
\* top: a row above it is passed, a row of b above the row is, or they are subtracted.
SubtractRow(s) ==
  LET row == Head(s.rows)
      minus == Head(s.b)
      top == Max({s.top, row.top})
      part == Between(row, top, minus.bottom)
      spans == subtract_rows(row.spans, minus.spans)
      above == Above(s.before, row, top)
      passed == part.bottom >= minus.bottom IN
  IF row.bottom <= s.top
  THEN [s EXCEPT !.before = Push(@, row), !.rows = Tail(@)]
  ELSE IF top >= minus.bottom /\ s.top < row.top
  THEN [s EXCEPT !.b = Tail(@), !.top = NextTop(Tail(s.b), top)]
  ELSE [before |-> IF spans = <<>> THEN above ELSE Push(above, [part EXCEPT !.spans = spans]),
        rows |-> Below(row, minus.bottom, Tail(s.rows)),
        b |-> IF passed THEN Tail(s.b) ELSE s.b,
        top |-> IF passed THEN NextTop(Tail(s.b), part.bottom) ELSE part.bottom]

SubtractWalk == [before : Rows, rows : Rows, b : Rows, top : Int]

Subtracting[s \in SubtractWalk] ==
  IF s.rows = <<>> \/ s.b = <<>> THEN Joined(s.before, s.rows)
  ELSE Subtracting[SubtractRow(s)]

subtract(rows, b) ==
  IF b = <<>> THEN rows
  ELSE Subtracting[[before |-> UpTo(rows, Head(b).top), rows |-> From(rows, Head(b).top),
                    b |-> b, top |-> Head(b).top]]

translate(rows, dx, dy) ==
  [i \in DOMAIN rows |->
     [top |-> rows[i].top + dy, bottom |-> rows[i].bottom + dy,
      spans |-> [k \in DOMAIN rows[i].spans |->
                   [left |-> rows[i].spans[k].left + dx,
                    right |-> rows[i].spans[k].right + dx]]]]

-----------------------------------------------------------------------------
\* iterator

\* The span is also in the row before row i, which ends where it begins.
Continues(rows, i, span) == /\ i > 1 /\ i <= Len(rows)
                            /\ rows[i - 1].bottom = rows[i].top
                            /\ span \in Range(rows[i - 1].spans)
                            /\ span \in Range(rows[i].spans)

\* Slip: a rectangle ends with its first row.
RectAt_OneRow(rows, i, span) ==
  make_ltrb(span.left, rows[i].top, span.right, rows[i].bottom)

RectAt(rows, i, span) ==
  LET last == Min({j \in i .. Len(rows) : ~Continues(rows, j + 1, span)})
  IN make_ltrb(span.left, rows[i].top, span.right, rows[last].bottom)

\* One turn of advance: span k of row i is skipped if it continues one of the row before.
Advance(s) ==
  LET span == s.rows[s.i].spans[s.k] IN
  IF s.k > Len(s.rows[s.i].spans) THEN [s EXCEPT !.i = @ + 1, !.k = 1]
  ELSE IF Continues(s.rows, s.i, span) THEN [s EXCEPT !.k = @ + 1]
  ELSE [s EXCEPT !.k = @ + 1, !.out = Append(@, RectAt(s.rows, s.i, span))]

IterWalk == [rows : Rows, i : Nat \ {0}, k : Nat \ {0}, out : Seq(Rects)]

Iterating[s \in IterWalk] ==
  IF s.i > Len(s.rows) THEN s.out ELSE Iterating[Advance(s)]

\* The rectangles in the order in which the iterator comes to them.
Iterate(rows) == Iterating[[rows |-> rows, i |-> 1, k |-> 1, out |-> <<>>]]

RectsWalk == [rows : Rows, rects : Seq(Rects)]

AddingRects[s \in RectsWalk] ==
  IF s.rects = <<>> THEN s.rows
  ELSE AddingRects[[rows |-> add_rect(s.rows, Head(s.rects)), rects |-> Tail(s.rects)]]

add_rects(rows, rects) == AddingRects[[rows |-> rows, rects |-> rects]]
add_region(rows, other) == add_rects(rows, Iterate(other))

-----------------------------------------------------------------------------
\* What the rest of the program makes of regions.

\* screen_capturer_helper::take_invalid_region, on a grid of BlockSize.
Down(x) == x - (x % BlockSize)
Up(x) == Down(x + BlockSize - 1)

expand_to_grid(rows) ==
  LET rects == Iterate(rows) IN
  add_rects(<<>>, [k \in DOMAIN rects |->
    make_ltrb(Down(rects[k].left), Down(rects[k].top), Up(rects[k].right), Up(rects[k].bottom))])

take_invalid_region(rows, z) == intersect(expand_to_grid(rows), add_rect(<<>>, make_size(z)))

\* desktop_frame_rotation.cc; a rotation is counted in quarters of a turn.
rotate_size(z, rot) == IF rot \in {1, 3} THEN <<z[2], z[1]>> ELSE z
reverse_rotation(rot) == (4 - rot) % 4

rotate_rect(rect, z, rot) ==
  LET w == rect.right - rect.left  h == rect.bottom - rect.top IN
  CASE rot = 0 -> rect
    [] rot = 1 -> make_xywh(z[2] - rect.bottom, rect.left, h, w)
    [] rot = 2 -> make_xywh(z[1] - rect.right, z[2] - rect.bottom, w, h)
    [] rot = 3 -> make_xywh(rect.top, z[1] - rect.right, h, w)

\* Where a pixel of a screen comes to lie.
Turned(c, z, rot) == CASE rot = 0 -> c
                       [] rot = 1 -> <<z[2] - 1 - c[2], c[1]>>
                       [] rot = 2 -> <<z[1] - 1 - c[1], z[2] - 1 - c[2]>>
                       [] rot = 3 -> <<c[2], z[1] - 1 - c[1]>>

\* compare_row of the differ: rect.left is where the dirty blocks before x begin, x when
\* there are none, and then there is nothing to add.
Differs(changed, rect) == \E c \in changed : InRect(rect, c)

CompareBlock(s) ==
  LET next == Min({s.x + BlockSize, s.rect.right}) IN
  IF Differs(s.changed, [s.rect EXCEPT !.left = s.x, !.right = next])
  THEN [s EXCEPT !.x = next]
  ELSE [s EXCEPT !.x = next, !.rect.left = next,
                 !.rows = add_rect(@, [s.rect EXCEPT !.right = s.x])]

BlocksWalk == [rows : Rows, changed : SUBSET (Int \X Int), rect : Rects, x : Int]

ComparingBlocks[s \in BlocksWalk] ==
  IF s.x >= s.rect.right THEN add_rect(s.rows, s.rect) ELSE ComparingBlocks[CompareBlock(s)]

compare_row(rows, changed, rect) ==
  ComparingBlocks[[rows |-> rows, changed |-> changed, rect |-> rect, x |-> rect.left]]

\* compare_frames: the lines of blocks of what is left of the rectangle.
CompareLine(s) ==
  LET next == Min({s.rect.top + BlockSize, s.rect.bottom}) IN
  [s EXCEPT !.rect.top = next,
            !.rows = compare_row(@, s.changed, [s.rect EXCEPT !.bottom = next])]

LinesWalk == [rows : Rows, changed : SUBSET (Int \X Int), rect : Rects]

ComparingLines[s \in LinesWalk] ==
  IF s.rect.top >= s.rect.bottom THEN s.rows ELSE ComparingLines[CompareLine(s)]

compare_frames(changed, hint, z) ==
  ComparingLines[[rows |-> <<>>, changed |-> changed,
                  rect |-> intersect_rect(hint, make_size(z))]]
=============================================================================
