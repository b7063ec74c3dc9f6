------------------------------ MODULE RegionOps ------------------------------
(***************************************************************************)
(* A region on which the operations of DesktopRegion are called one after  *)
(* the other, and the set of pixels it is meant to be.                     *)
(***************************************************************************)
EXTENDS DesktopRegion

CONSTANT Arguments   \* Arguments[z]: the regions that are passed, on a screen of size z

ASSUME ArgumentsAssumption == \A z \in Sizes : \A other \in Arguments[z] : IsRegion(other)

VARIABLES region, pixels, size

vars == <<region, pixels, size>>

CellsOf(rect) == (rect.left .. rect.right - 1) \X (rect.top .. rect.bottom - 1)

Init == size \in Sizes /\ region = <<>> /\ pixels = {}

AddRect(rect) == /\ region' = add_rect(region, rect)
                 /\ pixels' = pixels \cup CellsOf(rect)
                 /\ UNCHANGED size

SetRect(rect) == /\ region' = add_rect(<<>>, rect)
                 /\ pixels' = CellsOf(rect)
                 /\ UNCHANGED size

AddRegion(other) == /\ region' = add_region(region, other)
                    /\ pixels' = pixels \cup Area(other)
                    /\ UNCHANGED size

IntersectWith(other) == /\ region' = intersect(region, other)
                        /\ pixels' = pixels \cap Area(other)
                        /\ UNCHANGED size

Subtract(other) == /\ region' = subtract(region, other)
                   /\ pixels' = pixels \ Area(other)
                   /\ UNCHANGED size

\* No further than the screen: a bound.
Translate(dx, dy) == /\ \A c \in pixels : <<c[1] + dx, c[2] + dy>> \in Cells(size)
                     /\ region' = translate(region, dx, dy)
                     /\ pixels' = {<<c[1] + dx, c[2] + dy>> : c \in pixels}
                     /\ UNCHANGED size

TakeInvalidRegion ==
  /\ region' = take_invalid_region(region, size)
  /\ pixels' = {c \in Cells(size) : \E p \in pixels :
                  Down(p[1]) = Down(c[1]) /\ Down(p[2]) = Down(c[2])}
  /\ UNCHANGED size

Rotate(rot) ==
  LET rects == Iterate(region) IN
  /\ rotate_size(size, rot) \in Sizes
  /\ size' = rotate_size(size, rot)
  /\ region' = add_rects(<<>>, [k \in DOMAIN rects |-> rotate_rect(rects[k], size, rot)])
  /\ pixels' = {Turned(c, size, rot) : c \in pixels}

\* The differ's new region, of a frame in which `changed` differs, for one hint.
CompareFrames(changed, hint) ==
  /\ region' = compare_frames(changed, hint, size)
  /\ pixels' = {c \in CellsOf(hint) : \E p \in changed \cap CellsOf(hint) :
                  /\ (p[1] - hint.left) \div BlockSize = (c[1] - hint.left) \div BlockSize
                  /\ (p[2] - hint.top) \div BlockSize = (c[2] - hint.top) \div BlockSize}
  /\ UNCHANGED size

Next == \/ \E rect \in RectsIn(size) : AddRect(rect) \/ SetRect(rect)
        \/ \E other \in Arguments[size] :
             AddRegion(other) \/ IntersectWith(other) \/ Subtract(other)
        \/ \E dx, dy \in -1 .. 1 : Translate(dx, dy)
        \/ TakeInvalidRegion
        \/ \E rot \in 0 .. 3 : Rotate(rot)
        \/ /\ region = <<>>
           /\ \E other \in Arguments[size], hint \in RectsIn(size) :
                ~is_empty(hint) /\ CompareFrames(Area(other), hint)

Spec == Init /\ [][Next]_vars
-----------------------------------------------------------------------------
\* Properties

\* What the operations rely on holds whatever has been called: rows and spans are in
\* order, none is empty, and spans do not touch.
TypeOK == IsRegion(region) /\ pixels \subseteq Int \X Int /\ size \in Sizes

\* After any sequence of operations the region is the set of pixels that set algebra,
\* the grid, the rotation or the comparison of the frames gives.
AreaIsExact == Area(region) = pixels

\* The iterator hands out every pixel of the region once and no other: frames are
\* copied rectangle by rectangle, and none is left out or copied twice.  The
\* rectangles depend on the pixels alone, not on how the region came to be.
IteratorIsPartition ==
  LET rects == Iterate(region) IN
  /\ \A k \in DOMAIN rects : CellsOf(rects[k]) \subseteq pixels
  /\ \A c \in pixels : \E k \in DOMAIN rects : InRect(rects[k], c)
  /\ \A j, k \in DOMAIN rects : j # k => CellsOf(rects[j]) \cap CellsOf(rects[k]) = {}
  /\ \A other \in Arguments[size] : Area(other) = pixels => Iterate(other) = rects

\* equals() compares rows and spans one by one: two regions of the same pixels have
\* the same ones, however they were made.
EqualsIsSameArea == \A other \in Arguments[size] : Area(other) = pixels => other = region
=============================================================================
