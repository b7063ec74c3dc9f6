----------------------------- MODULE MCRegionOps -----------------------------
EXTENDS RegionOps

\* Three rows of three, for what happens between rows, and a line of five pixels, for
\* what happens between spans, which a rotation turns into a column.
Screens == {<<3, 3>>, <<5, 1>>, <<1, 5>>}

\* The maximal runs of a set of columns, from left to right.
Runs(columns) ==
  LET starts == {l \in columns : l - 1 \notin columns}
      end(l) == CHOOSE r \in {x + 1 : x \in columns} :
                  r > l /\ r \notin columns /\ l .. r - 1 \subseteq columns
  IN SetToSortSeq({[left |-> l, right |-> end(l)] : l \in starts}, LAMBDA s, t : s.left < t.left)

\* The region of a set of pixels: lines with the same columns below each other are one row.
RegionOf(cells) ==
  LET lines == {c[2] : c \in cells}
      columns(y) == {c[1] : c \in {c \in cells : c[2] = y}}
      tops == {y \in lines : columns(y - 1) # columns(y)}
      end(t) == CHOOSE b \in {y + 1 : y \in lines} :
                  b > t /\ columns(b) # columns(t) /\ \A y \in t .. b - 1 : columns(y) = columns(t)
  IN SetToSortSeq({[top |-> t, bottom |-> end(t), spans |-> Runs(columns(t))] : t \in tops},
                  LAMBDA s, t : s.top < t.top)

AllRegions == [z \in Screens |-> {RegionOf(cells) : cells \in SUBSET Cells(z)}]
=============================================================================
