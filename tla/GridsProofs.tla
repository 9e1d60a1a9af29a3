----------------------------- MODULE GridsProofs -----------------------------
(***************************************************************************)
(* What the grids of Grids promise for every picture and every edge: each   *)
(* index has a valid address, the regions cut the luma plane and the chroma *)
(* plane without gap or overlap, and the caps on the number of regions      *)
(* never refuse a picture whose dimensions are accepted.                    *)
(***************************************************************************)
EXTENDS Grids, TLAPS

Edges == CtuEdges \cup SuperchunkEdges

\* a sample of a plane lies in the region of those bounds
In(bounds, px, py) == px \in bounds.x0 .. bounds.x1 - 1 /\ py \in bounds.y0 .. bounds.y1 - 1

-------------------------------------------------------------------------------
(* Quotients and remainders.                                               *)

\* A row-major index splits into its row and its column.
LEMMA SplitIndex ==
    ASSUME NEW cols \in Nat \ {0}, NEW index \in Nat
    PROVE  /\ index \div cols \in Nat
           /\ index % cols \in 0 .. cols - 1
           /\ (index \div cols) * cols + (index % cols) = index
BY SMT

\* A row and a column give back themselves from their index.
LEMMA JoinIndex ==
    ASSUME NEW cols \in Nat \ {0}, NEW column \in 0 .. cols - 1, NEW row \in Nat
    PROVE  /\ ((row * cols + column) % cols) = column
           /\ (row * cols + column) \div cols = row
BY SMT

\* The row of an index below the count is one of the rows.
LEMMA RowInGrid ==
    ASSUME NEW cols \in Nat \ {0}, NEW rows \in Nat \ {0}, NEW index \in 0 .. cols * rows - 1
    PROVE  index \div cols \in 0 .. rows - 1
<1> DEFINE row == index \div cols
<1>1. row \in Nat /\ row * cols <= index
    BY SplitIndex, SMT
<1>2. index < rows * cols
    BY SMT
<1>3. ASSUME row >= rows PROVE FALSE
    <2>1. row * cols >= rows * cols
        BY <1>1, <1>3, SMT
    <2> QED
        BY <1>1, <1>2, <2>1, SMT
<1> QED
    BY <1>1, <1>3, SMT

\* The index of a row and a column is below the count.
LEMMA IndexInGrid ==
    ASSUME NEW cols \in Nat \ {0}, NEW rows \in Nat \ {0},
           NEW column \in 0 .. cols - 1, NEW row \in 0 .. rows - 1
    PROVE  row * cols + column \in 0 .. cols * rows - 1
<1>1. (row + 1) * cols <= rows * cols
    BY SMT
<1>2. row * cols + column < (row + 1) * cols /\ row * cols + column \in Nat
    BY SMT
<1> QED
    BY <1>1, <1>2, SMT

\* Both, for the indices of a grid.
LEMMA JoinInGrid ==
    ASSUME NEW cols \in Nat \ {0}, NEW rows \in Nat \ {0},
           NEW column \in 0 .. cols - 1, NEW row \in 0 .. rows - 1
    PROVE  /\ row * cols + column \in 0 .. cols * rows - 1
           /\ ((row * cols + column) % cols) = column
           /\ (row * cols + column) \div cols = row
<1>1. row \in Nat
    BY SMT
<1> QED
    BY <1>1, IndexInGrid, JoinIndex

LEMMA SplitInGrid ==
    ASSUME NEW cols \in Nat \ {0}, NEW rows \in Nat \ {0}, NEW index \in 0 .. cols * rows - 1
    PROVE  /\ index \div cols \in Nat
           /\ index % cols \in Nat
           /\ (index \div cols) * cols + (index % cols) = index
<1>1. index \in Nat
    BY SMT
<1>2. index % cols \in 0 .. cols - 1
    BY <1>1, SplitIndex
<1>3. index % cols \in Nat
    BY <1>2, SMT
<1> QED
    BY <1>1, <1>3, SplitIndex

-------------------------------------------------------------------------------
(* One direction of a plane.                                               *)

\* div_ceil_u32 of a length by an edge: at least one region, and the regions
\* but the last do not reach the end.
LEMMA CeilBounds ==
    ASSUME NEW length \in Nat \ {0}, NEW edge \in Edges
    PROVE  /\ DivCeil(length, edge) \in Nat \ {0}
           /\ \A k \in 0 .. DivCeil(length, edge) - 1 :
                 k * edge \in Nat /\ k * edge < length
BY SMT DEF Edges, CtuEdges, SuperchunkEdges, DivCeil

\* A position below the length lies in the region of its quotient.
LEMMA RegionOfPosition ==
    ASSUME NEW length \in Nat \ {0}, NEW edge \in Edges, NEW p \in 0 .. length - 1
    PROVE  /\ p \div edge \in 0 .. DivCeil(length, edge) - 1
           /\ p \in (p \div edge) * edge .. Least((p \div edge) * edge + edge, length) - 1
BY SMT DEF Edges, CtuEdges, SuperchunkEdges, DivCeil, Least

\* ... and in no other.
LEMMA OneRegionOfPosition ==
    ASSUME NEW length \in Nat \ {0}, NEW edge \in Edges, NEW k \in Nat, NEW p \in Nat,
           p \in k * edge .. Least(k * edge + edge, length) - 1
    PROVE  k = p \div edge
BY SMT DEF Edges, CtuEdges, SuperchunkEdges, Least

\* The same of a chroma plane, whose bounds are the luma bounds halved: the
\* edges are even, so the halves meet.
LEMMA RegionOfChroma ==
    ASSUME NEW length \in Nat \ {0}, NEW edge \in Edges, NEW p \in 0 .. DivCeil(length, 2) - 1
    PROVE  LET k == (2 * p) \div edge
           IN  /\ k \in 0 .. DivCeil(length, edge) - 1
               /\ p \in (k * edge) \div 2 .. DivCeil(Least(k * edge + edge, length), 2) - 1
BY SMT DEF Edges, CtuEdges, SuperchunkEdges, DivCeil, Least

LEMMA OneRegionOfChroma ==
    ASSUME NEW length \in Nat \ {0}, NEW edge \in Edges, NEW k \in Nat, NEW p \in Nat,
           p \in (k * edge) \div 2 .. DivCeil(Least(k * edge + edge, length), 2) - 1
    PROVE  k = (2 * p) \div edge
BY SMT DEF Edges, CtuEdges, SuperchunkEdges, DivCeil, Least

\* The most regions a direction of an accepted picture has, and a picture.
LEMMA CeilCap ==
    ASSUME NEW length \in Nat \ {0}, length <= 8192, NEW edge \in Edges
    PROVE  /\ edge \in CtuEdges => DivCeil(length, edge) <= 512
           /\ edge \in SuperchunkEdges => DivCeil(length, edge) <= 64
BY SMT DEF Edges, CtuEdges, SuperchunkEdges, DivCeil

LEMMA ProductCap ==
    ASSUME NEW cap \in Nat, NEW a \in Nat \ {0}, NEW b \in Nat \ {0}, a <= cap, b <= cap
    PROVE  a * b # 0 /\ a * b <= cap * cap
<1>1. a * b <= cap * b /\ cap * b <= cap * cap /\ a * b >= b
    BY SMT
<1> QED
    BY <1>1, SMT

-------------------------------------------------------------------------------
(* The grid.                                                               *)

\* Every index below the count has an address that the checks of
\* bounds_for_address accept: bounds_for_index fails for none of them.
THEOREM EveryIndexHasBounds ==
    ASSUME NEW width \in Nat \ {0}, NEW height \in Nat \ {0}, NEW edge \in Edges,
           NEW index \in 0 .. Grid(width, height, edge).count - 1
    PROVE  LET grid == Grid(width, height, edge)
           IN  AddressOk(grid, AddressOf(grid, index))
<1> DEFINE cols == DivCeil(width, edge)
           rows == DivCeil(height, edge)
<1>1. cols \in Nat \ {0} /\ rows \in Nat \ {0}
    BY CeilBounds
<1>2. index \in 0 .. cols * rows - 1
    BY DEF Grid
<1>3. index \in Nat
    BY <1>1, <1>2, SMT
<1>4. /\ index \div cols \in Nat
      /\ index % cols \in 0 .. cols - 1
      /\ (index \div cols) * cols + (index % cols) = index
    BY <1>1, <1>3, SplitIndex
<1>5. index \div cols \in 0 .. rows - 1
    BY <1>1, <1>2, RowInGrid
<1> HIDE DEF cols, rows
<1>6. (index % cols) < cols /\ index \div cols < rows /\ index < cols * rows
    BY <1>1, <1>2, <1>4, <1>5, SMT
<1> QED
    BY <1>4, <1>6 DEF Grid, AddressOk, AddressOf, cols, rows

\* The caps never refuse a picture whose dimensions are accepted: at most
\* 512 by 512 coding tree units, or 64 by 64 superchunks.
THEOREM EveryPictureHasAGrid ==
    ASSUME MaxDimension \in Nat, MaxDimension <= 8192,
           NEW width \in Nat, NEW height \in Nat, Dimensions(width, height), NEW edge \in Edges
    PROVE  GridOk(width, height, edge)
<1> DEFINE cols == DivCeil(width, edge)
           rows == DivCeil(height, edge)
<1>1. width # 0 /\ width <= 8192 /\ height # 0 /\ height <= 8192
    BY SMT DEF Dimensions
<1>2. cols \in Nat \ {0} /\ rows \in Nat \ {0}
    BY <1>1, CeilBounds
<1>3. cols * rows # 0 /\ cols * rows <= MaxRegions(edge)
    <2>1. CASE edge \in CtuEdges
        <3>1. cols <= 512 /\ rows <= 512
            BY <1>1, <2>1, CeilCap
        <3>2. cols * rows # 0 /\ cols * rows <= 512 * 512
            <4> HIDE DEF cols, rows
            <4> QED  BY <1>2, <3>1, ProductCap, SMT
        <3> QED
            BY <2>1, <3>2, SMT DEF MaxRegions
    <2>2. CASE edge \in SuperchunkEdges
        <3>1. cols <= 64 /\ rows <= 64
            BY <1>1, <2>2, CeilCap
        <3>2. cols * rows # 0 /\ cols * rows <= 64 * 64
            <4> HIDE DEF cols, rows
            <4> QED  BY <1>2, <3>1, ProductCap, SMT
        <3>3. MaxRegions(edge) = 8192
            BY <2>2, SMT DEF MaxRegions, CtuEdges, SuperchunkEdges
        <3> HIDE DEF cols, rows
        <3> QED
            BY <1>2, <3>2, <3>3, SMT
    <2> QED
        BY <2>1, <2>2 DEF Edges
<1> QED
    BY <1>3, SMT DEF GridOk, Grid

\* The regions cut the luma plane: each sample lies in the region of exactly
\* one index.
THEOREM EverySampleInOneRegion ==
    ASSUME NEW width \in Nat \ {0}, NEW height \in Nat \ {0}, NEW edge \in Edges,
           NEW px \in 0 .. width - 1, NEW py \in 0 .. height - 1
    PROVE  LET grid == Grid(width, height, edge)
           IN  /\ \E i \in 0 .. grid.count - 1 : In(LumaOf(grid, i), px, py)
               /\ \A i, j \in 0 .. grid.count - 1 :
                     In(LumaOf(grid, i), px, py) /\ In(LumaOf(grid, j), px, py) => i = j
<1> DEFINE grid == Grid(width, height, edge)
           cols == DivCeil(width, edge)
           rows == DivCeil(height, edge)
           column == px \div edge
           row == py \div edge
           here == row * cols + column
<1>1. cols \in Nat \ {0} /\ rows \in Nat \ {0}
    BY CeilBounds
<1>2. /\ column \in 0 .. cols - 1
      /\ px \in column * edge .. Least(column * edge + edge, width) - 1
      /\ row \in 0 .. rows - 1
      /\ py \in row * edge .. Least(row * edge + edge, height) - 1
    BY RegionOfPosition
<1>3. /\ here \in 0 .. cols * rows - 1
      /\ (here % cols) = column
      /\ here \div cols = row
    <2> HIDE DEF cols, rows, column, row
    <2> QED  BY <1>1, <1>2, JoinInGrid
<1>4. In(LumaOf(grid, here), px, py) /\ here \in 0 .. grid.count - 1
    <2> HIDE DEF cols, rows, column, row, here
    <2> QED  BY <1>2, <1>3 DEF LumaOf, LumaBounds, AddressOf, Grid, In, cols, rows
<1>5. ASSUME NEW i \in 0 .. grid.count - 1, In(LumaOf(grid, i), px, py)
      PROVE  i = here
    <2>1. i \in 0 .. cols * rows - 1
        BY DEF Grid
    <2> DEFINE x == i % cols
               y == i \div cols
    <2>2. x \in Nat /\ y \in Nat /\ y * cols + x = i
        <3> HIDE DEF cols, rows
        <3> QED  BY <1>1, <2>1, SplitInGrid
    <2>3. /\ px \in x * edge .. Least(x * edge + edge, width) - 1
          /\ py \in y * edge .. Least(y * edge + edge, height) - 1
        BY <1>5 DEF LumaOf, LumaBounds, AddressOf, Grid, In
    <2>4. x = column /\ y = row
        <3> HIDE DEF x, y
        <3> QED  BY <2>2, <2>3, OneRegionOfPosition
    <2> QED
        BY <2>2, <2>4
<1> QED
    BY <1>4, <1>5

\* They cut each chroma plane, of half the width and height rounded up, in the
\* same way, odd dimensions included.
THEOREM EveryChromaSampleInOneRegion ==
    ASSUME NEW width \in Nat \ {0}, NEW height \in Nat \ {0}, NEW edge \in Edges,
           NEW px \in 0 .. DivCeil(width, 2) - 1, NEW py \in 0 .. DivCeil(height, 2) - 1
    PROVE  LET grid == Grid(width, height, edge)
           IN  /\ \E i \in 0 .. grid.count - 1 : In(ChromaOf(grid, i), px, py)
               /\ \A i, j \in 0 .. grid.count - 1 :
                     In(ChromaOf(grid, i), px, py) /\ In(ChromaOf(grid, j), px, py) => i = j
<1> DEFINE grid == Grid(width, height, edge)
           cols == DivCeil(width, edge)
           rows == DivCeil(height, edge)
           column == (2 * px) \div edge
           row == (2 * py) \div edge
           here == row * cols + column
<1>1. cols \in Nat \ {0} /\ rows \in Nat \ {0}
    BY CeilBounds
<1>2. /\ column \in 0 .. cols - 1
      /\ px \in (column * edge) \div 2 .. DivCeil(Least(column * edge + edge, width), 2) - 1
      /\ row \in 0 .. rows - 1
      /\ py \in (row * edge) \div 2 .. DivCeil(Least(row * edge + edge, height), 2) - 1
    BY RegionOfChroma
<1>3. px \in Nat /\ py \in Nat
    <2>1. DivCeil(width, 2) \in Nat /\ DivCeil(height, 2) \in Nat
        BY SMT DEF DivCeil
    <2> QED
        BY <2>1, SMT
<1>4. /\ here \in 0 .. cols * rows - 1
      /\ (here % cols) = column
      /\ here \div cols = row
    <2>1. column \in 0 .. cols - 1 /\ row \in 0 .. rows - 1
        BY <1>2
    <2> HIDE DEF cols, rows, column, row
    <2> QED  BY <1>1, <2>1, JoinInGrid
<1>5. In(ChromaOf(grid, here), px, py) /\ here \in 0 .. grid.count - 1
    <2> HIDE DEF cols, rows, column, row, here
    <2> QED  BY <1>2, <1>4 DEF ChromaOf, ChromaBounds, LumaOf, LumaBounds, AddressOf, Grid, In, cols, rows
<1>6. ASSUME NEW i \in 0 .. grid.count - 1, In(ChromaOf(grid, i), px, py)
      PROVE  i = here
    <2>1. i \in 0 .. cols * rows - 1
        BY DEF Grid
    <2> DEFINE x == i % cols
               y == i \div cols
    <2>2. x \in Nat /\ y \in Nat /\ y * cols + x = i
        <3> HIDE DEF cols, rows
        <3> QED  BY <1>1, <2>1, SplitInGrid
    <2>3. /\ px \in (x * edge) \div 2 .. DivCeil(Least(x * edge + edge, width), 2) - 1
          /\ py \in (y * edge) \div 2 .. DivCeil(Least(y * edge + edge, height), 2) - 1
        BY <1>6 DEF ChromaOf, ChromaBounds, LumaOf, LumaBounds, AddressOf, Grid, In
    <2>4. x = column /\ y = row
        <3> HIDE DEF x, y
        <3> QED  BY <1>3, <2>2, <2>3, OneRegionOfChroma
    <2> QED
        BY <2>2, <2>4
<1> QED
    BY <1>5, <1>6
===============================================================================
