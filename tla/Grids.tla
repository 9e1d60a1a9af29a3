-------------------------------- MODULE Grids --------------------------------
(***************************************************************************)
(* How SRSV2 divides a picture: the grid of coding tree units (ctu64.rs)    *)
(* and the coarser grid of superchunks (superchunk.rs).  Both cut the luma  *)
(* plane into squares of one edge, in raster order, clip the last column    *)
(* and row to the picture, and halve the bounds for the chroma planes; they *)
(* differ in the edges and in the most regions a picture may have.          *)
(*                                                                         *)
(* A plane's bounds are half open: x0 .. x1 - 1 and y0 .. y1 - 1.  The sums *)
(* the code checks for overflow cannot overflow once Dimensions holds.      *)
(***************************************************************************)
EXTENDS Integers, FiniteSets, FiniteSetsExt

CONSTANTS
    MaxDimension,   \* MAX_DIMENSION
    MaxSamples      \* MAX_LUMA_SAMPLES

\* CtuSize::edge_luma and SrsV2SuperchunkSize::edge_luma
CtuEdges == {16, 32, 64}
SuperchunkEdges == {128, 256, 512, 1024}

\* MAX_CTU_COUNT and MAX_SUPERCHUNK_COUNT, by the edge of the grid
MaxRegions(edge) == IF edge \in CtuEdges THEN 262144 ELSE 8192

\* div_ceil_u32
DivCeil(n, d) == (n + (d - 1)) \div d
Least(a, b) == IF a <= b THEN a ELSE b

\* validate_frame_dimensions
Dimensions(width, height) ==
    /\ width \in 1 .. MaxDimension
    /\ height \in 1 .. MaxDimension
    /\ width * height <= MaxSamples

\* CtuGrid::new and SuperchunkGrid::new: the grid, and whether it is given out
Grid(width, height, edge) ==
    LET cols == DivCeil(width, edge)
        rows == DivCeil(height, edge)
    IN  [width |-> width, height |-> height, edge |-> edge,
         cols |-> cols, rows |-> rows, count |-> cols * rows]
GridOk(width, height, edge) ==
    /\ Dimensions(width, height)
    /\ Grid(width, height, edge).count # 0 /\ Grid(width, height, edge).count <= MaxRegions(edge)

\* address_for_index, for an index below the count
AddressOf(grid, index) ==
    [x |-> index % grid.cols, y |-> index \div grid.cols, index |-> index]

\* the checks of bounds_for_address
AddressOk(grid, address) ==
    /\ address.x < grid.cols /\ address.y < grid.rows /\ address.index < grid.count
    /\ address.y * grid.cols + address.x = address.index

\* bounds_for_address
LumaBounds(grid, address) ==
    LET x0 == address.x * grid.edge
        y0 == address.y * grid.edge
    IN  [x0 |-> x0, y0 |-> y0,
         x1 |-> Least(x0 + grid.edge, grid.width), y1 |-> Least(y0 + grid.edge, grid.height)]

\* chroma_x0_yuv420 and its three neighbours
ChromaBounds(luma) ==
    [x0 |-> luma.x0 \div 2, y0 |-> luma.y0 \div 2,
     x1 |-> DivCeil(luma.x1, 2), y1 |-> DivCeil(luma.y1, 2)]

\* bounds_for_index: of the luma plane and of the chroma planes
LumaOf(grid, index) == LumaBounds(grid, AddressOf(grid, index))
ChromaOf(grid, index) == ChromaBounds(LumaOf(grid, index))

\* width and height of the bounds of a plane
Area(bounds) == (bounds.x1 - bounds.x0) * (bounds.y1 - bounds.y0)

\* CtuGrid::stats
StatsOf(grid) ==
    LET indices == 0 .. grid.count - 1
        Size(i) == Area(LumaOf(grid, i))
    IN  [cut |-> Cardinality({i \in indices : Size(i) < grid.edge * grid.edge}),
         total |-> MapThenSumSet(Size, indices),
         largest |-> Max({Size(i) : i \in indices})]
===============================================================================
