------------------------- MODULE MCPriorityWindows -------------------------
(* Two neighbouring files; piece 2 is on their boundary.                    *)
EXTENDS PriorityWindows, TLC

BoundaryShared == <<{1, 2}, {2}>>
StreamSymmetry == Permutations(Streams)
=============================================================================
