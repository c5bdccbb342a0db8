-------------------------- MODULE MCPieceDelivery --------------------------
(* Two readers of one piece.  Liveness is checked, so there is no symmetry. *)
EXTENDS PieceDelivery, TLC
=============================================================================
