------------------------------ MODULE MCTetris ------------------------------
(* Small boards for TLC. *)
EXTENDS TetrisProperties, FiniteSets

CONSTANT MaxCells   \* the stacks that are explored further hold no more cells

StackBound == Cardinality(board) <= MaxCells
=============================================================================
