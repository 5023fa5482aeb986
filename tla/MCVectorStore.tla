--------------------------- MODULE MCVectorStore ---------------------------
(* Small instances of VectorStore for TLC. *)
EXTENDS VectorStore, TLC

CONSTANTS e1, e2, e3, e4

MCEvents == {e1, e2, e3, e4}

Symmetry == Permutations(Events)

=============================================================================
