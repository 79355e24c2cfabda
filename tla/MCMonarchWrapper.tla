--------------------------- MODULE MCMonarchWrapper ---------------------------
(***************************************************************************)
(* MonarchWrapper on small instances.  The writers are alike, so the       *)
(* streams may be permuted; runs with temporal properties do not use it.   *)
(***************************************************************************)
EXTENDS MonarchWrapper, TLC

StreamSymmetry == Permutations(Streams)

=============================================================================
