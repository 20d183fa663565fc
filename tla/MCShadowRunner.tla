--------------------------- MODULE MCShadowRunner ----------------------------
(***************************************************************************)
(* Instances of ShadowRunner for TLC.  Runners and jobs are model values.  *)
(***************************************************************************)
EXTENDS ShadowRunner, TLC

RunnerSymmetry == Permutations(Runners)

=============================================================================
