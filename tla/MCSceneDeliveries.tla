--------------------------- MODULE MCSceneDeliveries ---------------------------
(* Small instances of SceneDeliveries for TLC. *)
EXTENDS SceneDeliveries, TLC

CONSTANTS raid, sub, left, right

\* The pages show the same scene in the same way.
PageSymmetry == Permutations(Pages)
================================================================================
