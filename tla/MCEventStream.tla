---- MODULE MCEventStream ----
(* Two sessions of one client, alike, and requests that are alike. *)
EXTENDS EventStream, TLC
CONSTANTS s1, s2, c1
OneClient == [x \in Sessions |-> c1]
StreamSymmetry == Permutations(Sessions) \cup Permutations(Requests)
====
