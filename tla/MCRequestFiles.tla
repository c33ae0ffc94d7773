----------------------------- MODULE MCRequestFiles -----------------------------
(* Two requests whose hashes may be equal, for TLC.                        *)
EXTENDS RequestFiles, TLC

MCSymmetry == Permutations(Requests) \cup Permutations(Names)
================================================================================
