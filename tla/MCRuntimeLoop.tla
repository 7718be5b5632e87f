---------------------------- MODULE MCRuntimeLoop ----------------------------
(* Instances of RuntimeLoop for TLC: the calls are interchangeable, and so are *)
(* the releases.                                                               *)
EXTENDS RuntimeLoop, TLC

Interchangeable == Permutations(Calls) \cup Permutations(Releases)
=============================================================================
