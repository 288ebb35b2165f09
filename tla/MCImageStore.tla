---------------------------- MODULE MCImageStore ----------------------------
(* Small instances of ImageStore for TLC. *)
EXTENDS ImageStore, TLC

(* Requests are interchangeable, and owners. *)
Symmetry == Permutations(Requests) \cup Permutations(Owners)
=============================================================================
