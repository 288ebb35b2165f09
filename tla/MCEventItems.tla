---------------------------- MODULE MCEventItems ----------------------------
(* Small instances of EventItems for TLC. *)
EXTENDS EventItems, TLC

(* Items, labels, readers and administrators are interchangeable. *)
Symmetry == Permutations(Items) \cup Permutations(Labels) \cup Permutations(Readers) \cup Permutations(Admins)
=============================================================================
