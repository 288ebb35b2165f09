---------------------------- MODULE MCGachaPull -----------------------------
(* Small instances of GachaPull for TLC. *)
EXTENDS GachaPull, TLC

(* All items belong to one event. *)
MCEventOf == [i \in Items |-> CHOOSE e \in Events : TRUE]

(* Requests, accounts, and the items of one event are interchangeable. *)
Symmetry == Permutations(Requests) \cup Permutations(Users) \cup Permutations(Items)
=============================================================================
