--------------------------- MODULE MCAuthSession ----------------------------
(* Small instances of AuthSession for TLC. *)
EXTENDS AuthSession, TLC

CONSTANTS t1, t2, c1, c2, c3

OneTab == [c \in Calls |-> t1]
TwoTabs == [c \in Calls |-> IF c = c1 THEN t1 ELSE t2]

(* Calls of one tab, and logins, are interchangeable. *)
Symmetry == Permutations(Calls) \cup Permutations(Logins)
=============================================================================
