--------------------------- MODULE MCUsersConsole ---------------------------
(* Small instances of UsersConsole for TLC. *)
EXTENDS UsersConsole, TLC

CONSTANTS u1, u2

(* Everyone, and a search that finds one of two. *)
TwoSearches == {{u1, u2}, {u1}}

(* One account, which the search does not find, or two. *)
OneOrTwo == {<<u2>>, <<u2, u1>>}

(* Handlers are interchangeable. *)
Symmetry == Permutations(Handlers)
=============================================================================
