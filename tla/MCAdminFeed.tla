----------------------------- MODULE MCAdminFeed -----------------------------
(* Small instances of AdminFeed for TLC. *)
EXTENDS AdminFeed, TLC

CONSTANTS d1, d2

(* One bulk pull of two. *)
Bulk == [d \in {d1, d2} |-> "bulk"]
=============================================================================
