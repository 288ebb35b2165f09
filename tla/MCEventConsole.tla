--------------------------- MODULE MCEventConsole ---------------------------
(* Small instances of EventConsole for TLC. *)
EXTENDS EventConsole, TLC

(* Ids, drafts, looks and handlers are interchangeable. *)
Symmetry ==
    Permutations(Events) \cup Permutations(Items) \cup Permutations(Drafts)
        \cup Permutations(Looks) \cup Permutations(Handlers)
=============================================================================
