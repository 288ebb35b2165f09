---------------------------- MODULE MCGachaPage -----------------------------
(* Small instances of GachaPage for TLC. *)
EXTENDS GachaPage

CONSTANTS e1, e2

(* Rarities as an administrator may type them: no tier word, or several. *)
MCRaws == {{}, {"rare", "legendary"}}
=============================================================================
