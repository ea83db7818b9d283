---------------------------- MODULE MCReadModels ----------------------------
(* Small instances of ReadModels for TLC. *)
EXTENDS ReadModels
Mixed == {{"stock", "rebate"}}
AllEdits == {"flip", "rename", "reassign", "armour", "claim", "review", "undo", "mission",
             "ledger", "delete"}
=============================================================================
