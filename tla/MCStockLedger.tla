--------------------------- MODULE MCStockLedger ---------------------------
(* A small instance of StockLedger for TLC.                                *)
EXTENDS StockLedger

\* Boards of one tier recycle into an item that is also hunted.
Recorded == {[item |-> "board", source |-> "short", qty |-> 2],
             [item |-> "cube", source |-> "hunt", qty |-> 2]}
Recycling == {<<"board", "cube">>}

\* Every row recorded and none switched off: what is left to the operations.
RecordedSpec == SInit /\ loot = Recorded /\ [][LootNext \/ ListingNext]_svars
=============================================================================
