---- MODULE StockLedger ----
(***************************************************************************)
(* The stock ledger of the analytics service: recorded loot is the         *)
(* acquisition base, and listings, conversions, private sales and removals *)
(* add signed movements to it.  An outflow draws on every open source in   *)
(* proportion to what the source still holds.  Quantities are counted in   *)
(* units of trade-terminal value, so a conversion is one to one.  Every    *)
(* operation is one transaction of the single writer, but the direct sale  *)
(* of an equipment row, which reads on a reader connection first.          *)
(***************************************************************************)
EXTENDS Integers, Sequences, FiniteSets, FiniteSetsExt

CONSTANTS
    Items,        \* fungible loot, by canonical item name
    Equipment,    \* inventory rows, each one indivisible
    Known,        \* provenances an activity can claim: tiers, hunts, quest runs
    Unattributed, \* the provenance of stock of unknown origin
    LootRows,     \* [item, source, qty]: the recorded loot rows there can be
    Recipes,      \* <<source item, target item>> pairs that are recycled
    Ammo,         \* the items that convert into liquid Universal Ammo
    Quantities,   \* the quantities an operation is asked for
    Charges,      \* whether a fee or a result may be nonzero: a set of BOOLEAN
    MaxFacts,     \* bound: operations recorded
    MaxEdits,     \* bound: loot rows switched and money rows deleted by hand
    NoItem

ASSUME StockAssumption ==
    /\ Unattributed \notin Known
    /\ NoItem \notin Items \cup Equipment
    /\ Items \cap Equipment = {}
    /\ LootRows \subseteq [item : Items, source : Known \cup {Unattributed},
                           qty : Nat \ {0}]
    /\ Ammo \subseteq Items /\ Charges \subseteq BOOLEAN
    /\ IsFiniteSet(Known) /\ IsFiniteSet(LootRows)
    /\ Recipes \subseteq {p \in Items \X Items : p[1] # p[2]}
    /\ Quantities \subseteq Nat \ {0}

VARIABLES
    loot,    \* the loot rows not deactivated
    moves,   \* stock_movements: [ref, kind, item, source, qty]
    facts,   \* the operations recorded so far, in order of creation
    ledger,  \* market rows of the money ledger: [ref, role]
    equip,   \* the state of each inventory row
    selling, \* the inventory row a direct sale has read and not yet written
    edits

svars == <<loot, moves, facts, ledger, equip, selling, edits>>

Sources == Known \cup {Unattributed}
Roles == {"fee", "sale", "saleFee", "gain"}
Refs == 1..MaxFacts
Fact == [kind : {"listing", "trade", "private", "conversion", "removal"},
         subject : Items \cup Equipment, qty : Nat, attributed : Nat,
         status : {"pending", "sold", "expired", "done"},
         owns : SUBSET Roles, undone : BOOLEAN]

----------------------------------------------------------------------------
Total(rows) == MapThenSumSet(LAMBDA r : r.qty, rows)

RowsOf(f) == {m \in moves : m.ref = f}

\* one source's position: recorded loot and every signed movement
Bucket(i, s) ==
    Total({r \in loot : r.item = i /\ r.source = s})
    + Total({m \in moves : m.item = i /\ m.source = s})

\* item_positions: the sources that are open, and what each still holds
item_positions(i) ==
    LET bucket == [s \in Sources |-> Bucket(i, s)]
    IN [s \in {s \in Sources : bucket[s] > 0} |-> bucket[s]]

\* raw_position: the item as the ledger states it, nothing filtered
RawPosition(i) == Total({r \in loot : r.item = i}) + Total({m \in moves : m.item = i})

SumOver(f, S) == MapThenSumSet(LAMBDA s : f[s], S)

\* allocate: each open source gives in proportion to what it holds, and what
\* no position covers is the excess, unattributed
allocate(position, q) ==
    LET open == DOMAIN position
        available == SumOver(position, open)
        attributable == IF q < available THEN q ELSE available
        share == [s \in Sources |-> IF s \in open
                                    THEN (attributable * position[s]) \div available ELSE 0]
    IN [leaves |-> [share EXCEPT ![Unattributed] = @ + (q - attributable)],
        attributed |-> SumOver(share, Known),
        excess |-> q - attributable,
        whole |-> \A s \in open : (attributable * position[s]) % available = 0]

\* the plans whose shares are whole numbers of the unit
Plans(i, q) == {plan \in {allocate(item_positions(i), q)} : plan.whole}

\* insert_movement for every allocation
Rows(f, kind, plan, on, sign) ==
    {[ref |-> f, kind |-> kind, item |-> on, source |-> s, qty |-> sign * plan.leaves[s]] :
        s \in {s \in Sources : plan.leaves[s] > 0}}

\* record_opening_balance: what the outflow proves was held
OpeningBalance(f, plan, i) ==
    IF plan.excess = 0 THEN {}
    ELSE {[ref |-> f, kind |-> "opening_balance", item |-> i, source |-> Unattributed,
           qty |-> plan.excess]}

Outflow(f, kind, plan, i) == OpeningBalance(f, plan, i) \cup Rows(f, kind, plan, i, -1)

\* mutant: only the item the operation consumed is looked at
BlockedAtSource(f) ==
    LET i == facts[f].subject
    IN RawPosition(i) - Total({m \in RowsOf(f) : m.item = i}) < 0

\* reversal_blocker: would dropping the rows of f leave an item below zero?
Blocked(f) ==
    \E i \in {m.item : m \in RowsOf(f)} :
        RawPosition(i) - Total({m \in RowsOf(f) : m.item = i}) < 0

----------------------------------------------------------------------------
Standing(f) == f \in DOMAIN facts /\ ~facts[f].undone
New == Len(facts) + 1

\* delete_owned_ledger_entry: the row may have been deleted by hand already
WithoutOwned(f, roles) == {e \in ledger : ~(e.ref = f /\ e.role \in roles)}

Entry(f, role, nonzero) == IF nonzero THEN {[ref |-> f, role |-> role]} ELSE {}

Record(kind, subject, q, attributed, status, roles) ==
    facts' = Append(facts, [kind |-> kind, subject |-> subject, qty |-> q,
                            attributed |-> attributed, status |-> status,
                            owns |-> roles, undone |-> FALSE])

\* UPDATE inventory_items SET state: no row, no effect
Mark(i, state) ==
    IF i \in Equipment /\ equip[i] # "gone" THEN [equip EXCEPT ![i] = state] ELSE equip

SInit ==
    /\ loot \in SUBSET LootRows
    /\ moves = {}
    /\ facts = <<>>
    /\ ledger = {}
    /\ equip = [e \in Equipment |-> "held"]
    /\ selling = NoItem
    /\ edits = 0

\* A loot row is recorded or reactivated, or deactivated by a manual edit.
FlipLoot(r) ==
    /\ edits < MaxEdits
    /\ edits' = edits + 1
    /\ loot' = IF r \in loot THEN loot \ {r} ELSE loot \cup {r}
    /\ UNCHANGED <<moves, facts, ledger, equip, selling>>

create_auction_listing(i, q, fee) ==
    /\ New \in Refs
    /\ \E plan \in Plans(i, q) :
        /\ Record("listing", i, q, plan.attributed, "pending", IF fee THEN {"fee"} ELSE {})
        /\ moves' = moves \cup Outflow(New, "listing", plan, i)
    /\ ledger' = ledger \cup Entry(New, "fee", fee)
    /\ UNCHANGED <<loot, equip, selling, edits>>

create_equipment_listing(e, fee) ==
    /\ New \in Refs /\ equip[e] = "held"
    /\ Record("listing", e, 1, 0, "pending", IF fee THEN {"fee"} ELSE {})
    /\ equip' = Mark(e, "listed")
    /\ ledger' = ledger \cup Entry(New, "fee", fee)
    /\ UNCHANGED <<loot, moves, selling, edits>>

trade_equipment(e, result) ==
    /\ New \in Refs /\ equip[e] = "held"
    /\ Record("trade", e, 1, 0, "sold", IF result THEN {"sale"} ELSE {})
    /\ equip' = Mark(e, "sold")
    /\ ledger' = ledger \cup Entry(New, "sale", result)
    /\ UNCHANGED <<loot, moves, selling, edits>>

confirm_auction_listing(f, result, saleFee) ==
    /\ Standing(f) /\ facts[f].status = "pending"
    /\ facts' = [facts EXCEPT ![f].status = "sold",
                    ![f].owns = @ \cup (IF result THEN {"sale"} ELSE {})
                                  \cup (IF saleFee THEN {"saleFee"} ELSE {})]
    /\ ledger' = ledger \cup Entry(f, "sale", result) \cup Entry(f, "saleFee", saleFee)
    /\ equip' = Mark(facts[f].subject, "sold")
    /\ UNCHANGED <<loot, moves, selling, edits>>

\* mutant: the return also takes back the stock the listing revealed
ReturningEverything(f) == {[m EXCEPT !.kind = "listing_return", !.qty = -@] : m \in RowsOf(f)}

\* each row of the listing written back in reverse
Returning(f) == {[m EXCEPT !.kind = "listing_return", !.qty = -@] :
                    m \in {r \in RowsOf(f) : r.kind = "listing"}}

expire_auction_listing(f) ==
    /\ Standing(f) /\ facts[f].status = "pending"
    /\ facts' = [facts EXCEPT ![f].status = "expired"]
    /\ moves' = moves \cup Returning(f)
    /\ equip' = Mark(facts[f].subject, "held")
    /\ UNCHANGED <<loot, ledger, selling, edits>>

\* mutant: the point-of-sale fee stays in the money ledger
RevertKeepingSaleFee(f) ==
    /\ Standing(f) /\ facts[f].status = "sold" /\ facts[f].kind = "listing"
    /\ facts' = [facts EXCEPT ![f].status = "pending", ![f].owns = @ \ {"sale", "saleFee"}]
    /\ ledger' = WithoutOwned(f, facts[f].owns \cap {"sale"})
    /\ equip' = Mark(facts[f].subject, "listed")
    /\ UNCHANGED <<loot, moves, selling, edits>>

revert_auction_sale(f) ==
    /\ Standing(f) /\ facts[f].status = "sold" /\ facts[f].kind = "listing"
    /\ facts' = [facts EXCEPT ![f].status = "pending", ![f].owns = @ \ {"sale", "saleFee"}]
    /\ ledger' = WithoutOwned(f, facts[f].owns \cap {"sale", "saleFee"})
    /\ equip' = Mark(facts[f].subject, "listed")
    /\ UNCHANGED <<loot, moves, selling, edits>>

\* convert_stock_with_ratio: the source leaves and, unless it became liquid
\* ammo, the target comes in source by source
convert_stock(i, j, q) ==
    /\ New \in Refs
    /\ \E plan \in Plans(i, q) :
        /\ Record("conversion", i, q, plan.attributed, "done", {})
        /\ moves' = moves \cup Outflow(New, "conversion_out", plan, i)
                          \cup Rows(New, "conversion_in", plan, j, 1)
    /\ UNCHANGED <<loot, ledger, equip, selling, edits>>

\* a gain that rounds to nothing is not booked
convert_shrapnel(i, q, gain) ==
    /\ New \in Refs
    /\ \E plan \in Plans(i, q) :
        /\ Record("conversion", i, q, plan.attributed, "done",
                  IF gain THEN {"gain"} ELSE {})
        /\ moves' = moves \cup Outflow(New, "conversion_out", plan, i)
    /\ ledger' = ledger \cup Entry(New, "gain", gain)
    /\ UNCHANGED <<loot, equip, selling, edits>>

create_private_sale(i, q, result) ==
    /\ New \in Refs
    /\ \E plan \in Plans(i, q) :
        /\ Record("private", i, q, plan.attributed, "done", IF result THEN {"sale"} ELSE {})
        /\ moves' = moves \cup Outflow(New, "trade", plan, i)
    /\ ledger' = ledger \cup Entry(New, "sale", result)
    /\ UNCHANGED <<loot, equip, selling, edits>>

\* the one outflow that may not exceed what is held
remove_stock(i, q) ==
    /\ New \in Refs
    /\ \E plan \in Plans(i, q) :
        /\ plan.excess = 0
        /\ Record("removal", i, q, plan.attributed, "done", {})
        /\ moves' = moves \cup Rows(New, "removal", plan, i, -1)
    /\ UNCHANGED <<loot, ledger, equip, selling, edits>>
----------------------------------------------------------------------------
\* What every undo does: the rows and the money go, the fact stays, marked.
Undo(f) ==
    /\ moves' = moves \ RowsOf(f)
    /\ ledger' = WithoutOwned(f, facts[f].owns)
    /\ facts' = [facts EXCEPT ![f].undone = TRUE, ![f].owns = {}]
    /\ UNCHANGED <<loot, selling, edits>>

undo_auction_listing(f) ==
    /\ Standing(f) /\ facts[f].kind \in {"listing", "trade"}
    /\ ~Blocked(f)
    /\ Undo(f)
    /\ equip' = Mark(facts[f].subject, "held")

undo_stock_conversion(f) ==
    /\ Standing(f) /\ facts[f].kind = "conversion"
    /\ ~Blocked(f)
    /\ Undo(f)
    /\ UNCHANGED equip

undo_private_sale(f) ==
    /\ Standing(f) /\ facts[f].kind = "private"
    /\ Undo(f)
    /\ UNCHANGED equip

undo_stock_removal(f) ==
    /\ Standing(f) /\ facts[f].kind = "removal"
    /\ Undo(f)
    /\ UNCHANGED equip

\* The user deletes a row of the money ledger by hand.
delete_ledger_entry(e) ==
    /\ edits < MaxEdits
    /\ edits' = edits + 1
    /\ ledger' = ledger \ {e}
    /\ UNCHANGED <<loot, moves, facts, equip, selling>>

\* Only a held row can be deleted.
delete_inventory_item(e) ==
    /\ equip[e] = "held"
    /\ equip' = [equip EXCEPT ![e] = "gone"]
    /\ UNCHANGED <<loot, moves, facts, ledger, selling, edits>>

\* sell_inventory_item reads the row on a reader connection ...
ReadForSale(e) ==
    /\ selling = NoItem /\ equip[e] = "held"
    /\ selling' = e
    /\ UNCHANGED <<loot, moves, facts, ledger, equip, edits>>

\* ... and sells it in a writer transaction, if it is still held.
sell_inventory_item(e, result) ==
    /\ selling = e
    /\ selling' = NoItem
    /\ equip' = IF equip[e] = "held" THEN Mark(e, "sold") ELSE equip
    /\ ledger' = ledger \cup Entry(e, "sale", result /\ equip[e] = "held")
    /\ UNCHANGED <<loot, moves, facts, edits>>

\* the operations on fungible stock
LootNext ==
    \/ \E r \in LootRows : FlipLoot(r)
    \/ \E i \in Items, q \in Quantities :
        \/ \E fee \in Charges : create_auction_listing(i, q, fee)
        \/ \E result \in Charges : create_private_sale(i, q, result)
        \/ remove_stock(i, q)
    \/ \E p \in Recipes, q \in Quantities : convert_stock(p[1], p[2], q)
    \/ \E i \in Ammo, q \in Quantities, gain \in Charges : convert_shrapnel(i, q, gain)
    \/ \E f \in DOMAIN facts :
        undo_stock_conversion(f) \/ undo_private_sale(f) \/ undo_stock_removal(f)

\* the operations on inventory rows
EquipmentNext ==
    \E e \in Equipment :
        \/ \E fee \in Charges : create_equipment_listing(e, fee)
        \/ \E result \in Charges : trade_equipment(e, result)
        \/ \E result \in Charges : sell_inventory_item(e, result)
        \/ ReadForSale(e)
        \/ delete_inventory_item(e)

\* the life of a listing, whatever it lists, and the user's own edits
ListingNext ==
    \/ \E f \in DOMAIN facts :
        \/ \E result, saleFee \in Charges : confirm_auction_listing(f, result, saleFee)
        \/ expire_auction_listing(f)
        \/ revert_auction_sale(f)
        \/ undo_auction_listing(f)
    \/ \E e \in ledger : delete_ledger_entry(e)

SNext == LootNext \/ EquipmentNext \/ ListingNext

SSpec == SInit /\ [][SNext]_svars
----------------------------------------------------------------------------
LootFacts == {f \in DOMAIN facts : facts[f].subject \in Items}

\* The books of the stock ledger, fact by fact.  An undone fact has left no
\* movement and points at no money.  A standing one has taken its whole
\* quantity, and from the sources it is credited to exactly what it was
\* credited with; what a conversion produced has the composition of what it
\* consumed; and an expiry gave every source back what it had supplied, so
\* only the stock the listing revealed remains (create_auction_listing,
\* convert_stock_with_ratio, expire_auction_listing, the four undos,
\* realised_stock_outcomes).
FactsBalance ==
    \A f \in LootFacts :
        LET rows == RowsOf(f)
            outs == {m \in rows : m.qty < 0}
            at(kind, s) == Total({m \in rows : m.kind = kind /\ m.source = s})
        IN IF facts[f].undone THEN rows = {} /\ facts[f].owns = {}
           ELSE /\ Total(outs) = -facts[f].qty
                /\ Total({m \in outs : m.source \in Known}) = -facts[f].attributed
                /\ \A s \in Sources :
                     /\ at("conversion_in", s) \in {0, -at("conversion_out", s)}
                     /\ facts[f].status = "expired" =>
                          at("listing_return", s) = -at("listing", s)

\* when a fact has earned the row it wrote to the money ledger
Earned(f, role) ==
    CASE role = "fee" -> facts[f].kind = "listing"
      [] role = "sale" -> facts[f].status = "sold" \/ facts[f].kind = "private"
      [] role = "saleFee" -> facts[f].status = "sold"
      [] role = "gain" -> facts[f].kind = "conversion"

\* The market rows of the money ledger are those of standing facts, each one
\* pointed at by the fact that wrote it and earned in the state the fact is
\* now in: no undo and no reverted sale leaves money behind, whatever the user
\* has deleted by hand in between (delete_owned_ledger_entry).
MoneyFollowsFacts ==
    \A e \in ledger : e.ref \notin Equipment =>
        /\ Standing(e.ref)
        /\ e.role \in facts[e.ref].owns
        /\ Earned(e.ref, e.role)

\* An inventory row is listed only while an open listing of it stands
\* (create_equipment_listing, confirm_auction_listing, expire_auction_listing,
\* revert_auction_sale, undo_auction_listing).
ListedIsBacked ==
    \A e \in Equipment : equip[e] = "listed" =>
        \E f \in DOMAIN facts :
            facts[f].subject = e /\ Standing(f) /\ facts[f].status = "pending"

\* The money and the inventory of the market agree with its standing facts.
MarketSound == MoneyFollowsFacts /\ ListedIsBacked

UndoStep == \E f \in DOMAIN facts : ~facts[f].undone /\ facts'[f].undone

\* Holdings across one operation that moves stock, recorded loot unchanged.  An item none of
\* whose sources is overdrawn does not end below zero: what an outflow takes
\* beyond the open positions it books as an opening balance, and an undo that
\* would unmake stock already gone is refused.  And nothing but an undo
\* overdraws a source (allocate, record_opening_balance, reversal_blocker).
HoldingsKept ==
    [][(moves' # moves /\ loot' = loot) =>
        \A i \in Items :
            /\ RawPosition(i)' >= 0 \/ \E s \in Sources : Bucket(i, s) < 0
            /\ UndoStep \/ \A s \in Sources : Bucket(i, s)' >= 0 \/
                                              Bucket(i, s)' >= Bucket(i, s)]_svars

\* No item is ever held in a negative quantity, while recorded loot stands.
HoldingsNotNegative == \A i \in Items : RawPosition(i) >= 0
====
