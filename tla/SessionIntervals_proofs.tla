------------------------- MODULE SessionIntervals_proofs -------------------------
(***************************************************************************)
(* Proofs about the session-interval engine, for every set of sessions,    *)
(* kinds and subjects and every bound.                                     *)
(*                                                                         *)
(* The inductive invariant joins the invariants the runs check with two    *)
(* facts no run needs, RowsFollowSession and EveryIntervalNamed.  None is  *)
(* inductive alone: that a fresh session starts with no standing row needs *)
(* RowsFollowSession, that opening a session                               *)
(* may empty memory needs EveryIntervalNamed, that a new context stays in  *)
(* its session needs OpenRowsAreStanding, that a stamp does needs          *)
(* ContextNamesOpenSet.                                                    *)
(***************************************************************************)
EXTENDS SessionIntervals, ModelLemmas

\* Intervals and contexts belong to sessions that have a row.
RowsFollowSession ==
    /\ live # NoSession => live \in recorded
    /\ \A i \in DOMAIN intervals : intervals[i].session \in recorded
    /\ \A c \in DOMAIN contexts : contexts[c].session \in recorded

EngineInv ==
    /\ IntervalsTypeOK
    /\ ContextNamesOpenSet
    /\ OpenRowsAreStanding
    /\ ContextsStayInSession
    /\ StampsStayInSession
    /\ CurrentContextIsNewest
    /\ RowsFollowSession
    /\ EveryIntervalNamed

-----------------------------------------------------------------------------
(* Lemmas about the helpers every transition is built from *)

\* Ending rows changes no row's session or declaration, and ends exactly the
\* rows asked for (end_rows, intervals.rs:288).
LEMMA EndRowsChangesOnlyEnds ==
    ASSUME intervals \in Seq(IntervalRow), NEW ids
    PROVE  /\ EndRows(ids) \in Seq(IntervalRow)
           /\ Len(EndRows(ids)) = Len(intervals)
           /\ DOMAIN EndRows(ids) = DOMAIN intervals
           /\ \A i \in DOMAIN intervals :
                /\ EndRows(ids)[i].session = intervals[i].session
                /\ EndRows(ids)[i].what = intervals[i].what
                /\ EndRows(ids)[i].ended = (intervals[i].ended \/ i \in ids)
<1>1. /\ Len(intervals) \in Nat
      /\ DOMAIN intervals = 1 .. Len(intervals)
      /\ \A i \in DOMAIN intervals : intervals[i] \in IntervalRow
  BY LenProperties, ElementOfSeq
<1>2. ASSUME NEW i \in DOMAIN intervals
      PROVE  /\ EndRows(ids)[i] \in IntervalRow
             /\ EndRows(ids)[i].session = intervals[i].session
             /\ EndRows(ids)[i].what = intervals[i].what
             /\ EndRows(ids)[i].ended = (intervals[i].ended \/ i \in ids)
  BY <1>1, <1>2 DEF EndRows, IntervalRow
<1>3. EndRows(ids) \in [1 .. Len(intervals) -> IntervalRow]
  BY <1>1, <1>2 DEF EndRows
<1>4. EndRows(ids) \in Seq(IntervalRow)
  BY <1>1, <1>3, SeqDef
<1>5. Len(EndRows(ids)) = Len(intervals)
  BY <1>1, <1>3, <1>4, LenProperties
<1> QED BY <1>1, <1>2, <1>4, <1>5 DEF EndRows

\* The engine's invariant spelled out for sequences: every row of a table is
\* well formed and reads at its own position.
LEMMA TablesWellFormed ==
    ASSUME IntervalsTypeOK
    PROVE  /\ Len(intervals) \in Nat /\ DOMAIN intervals = 1 .. Len(intervals)
           /\ Len(contexts) \in Nat /\ DOMAIN contexts = 1 .. Len(contexts)
           /\ Len(stamps) \in Nat /\ DOMAIN stamps = 1 .. Len(stamps)
           /\ \A i \in DOMAIN intervals : intervals[i] \in IntervalRow
           /\ \A c \in DOMAIN contexts : contexts[c] \in ContextRow
           /\ \A k \in DOMAIN stamps : stamps[k] \in StampRow
BY LenProperties, ElementOfSeq DEF IntervalsTypeOK

-----------------------------------------------------------------------------
(* The inductive invariant *)

LEMMA InitEstablishesInv == IntervalsInit => EngineInv
<1> SUFFICES ASSUME IntervalsInit PROVE EngineInv
  OBVIOUS
<1>1. /\ << >> \in Seq(IntervalRow) /\ << >> \in Seq(ContextRow) /\ << >> \in Seq(StampRow)
      /\ Len(<< >>) = 0 /\ DOMAIN << >> = {}
  BY EmptySeq
<1> QED
  BY <1>1, SessionAssumption
     DEF IntervalsInit, EngineInv, IntervalsTypeOK, ContextNamesOpenSet, OpenRowsAreStanding,
         ContextsStayInSession, StampsStayInSession, CurrentContextIsNewest, RowsFollowSession,
         EveryIntervalNamed, NoContext

LEMMA ActivateKeepsInv ==
    ASSUME EngineInv, NEW s \in Session, Activate(s)
    PROVE  EngineInv'
<1> USE DEF Activate, NoContext
<1>1. IntervalsTypeOK'
  BY TablesWellFormed DEF EngineInv, IntervalsTypeOK
<1>2. ContextNamesOpenSet' /\ CurrentContextIsNewest'
  BY DEF ContextNamesOpenSet, CurrentContextIsNewest
<1>3. OpenRowsAreStanding'
  BY DEF EngineInv, OpenRowsAreStanding, RowsFollowSession
<1>4. ContextsStayInSession' /\ StampsStayInSession'
  BY DEF EngineInv, ContextsStayInSession, StampsStayInSession
<1>5. RowsFollowSession' /\ EveryIntervalNamed'
  BY DEF EngineInv, RowsFollowSession, EveryIntervalNamed
<1> QED BY <1>1, <1>2, <1>3, <1>4, <1>5 DEF EngineInv

\* Minting a context over a set of the live session's rows, the only rows
\* that may be new, keeps every fact but the one about standing rows; the
\* three transitions that mint a context share this.
LEMMA MintKeepsInv ==
    ASSUME EngineInv, live \in Session, NEW members, MintContext(members),
           live' = live, recorded' = recorded, open' = members, stamps' = stamps,
           intervals' \in Seq(IntervalRow),
           DOMAIN intervals \subseteq DOMAIN intervals',
           DOMAIN intervals' \subseteq DOMAIN intervals \cup members,
           \A i \in DOMAIN intervals : intervals'[i].session = intervals[i].session,
           members \subseteq DOMAIN intervals',
           \A i \in members : intervals'[i].session = live,
           OpenRowsAreStanding'
    PROVE  EngineInv'
<1> DEFINE row == [session |-> live, members |-> members]
<1>1. DOMAIN intervals' \subseteq Nat \ {0}
  <2>1. Len(intervals') \in Nat /\ DOMAIN intervals' = 1 .. Len(intervals')
    BY LenProperties
  <2> QED BY <2>1
<1>2. row \in ContextRow
  BY <1>1 DEF ContextRow
<1>3. /\ contexts \in Seq(ContextRow)
      /\ contexts' = Append(contexts, row)
      /\ context' = Len(contexts) + 1
  BY DEF EngineInv, IntervalsTypeOK, MintContext
<1>4. /\ contexts' \in Seq(ContextRow)
      /\ Len(contexts) \in Nat
      /\ DOMAIN contexts = 1 .. Len(contexts)
      /\ DOMAIN contexts' = 1 .. Len(contexts) + 1
      /\ Len(contexts') = Len(contexts) + 1
      /\ contexts'[Len(contexts) + 1] = row
      /\ \A c \in DOMAIN contexts : contexts'[c] = contexts[c]
  BY <1>2, <1>3, AppendRow
<1>5. IntervalsTypeOK'
  BY <1>3, <1>4 DEF EngineInv, IntervalsTypeOK
<1>6. ContextNamesOpenSet' /\ CurrentContextIsNewest'
  BY <1>3, <1>4 DEF ContextNamesOpenSet, CurrentContextIsNewest
<1>7. ContextsStayInSession'
  <2> SUFFICES ASSUME NEW c \in DOMAIN contexts', NEW i \in contexts'[c].members
               PROVE  i \in DOMAIN intervals' /\ intervals'[i].session = contexts'[c].session
    BY DEF ContextsStayInSession
  <2>1. CASE c \in DOMAIN contexts
    BY <2>1, <1>4 DEF EngineInv, ContextsStayInSession
  <2>2. CASE c = Len(contexts) + 1
    BY <2>2, <1>4
  <2> QED BY <2>1, <2>2, <1>4
<1>8. StampsStayInSession'
  BY <1>4 DEF EngineInv, StampsStayInSession
<1>9. RowsFollowSession'
  <2>1. live \in recorded
    BY SessionAssumption DEF EngineInv, RowsFollowSession
  <2>2. \A i \in DOMAIN intervals' : intervals'[i].session \in recorded
    BY <2>1 DEF EngineInv, RowsFollowSession
  <2>3. \A c \in DOMAIN contexts' : contexts'[c].session \in recorded
    BY <2>1, <1>4 DEF EngineInv, RowsFollowSession
  <2> QED BY <2>1, <2>2, <2>3 DEF RowsFollowSession
<1>10. EveryIntervalNamed'
  <2> SUFFICES ASSUME NEW i \in DOMAIN intervals'
               PROVE  \E c \in DOMAIN contexts' : i \in contexts'[c].members
    BY DEF EveryIntervalNamed
  <2>1. CASE i \in members
    BY <2>1, <1>4
  <2>2. CASE i \in DOMAIN intervals
    <3>1. PICK c \in DOMAIN contexts : i \in contexts[c].members
      BY <2>2 DEF EngineInv, EveryIntervalNamed
    <3> QED BY <3>1, <1>4
  <2> QED BY <2>1, <2>2
<1> QED
  BY <1>5, <1>6, <1>7, <1>8, <1>9, <1>10 DEF EngineInv

\* A session without a context has no interval either, so emptying memory
\* loses nothing.
LEMMA OpenSessionKeepsInv ==
    ASSUME EngineInv, OpenSession
    PROVE  EngineInv'
<1>1. /\ live \in Session /\ intervals \in Seq(IntervalRow)
      /\ MintContext({}) /\ open' = {}
      /\ live' = live /\ recorded' = recorded /\ intervals' = intervals /\ stamps' = stamps
  BY DEF OpenSession, EngineInv, IntervalsTypeOK
<1>2. \A i \in DOMAIN intervals : intervals[i].session # live
  BY DEF OpenSession, EngineInv, EveryIntervalNamed, ContextsStayInSession
<1>3. OpenRowsAreStanding'
  BY <1>1, <1>2 DEF OpenRowsAreStanding
<1> QED BY <1>1, <1>3, MintKeepsInv

LEMMA OpenIntervalKeepsInv ==
    ASSUME EngineInv, NEW d \in Declaration, NEW closes, OpenInterval(d, closes)
    PROVE  EngineInv'
<1> DEFINE closing == OpenOfKinds(closes)
           id      == Len(intervals) + 1
           row     == [session |-> live, what |-> d, ended |-> FALSE]
           members == (open \ closing) \cup {id}
<1>1. /\ live \in Session /\ live # NoSession /\ intervals \in Seq(IntervalRow)
      /\ intervals' = Append(EndRows(closing), row)
      /\ MintContext(members) /\ open' = members
      /\ live' = live /\ recorded' = recorded /\ stamps' = stamps
  BY DEF OpenInterval, EngineInv, IntervalsTypeOK
<1>2. row \in IntervalRow
  BY <1>1 DEF IntervalRow
<1> HIDE DEF row
<1>3. /\ Len(intervals) \in Nat
      /\ DOMAIN intervals = 1 .. Len(intervals)
      /\ intervals' \in Seq(IntervalRow)
      /\ DOMAIN intervals' = 1 .. id
      /\ intervals'[id] = row
      /\ \A i \in DOMAIN intervals : intervals'[i] = EndRows(closing)[i]
  <2> DEFINE sealed == EndRows(closing)
  <2>1. sealed \in Seq(IntervalRow) /\ Len(sealed) = Len(intervals)
        /\ DOMAIN sealed = DOMAIN intervals
    BY <1>1, EndRowsChangesOnlyEnds
  <2> HIDE DEF sealed
  <2>2. intervals' = Append(sealed, row)
    BY <1>1 DEF sealed
  <2>3. /\ intervals' \in Seq(IntervalRow)
        /\ Len(sealed) \in Nat
        /\ DOMAIN sealed = 1 .. Len(sealed)
        /\ DOMAIN intervals' = 1 .. Len(sealed) + 1
        /\ intervals'[Len(sealed) + 1] = row
        /\ \A i \in DOMAIN sealed : intervals'[i] = sealed[i]
    BY <1>2, <2>1, <2>2, AppendRow
  <2> QED BY <2>1, <2>3 DEF sealed
<1>4. /\ intervals'[id].session = live /\ ~intervals'[id].ended
      /\ \A i \in DOMAIN intervals :
            /\ intervals'[i].session = intervals[i].session
            /\ intervals'[i].ended = (intervals[i].ended \/ i \in closing)
  <2>1. intervals'[id].session = live /\ ~intervals'[id].ended
    BY <1>3 DEF row
  <2>2. \A i \in DOMAIN intervals :
            /\ EndRows(closing)[i].session = intervals[i].session
            /\ EndRows(closing)[i].ended = (intervals[i].ended \/ i \in closing)
    BY <1>1, EndRowsChangesOnlyEnds
  <2> QED BY <1>3, <2>1, <2>2
<1>5. open = {i \in DOMAIN intervals : intervals[i].session = live /\ ~intervals[i].ended}
  BY <1>1 DEF EngineInv, OpenRowsAreStanding
<1>6. OpenRowsAreStanding'
  <2>1. DOMAIN intervals' = DOMAIN intervals \cup {id}
    BY <1>3
  <2>2. open' = {i \in DOMAIN intervals' : intervals'[i].session = live /\ ~intervals'[i].ended}
    BY <1>1, <1>4, <1>5, <2>1
  <2> QED BY <1>1, <2>2 DEF OpenRowsAreStanding
<1>7. /\ DOMAIN intervals \subseteq DOMAIN intervals'
      /\ DOMAIN intervals' \subseteq DOMAIN intervals \cup members
      /\ members \subseteq DOMAIN intervals'
      /\ \A i \in members : intervals'[i].session = live
  BY <1>3, <1>4, <1>5
<1> HIDE DEF members
<1> QED BY <1>1, <1>3, <1>4, <1>6, <1>7, MintKeepsInv

LEMMA CloseMatchingKeepsInv ==
    ASSUME EngineInv, NEW ids, CloseMatching(ids)
    PROVE  EngineInv'
<1> DEFINE members == open \ ids
<1>1. /\ live \in Session /\ live # NoSession /\ intervals \in Seq(IntervalRow)
      /\ intervals' = EndRows(ids)
      /\ MintContext(members) /\ open' = members
      /\ live' = live /\ recorded' = recorded /\ stamps' = stamps
  BY DEF CloseMatching, EngineInv, IntervalsTypeOK
<1>2. /\ intervals' \in Seq(IntervalRow)
      /\ DOMAIN intervals' = DOMAIN intervals
      /\ \A i \in DOMAIN intervals :
            /\ intervals'[i].session = intervals[i].session
            /\ intervals'[i].ended = (intervals[i].ended \/ i \in ids)
  BY <1>1, EndRowsChangesOnlyEnds
<1>3. open = {i \in DOMAIN intervals : intervals[i].session = live /\ ~intervals[i].ended}
  BY <1>1 DEF EngineInv, OpenRowsAreStanding
<1>4. OpenRowsAreStanding'
  BY <1>1, <1>2, <1>3 DEF OpenRowsAreStanding
<1>5. members \subseteq DOMAIN intervals' /\ \A i \in members : intervals'[i].session = live
  BY <1>2, <1>3
<1> HIDE DEF members
<1> QED BY <1>1, <1>2, <1>4, <1>5, MintKeepsInv

\* Nothing stands and no context is in force; the tables keep what they say.
LEMMA CloseSessionKeepsInv ==
    ASSUME EngineInv, CloseSession
    PROVE  EngineInv'
<1>1. /\ live # NoSession /\ intervals \in Seq(IntervalRow)
      /\ intervals' = EndRows(open) /\ open' = {} /\ context' = NoContext
      /\ UNCHANGED <<live, recorded, contexts, stamps>>
  BY DEF CloseSession, EngineInv, IntervalsTypeOK
<1>2. /\ intervals' \in Seq(IntervalRow)
      /\ DOMAIN intervals' = DOMAIN intervals
      /\ \A i \in DOMAIN intervals :
            /\ intervals'[i].session = intervals[i].session
            /\ intervals'[i].ended = (intervals[i].ended \/ i \in open)
  BY <1>1, EndRowsChangesOnlyEnds
<1>3. IntervalsTypeOK'
  BY <1>1, <1>2, TablesWellFormed DEF EngineInv, IntervalsTypeOK, NoContext
<1>4. ContextNamesOpenSet' /\ CurrentContextIsNewest'
  BY <1>1 DEF ContextNamesOpenSet, CurrentContextIsNewest, NoContext
<1>5. OpenRowsAreStanding'
  <2>1. open = {i \in DOMAIN intervals : intervals[i].session = live /\ ~intervals[i].ended}
    BY <1>1 DEF EngineInv, OpenRowsAreStanding
  <2> QED BY <1>1, <1>2, <2>1 DEF OpenRowsAreStanding
<1>6. ContextsStayInSession'
  BY <1>1, <1>2 DEF EngineInv, ContextsStayInSession
<1>7. StampsStayInSession'
  BY <1>1 DEF EngineInv, StampsStayInSession, NoContext
<1>8. RowsFollowSession' /\ EveryIntervalNamed'
  BY <1>1, <1>2 DEF EngineInv, RowsFollowSession, EveryIntervalNamed
<1> QED BY <1>3, <1>4, <1>5, <1>6, <1>7, <1>8 DEF EngineInv

LEMMA StampEventKeepsInv ==
    ASSUME EngineInv, StampEvent
    PROVE  EngineInv'
<1> DEFINE row == [session |-> live, context |-> context]
<1>1. /\ stamps' = Append(stamps, row)
      /\ UNCHANGED <<live, open, context, recorded, intervals, contexts>>
  BY DEF StampEvent
<1>2. row \in StampRow /\ stamps \in Seq(StampRow)
  BY TablesWellFormed DEF StampEvent, StampRow, EngineInv, IntervalsTypeOK
<1>3. /\ stamps' \in Seq(StampRow)
      /\ DOMAIN stamps' = DOMAIN stamps \cup {Len(stamps) + 1}
      /\ stamps'[Len(stamps) + 1] = row
      /\ \A k \in DOMAIN stamps : stamps'[k] = stamps[k]
  <2>1. /\ stamps' \in Seq(StampRow)
        /\ Len(stamps) \in Nat
        /\ DOMAIN stamps = 1 .. Len(stamps)
        /\ DOMAIN stamps' = 1 .. Len(stamps) + 1
        /\ stamps'[Len(stamps) + 1] = row
        /\ \A k \in DOMAIN stamps : stamps'[k] = stamps[k]
    BY <1>1, <1>2, AppendRow
  <2> QED BY <2>1
<1>4. context # NoContext =>
        context \in DOMAIN contexts /\ contexts[context].session = live
  BY TablesWellFormed DEF EngineInv, IntervalsTypeOK, ContextNamesOpenSet, NoContext
<1>5. StampsStayInSession'
  BY <1>1, <1>3, <1>4 DEF EngineInv, StampsStayInSession
<1>6. IntervalsTypeOK'
  BY <1>1, <1>3 DEF EngineInv, IntervalsTypeOK
<1>7. /\ ContextNamesOpenSet' /\ OpenRowsAreStanding' /\ ContextsStayInSession'
      /\ CurrentContextIsNewest' /\ RowsFollowSession' /\ EveryIntervalNamed'
  BY <1>1 DEF EngineInv, ContextNamesOpenSet, OpenRowsAreStanding, ContextsStayInSession,
              CurrentContextIsNewest, RowsFollowSession, EveryIntervalNamed
<1> QED BY <1>5, <1>6, <1>7 DEF EngineInv

LEMMA DropKeepsInv ==
    ASSUME EngineInv, Drop
    PROVE  EngineInv'
<1>1. /\ live' = NoSession /\ open' = {} /\ context' = NoContext
      /\ UNCHANGED <<recorded, intervals, contexts, stamps>>
  BY DEF Drop, database
<1>2. IntervalsTypeOK'
  BY <1>1, TablesWellFormed DEF EngineInv, IntervalsTypeOK, NoContext
<1>3. /\ ContextNamesOpenSet' /\ OpenRowsAreStanding' /\ ContextsStayInSession'
      /\ StampsStayInSession' /\ CurrentContextIsNewest' /\ RowsFollowSession'
      /\ EveryIntervalNamed'
  BY <1>1 DEF EngineInv, ContextNamesOpenSet, OpenRowsAreStanding, ContextsStayInSession,
              StampsStayInSession, CurrentContextIsNewest, RowsFollowSession, EveryIntervalNamed
<1> QED BY <1>2, <1>3 DEF EngineInv

LEMMA StepKeepsInv == EngineInv /\ [IntervalsNext]_engine => EngineInv'
<1> SUFFICES ASSUME EngineInv, [IntervalsNext]_engine PROVE EngineInv'
  OBVIOUS
<1>1. ASSUME NEW s \in Session, Activate(s) PROVE EngineInv'
  BY <1>1, ActivateKeepsInv
<1>2. CASE OpenSession
  BY <1>2, OpenSessionKeepsInv
<1>3. ASSUME NEW d \in Declaration, NEW closes \in SUBSET Kind, OpenInterval(d, closes)
      PROVE  EngineInv'
  BY <1>3, OpenIntervalKeepsInv
<1>4. ASSUME NEW ids \in SUBSET open, CloseMatching(ids) PROVE EngineInv'
  BY <1>4, CloseMatchingKeepsInv
<1>5. CASE CloseSession
  BY <1>5, CloseSessionKeepsInv
<1>6. CASE StampEvent
  BY <1>6, StampEventKeepsInv
<1>7. CASE Drop
  BY <1>7, DropKeepsInv
<1>8. CASE UNCHANGED engine
  BY <1>8 DEF engine, EngineInv, IntervalsTypeOK, ContextNamesOpenSet, OpenRowsAreStanding,
              ContextsStayInSession, StampsStayInSession, CurrentContextIsNewest,
              RowsFollowSession, EveryIntervalNamed
<1> QED
  BY <1>1, <1>2, <1>3, <1>4, <1>5, <1>6, <1>7, <1>8 DEF IntervalsNext

\* The engine's invariant, of every behaviour and every instance.
THEOREM EngineInvariant == IntervalsSpec => []EngineInv
BY InitEstablishesInv, StepKeepsInv, PTL DEF IntervalsSpec

\* The tables and the memory of the live session are well formed.
THEOREM EngineTypeCorrect == IntervalsSpec => []IntervalsTypeOK
BY EngineInvariant, PTL DEF EngineInv

\* The context in force names exactly the intervals standing in memory.
THEOREM ContextIsOpenSet == IntervalsSpec => []ContextNamesOpenSet
BY EngineInvariant, PTL DEF EngineInv

\* Memory's standing intervals are the database's rows without an end.
THEOREM MemoryIsDatabase == IntervalsSpec => []OpenRowsAreStanding
BY EngineInvariant, PTL DEF EngineInv

\* Attribution never crosses sessions: neither a context's intervals nor an
\* event's context belong to another session.
THEOREM AttributionStaysInSession ==
    IntervalsSpec => [](ContextsStayInSession /\ StampsStayInSession)
BY EngineInvariant, PTL DEF EngineInv

-----------------------------------------------------------------------------
(* What a session leaves open *)

\* Opening an interval ends the sealed rows and adds one of the live session.
LEMMA OpenIntervalRows ==
    ASSUME EngineInv, NEW d \in Declaration, NEW closes, OpenInterval(d, closes)
    PROVE  /\ DOMAIN intervals \subseteq DOMAIN intervals'
           /\ \A i \in DOMAIN intervals' \ DOMAIN intervals : intervals'[i].session = live
           /\ \A i \in DOMAIN intervals :
                 /\ intervals'[i].session = intervals[i].session
                 /\ intervals'[i].what = intervals[i].what
                 /\ intervals'[i].ended = (intervals[i].ended \/ i \in OpenOfKinds(closes))
<1> DEFINE sealed == EndRows(OpenOfKinds(closes))
           row    == [session |-> live, what |-> d, ended |-> FALSE]
<1>1. live \in Session /\ intervals \in Seq(IntervalRow) /\ intervals' = Append(sealed, row)
  BY DEF OpenInterval, EngineInv, IntervalsTypeOK
<1>2. row \in IntervalRow /\ row.session = live
  BY <1>1 DEF IntervalRow
<1>3. /\ sealed \in Seq(IntervalRow) /\ DOMAIN sealed = DOMAIN intervals
      /\ \A i \in DOMAIN intervals :
            /\ sealed[i].session = intervals[i].session
            /\ sealed[i].what = intervals[i].what
            /\ sealed[i].ended = (intervals[i].ended \/ i \in OpenOfKinds(closes))
  BY <1>1, EndRowsChangesOnlyEnds
<1> HIDE DEF sealed, row
<1>4. /\ Len(sealed) \in Nat /\ DOMAIN sealed = 1 .. Len(sealed)
      /\ DOMAIN intervals' = 1 .. Len(sealed) + 1 /\ intervals'[Len(sealed) + 1] = row
      /\ \A i \in DOMAIN sealed : intervals'[i] = sealed[i]
  BY <1>1, <1>2, <1>3, AppendRow
<1> QED BY <1>2, <1>3, <1>4

\* A new context is the live session's, and those before it stand.
LEMMA MintOnlyAdds ==
    ASSUME EngineInv, EngineInv', NEW members, MintContext(members), live' = live
    PROVE  context' # NoContext /\ \A c \in DOMAIN contexts : contexts'[c] = contexts[c]
<1> DEFINE row == [session |-> live, members |-> members]
<1>1. contexts \in Seq(ContextRow) /\ contexts' \in Seq(ContextRow)
      /\ contexts' = Append(contexts, row) /\ context' = Len(contexts) + 1
  BY DEF EngineInv, IntervalsTypeOK, MintContext
<1>2. /\ Len(contexts) \in Nat /\ DOMAIN contexts = 1 .. Len(contexts)
  BY <1>1, LenProperties
<1>3. \A c \in 1 .. Len(contexts) : Append(contexts, row)[c] = contexts[c]
  BY <1>1, <1>2
<1> QED BY <1>1, <1>2, <1>3 DEF NoContext

LEMMA MintAddsOwn ==
    ASSUME EngineInv, EngineInv', NEW members, MintContext(members)
    PROVE  /\ DOMAIN contexts \subseteq DOMAIN contexts'
           /\ \A c \in DOMAIN contexts' \ DOMAIN contexts : contexts'[c].session = live
<1> DEFINE row == [session |-> live, members |-> members]
<1>1. contexts \in Seq(ContextRow) /\ contexts' = Append(contexts, row) /\ row.session = live
  BY DEF EngineInv, IntervalsTypeOK, MintContext
<1>2. Len(contexts) \in Nat /\ DOMAIN contexts = 1 .. Len(contexts)
  BY <1>1, LenProperties
<1> HIDE DEF row
<1>3. DOMAIN contexts' = 1 .. Len(contexts) + 1 /\ contexts'[Len(contexts) + 1] = row
  BY <1>1, <1>2
<1> QED BY <1>1, <1>2, <1>3

\* A transition of the live session that sets what its last context names
\* and what stands together.
LEMMA LiveSessionLeaves ==
    ASSUME EngineInv, EngineInv', LeftOpenIsLastContext, live # NoSession, live' = live,
           \A s \in Session : s # live => LeftOpen(s)' = LeftOpen(s),
           DOMAIN contexts \subseteq DOMAIN contexts',
           \A c \in DOMAIN contexts : contexts'[c] = contexts[c],
           \A c \in DOMAIN contexts' \ DOMAIN contexts : contexts'[c].session = live,
           open' = {} \/ context' # NoContext
    PROVE  LeftOpenIsLastContext'
<1> SUFFICES ASSUME NEW s \in Session, LeftOpen(s)' # {}
             PROVE  \E c \in DOMAIN contexts' :
                       /\ contexts'[c] = [session |-> s, members |-> LeftOpen(s)']
                       /\ \A d \in DOMAIN contexts' : d > c => contexts'[d].session # s
  BY DEF LeftOpenIsLastContext
<1>1. CASE s # live
  <2>1. LeftOpen(s)' = LeftOpen(s)
    BY <1>1
  <2>2. PICK c \in DOMAIN contexts :
            /\ contexts[c] = [session |-> s, members |-> LeftOpen(s)]
            /\ \A d \in DOMAIN contexts : d > c => contexts[d].session # s
    BY <2>1 DEF LeftOpenIsLastContext
  <2>3. \A d \in DOMAIN contexts' : d > c => contexts'[d].session # s
    BY <1>1, <2>2
  <2> QED BY <2>1, <2>2, <2>3
<1>2. CASE s = live
  <2>1. LeftOpen(s)' = open'
    BY <1>2 DEF LeftOpen, EngineInv, OpenRowsAreStanding
  <2>2. /\ context' # NoContext /\ context' = Len(contexts')
        /\ contexts'[context'] = [session |-> live', members |-> open']
    BY <2>1 DEF EngineInv, ContextNamesOpenSet, CurrentContextIsNewest
  <2>3. context' \in DOMAIN contexts' /\ \A d \in DOMAIN contexts' : ~(d > context')
    <3>1. contexts' \in Seq(ContextRow)
      BY DEF EngineInv, IntervalsTypeOK
    <3>2. DOMAIN contexts' = 1 .. Len(contexts') /\ Len(contexts') \in Nat
      BY <3>1, LenProperties
    <3>3. context' \in 0 .. Len(contexts')
      BY DEF EngineInv, IntervalsTypeOK
    <3> QED BY <2>2, <3>2, <3>3 DEF NoContext
  <2> QED BY <1>2, <2>1, <2>2, <2>3
<1> QED BY <1>1, <1>2

\* A step that leaves intervals and contexts alone leaves it as it was.
LEMMA TablesLeave ==
    ASSUME LeftOpenIsLastContext, UNCHANGED <<intervals, contexts>> PROVE LeftOpenIsLastContext'
<1>1. \A s \in Session : LeftOpen(s)' = LeftOpen(s)
  BY DEF LeftOpen
<1> QED BY <1>1 DEF LeftOpenIsLastContext

\* Rows of another session are neither ended nor added.
LEMMA OthersLeave ==
    ASSUME EngineInv, EngineInv', DOMAIN intervals \subseteq DOMAIN intervals',
           \A i \in DOMAIN intervals' \ DOMAIN intervals : intervals'[i].session = live,
           \A i \in DOMAIN intervals :
              /\ intervals'[i].session = intervals[i].session
              /\ i \notin open => (intervals'[i].ended <=> intervals[i].ended),
           live # NoSession
    PROVE  \A s \in Session : s # live => LeftOpen(s)' = LeftOpen(s)
<1>1. \A i \in open : intervals[i].session = live
  BY DEF EngineInv, OpenRowsAreStanding
<1> SUFFICES ASSUME NEW s \in Session, s # live PROVE LeftOpen(s)' = LeftOpen(s)
  OBVIOUS
<1>2. ASSUME NEW i \in DOMAIN intervals', intervals'[i].session = s, ~intervals'[i].ended
      PROVE  i \in LeftOpen(s)
  <2>1. i \in DOMAIN intervals
    BY <1>2
  <2>2. intervals[i].session = s /\ i \notin open
    BY <1>1, <1>2, <2>1
  <2> QED BY <1>2, <2>1, <2>2 DEF LeftOpen
<1>3. ASSUME NEW i \in DOMAIN intervals, intervals[i].session = s, ~intervals[i].ended
      PROVE  i \in DOMAIN intervals' /\ intervals'[i].session = s /\ ~intervals'[i].ended
  <2>1. i \notin open
    BY <1>1, <1>3
  <2> QED BY <1>3, <2>1
<1> QED BY <1>2, <1>3 DEF LeftOpen

LEMMA StepLeaves ==
    EngineInv /\ EngineInv' /\ LeftOpenIsLastContext /\ [IntervalsNext]_engine
        => LeftOpenIsLastContext'
<1> SUFFICES ASSUME EngineInv, EngineInv', LeftOpenIsLastContext, [IntervalsNext]_engine
             PROVE  LeftOpenIsLastContext'
  OBVIOUS
<1>1. intervals \in Seq(IntervalRow) /\ contexts \in Seq(ContextRow)
  BY DEF EngineInv, IntervalsTypeOK
<1>2. ASSUME NEW s \in Session, Activate(s) PROVE LeftOpenIsLastContext'
  BY <1>2, TablesLeave DEF Activate
<1>3. ASSUME NEW members, MintContext(members), live # NoSession, live' = live,
             \A s \in Session : s # live => LeftOpen(s)' = LeftOpen(s)
      PROVE  LeftOpenIsLastContext'
  <2>1. context' # NoContext /\ \A c \in DOMAIN contexts : contexts'[c] = contexts[c]
    BY <1>3, MintOnlyAdds
  <2>2. /\ DOMAIN contexts \subseteq DOMAIN contexts'
        /\ \A c \in DOMAIN contexts' \ DOMAIN contexts : contexts'[c].session = live
    BY <1>1, <1>3, MintAddsOwn
  <2> QED BY <1>3, <2>1, <2>2, LiveSessionLeaves
<1>4. CASE OpenSession
  <2>1. MintContext({}) /\ live # NoSession /\ live' = live /\ intervals' = intervals
    BY <1>4 DEF OpenSession
  <2>2. \A s \in Session : LeftOpen(s)' = LeftOpen(s)
    BY <2>1 DEF LeftOpen
  <2> QED BY <1>3, <2>1, <2>2
<1>5. ASSUME NEW d \in Declaration, NEW closes \in SUBSET Kind, OpenInterval(d, closes)
      PROVE  LeftOpenIsLastContext'
  <2>1. /\ MintContext((open \ OpenOfKinds(closes)) \cup {Len(intervals) + 1})
        /\ live # NoSession /\ live' = live
    BY <1>5 DEF OpenInterval
  <2>2. /\ DOMAIN intervals \subseteq DOMAIN intervals'
        /\ \A i \in DOMAIN intervals' \ DOMAIN intervals : intervals'[i].session = live
        /\ \A i \in DOMAIN intervals :
              /\ intervals'[i].session = intervals[i].session
              /\ intervals'[i].ended = (intervals[i].ended \/ i \in OpenOfKinds(closes))
    BY <1>5, OpenIntervalRows
  <2>3. \A i \in DOMAIN intervals :
           i \notin open => (intervals'[i].ended <=> intervals[i].ended)
    BY <2>2 DEF OpenOfKinds
  <2>4. \A s \in Session : s # live => LeftOpen(s)' = LeftOpen(s)
    BY <2>1, <2>2, <2>3, OthersLeave
  <2> QED BY <1>3, <2>1, <2>4
<1>6. ASSUME NEW ids \in SUBSET open, intervals' = EndRows(ids)
      PROVE  /\ DOMAIN intervals' = DOMAIN intervals
             /\ \A i \in DOMAIN intervals :
                   /\ intervals'[i].session = intervals[i].session
                   /\ i \notin open => (intervals'[i].ended <=> intervals[i].ended)
  <2>1. /\ DOMAIN intervals' = DOMAIN intervals
        /\ \A i \in DOMAIN intervals :
              /\ intervals'[i].session = intervals[i].session
              /\ intervals'[i].ended = (intervals[i].ended \/ i \in ids)
    BY <1>1, <1>6, EndRowsChangesOnlyEnds
  <2> QED BY <1>6, <2>1
<1>7. ASSUME NEW ids \in SUBSET open, CloseMatching(ids) PROVE LeftOpenIsLastContext'
  <2>1. /\ MintContext(open \ ids) /\ live # NoSession /\ live' = live
        /\ intervals' = EndRows(ids)
    BY <1>7 DEF CloseMatching
  <2>2. \A s \in Session : s # live => LeftOpen(s)' = LeftOpen(s)
    BY <1>6, <2>1, OthersLeave
  <2> QED BY <1>3, <2>1, <2>2
<1>8. CASE CloseSession
  <2>1. /\ live # NoSession /\ live' = live /\ contexts' = contexts
        /\ intervals' = EndRows(open) /\ open' = {}
    BY <1>8 DEF CloseSession
  <2>2. \A s \in Session : s # live => LeftOpen(s)' = LeftOpen(s)
    BY <1>6, <2>1, OthersLeave
  <2> QED BY <2>1, <2>2, LiveSessionLeaves
<1>9. CASE StampEvent \/ Drop \/ UNCHANGED engine
  BY <1>9, TablesLeave DEF StampEvent, Drop, database, engine
<1> QED BY <1>2, <1>4, <1>5, <1>7, <1>8, <1>9 DEF IntervalsNext

LEMMA NothingLeftYet == IntervalsInit => LeftOpenIsLastContext
BY EmptySeq DEF IntervalsInit, LeftOpenIsLastContext, LeftOpen

\* What a session leaves open, whether its close failed or the process died,
\* is exactly what its last context names.
THEOREM LeftOpenIsNamed == IntervalsSpec => []LeftOpenIsLastContext
BY EngineInvariant, NothingLeftYet, StepLeaves, PTL DEF IntervalsSpec

-----------------------------------------------------------------------------
(* The refinement *)

LogRow == [session : Session, declared : (SUBSET Declaration) \cup {Unstated}]

\* What a context resolves to is a set of declarations, or Unstated.
LEMMA ResolveTypes ==
    ASSUME EngineInv, NEW c \in 0 .. Len(contexts)
    PROVE  Resolve(c) \in (SUBSET Declaration) \cup {Unstated}
<1>1. CASE c = NoContext
  BY <1>1 DEF Resolve
<1>2. CASE c # NoContext
  <2>1. c \in DOMAIN contexts
    BY <1>2, TablesWellFormed DEF EngineInv, NoContext
  <2>2. \A i \in contexts[c].members : intervals[i].what \in Declaration
    BY <2>1, TablesWellFormed DEF EngineInv, ContextsStayInSession, IntervalRow
  <2> QED BY <1>2, <2>2 DEF Resolve, DeclaredBy
<1> QED BY <1>1, <1>2

LEMMA StampContextsExist ==
    ASSUME EngineInv, NEW k \in DOMAIN stamps
    PROVE  stamps[k].context \in 0 .. Len(contexts)
BY TablesWellFormed DEF EngineInv, StampsStayInSession, StampRow, NoContext

LogOK ==
    /\ declaredLog \in Seq(LogRow)
    /\ Len(declaredLog) = Len(stamps)
    /\ DOMAIN declaredLog = DOMAIN stamps

LEMMA LogWellFormed == EngineInv => LogOK
<1> SUFFICES ASSUME EngineInv PROVE LogOK
  OBVIOUS
<1>1. /\ Len(stamps) \in Nat /\ DOMAIN stamps = 1 .. Len(stamps)
      /\ \A k \in DOMAIN stamps : stamps[k] \in StampRow
  BY TablesWellFormed DEF EngineInv
<1>2. \A k \in DOMAIN stamps :
        [session |-> stamps[k].session, declared |-> Resolve(stamps[k].context)] \in LogRow
  BY <1>1, ResolveTypes, StampContextsExist DEF LogRow, StampRow
<1>3. declaredLog \in [1 .. Len(stamps) -> LogRow]
  BY <1>1, <1>2 DEF declaredLog
<1>4. declaredLog \in Seq(LogRow)
  BY <1>1, <1>3, SeqDef
<1> QED BY <1>1, <1>3, <1>4, LenProperties DEF LogOK

LEMMA LogStaysWellFormed == EngineInv' => LogOK'
BY LogWellFormed, PTL

\* A step that only adds rows and ends rows changes nothing a recorded event
\* resolves to.
LEMMA RecordedPlayStands ==
    ASSUME EngineInv,
           \A c \in DOMAIN contexts : contexts'[c] = contexts[c],
           \A i \in DOMAIN intervals : intervals'[i].what = intervals[i].what,
           stamps' = stamps
    PROVE  declaredLog' = declaredLog
<1>1. ASSUME NEW k \in DOMAIN stamps
      PROVE  Resolve(stamps[k].context)' = Resolve(stamps[k].context)
  <2> DEFINE c == stamps[k].context
  <2>1. CASE c = NoContext
    BY <2>1 DEF Resolve
  <2>2. CASE c # NoContext
    <3>1. c \in DOMAIN contexts /\ \A i \in contexts[c].members : i \in DOMAIN intervals
      BY <1>1, <2>2 DEF EngineInv, StampsStayInSession, ContextsStayInSession
    <3> QED BY <2>2, <3>1 DEF Resolve, DeclaredBy
  <2> QED BY <2>1, <2>2
<1> QED BY <1>1 DEF declaredLog

LEMMA InitRefines == IntervalsInit => Declared!PlayInit
<1> SUFFICES ASSUME IntervalsInit PROVE Declared!PlayInit
  OBVIOUS
<1>1. live = NoSession /\ declaredNow = Unstated
  BY DEF IntervalsInit, declaredNow, NoContext
<1>2. declaredLog = << >>
  <2>1. EngineInv /\ Len(stamps) = 0
    BY InitEstablishesInv, EmptySeq DEF IntervalsInit
  <2> QED BY <2>1, LogWellFormed, EmptySeq DEF LogOK
<1> QED BY <1>1, <1>2 DEF Declared!PlayInit

\* Opening and closing intervals is a redeclaration: a context is in force
\* afterwards, and it names declarations.
LEMMA MintRedeclares ==
    ASSUME EngineInv, EngineInv', live # NoSession, live' = live, stamps' = stamps,
           context' # NoContext,
           \A c \in DOMAIN contexts : contexts'[c] = contexts[c],
           \A i \in DOMAIN intervals : intervals'[i].what = intervals[i].what
    PROVE  Declared!Redeclare
<1>1. declaredLog' = declaredLog
  BY RecordedPlayStands
<1>2. /\ intervals' \in Seq(IntervalRow) /\ open' \subseteq DOMAIN intervals'
  BY DEF EngineInv, IntervalsTypeOK
<1>3. \A i \in open' : intervals'[i].what \in Declaration
  <2>1. \A i \in DOMAIN intervals' : intervals'[i] \in IntervalRow
    BY <1>2, LenProperties, ElementOfSeq
  <2> QED BY <1>2, <2>1 DEF IntervalRow
<1>4. declaredNow' = {intervals'[i].what : i \in open'}
  BY DEF declaredNow, DeclaredBy
<1>5. declaredNow' \in SUBSET [kind : Kind, subject : Subject]
  BY <1>3, <1>4 DEF Declaration
<1> QED BY <1>1, <1>5 DEF Declared!Redeclare

LEMMA StampRecords ==
    ASSUME EngineInv, EngineInv', StampEvent
    PROVE  Declared!Record
<1> DEFINE stamp == [session |-> live, context |-> context]
           entry == [session |-> live, declared |-> declaredNow]
<1>1. /\ live # NoSession /\ live \in Session
      /\ stamps' = Append(stamps, stamp)
      /\ UNCHANGED <<live, open, context, recorded, intervals, contexts>>
  BY DEF StampEvent, EngineInv, IntervalsTypeOK
<1>2. declaredNow' = declaredNow
  BY <1>1 DEF declaredNow, DeclaredBy
<1>3. declaredNow = Resolve(context)
  BY DEF declaredNow, Resolve, EngineInv, ContextNamesOpenSet
<1>4. entry \in LogRow
  <2>1. context \in 0 .. Len(contexts)
    BY DEF EngineInv, IntervalsTypeOK
  <2> QED BY <1>1, <1>3, <2>1, ResolveTypes DEF LogRow
<1>5. /\ declaredLog \in Seq(LogRow) /\ Len(declaredLog) = Len(stamps)
      /\ DOMAIN declaredLog = DOMAIN stamps
      /\ declaredLog' \in Seq(LogRow) /\ Len(declaredLog') = Len(stamps')
      /\ DOMAIN declaredLog' = DOMAIN stamps'
  BY LogWellFormed, LogStaysWellFormed DEF LogOK
<1>6. /\ Len(stamps) \in Nat /\ DOMAIN stamps = 1 .. Len(stamps)
      /\ Len(stamps') = Len(stamps) + 1 /\ DOMAIN stamps' = 1 .. Len(stamps) + 1
      /\ stamps'[Len(stamps) + 1] = stamp
      /\ \A k \in DOMAIN stamps : stamps'[k] = stamps[k]
  <2>1. stamp \in StampRow /\ stamps \in Seq(StampRow)
    BY <1>1, TablesWellFormed DEF EngineInv, IntervalsTypeOK, StampRow
  <2> HIDE DEF stamp
  <2> QED BY <1>1, <2>1, AppendRow
<1>7. declaredLog' = Append(declaredLog, entry)
  <2> DEFINE grown == Append(declaredLog, entry)
  <2> HIDE DEF entry
  <2>1. /\ grown \in Seq(LogRow) /\ Len(grown) = Len(stamps) + 1
        /\ grown[Len(stamps) + 1] = entry
        /\ \A k \in DOMAIN stamps : grown[k] = declaredLog[k]
    BY <1>4, <1>5, AppendRow
  <2>2. declaredLog'[Len(stamps) + 1] = entry
    <3> SUFFICES ASSUME NEW k \in DOMAIN stamps', k = Len(stamps) + 1
                 PROVE  declaredLog'[k] = entry
      BY <1>6
    <3>1. declaredLog'[k] =
            [session |-> stamps[k].session, declared |-> Resolve(stamps[k].context)]'
      BY DEF declaredLog
    <3>2. stamps'[k].session = live /\ stamps'[k].context = context
      BY <1>6
    <3>3. Resolve(stamps[k].context)' = Resolve(context)
      BY <1>1, <3>2 DEF Resolve, DeclaredBy
    <3> QED BY <1>3, <3>1, <3>2, <3>3 DEF entry
  <2>3. \A k \in DOMAIN stamps : declaredLog'[k] = declaredLog[k]
    BY <1>1, <1>6 DEF declaredLog, Resolve, DeclaredBy
  <2>4. \A k \in 1 .. Len(declaredLog') : declaredLog'[k] = grown[k]
    BY <1>5, <1>6, <2>1, <2>2, <2>3
  <2> QED BY <1>5, <1>6, <2>1, <2>4, SeqEqual
<1> QED BY <1>1, <1>2, <1>7 DEF Declared!Record

LEMMA StepRefines ==
    EngineInv /\ EngineInv' /\ [IntervalsNext]_engine => [Declared!PlayNext]_(Declared!play)
<1> SUFFICES ASSUME EngineInv, EngineInv', [IntervalsNext]_engine
             PROVE  Declared!PlayNext \/ UNCHANGED Declared!play
  OBVIOUS
<1> USE DEF Declared!PlayNext
<1>1. ASSUME NEW s \in Session, Activate(s) PROVE Declared!Begin(s)
  <2>1. declaredLog' = declaredLog
    BY <1>1, RecordedPlayStands DEF Activate
  <2> QED BY <1>1, <2>1 DEF Activate, Declared!Begin, declaredNow
<1>2. CASE OpenSession
  <2>1. live # NoSession /\ live' = live /\ stamps' = stamps /\ intervals' = intervals
        /\ MintContext({})
    BY <1>2 DEF OpenSession
  <2> QED BY <2>1, MintOnlyAdds, MintRedeclares
<1>3. ASSUME NEW d \in Declaration, NEW closes \in SUBSET Kind, OpenInterval(d, closes)
      PROVE  Declared!Redeclare
  <2>1. live # NoSession /\ live' = live /\ stamps' = stamps
        /\ MintContext((open \ OpenOfKinds(closes)) \cup {Len(intervals) + 1})
    BY <1>3 DEF OpenInterval
  <2>2. \A i \in DOMAIN intervals : intervals'[i].what = intervals[i].what
    BY <1>3, OpenIntervalRows
  <2> QED BY <2>1, <2>2, MintOnlyAdds, MintRedeclares
<1>4. ASSUME NEW ids \in SUBSET open, CloseMatching(ids) PROVE Declared!Redeclare
  <2>1. live # NoSession /\ live' = live /\ stamps' = stamps /\ MintContext(open \ ids)
    BY <1>4 DEF CloseMatching
  <2>2. \A i \in DOMAIN intervals : intervals'[i].what = intervals[i].what
    BY <1>4, EndRowsChangesOnlyEnds DEF CloseMatching, EngineInv, IntervalsTypeOK
  <2> QED BY <2>1, <2>2, MintOnlyAdds, MintRedeclares
<1>5. CASE CloseSession
  <2>1. \A i \in DOMAIN intervals : intervals'[i].what = intervals[i].what
    BY <1>5, EndRowsChangesOnlyEnds DEF CloseSession, EngineInv, IntervalsTypeOK
  <2>2. declaredLog' = declaredLog
    BY <1>5, <2>1, RecordedPlayStands DEF CloseSession
  <2> QED BY <1>5, <2>2 DEF CloseSession, Declared!Lapse, declaredNow
<1>6. CASE StampEvent
  BY <1>6, StampRecords
<1>7. CASE Drop
  <2>1. declaredLog' = declaredLog
    BY <1>7, RecordedPlayStands DEF Drop, database
  <2> QED BY <1>7, <2>1 DEF Drop, Declared!End, declaredNow
<1>8. CASE UNCHANGED engine
  BY <1>8 DEF engine, Declared!play, declaredNow, declaredLog, DeclaredBy, Resolve
<1> QED
  BY <1>1, <1>2, <1>3, <1>4, <1>5, <1>6, <1>7, <1>8 DEF IntervalsNext

\* The interval tables implement the attribution log: whatever the player
\* opens, closes or abandons later, a recorded event keeps the declarations
\* that were in force when it was recorded.
THEOREM EngineImplementsPlay == IntervalsSpec => ImplementsDeclaredPlay
BY EngineInvariant, InitRefines, StepRefines, PTL
   DEF IntervalsSpec, ImplementsDeclaredPlay, Declared!PlaySpec
=============================================================================
