---------------------------- MODULE SessionIntervals ----------------------------
(***************************************************************************)
(* The session-interval engine of the hunt tracker (tracker/intervals.rs): *)
(* what the player has declared to be in force, and the context that       *)
(* stamps every recorded event with exactly that set.                      *)
(*                                                                         *)
(* The live session holds two things in memory, the identifiers of the     *)
(* standing intervals and the identifier of the current context.  The      *)
(* database holds four append-only tables.  A row's identifier is its      *)
(* position, because both id columns are AUTOINCREMENT.  Every transition  *)
(* of the engine is one transaction whose result memory adopts after the   *)
(* commit, so it is one action here; a transaction that fails changes      *)
(* neither side and is a stuttering step.                                  *)
(*                                                                         *)
(* A declaration keeps its kind and what identifies it: the quest, the     *)
(* segment's case-folded name, the loadout or the modifier's magnitude.    *)
(* Labels and wall-clock bounds are dropped; a bound only matters here as  *)
(* "the interval has ended" or not.                                        *)
(***************************************************************************)
EXTENDS Naturals, Sequences

CONSTANTS
    Session,       \* session identifiers (uuid v4, never reused)
    NoSession,     \* the idle typestate: no session in memory
    Kind,          \* interval kinds
    Subject,       \* what a declaration identifies within its kind
    MaxIntervals,  \* bound on interval rows
    MaxStamps,     \* bound on stamped event rows
    Unstated       \* no context: nothing is known about what was in force

ASSUME SessionAssumption == NoSession \notin Session
ASSUME BoundAssumption == MaxIntervals \in Nat /\ MaxStamps \in Nat

VARIABLES
    live,       \* the session whose ActiveSession holds the interval state
    open,       \* IntervalState.open: identifiers of the standing intervals
    context,    \* IntervalState.context_id, 0 for None
    recorded,   \* sessions with a tracking_sessions row
    intervals,  \* session_intervals
    contexts,   \* session_contexts joined with session_context_intervals
    stamps      \* (session, context) of every event row the tracker writes

memory   == <<live, open, context>>
database == <<recorded, intervals, contexts, stamps>>
engine   == <<live, open, context, recorded, intervals, contexts, stamps>>

NoContext == 0

Declaration == [kind : Kind, subject : Subject]
IntervalRow == [session : Session, what : Declaration, ended : BOOLEAN]
ContextRow  == [session : Session, members : SUBSET (Nat \ {0})]
StampRow    == [session : Session, context : Nat]

\* One type invariant for the engine: the tables hold well-formed rows and
\* memory refers to rows that exist (IntervalState, intervals.rs:206-217).
IntervalsTypeOK ==
    /\ live \in Session \cup {NoSession}
    /\ open \subseteq DOMAIN intervals
    /\ context \in 0 .. Len(contexts)
    /\ recorded \subseteq Session
    /\ intervals \in Seq(IntervalRow)
    /\ contexts \in Seq(ContextRow)
    /\ stamps \in Seq(StampRow)

-----------------------------------------------------------------------------
(* Readers of the live set *)

OpenOfKinds(kinds) == {i \in open : intervals[i].what.kind \in kinds}

Standing(d) == {i \in open : intervals[i].what = d}

\* The rows with the given identifiers ended; an ended row stays as it was.
EndRows(ids) ==
    [i \in DOMAIN intervals |->
        IF i \in ids THEN [intervals[i] EXCEPT !.ended = TRUE] ELSE intervals[i]]

\* Mutant: the row id is read after the member inserts, from the wrong table.
MintContextWrongId(members) ==
    /\ contexts' = Append(contexts, [session |-> live, members |-> members])
    /\ context' = Len(contexts) + 2

\* A fresh context naming `members`, adopted as the current one.
MintContext(members) ==
    /\ contexts' = Append(contexts, [session |-> live, members |-> members])
    /\ context' = Len(contexts) + 1

-----------------------------------------------------------------------------
(* Transitions *)

IntervalsInit ==
    /\ live = NoSession
    /\ open = {}
    /\ context = NoContext
    /\ recorded = {}
    /\ intervals = << >>
    /\ contexts = << >>
    /\ stamps = << >>

\* start_session inserts the row of a fresh session and only then holds a
\* default IntervalState in memory.
Activate(s) ==
    /\ live = NoSession
    /\ s \in Session \ recorded
    /\ recorded' = recorded \cup {s}
    /\ live' = s
    /\ open' = {}
    /\ context' = NoContext
    /\ UNCHANGED <<intervals, contexts, stamps>>

\* Mint the opening context, the empty set; start_session calls it once.
OpenSession ==
    /\ live # NoSession
    /\ \A c \in DOMAIN contexts : contexts[c].session # live
    /\ MintContext({})
    /\ open' = {}
    /\ UNCHANGED <<live, recorded, intervals, stamps>>

\* Mutant: memory keeps the sealed intervals in the standing set.
OpenIntervalKeepingSealed(d, closes) ==
    LET closing == OpenOfKinds(closes)
        id      == Len(intervals) + 1
    IN  /\ live # NoSession
        /\ Len(intervals) < MaxIntervals
        /\ intervals' = Append(EndRows(closing),
                               [session |-> live, what |-> d, ended |-> FALSE])
        /\ open' = open \cup {id}
        /\ MintContext(open')
        /\ UNCHANGED <<live, recorded, stamps>>

\* Mutant: rows are sealed by kind instead of identifier, whatever session
\* left them open.
OpenIntervalSealingAll(d, closes) ==
    LET standing == {i \in DOMAIN intervals :
                        ~intervals[i].ended /\ intervals[i].what.kind \in closes}
        members  == (open \ OpenOfKinds(closes)) \cup {Len(intervals) + 1}
    IN  /\ live # NoSession
        /\ Len(intervals) < MaxIntervals
        /\ intervals' = Append(EndRows(standing),
                               [session |-> live, what |-> d, ended |-> FALSE])
        /\ open' = members
        /\ MintContext(members)
        /\ UNCHANGED <<live, recorded, stamps>>

\* Mutant: the members are named by the identifier of the row before.
OpenIntervalOffByOne(d, closes) ==
    LET closing == OpenOfKinds(closes)
    IN  /\ live # NoSession
        /\ Len(intervals) < MaxIntervals
        /\ intervals' = Append(EndRows(closing),
                               [session |-> live, what |-> d, ended |-> FALSE])
        /\ open' = (open \ closing) \cup {Len(intervals) + 1}
        /\ MintContext((open \ closing) \cup {Len(intervals)})
        /\ UNCHANGED <<live, recorded, stamps>>

\* Open an interval for `d`, sealing first the standing intervals of the
\* kinds in `closes` (CloseScope: none, the same kind, or several kinds).
OpenInterval(d, closes) ==
    LET closing == OpenOfKinds(closes)
        id      == Len(intervals) + 1
    IN  /\ live # NoSession
        /\ Len(intervals) < MaxIntervals
        /\ intervals' = Append(EndRows(closing),
                               [session |-> live, what |-> d, ended |-> FALSE])
        /\ open' = (open \ closing) \cup {id}
        /\ MintContext((open \ closing) \cup {id})
        /\ UNCHANGED <<live, recorded, stamps>>

\* Mutant: the rows end and the context in force stays the wider one.
CloseMatchingUnminted(ids) ==
    /\ live # NoSession
    /\ ids # {}
    /\ ids \subseteq open
    /\ intervals' = EndRows(ids)
    /\ open' = open \ ids
    /\ UNCHANGED <<live, context, recorded, contexts, stamps>>

\* Mutant: the context in force is narrowed in place.
CloseMatchingInPlace(ids) ==
    /\ live # NoSession
    /\ ids # {}
    /\ ids \subseteq open
    /\ intervals' = EndRows(ids)
    /\ open' = open \ ids
    /\ contexts' = [c \in DOMAIN contexts |->
            IF c = context THEN [contexts[c] EXCEPT !.members = open \ ids] ELSE contexts[c]]
    /\ UNCHANGED <<live, context, recorded, stamps>>

\* End the given standing intervals and adopt the narrower context.  With
\* nothing to end the engine returns without writing.
CloseMatching(ids) ==
    /\ live # NoSession
    /\ ids # {}
    /\ ids \subseteq open
    /\ intervals' = EndRows(ids)
    /\ open' = open \ ids
    /\ MintContext(open \ ids)
    /\ UNCHANGED <<live, recorded, stamps>>

\* End whatever still stands as the stop begins.  No narrower context is
\* minted: memory holds none until the session is dropped.
CloseSession ==
    /\ live # NoSession
    /\ intervals' = EndRows(open)
    /\ open' = {}
    /\ context' = NoContext
    /\ UNCHANGED <<live, recorded, contexts, stamps>>

\* A kill, swing, healing output or defensive hit is written with the
\* context in force.
StampEvent ==
    /\ live # NoSession
    /\ Len(stamps) < MaxStamps
    /\ stamps' = Append(stamps, [session |-> live, context |-> context])
    /\ UNCHANGED <<live, open, context, recorded, intervals, contexts>>

\* The ActiveSession is dropped, by a committed stop or by a crash.
Drop ==
    /\ live # NoSession
    /\ live' = NoSession
    /\ open' = {}
    /\ context' = NoContext
    /\ UNCHANGED database

IntervalsNext ==
    \/ \E s \in Session : Activate(s)
    \/ OpenSession
    \/ \E d \in Declaration, closes \in SUBSET Kind : OpenInterval(d, closes)
    \/ \E ids \in SUBSET open : CloseMatching(ids)
    \/ CloseSession
    \/ StampEvent
    \/ Drop

IntervalsSpec == IntervalsInit /\ [][IntervalsNext]_engine

-----------------------------------------------------------------------------
(* What the engine promises *)

\* The context in force names exactly the standing intervals, and belongs to
\* the live session: "a context and the set it names are written together or
\* not at all" (mint_context, intervals.rs:314).
ContextNamesOpenSet ==
    context # NoContext => contexts[context] = [session |-> live, members |-> open]

\* Memory and database agree about what stands: the standing intervals are
\* exactly the live session's rows without an end.
OpenRowsAreStanding ==
    live # NoSession =>
        open = {i \in DOMAIN intervals :
                    intervals[i].session = live /\ ~intervals[i].ended}

\* A context never names an interval of another session, nor one that does
\* not exist: reads join contexts to intervals without checking either.
ContextsStayInSession ==
    \A c \in DOMAIN contexts :
        \A i \in contexts[c].members :
            /\ i \in DOMAIN intervals
            /\ intervals[i].session = contexts[c].session

\* An event is stamped with a context of its own session.
StampsStayInSession ==
    \A k \in DOMAIN stamps :
        stamps[k].context # NoContext =>
            /\ stamps[k].context \in DOMAIN contexts
            /\ contexts[stamps[k].context].session = stamps[k].session

\* The current context is the newest of the session's contexts, which is
\* what a writer outside the tracker relies on when it reads the context in
\* force from the table (skill_tracker.rs:212-225).
CurrentContextIsNewest ==
    context # NoContext => context = Len(contexts)

\* What a session leaves open, by a close that failed or a crash, is exactly
\* what its last context names: the rows without an end never disagree with
\* the set its last events were stamped with, however the declarations before
\* were sealed and closed, and no later session touches them (end_rows goes by
\* identifier and shares mint_context's transaction, intervals.rs:288-346; the
\* contained close, session.rs:1103-1112).
LeftOpen(s) == {i \in DOMAIN intervals : intervals[i].session = s /\ ~intervals[i].ended}

LeftOpenIsLastContext ==
    \A s \in Session : LeftOpen(s) # {} =>
        \E c \in DOMAIN contexts :
            /\ contexts[c] = [session |-> s, members |-> LeftOpen(s)]
            /\ \A d \in DOMAIN contexts : d > c => contexts[d].session # s

\* Every interval was in force in some context: a row and the context it
\* opens are one transaction, so no declaration exists that no event could
\* ever carry (open_interval, intervals.rs:378).
EveryIntervalNamed ==
    \A i \in DOMAIN intervals : \E c \in DOMAIN contexts : i \in contexts[c].members

-----------------------------------------------------------------------------
(* The abstract view: what an event's stamp says had been declared. *)

DeclaredBy(ids) == {intervals[i].what : i \in ids}

Resolve(c) == IF c = NoContext THEN Unstated ELSE DeclaredBy(contexts[c].members)

declaredNow == IF context = NoContext THEN Unstated ELSE DeclaredBy(open)

declaredLog ==
    [k \in DOMAIN stamps |->
        [session |-> stamps[k].session, declared |-> Resolve(stamps[k].context)]]

Declared == INSTANCE DeclaredPlay
                WITH player <- live, inForce <- declaredNow, log <- declaredLog

\* The tables implement a log in which every event carries the declarations
\* in force when it was recorded, however intervals open and close later.
ImplementsDeclaredPlay == Declared!PlaySpec
=============================================================================
