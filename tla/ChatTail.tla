------------------------------ MODULE ChatTail ------------------------------
(***************************************************************************)
(* The tail of the game's chat log (chatlog_watcher.rs).  The game appends  *)
(* to a file; a thread of the watcher polls it, holds a line whose end has   *)
(* not arrived yet, groups the recognised lines of one second into a tick   *)
(* and publishes the tick when the second changes, when the file is idle    *)
(* and when the watcher stops.  Starting, stopping and rebinding come from  *)
(* a control thread; a drain waiter reads two counters the tail thread      *)
(* moves.  What a tick publishes is the business of BusRendezvous and       *)
(* QuestLifecycle.                                                          *)
(*                                                                         *)
(* A file is a sequence of pieces.  A line is one piece, or a head and a    *)
(* rest when its append is seen half done; only the last piece of a line    *)
(* carries its newline.                                                     *)
(***************************************************************************)
EXTENDS Naturals, Sequences, FiniteSets, SequencesExt, Selection

CONSTANTS
    Second,    \* the stamps of lines, in the order of time
    MaxLines,  \* bound on the lines the game writes
    MaxEffort  \* bound on lines written and starts of the watcher together

ASSUME TailAssumption == Second \subseteq Nat /\ MaxLines \in Nat /\ MaxEffort \in Nat

VARIABLES
    file,      \* pieces: [line, second, event, whole: starts the line, ends]
    tailing,   \* Shared.running
    tail,      \* the tail thread: "off", "open", "poll", "line", "close", "count", "clear", "final"
    after,     \* where the tail thread goes when its tick is cleared
    seek,      \* the position the reader has reached
    buffer,    \* pieces of a line whose end has not arrived
    line,      \* the line in process_line, or << >>
    events,      \* TickBuffer.events
    pending,   \* Shared.pending_tick
    seen,      \* Shared.lines_seen_total
    starts,    \* how often the watcher was started
    waiter,    \* the drain waiter: [lines, stage]
    read,      \* history: the lines handed to process_line
    published, \* history: the ticks published
    lost       \* history: lines buffered when the file could not be read

tailVars == <<file, tailing, tail, after, seek, buffer, line, events, pending, seen,
              starts, waiter, read, published, lost>>

threadVars == <<tail, after, seek, buffer, line, events, pending, seen>>

-----------------------------------------------------------------------------
(* Lines, fragments and ticks.                                             *)

Written == {file[k].line : k \in DOMAIN file}
HalfDone == file # << >> /\ ~Last(file).ends

\* parse_line over the pieces of one line: what begins in its middle has no
\* stamp and is not recognised, and neither is a line that reports nothing.
Recognised(pieces) == pieces[1].whole /\ pieces[1].event

Item(pieces) == [line |-> pieces[1].line, second |-> pieces[1].second,
                 known |-> Recognised(pieces), ends |-> Last(pieces).ends]

\* The tick's second has passed.
Closes(item) == events # << >> /\ Last(events).second # item.second

-----------------------------------------------------------------------------
(* The game.                                                               *)

WriteLine(second, event) ==
    /\ Cardinality(Written) < MaxLines /\ Cardinality(Written) + starts < MaxEffort
    /\ ~HalfDone
    /\ file # << >> => second >= Last(file).second
    /\ \E ends \in BOOLEAN :
           file' = Append(file, [line |-> Cardinality(Written) + 1, second |-> second,
                                 event |-> event, whole |-> TRUE, ends |-> ends])
    /\ UNCHANGED <<tailing, threadVars, starts, waiter, read, published, lost>>

WriteRest ==
    /\ HalfDone
    /\ file' = Append(file, [Last(file) EXCEPT !.whole = FALSE, !.ends = TRUE])
    /\ UNCHANGED <<tailing, threadVars, starts, waiter, read, published, lost>>

-----------------------------------------------------------------------------
(* Control: start, stop and restart, one after the other.                  *)

\* start spawns the tail (and waits at most five seconds until it has opened the
\* file); restart clears the flag of a tick that was never published first.
Start(again) ==
    /\ ~tailing /\ tail = "off" /\ Cardinality(Written) + starts < MaxEffort
    /\ tailing' = TRUE /\ starts' = starts + 1
    /\ tail' = "open"
    /\ pending' = IF again THEN FALSE ELSE pending
    /\ UNCHANGED <<file, after, seek, buffer, line, events, seen, waiter, read, published, lost>>

\* stop clears the flag; its join ends when the tail has.
Stop ==
    /\ tailing
    /\ tailing' = FALSE
    /\ UNCHANGED <<file, threadVars, starts, waiter, read, published, lost>>

-----------------------------------------------------------------------------
(* The tail thread.                                                        *)

\* The file is opened and sought to its end.
Open ==
    /\ tail = "open"
    /\ tail' = "poll"
    /\ seek' = Len(file) /\ buffer' = << >> /\ events' = << >> /\ line' = << >>
    /\ UNCHANGED <<file, tailing, after, pending, seen, starts, waiter, read, published, lost>>

\* read_until from the reader's position: up to a newline, or what there is.
NextPieces ==
    LET rest == SubSeq(file, seek + 1, Len(file))
        ending == SelectInSeq(rest, LAMBDA piece : piece.ends)
    IN  IF ending = 0 THEN rest ELSE SubSeq(rest, 1, ending)

\* Mutant: the head of an append in flight is taken for a line.
HeldNever(pieces) == FALSE

Held(pieces) == ~Last(pieces).ends

\* flush_tick up to the publishes; an empty tick has nothing to publish.
Publish(next) ==
    /\ published' = IF events = << >> THEN published ELSE Append(published, events)
    /\ events' = << >>
    /\ tail' = "clear" /\ after' = next

\* The thread takes a line into process_line.
Take(pieces) ==
    /\ line' = pieces
    /\ read' = Append(read, Item(pieces))
    /\ tail' = "line" /\ buffer' = << >>

Poll ==
    /\ tail = "poll"
    /\ IF ~tailing
       THEN \* the loop ends; what is held counts as a last line
            /\ IF buffer # << >> THEN Take(buffer) /\ after' = "final"
               ELSE tail' = "final" /\ UNCHANGED <<line, read, buffer, after>>
            /\ UNCHANGED <<seek, events, published>>
       ELSE IF NextPieces = << >>
       THEN /\ Publish("poll")
            /\ UNCHANGED <<seek, buffer, line, read>>
       ELSE LET pieces == buffer \o NextPieces
            IN  /\ seek' = seek + Len(NextPieces)
                /\ IF Held(pieces)
                   THEN buffer' = pieces /\ UNCHANGED <<tail, line, read, after>>
                   ELSE Take(pieces) /\ after' = "poll"
                /\ UNCHANGED <<events, published>>
    /\ UNCHANGED <<file, tailing, pending, seen, starts, waiter, lost>>

\* Mutant: the line is buffered without raising the flag.
BufferUnflagged(item) == events' = Append(events, item) /\ UNCHANGED pending

Buffer(item) == events' = Append(events, item) /\ pending' = TRUE

\* process_parsed_line: a recognised line of another second closes the tick
\* (clearing its flag) and then joins the next one.
ProcessLine ==
    /\ tail = "line"
    /\ IF ~Recognised(line)
       THEN tail' = "count" /\ UNCHANGED <<events, published, pending>>
       ELSE IF Closes(Item(line))
       THEN /\ published' = Append(published, events)
            /\ events' = << >> /\ tail' = "close" /\ UNCHANGED pending
       ELSE Buffer(Item(line)) /\ tail' = "count" /\ UNCHANGED published
    /\ UNCHANGED <<file, tailing, after, seek, buffer, line, seen, starts, waiter,
                   read, lost>>

CloseTick ==
    /\ tail = "close"
    /\ pending' = FALSE /\ tail' = "line"
    /\ UNCHANGED <<file, tailing, after, seek, buffer, line, events, seen, starts,
                   waiter, read, published, lost>>

\* The line counts as seen after its events were buffered.
Count ==
    /\ tail = "count"
    /\ seen' = seen + 1 /\ line' = << >> /\ tail' = after
    /\ UNCHANGED <<file, tailing, after, seek, buffer, events, pending, starts, waiter,
                   read, published, lost>>

\* flush_tick's last statement.
Clear ==
    /\ tail = "clear"
    /\ pending' = FALSE /\ tail' = after
    /\ UNCHANGED <<file, tailing, after, seek, buffer, line, events, seen, starts,
                   waiter, read, published, lost>>

FinalFlush ==
    /\ tail = "final"
    /\ Publish("off")
    /\ UNCHANGED <<file, tailing, seek, buffer, line, pending, seen, starts, waiter,
                   read, lost>>

\* The file cannot be opened or read: the loop ends without a flush.
ReadFails ==
    /\ tail = "open" \/ (tail = "poll" /\ tailing)
    /\ tailing' = FALSE /\ tail' = "off"
    /\ lost' = lost \union {events[k] : k \in DOMAIN events}
    /\ events' = << >> /\ buffer' = << >>
    /\ UNCHANGED <<file, after, seek, line, pending, seen, starts, waiter, read, published>>

-----------------------------------------------------------------------------
(* wait_until_drained reads one counter, then the other.                   *)

\* One wait, whenever it may begin.
WaitDrained(lines) ==
    /\ waiter.stage = "idle"
    /\ waiter' = [lines |-> lines, stage |-> "lines"]
    /\ UNCHANGED <<file, tailing, threadVars, starts, read, published, lost>>

\* Enough lines were seen: is a tick pending?
SeesLines ==
    /\ waiter.stage = "lines" /\ seen >= waiter.lines
    /\ waiter' = [waiter EXCEPT !.stage = "tick"]
    /\ UNCHANGED <<file, tailing, threadVars, starts, read, published, lost>>

SeesTick ==
    /\ waiter.stage = "tick"
    /\ waiter' = [waiter EXCEPT !.stage = IF pending THEN "lines" ELSE "drained"]
    /\ UNCHANGED <<file, tailing, threadVars, starts, read, published, lost>>

-----------------------------------------------------------------------------
TailInit ==
    /\ file = << >> /\ tailing = FALSE /\ tail = "off" /\ after = "off"
    /\ seek = 0 /\ buffer = << >> /\ line = << >> /\ events = << >>
    /\ pending = FALSE /\ seen = 0 /\ starts = 0
    /\ waiter = [lines |-> 0, stage |-> "idle"]
    /\ read = << >> /\ published = << >> /\ lost = {}

TailNext ==
    \/ \E second \in Second, event \in BOOLEAN : WriteLine(second, event)
    \/ WriteRest
    \/ \E again \in BOOLEAN : Start(again)
    \/ Stop
    \/ Open \/ Poll \/ ProcessLine \/ CloseTick \/ Count \/ Clear \/ FinalFlush \/ ReadFails
    \/ \E lines \in 1..MaxLines : WaitDrained(lines)
    \/ SeesLines \/ SeesTick

TailSpec == TailInit /\ [][TailNext]_tailVars

-----------------------------------------------------------------------------
(* Properties.                                                             *)

\* The recognised lines the thread is through with, in the order it read them.
Handled ==
    LET read_ == IF tail \in {"line", "close"} THEN Front(read) ELSE read
    IN  Selected(read_, {item \in ToSet(read_) : item.known /\ item \notin lost})

TailTypeOK ==
    /\ tailing => tail # "off"
    /\ seek \in 0 .. Len(file) /\ seen \in 0 .. Len(read)
    /\ tail = "off" => events = << >>

\* Through half-written appends, idle polls, stops and starts, every recognised
\* line the watcher read is in exactly one tick, in the order of the file, and a
\* tick holds one second; a line is cut only when the watcher stops on it.
EveryLineInItsTick ==
    /\ TailTypeOK
    /\ FlattenSeq(published) \o events = Handled
    /\ \A k \in DOMAIN published : \A i, j \in DOMAIN published[k] :
           published[k][i].second = published[k][j].second
    /\ \A i, j \in DOMAIN Handled : i < j => Handled[i].line < Handled[j].line
    /\ line # << >> /\ ~Last(line).ends => ~tailing

\* A drain wait that returned has seen its lines published, although it reads
\* the two counters one after the other and the tail moves in between
\* (process_line: "The `lines_seen` bump MUST be last").
DrainedIsPublished ==
    waiter.stage = "drained" =>
        \A k \in 1..waiter.lines :
            \/ ~read[k].known \/ read[k] \in lost
            \/ \E t \in DOMAIN published : read[k] \in ToSet(published[t])

\* The watcher's counters, its buffer and what it published agree (process_line,
\* flush and wait_until_drained of chatlog_watcher.rs).
TailSound == EveryLineInItsTick /\ DrainedIsPublished
=============================================================================
