------------------------------- MODULE DbPool -------------------------------
(***************************************************************************)
(* The connection core behind Db (db/pool.rs).  Jobs are queued to one      *)
(* writer thread or to readers that share a queue; a worker holds its       *)
(* queue's receiver lock while it waits for a job and releases it to run    *)
(* the job.  The last handle's drop closes both queues and joins the        *)
(* threads, on whichever thread that drop happens: a job may own a handle.  *)
(* What a job does to its connection is left out.                           *)
(***************************************************************************)
EXTENDS Naturals, Sequences, FiniteSets, SequencesExt

CONSTANTS
    Reader,      \* the reader threads
    Writer,      \* the writer thread
    Caller,      \* a thread outside the core
    MaxJobs,     \* bound on the jobs submitted
    MaxHandles   \* bound on the handles held outside the core

ASSUME PoolAssumption ==
    /\ Reader # {} /\ IsFiniteSet(Reader)   \* READER_POOL_SIZE of them
    /\ Writer \notin Reader /\ Caller \notin Reader \union {Writer}
    /\ MaxJobs \in Nat /\ MaxHandles \in Nat \ {0}

Worker == Reader \union {Writer}
Queues == {"writes", "reads"}

VARIABLES
    handles,    \* handles held outside the core's jobs
    queued,     \* the jobs of each queue: [id, owns: holds a handle]
    closed,     \* the senders are gone
    receiver,   \* the worker holding each queue's receiver, or Caller when it is free
    step,       \* each worker: "idle", "recv", "run", "drop", "reply", "gone"
    job,        \* the job each worker has
    dropper,    \* the thread that drops the core, or << >>
    joins,      \* the threads it has still to join
    submitted,  \* history: the jobs of each queue in submission order
    ran,        \* history: jobs of each queue in the order they began
    answered    \* history: the jobs whose outcome was sent

poolVars == <<handles, queued, closed, receiver, step, job, dropper, joins,
              submitted, ran, answered>>

NoJob == [id |-> 0, owns |-> FALSE]

\* Mutant: every thread receives from one queue.
JobQueueShared(worker) == "writes"

JobQueue(worker) == IF worker = Writer THEN "writes" ELSE "reads"

\* Handles held by jobs that wait or run.
Owned == (UNION {{j.id : j \in {i \in ToSet(queued[q]) : i.owns}} : q \in Queues})
         \union {job[w].id : w \in {v \in Worker : job[v].owns}}

Submitted == Len(submitted["writes"]) + Len(submitted["reads"])

-----------------------------------------------------------------------------
(* Callers.                                                                *)

\* enqueue: a job closure may capture a clone of the handle.
Submit(queue, owns) ==
    /\ handles > 0 /\ Submitted < MaxJobs
    /\ LET j == [id |-> Submitted + 1, owns |-> owns]
       IN  /\ queued' = [queued EXCEPT ![queue] = Append(@, j)]
           /\ submitted' = [submitted EXCEPT ![queue] = Append(@, j.id)]
    /\ UNCHANGED <<handles, closed, receiver, step, job, dropper, joins, ran, answered>>

CloneHandle ==
    /\ handles \in 1 .. MaxHandles - 1
    /\ handles' = handles + 1
    /\ UNCHANGED <<queued, closed, receiver, step, job, dropper, joins, submitted, ran,
                   answered>>

\* Drop of the core: both senders are replaced, then the threads are joined in
\* turn.  Nothing blocks between the two replacements.
DropCore(thread) ==
    /\ closed' = TRUE
    /\ dropper' = <<thread>> /\ joins' = <<Writer>> \o SetToSeq(Reader)

ReleaseHandle ==
    /\ handles > 0
    /\ handles' = handles - 1
    /\ IF handles = 1 /\ Owned = {} THEN DropCore(Caller)
       ELSE UNCHANGED <<closed, dropper, joins>>
    /\ UNCHANGED <<queued, receiver, step, job, submitted, ran, answered>>

-----------------------------------------------------------------------------
(* run_worker.                                                             *)

LockReceiver(w) ==
    /\ step[w] = "idle" /\ receiver[JobQueue(w)] = Caller
    /\ receiver' = [receiver EXCEPT ![JobQueue(w)] = w]
    /\ step' = [step EXCEPT ![w] = "recv"]
    /\ UNCHANGED <<handles, queued, closed, job, dropper, joins, submitted, ran, answered>>

\* A job is received and the lock released; a disconnected queue ends the
\* thread only when it is empty.
Receive(w) ==
    LET q == JobQueue(w)
    IN  /\ step[w] = "recv" /\ receiver' = [receiver EXCEPT ![q] = Caller]
        /\ IF queued[q] # << >>
           THEN /\ job' = [job EXCEPT ![w] = Head(queued[q])]
                /\ queued' = [queued EXCEPT ![q] = Tail(@)]
                /\ ran' = [ran EXCEPT ![q] = Append(@, Head(queued[q]).id)]
                /\ step' = [step EXCEPT ![w] = "run"]
           ELSE /\ closed
                /\ step' = [step EXCEPT ![w] = "gone"]
                /\ UNCHANGED <<job, queued, ran>>
        /\ UNCHANGED <<handles, closed, dropper, joins, submitted, answered>>

\* The closure runs, to its end or to a panic that is caught, and what it
\* captured is dropped: when that is the last handle, the core drops here.
RunJob(w) ==
    /\ step[w] = "run"
    /\ job' = [job EXCEPT ![w].owns = FALSE]
    /\ IF job[w].owns /\ handles = 0 /\ Owned = {job[w].id}
       THEN DropCore(w) /\ step' = [step EXCEPT ![w] = "drop"]
       ELSE step' = [step EXCEPT ![w] = "reply"] /\ UNCHANGED <<closed, dropper, joins>>
    /\ UNCHANGED <<handles, queued, receiver, submitted, ran, answered>>

\* The outcome goes to whoever still awaits it.
Answer(w) ==
    /\ step[w] = "reply"
    /\ answered' = answered \union {job[w].id}
    /\ job' = [job EXCEPT ![w] = NoJob]
    /\ step' = [step EXCEPT ![w] = "idle"]
    /\ UNCHANGED <<handles, queued, closed, receiver, dropper, joins, submitted, ran>>

\* Mutant: no handle is left out of the joins.
JoinEndsAny(thread) == step[thread] = "gone"

\* A join ends with its thread; a worker never joins itself.
JoinEnds(thread) == thread = dropper[1] \/ step[thread] = "gone"

JoinNext ==
    /\ joins # << >> /\ JoinEnds(Head(joins))
    /\ joins' = Tail(joins)
    /\ step' = IF Len(joins) = 1 /\ dropper[1] # Caller
               THEN [step EXCEPT ![dropper[1]] = "reply"] ELSE step
    /\ UNCHANGED <<handles, queued, closed, receiver, job, dropper, submitted, ran, answered>>

-----------------------------------------------------------------------------
PoolInit ==
    /\ handles = 1 /\ closed = FALSE /\ dropper = << >> /\ joins = << >>
    /\ queued = [q \in Queues |-> << >>] /\ receiver = [q \in Queues |-> Caller]
    /\ step = [w \in Worker |-> "idle"] /\ job = [w \in Worker |-> NoJob]
    /\ submitted = [q \in Queues |-> << >>] /\ ran = [q \in Queues |-> << >>]
    /\ answered = {}

WorkerStep(w) == LockReceiver(w) \/ Receive(w) \/ RunJob(w) \/ Answer(w)

PoolNext ==
    \/ \E queue \in Queues, owns \in BOOLEAN : Submit(queue, owns)
    \/ CloneHandle \/ ReleaseHandle
    \/ \E w \in Worker : WorkerStep(w)
    \/ JoinNext

PoolSpec == PoolInit /\ [][PoolNext]_poolVars

-----------------------------------------------------------------------------
(* Properties.                                                             *)

Running(q) == {w \in Worker : step[w] \in {"run", "drop", "reply"} /\ job[w].id \in ToSet(submitted[q])}

\* Writes begin in the order of their submission, one at a time, though their
\* callers and the readers run beside them; no job begins twice; and when the
\* core is closed no worker ends while its queue still holds a job.
PoolInOrder ==
    /\ IsPrefix(ran["writes"], submitted["writes"])
    /\ Cardinality(Running("writes")) <= 1
    /\ IsInjective(ran["reads"]) /\ ToSet(ran["reads"]) \subseteq ToSet(submitted["reads"])
    /\ \A w \in Worker : step[w] = "gone" => closed /\ queued[JobQueue(w)] = << >>

\* A worker's next step waits for nobody.
CanGoOn(w) ==
    \/ step[w] = "idle" /\ receiver[JobQueue(w)] = Caller
    \/ step[w] = "recv" /\ (queued[JobQueue(w)] # << >> \/ closed)
    \/ step[w] \in {"run", "reply"}

SomeCanGoOn(q) == \E w \in Worker : JobQueue(w) = q /\ CanGoOn(w)

Unanswered(q) == \E i \in DOMAIN submitted[q] : submitted[q][i] \notin answered

\* The core never stands still while it owes something.  A queue with a job
\* that is unanswered has a thread that can go on, unless a drop is joining; a
\* join has ended or the queue it waits for has a thread that can go on, the
\* thread that drops among them; and a closed core has ended its threads or can
\* go on ending them ("joining that thread from itself would deadlock", Drop of
\* CoreInner).
CoreNeverStuck ==
    /\ \A q \in Queues : Unanswered(q) /\ joins = << >> => SomeCanGoOn(q)
    /\ joins # << >> => JoinEnds(Head(joins)) \/ SomeCanGoOn(JobQueue(Head(joins)))
    /\ closed /\ joins = << >> =>
           \A w \in Worker : step[w] = "gone" \/ SomeCanGoOn(JobQueue(w))

\* The connection core works its queues in order and never stands still while it
\* owes an answer or an end (db/pool.rs:137).
PoolSound == PoolInOrder /\ CoreNeverStuck

\* Every submitted job runs and is answered, those behind the last handle's drop
\* and the one that drops it included, and a dropped core ends: its joins return
\* and all its threads exit, wherever the drop happened.
PoolEnds ==
    /\ \A n \in 1..MaxJobs : Submitted >= n ~> n \in answered
    /\ closed ~> (joins = << >> /\ \A w \in Worker : step[w] = "gone")
=============================================================================
