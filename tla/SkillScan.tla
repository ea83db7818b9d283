------------------------------ MODULE SkillScan ------------------------------
(***************************************************************************)
(* The manual skill scan (skill_scan_manual.rs).  Its verbs are called from *)
(* the scan window and from the spacebar's thread, a worker thread extracts *)
(* the captured pages, and each of them changes the state under the lock    *)
(* and publishes the status after it released the lock: the key is compared *)
(* and advanced under the lock again, the frame is delivered outside it.    *)
(* A listener reads the status again when a frame reaches it.  Pages and    *)
(* results are abstract; persisting an accepted one is SkillLedger's        *)
(* CompleteScan.                                                            *)
(***************************************************************************)
EXTENDS Naturals, Sequences, FiniteSets, SequencesExt

CONSTANTS
    Hand,        \* the threads verbs are called on
    Pages,       \* the page counts a scan may ask for
    MaxGrabs,    \* bound on the captures of a scan
    MaxScans,    \* bound on the scans started
    MaxSaves     \* bound on the results persisted

ASSUME ScanAssumption == Pages \subseteq Nat \ {0} /\ MaxGrabs \in Nat /\ MaxScans \in Nat

VARIABLES
    capturing,   \* ScanState.active
    shots,       \* captures: whether each page could be grabbed
    wanted,      \* expected_pages
    processing,
    held,        \* pending_result is there
    progress,    \* processing_progress, pages done and in all
    scanError,   \* error is set
    saves,       \* last_scan_time, counted
    emitted,     \* last_emitted_key
    verb,        \* where each caller is: "idle", "grab", "save", "publish", "deliver"
    worker,      \* the worker of each scan: [at: "off", "page", "publish", "deliver", left,
                 \* found, ends]
    view,        \* what a listener read when the last frame reached it
    scans,       \* (bound) scans started
    overlapped   \* history: two verbs were under way at once

scanState == <<capturing, shots, wanted, processing, held, progress, scanError, saves>>
scanVars == <<scanState, emitted, verb, worker, view, scans, overlapped>>

NoWork == [at |-> "off", left |-> 0, found |-> FALSE, ends |-> FALSE]

-----------------------------------------------------------------------------
Grabbed == Cardinality({i \in DOMAIN shots : shots[i]})

\* derive_phase.
ScanPhase == IF held THEN "review" ELSE IF processing THEN "processing"
         ELSE IF capturing THEN "capturing" ELSE "idle"

\* status_key.
Key == [phase |-> ScanPhase, captured |-> Grabbed, expected |-> wanted, progress |-> progress,
        error |-> scanError, saves |-> saves]

Reset == capturing' = FALSE /\ shots' = << >> /\ held' = FALSE /\ progress' = <<0, 0>>

\* A verb begins.
Calls(h) ==
    /\ verb[h] = "idle"
    /\ overlapped' = (overlapped \/ \E g \in Hand : verb[g] # "idle")

Goes(h, to) == verb' = [verb EXCEPT ![h] = to]

-----------------------------------------------------------------------------
(* The verbs; refused ones change nothing.                                 *)

StartScan(h, pages) ==
    /\ Calls(h) /\ scans < MaxScans /\ ~processing /\ ~held
    /\ wanted' = pages /\ capturing' = TRUE /\ shots' = << >>
    /\ scanError' = FALSE /\ progress' = <<0, 0>> /\ scans' = scans + 1
    /\ Goes(h, "publish")
    /\ UNCHANGED <<processing, held, saves, emitted, worker, view>>

\* capture_current_page reads the region, grabs outside the lock, and pushes
\* whatever it grabbed without looking at the scan again.
BeginCapture(h) ==
    /\ Calls(h) /\ capturing
    /\ Goes(h, "grab")
    /\ UNCHANGED <<scanState, emitted, worker, view, scans>>

PushCapture(h, grabbed) ==
    /\ verb[h] = "grab" /\ Len(shots) < MaxGrabs
    /\ shots' = Append(shots, grabbed)
    /\ Goes(h, "publish")
    /\ UNCHANGED <<capturing, wanted, processing, held, progress, scanError, saves, emitted,
                   worker, view, scans, overlapped>>

CancelScan(h) ==
    /\ Calls(h) /\ ~processing
    /\ Reset /\ Goes(h, "publish")
    /\ UNCHANGED <<wanted, processing, scanError, saves, emitted, worker, view, scans>>

UndoCapture(h) ==
    /\ Calls(h) /\ capturing /\ ~processing /\ ~held /\ shots # << >>
    /\ shots' = Front(shots)
    /\ Goes(h, "publish")
    /\ UNCHANGED <<capturing, wanted, processing, held, progress, scanError, saves, emitted,
                   worker, view, scans>>

\* process spawns the worker over a copy of the captures, then publishes.
ProcessScan(h) ==
    /\ Calls(h) /\ ~processing /\ ~held /\ capturing /\ Grabbed >= wanted
    /\ processing' = TRUE /\ capturing' = FALSE /\ scanError' = FALSE
    /\ progress' = <<0, Grabbed>>
    /\ worker' = [worker EXCEPT ![scans] = [NoWork EXCEPT !.at = "page", !.left = Grabbed]]
    /\ Goes(h, "publish")
    /\ UNCHANGED <<shots, wanted, held, saves, emitted, view, scans>>

\* accept clones the result, persists it outside the lock, then resets.
BeginAccept(h) ==
    /\ Calls(h) /\ held /\ saves < MaxSaves
    /\ Goes(h, "save")
    /\ UNCHANGED <<scanState, emitted, worker, view, scans>>

\* Mutant: a persist that fails tells nobody.
AcceptFailsQuietly(h) ==
    /\ verb[h] = "save"
    /\ scanError' = TRUE /\ Goes(h, "idle")
    /\ UNCHANGED <<capturing, shots, wanted, processing, held, progress, saves, emitted, worker,
                   view, scans, overlapped>>

AcceptFails(h) ==
    /\ verb[h] = "save"
    /\ scanError' = TRUE /\ Goes(h, "publish")
    /\ UNCHANGED <<capturing, shots, wanted, processing, held, progress, saves, emitted, worker,
                   view, scans, overlapped>>

AcceptSaves(h) ==
    /\ verb[h] = "save"
    /\ saves' = saves + 1 /\ Reset /\ Goes(h, "publish")
    /\ UNCHANGED <<wanted, processing, scanError, emitted, worker, view, scans, overlapped>>

RejectResult(h) ==
    /\ Calls(h) /\ held
    /\ Reset /\ Goes(h, "publish")
    /\ UNCHANGED <<wanted, processing, scanError, saves, emitted, worker, view, scans>>

-----------------------------------------------------------------------------
(* The worker.                                                             *)

\* One page: its levels are merged and the progress moves.
ExtractPage(n, found) ==
    /\ worker[n].at = "page" /\ worker[n].left > 0
    /\ progress' = <<progress[1] + 1, progress[2]>>
    /\ worker' = [worker EXCEPT ![n] = [@ EXCEPT !.at = "publish", !.left = @ - 1,
                                                 !.found = @ \/ found]]
    /\ UNCHANGED <<capturing, shots, wanted, processing, held, scanError, saves, emitted, verb,
                   view, scans, overlapped>>

\* After the last page, or when the extraction panics, the flag always settles.
SettleWork(n, panics) ==
    /\ worker[n].at = "page" /\ (worker[n].left = 0 \/ panics)
    /\ IF worker[n].found /\ ~panics THEN held' = TRUE /\ UNCHANGED scanError
       ELSE scanError' = TRUE /\ UNCHANGED held
    /\ processing' = FALSE
    /\ worker' = [worker EXCEPT ![n].at = "publish", ![n].ends = TRUE]
    /\ UNCHANGED <<capturing, shots, wanted, progress, saves, emitted, verb, view, scans,
                   overlapped>>

-----------------------------------------------------------------------------
(* publish_status, on every thread.                                        *)

PublishStatus(h) ==
    /\ verb[h] = "publish"
    /\ emitted' = Key
    /\ Goes(h, IF emitted = Key THEN "idle" ELSE "deliver")
    /\ UNCHANGED <<scanState, worker, view, scans, overlapped>>

DeliverFrame(h) ==
    /\ verb[h] = "deliver"
    /\ view' = Key /\ Goes(h, "idle")
    /\ UNCHANGED <<scanState, emitted, worker, scans, overlapped>>

Onward(n) == [worker EXCEPT ![n] = IF @.ends THEN NoWork ELSE [@ EXCEPT !.at = "page"]]

WorkerPublishes(n) ==
    /\ worker[n].at = "publish"
    /\ emitted' = Key
    /\ worker' = IF emitted = Key THEN Onward(n) ELSE [worker EXCEPT ![n].at = "deliver"]
    /\ UNCHANGED <<scanState, verb, view, scans, overlapped>>

WorkerDelivers(n) ==
    /\ worker[n].at = "deliver"
    /\ view' = Key /\ worker' = Onward(n)
    /\ UNCHANGED <<scanState, emitted, verb, scans, overlapped>>

-----------------------------------------------------------------------------
ScanInit ==
    /\ capturing = FALSE /\ shots = << >> /\ wanted \in Pages /\ processing = FALSE
    /\ held = FALSE /\ progress = <<0, 0>> /\ scanError = FALSE /\ saves = 0
    /\ emitted = Key /\ view = Key
    /\ verb = [h \in Hand |-> "idle"] /\ scans = 0 /\ overlapped = FALSE
    /\ worker = [n \in 1..MaxScans |-> NoWork]

ScanNext ==
    \/ \E h \in Hand :
           \/ \E pages \in Pages : StartScan(h, pages)
           \/ BeginCapture(h) \/ (\E grabbed \in BOOLEAN : PushCapture(h, grabbed))
           \/ CancelScan(h) \/ UndoCapture(h) \/ ProcessScan(h)
           \/ BeginAccept(h) \/ AcceptFails(h) \/ AcceptSaves(h) \/ RejectResult(h)
           \/ PublishStatus(h) \/ DeliverFrame(h)
    \/ \E n \in 1..MaxScans :
           \/ \E found \in BOOLEAN : ExtractPage(n, found)
           \/ \E panics \in BOOLEAN : SettleWork(n, panics)
           \/ WorkerPublishes(n) \/ WorkerDelivers(n)

ScanSpec == ScanInit /\ [][ScanNext]_scanVars

-----------------------------------------------------------------------------
(* Properties.                                                             *)

Quiet == /\ \A h \in Hand : verb[h] = "idle"
         /\ \A n \in DOMAIN worker : worker[n].at \in {"off", "page"}

\* A scan captures, is processed or awaits review, never two of them, and one
\* worker at most extracts.  When no thread is between its change and its frame
\* no frame is owed; and unless two verbs overlapped, a listener that reads the
\* status on every frame has the status there is, although the worker's frames
\* are delivered outside the lock and one thread may publish another's change.
ListenersCurrent ==
    /\ ~(capturing /\ processing) /\ ~(capturing /\ held) /\ ~(processing /\ held)
    /\ processing = \E n \in DOMAIN worker : worker[n].at # "off" /\ ~worker[n].ends
    /\ Quiet => emitted = Key
    /\ Quiet /\ ~overlapped => view = Key
=============================================================================
