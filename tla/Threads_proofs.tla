--------------------------- MODULE Threads_proofs ---------------------------
(***************************************************************************)
(* The actors and threads that share something: the actors' queues and     *)
(* calls, the claims on the keyboard hook, the tail of the chat log, the   *)
(* samples of the chat clock and the queues of the connection core, for    *)
(* any number of sessions, presses, threads, claims, lines, samples,       *)
(* readers and jobs.                                                       *)
(*                                                                         *)
(* Nobody waits in a circle, because the waits are ordered: threads and    *)
(* spawned tasks may wait for either actor, the tracker only for the quest *)
(* service, and the quest service for no one.  A process has one call in   *)
(* the inboxes at most, and waits while it is there; a close stands behind *)
(* the events of its tick.  The count of claims is the number of consumers *)
(* that hold one, where a consumer in the middle of a call is judged by    *)
(* where its thread stands and not by its flag.  The lines in the ticks    *)
(* published and in the buffer are the lines read and not lost, in the     *)
(* order of the file.  A clock sample counts only next to samples that     *)
(* agree, so the run of agreeing samples at the end of the record is what  *)
(* the candidate counts.  What was submitted to a connection's queue is    *)
(* what has begun, then what waits.                                        *)
(*                                                                         *)
(* That nobody waits for ever has a safety half: a call that has not       *)
(* returned is in an inbox or in the tracker's hands, a job that is not    *)
(* answered is in a queue or in a worker's, and whoever holds it, or whom  *)
(* that one waits for, has a step to take.                                 *)
(***************************************************************************)
EXTENDS BusRendezvous, KeystrokeClaims, ChatTail, ChatClock, DbPool, ModelLemmas

-----------------------------------------------------------------------------
\* Who may wait for whom, the strengthening of NoWaitCycle that is inductive.
WaitOrder ==
    /\ waiting \in [Process -> Actor \cup {Nobody}]
    /\ waiting["tracker"] # "tracker"
    /\ waiting["quest"] = Nobody

-----------------------------------------------------------------------------
(* The three things a step does to "waiting" *)

\* A thread or a spawned task may ask either actor, the tracker the quest
\* service.
LEMMA AskingKeepsOrder ==
    ASSUME WaitOrder, NEW p \in Process \ {"quest"}, NEW a \in Actor,
           p = "tracker" => a = "quest", Wait(p, a)
    PROVE  WaitOrder'
BY ProcessAssumption DEF WaitOrder, Wait, Actor, Process, Client

\* A reply frees whoever it goes to.
LEMMA ReplyKeepsOrder ==
    ASSUME WaitOrder, NEW p, Reply(p)
    PROVE  WaitOrder'
BY ProcessAssumption DEF WaitOrder, Reply, Actor, Process, Client

LEMMA RestKeepsOrder ==
    ASSUME WaitOrder, UNCHANGED waiting
    PROVE  WaitOrder'
BY DEF WaitOrder

-----------------------------------------------------------------------------
(* The invariant *)

LEMMA OrderInit == BusInit => WaitOrder
BY ProcessAssumption DEF BusInit, WaitOrder, Actor, Process, Client

LEMMA OrderStep == WaitOrder /\ [BusNext]_bus => WaitOrder'
<1> SUFFICES ASSUME WaitOrder, [BusNext]_bus PROVE WaitOrder'
  OBVIOUS
<1>0. /\ {"tracker", "quest"} = Actor
      /\ "tracker" \in Process \ {"quest"}
      /\ Client \subseteq Process \ {"quest"} /\ "tracker" \notin Client
  BY ProcessAssumption DEF Actor, Process, Client
<1>1. CASE TakeEvent
  BY <1>1, ReplyKeepsOrder DEF TakeEvent
<1>2. CASE TakeCommand
  BY <1>2, ReplyKeepsOrder, RestKeepsOrder DEF TakeCommand
<1>3. CASE Announce
  BY <1>0, <1>3, AskingKeepsOrder DEF Announce, AskQuest
<1>4. CASE Announced
  BY <1>4, ReplyKeepsOrder, RestKeepsOrder DEF Announced
<1>5. CASE QuestTakes
  BY <1>5, ReplyKeepsOrder DEF QuestTakes
<1>6. CASE FlushTick
  BY <1>6, RestKeepsOrder DEF FlushTick
<1>7. CASE WatcherStep
  <2>1. "watcher" \in Client
    BY DEF Client
  <2>2. CASE WatcherAsksQuest
    BY <1>0, <2>1, <2>2, AskingKeepsOrder DEF WatcherAsksQuest, AskQuest
  <2>3. CASE WatcherSnapshots \/ WatcherProbes
    BY <2>3, RestKeepsOrder DEF WatcherSnapshots, WatcherProbes
  <2>4. CASE WatcherDelivers
    BY <1>0, <2>1, <2>4, AskingKeepsOrder DEF WatcherDelivers, AskTracker
  <2> QED BY <1>7, <2>2, <2>3, <2>4 DEF WatcherStep
<1>8. ASSUME NEW p \in Probe, ProbeCloses(p) PROVE WaitOrder'
  <2>1. p \in Client
    BY DEF Client
  <2> QED BY <1>0, <1>8, <2>1, AskingKeepsOrder DEF ProbeCloses, AskTracker
<1>9. CASE Press
  BY <1>9, RestKeepsOrder DEF Press
<1>10. CASE HotbarStep
  <2>1. "hotbar" \in Client
    BY DEF Client
  <2>2. CASE IntentMatches \/ IntentSnapshots
    BY <2>2, RestKeepsOrder DEF IntentMatches, IntentSnapshots
  <2>3. CASE IntentDelivers
    BY <1>0, <2>1, <2>3, AskingKeepsOrder DEF IntentDelivers, AskTracker
  <2> QED BY <1>10, <2>2, <2>3 DEF HotbarStep
<1>11. CASE Command
  <2>1. "user" \in Client
    BY DEF Client
  <2> QED BY <1>0, <1>11, <2>1, AskingKeepsOrder DEF Command, AskTracker
<1>12. CASE UNCHANGED bus
  BY <1>12, RestKeepsOrder DEF bus
<1> QED
  BY <1>1, <1>2, <1>3, <1>4, <1>5, <1>6, <1>7, <1>8, <1>9, <1>10, <1>11, <1>12
     DEF BusNext, TrackerStep

\* Following the order from any member of a waiting set leads to someone who
\* waits for nobody.
LEMMA OrderHasNoCycle == WaitOrder => NoWaitCycle
<1> SUFFICES ASSUME WaitOrder,
                    NEW P \in SUBSET Process, P # {}, \A p \in P : waiting[p] \in P
             PROVE  FALSE
  BY DEF NoWaitCycle
<1>1. PICK p \in P : TRUE
  OBVIOUS
<1>2. Nobody \notin P
  BY ProcessAssumption
<1>3. waiting[p] \in Actor /\ waiting[p] \in P
  BY <1>1, <1>2 DEF WaitOrder
<1>4. "quest" \notin P
  BY <1>2 DEF WaitOrder
<1>5. "tracker" \notin P
  BY <1>2, <1>4 DEF WaitOrder, Actor
<1> QED BY <1>3, <1>4, <1>5 DEF Actor

\* No set of publishers, actors, probes and commands ever waits on itself:
\* the rendezvous of tracker/actor.rs and quests/actor.rs cannot deadlock.
THEOREM NobodyWaitsInACircle == BusSpec => []NoWaitCycle
<1>1. BusSpec => []WaitOrder
  BY OrderInit, OrderStep, PTL DEF BusSpec
<1> QED BY <1>1, OrderHasNoCycle, PTL

-----------------------------------------------------------------------------
(* One call per process: the inductive invariant behind AbsorbedOnReturn *)

\* A message in an inbox has its sender waiting for that actor and for
\* nothing else, and the same of the command an actor is carrying out.
OneCallEach ==
    /\ \A k \in DOMAIN inbox : waiting[inbox[k].from] = "tracker"
    /\ \A k \in DOMAIN desk : waiting[desk[k].from] = "quest"
    /\ \A i, j \in DOMAIN inbox : inbox[i].from = inbox[j].from => i = j
    /\ \A i, j \in DOMAIN desk : desk[i].from = desk[j].from => i = j
    /\ announcing # << >> =>
            /\ waiting[caller] = "tracker"
            /\ \A k \in DOMAIN inbox : inbox[k].from # caller
    /\ carrying => waiting["watcher"] = Nobody /\ todo # << >> /\ Head(todo) = "event"
    /\ ~told => waiting["tracker"] = Nobody

\* The session the quest service has been told to hold.
Target(e) == IF e.what = "started" THEN e.session ELSE NoSession

\* What the followers hold, step by step through an announcement.
FollowersInStep ==
    /\ \A k \in DOMAIN desk : desk[k].kind \in {"started", "stopped"} <=> desk[k].from = "tracker"
    /\ \A k \in DOMAIN desk : desk[k].from = "tracker" =>
            told /\ desk[k].kind = Head(announcing).what
                 /\ desk[k].session = Head(announcing).session
    /\ ~told => questOn = live /\ gate = live
    /\ told =>
            /\ announcing # << >>
            /\ Head(announcing).what = "started" => live = Head(announcing).session
            /\ waiting["tracker"] = Nobody => questOn = Target(Head(announcing))
    /\ \A k \in DOMAIN inbox : inbox[k].kind = "start" => inbox[k].session # NoSession

\* Every event of a chat tick has left the watcher and the tracker's inbox.
EventsOut ==
    /\ \A k \in DOMAIN todo : todo[k] # "event"
    /\ \A k \in DOMAIN inbox : inbox[k].kind # "event"

Over(t) == t <= tick /\ (t = tick => EventsOut)

\* Whatever closes a stretch belongs to a tick that is over.
ClosesComeLast ==
    /\ \A k \in DOMAIN inbox : inbox[k].kind = "event" =>
            inbox[k].from = "watcher" /\ inbox[k].tick = tick
    /\ \A k \in DOMAIN todo : todo[k] = "probe" => k = Len(todo)
    /\ \A p \in Probe : probes[p] # 0 => Over(probes[p])
    /\ \A k \in DOMAIN inbox : inbox[k].kind = "close" => Over(inbox[k].tick)
    /\ \A k \in DOMAIN absorbed : absorbed[k].kind = "close" => Over(absorbed[k].tick)

BusInv ==
    /\ BusTypeOK /\ WaitOrder /\ OneCallEach /\ FollowersInStep
    /\ ClosesComeLast /\ CloseAfterOwnTick /\ IntentInItsSession

LEMMA BusInitInv == BusInit => BusInv
<1> SUFFICES ASSUME BusInit PROVE BusInv
  OBVIOUS
<1> USE DEF BusInit
<1>1. /\ DOMAIN << >> = {}
      /\ \A S : << >> \in Seq(S)
  BY EmptySeq
<1>2. "user" \in Process /\ "watcher" \in Process /\ "tracker" \in Process
  BY DEF Process, Client, Actor
<1>3. BusTypeOK
  BY <1>1, <1>2 DEF BusTypeOK
<1>4. WaitOrder
  BY OrderInit
<1>5. OneCallEach /\ FollowersInStep
  BY <1>1, <1>2 DEF OneCallEach, FollowersInStep
<1>6. ClosesComeLast /\ CloseAfterOwnTick /\ IntentInItsSession
  BY <1>1 DEF ClosesComeLast, CloseAfterOwnTick, IntentInItsSession
<1> QED BY <1>3, <1>4, <1>5, <1>6 DEF BusInv

-----------------------------------------------------------------------------
(* What asking and answering do to the two inboxes *)

LEMMA TrackerAsked ==
    ASSUME BusTypeOK, NEW p \in Process, NEW kind \in {"start", "stop", "close", "event", "intent"},
           NEW n \in Nat, NEW s \in Session \cup {NoSession}, AskTracker(p, kind, n, s)
    PROVE  LET m == [kind |-> kind, from |-> p, tick |-> n, session |-> s]
               id == Len(inbox) + 1
           IN  /\ inbox' \in Seq(Message)
               /\ id \notin DOMAIN inbox /\ DOMAIN inbox' = DOMAIN inbox \cup {id}
               /\ inbox'[id] = m
               /\ \A k \in DOMAIN inbox : inbox'[k] = inbox[k] /\ inbox[k] \in Message
               /\ waiting' \in [Process -> Actor \cup {Nobody}]
               /\ waiting'[p] = "tracker"
               /\ \A q \in Process : q # p => waiting'[q] = waiting[q]
<1> DEFINE m == [kind |-> kind, from |-> p, tick |-> n, session |-> s]
<1>1. m \in Message /\ inbox \in Seq(Message) /\ inbox' = Append(inbox, m)
  BY DEF Message, BusTypeOK, AskTracker
<1>2. /\ waiting' \in [Process -> Actor \cup {Nobody}]
      /\ waiting'[p] = "tracker"
      /\ \A q \in Process : q # p => waiting'[q] = waiting[q]
  BY DEF BusTypeOK, AskTracker, Wait, Actor
<1> HIDE DEF m
<1>3. /\ inbox' \in Seq(Message) /\ Len(inbox) \in Nat /\ DOMAIN inbox = 1 .. Len(inbox)
      /\ DOMAIN inbox' = 1 .. Len(inbox) + 1 /\ inbox'[Len(inbox) + 1] = m
      /\ \A k \in DOMAIN inbox : inbox'[k] = inbox[k]
  BY <1>1, AppendRow
<1>4. \A k \in DOMAIN inbox : inbox[k] \in Message
  BY <1>1, <1>3, ElementOfSeq
<1>5. Len(inbox) + 1 \notin DOMAIN inbox /\ DOMAIN inbox' = DOMAIN inbox \cup {Len(inbox) + 1}
  BY <1>3
<1> QED BY <1>2, <1>3, <1>4, <1>5 DEF m

Errand == [kind : {"filter", "mission", "started", "stopped"},
           from : Process, session : Session \cup {NoSession}]

LEMMA QuestAsked ==
    ASSUME BusTypeOK, NEW p \in Process, NEW kind \in {"filter", "mission", "started", "stopped"},
           NEW s \in Session \cup {NoSession}, AskQuest(p, kind, s)
    PROVE  LET m == [kind |-> kind, from |-> p, session |-> s]
               id == Len(desk) + 1
           IN  /\ desk' \in Seq(Errand)
               /\ id \notin DOMAIN desk /\ DOMAIN desk' = DOMAIN desk \cup {id}
               /\ desk'[id] = m
               /\ \A k \in DOMAIN desk : desk'[k] = desk[k] /\ desk[k] \in Errand
               /\ waiting' \in [Process -> Actor \cup {Nobody}]
               /\ waiting'[p] = "quest"
               /\ \A q \in Process : q # p => waiting'[q] = waiting[q]
<1> DEFINE m == [kind |-> kind, from |-> p, session |-> s]
<1>1. m \in Errand /\ desk \in Seq(Errand) /\ desk' = Append(desk, m)
  BY DEF Errand, BusTypeOK, AskQuest
<1>2. /\ waiting' \in [Process -> Actor \cup {Nobody}]
      /\ waiting'[p] = "quest"
      /\ \A q \in Process : q # p => waiting'[q] = waiting[q]
  BY DEF BusTypeOK, AskQuest, Wait, Actor
<1> HIDE DEF m
<1>3. /\ desk' \in Seq(Errand) /\ Len(desk) \in Nat /\ DOMAIN desk = 1 .. Len(desk)
      /\ DOMAIN desk' = 1 .. Len(desk) + 1 /\ desk'[Len(desk) + 1] = m
      /\ \A k \in DOMAIN desk : desk'[k] = desk[k]
  BY <1>1, AppendRow
<1>4. \A k \in DOMAIN desk : desk[k] \in Errand
  BY <1>1, <1>3, ElementOfSeq
<1>5. Len(desk) + 1 \notin DOMAIN desk /\ DOMAIN desk' = DOMAIN desk \cup {Len(desk) + 1}
  BY <1>3
<1> QED BY <1>2, <1>3, <1>4, <1>5 DEF m

\* The message an actor takes is nobody else's: what stays in its inbox was
\* there before and came from others.
LEMMA TrackerTakes ==
    ASSUME BusTypeOK, OneCallEach, Taking
    PROVE  LET m == Head(inbox)
           IN  /\ inbox' \in Seq(Message)
               /\ 1 \in DOMAIN inbox /\ m = inbox[1] /\ m \in Message
               /\ \A k \in DOMAIN inbox' :
                    /\ k + 1 \in DOMAIN inbox /\ inbox'[k] = inbox[k + 1]
                    /\ inbox'[k] \in Message
                    /\ inbox'[k].from # m.from
               /\ \A i, j \in DOMAIN inbox' : inbox'[i].from = inbox'[j].from => i = j
               /\ waiting[m.from] = "tracker"
<1>1. inbox \in Seq(Message) /\ inbox # << >> /\ inbox' = Tail(inbox)
  BY DEF BusTypeOK, Taking
<1>2. /\ Len(inbox) \in Nat \ {0} /\ DOMAIN inbox = 1 .. Len(inbox)
      /\ 1 \in DOMAIN inbox /\ Head(inbox) = inbox[1] /\ Head(inbox) \in Message
      /\ inbox' \in Seq(Message) /\ DOMAIN inbox' = 1 .. Len(inbox) - 1
      /\ \A k \in DOMAIN inbox' : k + 1 \in DOMAIN inbox /\ inbox'[k] = inbox[k + 1]
  BY <1>1, TakeFirst
<1>3. \A k \in DOMAIN inbox' : k + 1 # 1 /\ inbox'[k] \in Message
  BY <1>1, <1>2, ElementOfSeq
<1>4. \A i, j \in DOMAIN inbox' : i + 1 = j + 1 => i = j
  BY <1>2
<1> QED BY <1>2, <1>3, <1>4 DEF OneCallEach

LEMMA QuestTaken ==
    ASSUME BusTypeOK, OneCallEach, QuestTakes
    PROVE  LET m == Head(desk)
           IN  /\ desk' \in Seq(Errand)
               /\ 1 \in DOMAIN desk /\ m = desk[1] /\ m \in Errand
               /\ \A k \in DOMAIN desk' :
                    /\ k + 1 \in DOMAIN desk /\ desk'[k] = desk[k + 1]
                    /\ desk'[k].from # m.from
               /\ \A i, j \in DOMAIN desk' : desk'[i].from = desk'[j].from => i = j
               /\ waiting[m.from] = "quest"
<1>1. desk \in Seq(Errand) /\ desk # << >> /\ desk' = Tail(desk)
  BY DEF BusTypeOK, QuestTakes, Errand
<1>2. /\ Len(desk) \in Nat \ {0} /\ DOMAIN desk = 1 .. Len(desk)
      /\ 1 \in DOMAIN desk /\ Head(desk) = desk[1] /\ Head(desk) \in Errand
      /\ desk' \in Seq(Errand) /\ DOMAIN desk' = 1 .. Len(desk) - 1
      /\ \A k \in DOMAIN desk' : k + 1 \in DOMAIN desk /\ desk'[k] = desk[k + 1]
  BY <1>1, TakeFirst
<1>3. \A k \in DOMAIN desk' : k + 1 # 1
  BY <1>2
<1>4. \A i, j \in DOMAIN desk' : i + 1 = j + 1 => i = j
  BY <1>2
<1> QED BY <1>2, <1>3, <1>4 DEF OneCallEach

LEMMA Replied ==
    ASSUME BusTypeOK, NEW p \in Process, Reply(p)
    PROVE  /\ waiting' \in [Process -> Actor \cup {Nobody}]
           /\ waiting'[p] = Nobody
           /\ \A q \in Process : q # p => waiting'[q] = waiting[q]
BY DEF BusTypeOK, Reply

LEMMA Senders ==
    ASSUME BusTypeOK
    PROVE  /\ \A k \in DOMAIN inbox : inbox[k] \in Message /\ inbox[k].from \in Process
           /\ \A k \in DOMAIN desk : desk[k] \in Errand /\ desk[k].from \in Process
<1>1. inbox \in Seq(Message) /\ desk \in Seq(Errand)
  BY DEF BusTypeOK, Errand
<1>2. \A k \in DOMAIN inbox : inbox[k] \in Message
  BY <1>1, LenProperties, ElementOfSeq
<1>3. \A k \in DOMAIN desk : desk[k] \in Errand
  BY <1>1, LenProperties, ElementOfSeq
<1> QED BY <1>2, <1>3 DEF Message, Errand

LEMMA Names ==
    /\ {"tracker", "quest", "watcher", "hotbar", "user"} \subseteq Process
    /\ Probe \subseteq Process \ {"tracker", "quest", "watcher", "hotbar", "user"}
    /\ Nobody \notin Actor /\ Actor = {"tracker", "quest"}
BY ProcessAssumption DEF Process, Client, Actor

-----------------------------------------------------------------------------
(* Closes after a step *)

\* That a tick is over once the step is taken.
OverNext(t) == t <= tick' /\ (t = tick' => EventsOut')

LEMMA ClosesNext ==
    ASSUME \A k \in DOMAIN inbox' :
               /\ inbox'[k].kind = "event" => inbox'[k].from = "watcher" /\ inbox'[k].tick = tick'
               /\ inbox'[k].kind = "close" => OverNext(inbox'[k].tick),
           \A k \in DOMAIN todo' : todo'[k] = "probe" => k = Len(todo'),
           \A p \in Probe : probes'[p] # 0 => OverNext(probes'[p]),
           \A k \in DOMAIN absorbed' : absorbed'[k].kind = "close" => OverNext(absorbed'[k].tick)
    PROVE  ClosesComeLast'
BY DEF ClosesComeLast, Over, OverNext

-----------------------------------------------------------------------------
(* The tracker's steps *)

LEMMA TakeEventKeeps ==
    ASSUME BusInv, TakeEvent
    PROVE  BusInv'
<1> DEFINE m == Head(inbox)
           row == [kind |-> m.kind, from |-> m.from, tick |-> m.tick,
                   meant |-> m.session, live |-> live]
<1> USE DEF BusInv
<1>1. /\ Taking /\ announcing = << >> /\ Reply(m.from)
      /\ m.kind \in {"event", "intent", "close"}
      /\ UNCHANGED <<live, subscribed, announcing, told, caller, desk, questOn, tick, todo,
                     carrying, gate, intent, probes>>
  BY DEF TakeEvent, Taking, questVars, watchVars, hotbarVars
<1>2. /\ inbox' \in Seq(Message)
      /\ 1 \in DOMAIN inbox /\ m = inbox[1] /\ m \in Message
      /\ \A k \in DOMAIN inbox' :
            /\ k + 1 \in DOMAIN inbox /\ inbox'[k] = inbox[k + 1] /\ inbox'[k] \in Message
            /\ inbox'[k].from # m.from
      /\ \A i, j \in DOMAIN inbox' : inbox'[i].from = inbox'[j].from => i = j
      /\ waiting[m.from] = "tracker"
  BY <1>1, TrackerTakes
<1>3. m.from \in Process /\ m.from # "tracker"
  BY <1>2 DEF WaitOrder, Message
<1>4. /\ waiting' \in [Process -> Actor \cup {Nobody}]
      /\ waiting'[m.from] = Nobody
      /\ \A q \in Process : q # m.from => waiting'[q] = waiting[q]
  BY <1>1, <1>3, Replied
<1>5. /\ \A k \in DOMAIN inbox' : inbox'[k].from \in Process
      /\ \A k \in DOMAIN desk : desk[k].from \in Process
  BY <1>2, Senders DEF Message
<1>6. WaitOrder'
  BY <1>1, ReplyKeepsOrder
<1>7. /\ row \in Absorbed
      /\ \/ absorbed' = absorbed
         \/ absorbed' = Append(absorbed, row) /\ Accepts(m)
  BY <1>1, <1>2 DEF TakeEvent, Absorb, Absorbed, Message, BusTypeOK
<1> HIDE DEF m, row
<1>8. /\ absorbed' \in Seq(Absorbed)
      /\ \A k \in DOMAIN absorbed' :
            \/ k \in DOMAIN absorbed /\ absorbed'[k] = absorbed[k]
            \/ k = Len(absorbed) + 1 /\ absorbed'[k] = row /\ Accepts(m)
      /\ Len(absorbed) \in Nat /\ DOMAIN absorbed = 1 .. Len(absorbed)
  <2>1. absorbed \in Seq(Absorbed)
    BY DEF BusTypeOK
  <2>2. Len(absorbed) \in Nat /\ DOMAIN absorbed = 1 .. Len(absorbed)
    BY <2>1, LenProperties
  <2>3. CASE absorbed' = absorbed
    BY <2>1, <2>2, <2>3
  <2>4. CASE absorbed' = Append(absorbed, row) /\ Accepts(m)
    <3>1. /\ absorbed' \in Seq(Absorbed) /\ DOMAIN absorbed' = 1 .. Len(absorbed) + 1
          /\ absorbed'[Len(absorbed) + 1] = row
          /\ \A k \in DOMAIN absorbed : absorbed'[k] = absorbed[k]
      BY <1>7, <2>1, <2>4, AppendRow
    <3> QED BY <2>2, <2>4, <3>1
  <2> QED BY <1>7, <2>2, <2>3, <2>4
<1>9. BusTypeOK'
  BY <1>1, <1>2, <1>4, <1>8 DEF BusTypeOK
<1>10. OneCallEach'
  <2>1. \A k \in DOMAIN inbox' : waiting'[inbox'[k].from] = "tracker"
    BY <1>2, <1>4, <1>5 DEF OneCallEach
  <2>2. \A k \in DOMAIN desk : desk[k].from # m.from
    BY <1>2 DEF OneCallEach
  <2>3. \A k \in DOMAIN desk : waiting'[desk[k].from] = "quest"
    BY <1>4, <1>5, <2>2 DEF OneCallEach
  <2>4. carrying => waiting'["watcher"] = Nobody
    BY <1>4, Names DEF OneCallEach
  <2>5. ~told => waiting'["tracker"] = Nobody
    BY <1>3, <1>4, Names DEF OneCallEach
  <2> QED BY <1>1, <1>2, <2>1, <2>3, <2>4, <2>5 DEF OneCallEach
<1>11. FollowersInStep'
  BY <1>1, <1>2 DEF FollowersInStep
<1>12. EventsOut => EventsOut'
  BY <1>1, <1>2 DEF EventsOut
<1>13. m.kind = "event" => ~EventsOut /\ m.tick = tick
  BY <1>2 DEF ClosesComeLast, EventsOut
<1>14. m.kind = "close" => Over(m.tick)
  BY <1>2 DEF ClosesComeLast
<1>15. ClosesComeLast'
  <2>1. \A t : Over(t) => OverNext(t)
    BY <1>1, <1>12 DEF Over, OverNext
  <2>2. \A k \in DOMAIN absorbed' : absorbed'[k].kind = "close" => OverNext(absorbed'[k].tick)
    BY <1>8, <1>14, <2>1 DEF ClosesComeLast, row
  <2>3. \A k \in DOMAIN inbox' :
            /\ inbox'[k].kind = "event" => inbox'[k].from = "watcher" /\ inbox'[k].tick = tick
            /\ inbox'[k].kind = "close" => OverNext(inbox'[k].tick)
    BY <1>2, <2>1 DEF ClosesComeLast
  <2>4. \A p \in Probe : probes[p] # 0 => OverNext(probes[p])
    BY <2>1 DEF ClosesComeLast
  <2>5. \A k \in DOMAIN todo : todo[k] = "probe" => k = Len(todo)
    BY DEF ClosesComeLast
  <2> QED BY <1>1, <2>2, <2>3, <2>4, <2>5, ClosesNext
<1>16. CloseAfterOwnTick'
  <2> SUFFICES ASSUME NEW i \in DOMAIN absorbed', NEW j \in DOMAIN absorbed',
                      absorbed'[i].kind = "close", absorbed'[j].kind = "event",
                      absorbed'[i].tick = absorbed'[j].tick
               PROVE  j < i
    BY DEF CloseAfterOwnTick
  <2>1. CASE i \in DOMAIN absorbed /\ absorbed'[i] = absorbed[i]
    <3>1. Over(absorbed[i].tick)
      BY <2>1 DEF ClosesComeLast
    <3>2. j \in DOMAIN absorbed /\ absorbed'[j] = absorbed[j]
      BY <1>8, <1>13, <2>1, <3>1 DEF row, Over
    <3> QED BY <2>1, <3>2 DEF CloseAfterOwnTick
  <2>2. CASE i = Len(absorbed) + 1 /\ absorbed'[i] = row
    <3>1. j # i
      BY <2>2
    <3> QED BY <1>8, <2>2, <3>1
  <2> QED BY <1>8, <2>1, <2>2
<1>17. IntentInItsSession'
  BY <1>8 DEF IntentInItsSession, row, Accepts
<1> QED BY <1>6, <1>9, <1>10, <1>11, <1>15, <1>16, <1>17

\* What a command leaves to announce is made of lifecycle events.
LEMMA AnnouncementTyped ==
    ASSUME BusInv, TakeCommand
    PROVE  announcing' \in Seq(Lifecycle)
<1> DEFINE m == Head(inbox)
           stopping == IF live = NoSession THEN << >> ELSE <<Stopped(live)>>
           starting == IF m.kind = "start" THEN <<Started(m.session)>> ELSE << >>
<1>1. m \in Message /\ (m.kind = "start" => m.session \in Session)
  BY TrackerTakes DEF BusInv, TakeCommand, FollowersInStep, Message
<1>2. stopping \in Seq(Lifecycle)
  <2>1. live # NoSession => Stopped(live) \in Lifecycle
    BY DEF BusInv, BusTypeOK, Lifecycle
  <2> HIDE DEF Lifecycle
  <2> QED BY <2>1, EmptySeq
<1>3. starting \in Seq(Lifecycle)
  <2>1. m.kind = "start" => Started(m.session) \in Lifecycle
    BY <1>1 DEF Lifecycle
  <2> QED BY <2>1, EmptySeq
<1>4. stopping \o starting \in Seq(Lifecycle)
  <2> HIDE DEF stopping, starting
  <2> QED BY <1>2, <1>3, ConcatProperties
<1>5. << >> \in Seq(Lifecycle)
  BY EmptySeq
<1> QED BY <1>2, <1>4, <1>5 DEF TakeCommand

LEMMA TakeCommandKeeps ==
    ASSUME BusInv, TakeCommand
    PROVE  BusInv'
<1> DEFINE m == Head(inbox)
<1> USE DEF BusInv
<1>1. /\ Taking /\ announcing = << >> /\ caller' = m.from
      /\ (IF announcing' = << >> THEN Reply(m.from) ELSE UNCHANGED waiting)
      /\ UNCHANGED <<live, subscribed, told, absorbed, desk, questOn, tick, todo,
                     carrying, gate, intent, probes>>
  BY DEF TakeCommand, Taking, questVars, watchVars, hotbarVars
<1>2. /\ inbox' \in Seq(Message)
      /\ 1 \in DOMAIN inbox /\ m = inbox[1] /\ m \in Message
      /\ \A k \in DOMAIN inbox' :
            /\ k + 1 \in DOMAIN inbox /\ inbox'[k] = inbox[k + 1] /\ inbox'[k] \in Message
            /\ inbox'[k].from # m.from
      /\ \A i, j \in DOMAIN inbox' : inbox'[i].from = inbox'[j].from => i = j
      /\ waiting[m.from] = "tracker"
  BY <1>1, TrackerTakes
<1>3. m.from \in Process /\ m.from # "tracker" /\ ~told
  BY <1>1, <1>2 DEF WaitOrder, Message, FollowersInStep
<1>4. announcing' \in Seq(Lifecycle)
  BY AnnouncementTyped
<1> HIDE DEF m
<1>5. /\ waiting' \in [Process -> Actor \cup {Nobody}]
      /\ \A q \in Process : q # m.from => waiting'[q] = waiting[q]
      /\ waiting'[m.from] = (IF announcing' = << >> THEN Nobody ELSE "tracker")
  BY <1>1, <1>2, <1>3, Replied DEF BusTypeOK
<1>6. /\ \A k \in DOMAIN inbox' : inbox'[k].from \in Process
      /\ \A k \in DOMAIN desk : desk[k].from \in Process
  BY <1>2, Senders DEF Message
<1>7. WaitOrder'
  BY <1>1, ReplyKeepsOrder, RestKeepsOrder
<1>8. BusTypeOK'
  BY <1>1, <1>2, <1>3, <1>4, <1>5 DEF BusTypeOK
<1>9. OneCallEach'
  <2>1. \A k \in DOMAIN inbox' : waiting'[inbox'[k].from] = "tracker"
    BY <1>2, <1>5, <1>6 DEF OneCallEach
  <2>2. \A k \in DOMAIN desk : waiting'[desk[k].from] = "quest"
    BY <1>2, <1>5, <1>6 DEF OneCallEach
  <2>3. carrying => waiting'["watcher"] = Nobody
    BY <1>2, <1>5, Names DEF OneCallEach
  <2>4. waiting'["tracker"] = Nobody
    BY <1>3, <1>5, Names DEF OneCallEach
  <2> QED BY <1>1, <1>2, <1>5, <2>1, <2>2, <2>3, <2>4 DEF OneCallEach
<1>10. FollowersInStep'
  BY <1>1, <1>2, <1>3 DEF FollowersInStep
<1>11. ClosesComeLast'
  <2>1. EventsOut => EventsOut'
    BY <1>1, <1>2 DEF EventsOut
  <2>2. \A t : Over(t) => OverNext(t)
    BY <1>1, <2>1 DEF Over, OverNext
  <2>3. \A k \in DOMAIN inbox' :
            /\ inbox'[k].kind = "event" => inbox'[k].from = "watcher" /\ inbox'[k].tick = tick
            /\ inbox'[k].kind = "close" => OverNext(inbox'[k].tick)
    BY <1>2, <2>2 DEF ClosesComeLast
  <2>4. /\ \A p \in Probe : probes[p] # 0 => OverNext(probes[p])
        /\ \A k \in DOMAIN absorbed : absorbed[k].kind = "close" => OverNext(absorbed[k].tick)
        /\ \A k \in DOMAIN todo : todo[k] = "probe" => k = Len(todo)
    BY <2>2 DEF ClosesComeLast
  <2> QED BY <1>1, <2>3, <2>4, ClosesNext
<1>12. CloseAfterOwnTick' /\ IntentInItsSession'
  BY <1>1 DEF CloseAfterOwnTick, IntentInItsSession
<1> QED BY <1>7, <1>8, <1>9, <1>10, <1>11, <1>12

\* Steps that touch neither the tracker's inbox nor the chat flush keep what
\* is known of events and closes.
LEMMA ClosesUndisturbed ==
    ASSUME BusInv, UNCHANGED <<inbox, absorbed, tick, todo, probes>>
    PROVE  ClosesComeLast' /\ CloseAfterOwnTick' /\ IntentInItsSession'
BY DEF BusInv, ClosesComeLast, CloseAfterOwnTick, IntentInItsSession, Over, EventsOut

LEMMA AnnounceKeeps ==
    ASSUME BusInv, Announce
    PROVE  BusInv'
<1> DEFINE e == Head(announcing)
           m == [kind |-> e.what, from |-> "tracker", session |-> e.session]
           id == Len(desk) + 1
<1> USE DEF BusInv
<1>1. /\ announcing # << >> /\ ~told /\ told' = TRUE /\ subscribed' = (e.what = "started")
      /\ live' = (IF e.what = "started" THEN e.session ELSE live)
      /\ AskQuest("tracker", e.what, e.session)
      /\ UNCHANGED <<inbox, announcing, caller, absorbed, questOn, tick, todo, carrying, gate,
                     intent, probes>>
  BY DEF Announce, watchVars, hotbarVars
<1>2. e \in Lifecycle
  BY <1>1, TakeFirst DEF BusTypeOK
<1>3. e.what \in {"started", "stopped"} /\ e.session \in Session \cup {NoSession}
  BY <1>2 DEF Lifecycle, Started, Stopped, BusTypeOK
<1>4. /\ desk' \in Seq(Errand)
      /\ id \notin DOMAIN desk /\ DOMAIN desk' = DOMAIN desk \cup {id}
      /\ desk'[id] = m
      /\ \A k \in DOMAIN desk : desk'[k] = desk[k] /\ desk[k] \in Errand
      /\ waiting' \in [Process -> Actor \cup {Nobody}]
      /\ waiting'["tracker"] = "quest"
      /\ \A q \in Process : q # "tracker" => waiting'[q] = waiting[q]
  <2> SUFFICES ASSUME NEW what, NEW session, what = e.what, session = e.session
               PROVE  LET r == [kind |-> what, from |-> "tracker", session |-> session]
                      IN  /\ desk' \in Seq(Errand)
                          /\ id \notin DOMAIN desk /\ DOMAIN desk' = DOMAIN desk \cup {id}
                          /\ desk'[id] = r
                          /\ \A k \in DOMAIN desk : desk'[k] = desk[k] /\ desk[k] \in Errand
                          /\ waiting' \in [Process -> Actor \cup {Nobody}]
                          /\ waiting'["tracker"] = "quest"
                          /\ \A q \in Process : q # "tracker" => waiting'[q] = waiting[q]
    OBVIOUS
  <2>1. /\ BusTypeOK /\ "tracker" \in Process
        /\ what \in {"filter", "mission", "started", "stopped"}
        /\ session \in Session \cup {NoSession} /\ AskQuest("tracker", what, session)
    BY <1>1, <1>3, Names
  <2> HIDE DEF e
  <2> QED BY <2>1, QuestAsked DEF AskQuest
<1> HIDE DEF e, id
<1>5. BusTypeOK'
  BY <1>1, <1>3, <1>4 DEF BusTypeOK, Errand
<1>6. WaitOrder'
  BY <1>1, AskingKeepsOrder, Names DEF AskQuest
<1>7. waiting["tracker"] = Nobody
  BY <1>1 DEF OneCallEach
<1>8. /\ \A k \in DOMAIN inbox : inbox[k].from \in Process /\ inbox[k].from # "tracker"
      /\ \A k \in DOMAIN desk : desk[k].from \in Process /\ desk[k].from # "tracker"
  BY <1>7, Senders, Names DEF OneCallEach
<1>9. OneCallEach'
  <2>1. \A k \in DOMAIN desk' : waiting'[desk'[k].from] = "quest"
    BY <1>4, <1>8 DEF OneCallEach
  <2>2. \A i, j \in DOMAIN desk' : desk'[i].from = desk'[j].from => i = j
    BY <1>4, <1>8 DEF OneCallEach
  <2>3. \A k \in DOMAIN inbox : waiting'[inbox[k].from] = "tracker"
    BY <1>4, <1>8 DEF OneCallEach
  <2>4. waiting'[caller] = "tracker"
    BY <1>1, <1>4, <1>7, Names DEF OneCallEach, BusTypeOK
  <2>5. carrying => waiting'["watcher"] = Nobody
    BY <1>4, Names DEF OneCallEach
  <2> QED BY <1>1, <2>1, <2>2, <2>3, <2>4, <2>5 DEF OneCallEach
<1>10. FollowersInStep'
  <2>1. \A k \in DOMAIN desk' :
            /\ desk'[k].kind \in {"started", "stopped"} <=> desk'[k].from = "tracker"
            /\ desk'[k].from = "tracker" => desk'[k].kind = e.what /\ desk'[k].session = e.session
    BY <1>3, <1>4, <1>8 DEF FollowersInStep
  <2> QED BY <1>1, <1>4, <2>1, Names DEF FollowersInStep, e
<1> QED BY <1>1, <1>5, <1>6, <1>9, <1>10, ClosesUndisturbed

LEMMA AnnouncedKeeps ==
    ASSUME BusInv, Announced
    PROVE  BusInv'
<1> DEFINE e == Head(announcing)
<1> USE DEF BusInv
<1>1. /\ told /\ waiting["tracker"] = Nobody /\ told' = FALSE /\ announcing' = Tail(announcing)
      /\ gate' = (IF e.what = "started" THEN e.session ELSE NoSession)
      /\ live' = (IF e.what = "started" THEN live ELSE NoSession)
      /\ (IF announcing' = << >> THEN Reply(caller) ELSE UNCHANGED waiting)
      /\ UNCHANGED <<subscribed, inbox, caller, absorbed, intent, desk, questOn, tick, todo,
                     carrying, probes>>
  BY DEF Announced, Free, questVars, watchVars
<1>2. announcing # << >>
  BY <1>1 DEF FollowersInStep
<1>3. e \in Lifecycle /\ announcing' \in Seq(Lifecycle)
  BY <1>1, <1>2, TakeFirst DEF BusTypeOK
<1>4. e.what = "started" => e.session \in Session
  BY <1>3 DEF Lifecycle, Started, Stopped
<1>5. questOn = live' /\ gate' = live'
  BY <1>1 DEF FollowersInStep, Target
<1> HIDE DEF e
<1>6. /\ waiting' \in [Process -> Actor \cup {Nobody}]
      /\ \A q \in Process : q # caller => waiting'[q] = waiting[q]
      /\ waiting'[caller] = (IF announcing' = << >> THEN Nobody ELSE "tracker")
      /\ caller # "tracker" /\ waiting[caller] = "tracker" /\ caller \in Process
  BY <1>1, <1>2, Replied, Names DEF BusTypeOK, OneCallEach
<1>7. BusTypeOK'
  BY <1>1, <1>3, <1>4, <1>6 DEF BusTypeOK
<1>8. WaitOrder'
  BY <1>1, ReplyKeepsOrder, RestKeepsOrder
<1>9. OneCallEach'
  <2>1. \A k \in DOMAIN inbox : inbox[k].from \in Process /\ inbox[k].from # caller
    BY <1>2, Senders DEF OneCallEach
  <2>2. \A k \in DOMAIN desk : desk[k].from \in Process /\ desk[k].from # caller
    BY <1>6, Senders DEF OneCallEach
  <2>3. /\ \A k \in DOMAIN inbox : waiting'[inbox[k].from] = "tracker"
        /\ \A k \in DOMAIN desk : waiting'[desk[k].from] = "quest"
    BY <1>6, <2>1, <2>2 DEF OneCallEach
  <2>4. carrying => waiting'["watcher"] = Nobody
    BY <1>6, Names DEF OneCallEach
  <2>5. waiting'["tracker"] = Nobody
    BY <1>1, <1>6, Names
  <2> QED BY <1>1, <1>6, <2>1, <2>3, <2>4, <2>5 DEF OneCallEach
<1>10. FollowersInStep'
  <2>1. \A k \in DOMAIN desk : desk[k].from # "tracker"
    BY <1>1, Names DEF OneCallEach
  <2> QED BY <1>1, <1>5, <2>1 DEF FollowersInStep
<1> QED BY <1>1, <1>7, <1>8, <1>9, <1>10, ClosesUndisturbed

-----------------------------------------------------------------------------
(* The steps that ask *)

\* A free thread or task asks the tracker, and only its own state moves.
AsksTracker(p, kind, n, s) ==
    /\ p \in Process \ {"tracker", "quest"} /\ waiting[p] = Nobody
    /\ kind \in {"start", "stop", "close", "event", "intent"} /\ n \in Nat
    /\ s \in Session \cup {NoSession} /\ (kind = "start" => s # NoSession)
    /\ AskTracker(p, kind, n, s)
    /\ UNCHANGED <<live, subscribed, announcing, told, caller, absorbed, desk, questOn, gate, tick>>
    /\ intent' = NoIntent \/ intent' = intent
    /\ todo' \in Seq({"filter", "event", "mission", "probe"})
    /\ carrying' = FALSE \/ (carrying' = carrying /\ p # "watcher" /\ todo' = todo)
    /\ probes' \in [Probe -> Nat]

LEMMA AskingTracker ==
    ASSUME BusInv, NEW p, NEW kind, NEW n, NEW s, AsksTracker(p, kind, n, s)
    PROVE  /\ BusTypeOK' /\ WaitOrder' /\ OneCallEach' /\ FollowersInStep'
           /\ CloseAfterOwnTick' /\ IntentInItsSession'
           /\ LET m == [kind |-> kind, from |-> p, tick |-> n, session |-> s]
              IN  \A k \in DOMAIN inbox' :
                    \/ k \in DOMAIN inbox /\ inbox'[k] = inbox[k]
                    \/ inbox'[k] = m
<1> DEFINE m == [kind |-> kind, from |-> p, tick |-> n, session |-> s]
           id == Len(inbox) + 1
<1> USE DEF BusInv, AsksTracker
<1>1. /\ inbox' \in Seq(Message)
      /\ id \notin DOMAIN inbox /\ DOMAIN inbox' = DOMAIN inbox \cup {id}
      /\ inbox'[id] = m
      /\ \A k \in DOMAIN inbox : inbox'[k] = inbox[k] /\ inbox[k] \in Message
      /\ waiting' \in [Process -> Actor \cup {Nobody}]
      /\ waiting'[p] = "tracker"
      /\ \A q \in Process : q # p => waiting'[q] = waiting[q]
  BY TrackerAsked DEF AskTracker
<1> HIDE DEF id
<1>2. /\ \A k \in DOMAIN inbox : inbox[k].from \in Process /\ inbox[k].from # p
      /\ \A k \in DOMAIN desk : desk[k].from \in Process /\ desk[k].from # p
  BY Senders, Names DEF OneCallEach
<1>3. announcing # << >> => caller # p /\ caller \in Process
  BY Names DEF OneCallEach, BusTypeOK
<1>4. BusTypeOK'
  BY <1>1 DEF BusTypeOK
<1>5. WaitOrder'
  BY AskingKeepsOrder, Names DEF AskTracker
<1>6. OneCallEach'
  <2>1. \A k \in DOMAIN inbox' : waiting'[inbox'[k].from] = "tracker"
    BY <1>1, <1>2 DEF OneCallEach
  <2>2. \A i, j \in DOMAIN inbox' : inbox'[i].from = inbox'[j].from => i = j
    BY <1>1, <1>2 DEF OneCallEach
  <2>3. \A k \in DOMAIN desk : waiting'[desk[k].from] = "quest"
    BY <1>1, <1>2 DEF OneCallEach
  <2>4. announcing # << >> => waiting'[caller] = "tracker"
                              /\ \A k \in DOMAIN inbox' : inbox'[k].from # caller
    BY <1>1, <1>3 DEF OneCallEach
  <2>5. carrying' => waiting'["watcher"] = Nobody /\ todo' # << >> /\ Head(todo') = "event"
    BY <1>1, Names DEF OneCallEach
  <2>6. ~told => waiting'["tracker"] = Nobody
    BY <1>1, Names DEF OneCallEach
  <2> QED BY <2>1, <2>2, <2>3, <2>4, <2>5, <2>6 DEF OneCallEach
<1>7. FollowersInStep'
  <2>1. \A k \in DOMAIN inbox' : inbox'[k].kind = "start" => inbox'[k].session # NoSession
    BY <1>1 DEF FollowersInStep
  <2>2. waiting'["tracker"] = waiting["tracker"]
    BY <1>1, Names
  <2> QED BY <2>1, <2>2 DEF FollowersInStep
<1>8. CloseAfterOwnTick' /\ IntentInItsSession'
  BY DEF CloseAfterOwnTick, IntentInItsSession
<1> QED BY <1>1, <1>4, <1>5, <1>6, <1>7, <1>8

LEMMA WatcherDeliversKeeps ==
    ASSUME BusInv, WatcherDelivers
    PROVE  BusInv'
<1> USE DEF BusInv
<1>1. /\ carrying /\ carrying' = FALSE /\ todo' = Tail(todo)
      /\ AskTracker("watcher", "event", tick, NoSession)
      /\ UNCHANGED <<live, subscribed, announcing, told, caller, absorbed, desk, questOn, gate,
                     intent, tick, probes>>
  BY DEF WatcherDelivers, questVars, hotbarVars, AskTracker, Wait
<1>2. waiting["watcher"] = Nobody /\ todo # << >> /\ todo[1] = "event"
  BY <1>1, TakeFirst DEF OneCallEach, BusTypeOK
<1>3. /\ todo' \in Seq({"filter", "event", "mission", "probe"})
      /\ Len(todo) \in Nat /\ DOMAIN todo = 1 .. Len(todo) /\ 1 \in DOMAIN todo
      /\ Len(todo') = Len(todo) - 1 /\ DOMAIN todo' = 1 .. Len(todo) - 1
      /\ \A k \in DOMAIN todo' : k + 1 \in DOMAIN todo /\ todo'[k] = todo[k + 1]
  BY <1>1, <1>2, TakeFirst DEF BusTypeOK
<1>4. /\ BusTypeOK' /\ WaitOrder' /\ OneCallEach' /\ FollowersInStep'
      /\ CloseAfterOwnTick' /\ IntentInItsSession'
      /\ \A k \in DOMAIN inbox' :
            \/ k \in DOMAIN inbox /\ inbox'[k] = inbox[k]
            \/ inbox'[k] = [kind |-> "event", from |-> "watcher", tick |-> tick, session |-> NoSession]
  <2>1. /\ tick \in Nat /\ tick' = tick /\ probes' \in [Probe -> Nat]
        /\ "watcher" \in Process \ {"tracker", "quest"}
    BY <1>1, Names DEF BusTypeOK
  <2>2. AsksTracker("watcher", "event", tick, NoSession)
    BY <1>1, <1>2, <1>3, <2>1 DEF AsksTracker
  <2> QED BY <2>2, AskingTracker
<1>5. ~EventsOut
  BY <1>2, <1>3 DEF EventsOut
<1>6. \A t : Over(t) => OverNext(t)
  BY <1>1, <1>5 DEF Over, OverNext, BusTypeOK
<1>7. ClosesComeLast'
  <2>1. \A k \in DOMAIN inbox' :
            /\ inbox'[k].kind = "event" => inbox'[k].from = "watcher" /\ inbox'[k].tick = tick
            /\ inbox'[k].kind = "close" => OverNext(inbox'[k].tick)
    BY <1>4, <1>6 DEF ClosesComeLast
  <2>2. \A k \in DOMAIN todo' : todo'[k] = "probe" => k = Len(todo')
    BY <1>3 DEF ClosesComeLast
  <2>3. /\ \A p \in Probe : probes[p] # 0 => OverNext(probes[p])
        /\ \A k \in DOMAIN absorbed : absorbed[k].kind = "close" => OverNext(absorbed[k].tick)
    BY <1>6 DEF ClosesComeLast
  <2> QED BY <1>1, <2>1, <2>2, <2>3, ClosesNext
<1> QED BY <1>4, <1>7

\* Asking for anything but an event leaves a tick that is over, over.
LEMMA StaysOver ==
    ASSUME BusInv, UNCHANGED <<tick, todo>>,
           \A k \in DOMAIN inbox' : \/ k \in DOMAIN inbox /\ inbox'[k] = inbox[k]
                                    \/ inbox'[k].kind # "event"
    PROVE  \A t : Over(t) => OverNext(t)
<1>1. EventsOut => EventsOut'
  BY DEF EventsOut
<1> QED BY <1>1 DEF Over, OverNext

LEMMA ProbeClosesKeeps ==
    ASSUME BusInv, NEW p \in Probe, ProbeCloses(p)
    PROVE  BusInv'
<1> USE DEF BusInv
<1>1. /\ probes[p] # 0 /\ waiting[p] = Nobody /\ probes' = [probes EXCEPT ![p] = 0]
      /\ AskTracker(p, "close", probes[p], NoSession)
      /\ UNCHANGED <<live, subscribed, announcing, told, caller, absorbed, desk, questOn, gate,
                     intent, tick, todo, carrying>>
  BY DEF ProbeCloses, questVars, watchVars, hotbarVars, Free
<1>2. /\ probes[p] \in Nat /\ probes' \in [Probe -> Nat] /\ todo \in Seq({"filter", "event", "mission", "probe"})
      /\ p \in Process \ {"tracker", "quest", "watcher"}
  BY <1>1, Names DEF BusTypeOK
<1>3. /\ BusTypeOK' /\ WaitOrder' /\ OneCallEach' /\ FollowersInStep'
      /\ CloseAfterOwnTick' /\ IntentInItsSession'
      /\ \A k \in DOMAIN inbox' :
            \/ k \in DOMAIN inbox /\ inbox'[k] = inbox[k]
            \/ inbox'[k] = [kind |-> "close", from |-> p, tick |-> probes[p], session |-> NoSession]
  <2>1. AsksTracker(p, "close", probes[p], NoSession)
    BY <1>1, <1>2 DEF AsksTracker
  <2> QED BY <2>1, AskingTracker
<1>4. \A t : Over(t) => OverNext(t)
  BY <1>1, <1>3, StaysOver
<1>5. ClosesComeLast'
  <2>1. \A k \in DOMAIN inbox' :
            /\ inbox'[k].kind = "event" => inbox'[k].from = "watcher" /\ inbox'[k].tick = tick
            /\ inbox'[k].kind = "close" => OverNext(inbox'[k].tick)
    BY <1>1, <1>3, <1>4 DEF ClosesComeLast
  <2>2. \A q \in Probe : probes'[q] # 0 => OverNext(probes'[q])
    BY <1>1, <1>4 DEF ClosesComeLast, BusTypeOK
  <2>3. /\ \A k \in DOMAIN absorbed : absorbed[k].kind = "close" => OverNext(absorbed[k].tick)
        /\ \A k \in DOMAIN todo : todo[k] = "probe" => k = Len(todo)
    BY <1>4 DEF ClosesComeLast
  <2> QED BY <1>1, <2>1, <2>2, <2>3, ClosesNext
<1> QED BY <1>3, <1>5

\* Whatever asks without an event and without touching the flush keeps what
\* is known of closes.
LEMMA AskingKeepsCloses ==
    ASSUME BusInv, UNCHANGED <<absorbed, tick, todo, probes>>,
           \A k \in DOMAIN inbox' : \/ k \in DOMAIN inbox /\ inbox'[k] = inbox[k]
                                    \/ inbox'[k].kind \notin {"event", "close"}
    PROVE  ClosesComeLast'
<1> USE DEF BusInv
<1>1. \A t : Over(t) => OverNext(t)
  BY StaysOver
<1>2. \A k \in DOMAIN inbox' :
          /\ inbox'[k].kind = "event" => inbox'[k].from = "watcher" /\ inbox'[k].tick = tick
          /\ inbox'[k].kind = "close" => OverNext(inbox'[k].tick)
  BY <1>1 DEF ClosesComeLast
<1>3. /\ \A q \in Probe : probes[q] # 0 => OverNext(probes[q])
      /\ \A k \in DOMAIN absorbed : absorbed[k].kind = "close" => OverNext(absorbed[k].tick)
      /\ \A k \in DOMAIN todo : todo[k] = "probe" => k = Len(todo)
  BY <1>1 DEF ClosesComeLast
<1> QED BY <1>2, <1>3, ClosesNext

LEMMA IntentDeliversKeeps ==
    ASSUME BusInv, IntentDelivers
    PROVE  BusInv'
<1> USE DEF BusInv
<1>1. /\ intent.step = "carrying" /\ waiting["hotbar"] = Nobody /\ intent' = NoIntent
      /\ AskTracker("hotbar", "intent", 0, intent.session)
      /\ UNCHANGED <<live, subscribed, announcing, told, caller, absorbed, desk, questOn, gate,
                     tick, todo, carrying, probes>>
  BY DEF IntentDelivers, questVars, watchVars, Free
<1>2. intent.session \in Session
  BY <1>1 DEF BusTypeOK, NoIntent
<1>3. /\ BusTypeOK' /\ WaitOrder' /\ OneCallEach' /\ FollowersInStep'
      /\ CloseAfterOwnTick' /\ IntentInItsSession'
      /\ \A k \in DOMAIN inbox' :
            \/ k \in DOMAIN inbox /\ inbox'[k] = inbox[k]
            \/ inbox'[k] = [kind |-> "intent", from |-> "hotbar", tick |-> 0,
                            session |-> intent.session]
  <2>1. "hotbar" \in Process \ {"tracker", "quest"}
    BY Names
  <2>2. AsksTracker("hotbar", "intent", 0, intent.session)
    BY <1>1, <1>2, <2>1 DEF AsksTracker, BusTypeOK
  <2> QED BY <2>2, AskingTracker
<1>4. ClosesComeLast'
  <2>1. \A k \in DOMAIN inbox' : \/ k \in DOMAIN inbox /\ inbox'[k] = inbox[k]
                                 \/ inbox'[k].kind = "intent"
    BY <1>3
  <2> QED BY <1>1, <2>1, AskingKeepsCloses
<1> QED BY <1>3, <1>4

LEMMA CommandKeeps ==
    ASSUME BusInv, Command
    PROVE  BusInv'
<1> USE DEF BusInv
<1>1. /\ waiting["user"] = Nobody
      /\ UNCHANGED <<live, subscribed, announcing, told, caller, absorbed, desk, questOn, gate,
                     intent, tick, todo, carrying, probes>>
      /\ \/ \E s \in Session \ used.sessions : AskTracker("user", "start", 0, s)
         \/ AskTracker("user", "stop", 0, NoSession)
  BY DEF Command, questVars, watchVars, hotbarVars, Free
<1>2. "user" \in Process \ {"tracker", "quest"}
  BY Names
<1>3. PICK kind \in {"start", "stop"}, s \in Session \cup {NoSession} :
          (kind = "start" => s # NoSession) /\ AskTracker("user", kind, 0, s)
  BY <1>1, SessionAssumption
<1>4. AsksTracker("user", kind, 0, s)
  BY <1>1, <1>2, <1>3 DEF AsksTracker, BusTypeOK
<1>5. /\ BusTypeOK' /\ WaitOrder' /\ OneCallEach' /\ FollowersInStep'
      /\ CloseAfterOwnTick' /\ IntentInItsSession'
      /\ \A k \in DOMAIN inbox' :
            \/ k \in DOMAIN inbox /\ inbox'[k] = inbox[k]
            \/ inbox'[k] = [kind |-> kind, from |-> "user", tick |-> 0, session |-> s]
  BY <1>4, AskingTracker
<1>6. ClosesComeLast'
  <2>1. \A k \in DOMAIN inbox' : \/ k \in DOMAIN inbox /\ inbox'[k] = inbox[k]
                                 \/ inbox'[k].kind \in {"start", "stop"}
    BY <1>5
  <2> QED BY <1>1, <2>1, AskingKeepsCloses
<1> QED BY <1>5, <1>6

\* The watcher asks the quest service: a filter, or a received mission.
LEMMA WatcherAsksQuestKeeps ==
    ASSUME BusInv, WatcherAsksQuest
    PROVE  BusInv'
<1> DEFINE id == Len(desk) + 1
<1> USE DEF BusInv
<1>1. PICK kind \in {"filter", "mission"} :
          /\ waiting["watcher"] = Nobody /\ todo # << >> /\ Head(todo) = kind
          /\ AskQuest("watcher", kind, NoSession)
          /\ todo' = Tail(todo)
          /\ UNCHANGED <<live, subscribed, announcing, told, caller, absorbed, inbox, questOn, gate,
                         intent, tick, carrying, probes>>
  BY DEF WatcherAsksQuest, WatcherAt, Free, trackerVars, hotbarVars
<1>2. /\ todo' \in Seq({"filter", "event", "mission", "probe"})
      /\ Len(todo) \in Nat /\ DOMAIN todo = 1 .. Len(todo)
      /\ Len(todo') = Len(todo) - 1 /\ DOMAIN todo' = 1 .. Len(todo) - 1
      /\ \A k \in DOMAIN todo' : k + 1 \in DOMAIN todo /\ todo'[k] = todo[k + 1]
  BY <1>1, TakeFirst DEF BusTypeOK
<1>3. /\ desk' \in Seq(Errand)
      /\ id \notin DOMAIN desk /\ DOMAIN desk' = DOMAIN desk \cup {id}
      /\ desk'[id] = [kind |-> kind, from |-> "watcher", session |-> NoSession]
      /\ \A k \in DOMAIN desk : desk'[k] = desk[k] /\ desk[k] \in Errand
      /\ waiting' \in [Process -> Actor \cup {Nobody}]
      /\ waiting'["watcher"] = "quest"
      /\ \A q \in Process : q # "watcher" => waiting'[q] = waiting[q]
  <2>1. /\ BusTypeOK /\ "watcher" \in Process
        /\ kind \in {"filter", "mission", "started", "stopped"}
        /\ NoSession \in Session \cup {NoSession} /\ AskQuest("watcher", kind, NoSession)
    BY <1>1, Names
  <2> QED BY <2>1, QuestAsked DEF AskQuest
<1> HIDE DEF id
<1>4. /\ \A k \in DOMAIN inbox : inbox[k].from \in Process /\ inbox[k].from # "watcher"
      /\ \A k \in DOMAIN desk : desk[k].from \in Process /\ desk[k].from # "watcher"
  BY <1>1, Senders, Names DEF OneCallEach
<1>5. BusTypeOK'
  BY <1>1, <1>2, <1>3 DEF BusTypeOK, Errand
<1>6. WaitOrder'
  BY <1>1, AskingKeepsOrder, Names DEF AskQuest
<1>7. OneCallEach'
  <2>1. \A k \in DOMAIN desk' : waiting'[desk'[k].from] = "quest"
    BY <1>3, <1>4 DEF OneCallEach
  <2>2. \A i, j \in DOMAIN desk' : desk'[i].from = desk'[j].from => i = j
    BY <1>3, <1>4 DEF OneCallEach
  <2>3. \A k \in DOMAIN inbox : waiting'[inbox[k].from] = "tracker"
    BY <1>3, <1>4 DEF OneCallEach
  <2>4. announcing # << >> => waiting'[caller] = "tracker"
    BY <1>1, <1>3, Names DEF OneCallEach, BusTypeOK
  <2>5. ~carrying
    BY <1>1 DEF OneCallEach
  <2>6. ~told => waiting'["tracker"] = Nobody
    BY <1>3, Names DEF OneCallEach
  <2> QED BY <1>1, <2>1, <2>2, <2>3, <2>4, <2>5, <2>6 DEF OneCallEach
<1>8. FollowersInStep'
  <2>1. \A k \in DOMAIN desk' : \/ k \in DOMAIN desk /\ desk'[k] = desk[k]
                                \/ /\ desk'[k].kind \notin {"started", "stopped"}
                                   /\ desk'[k].from # "tracker"
    BY <1>3
  <2>2. waiting'["tracker"] = waiting["tracker"]
    BY <1>3, Names
  <2> QED BY <1>1, <2>1, <2>2 DEF FollowersInStep
<1>9. ClosesComeLast'
  <2>1. EventsOut => EventsOut'
    BY <1>1, <1>2 DEF EventsOut
  <2>2. \A t : Over(t) => OverNext(t)
    BY <1>1, <2>1 DEF Over, OverNext
  <2>3. \A k \in DOMAIN todo' : todo'[k] = "probe" => k = Len(todo')
    BY <1>2 DEF ClosesComeLast
  <2>4. /\ \A q \in Probe : probes[q] # 0 => OverNext(probes[q])
        /\ \A k \in DOMAIN absorbed : absorbed[k].kind = "close" => OverNext(absorbed[k].tick)
        /\ \A k \in DOMAIN inbox :
              /\ inbox[k].kind = "event" => inbox[k].from = "watcher" /\ inbox[k].tick = tick
              /\ inbox[k].kind = "close" => OverNext(inbox[k].tick)
    BY <2>2 DEF ClosesComeLast
  <2> QED BY <1>1, <2>3, <2>4, ClosesNext
<1>10. CloseAfterOwnTick' /\ IntentInItsSession'
  BY <1>1 DEF CloseAfterOwnTick, IntentInItsSession
<1> QED BY <1>5, <1>6, <1>7, <1>8, <1>9, <1>10

-----------------------------------------------------------------------------
(* The quest service's step, and the flush *)

LEMMA QuestTakesKeeps ==
    ASSUME BusInv, QuestTakes
    PROVE  BusInv'
<1> DEFINE m == Head(desk)
<1> USE DEF BusInv
<1>1. /\ desk' = Tail(desk) /\ waiting["quest"] = Nobody /\ Reply(m.from)
      /\ questOn' = (CASE m.kind = "started" -> m.session
                       [] m.kind = "stopped" -> NoSession
                       [] OTHER -> questOn)
      /\ UNCHANGED <<live, subscribed, inbox, announcing, told, caller, absorbed, gate, intent,
                     tick, todo, carrying, probes>>
  BY DEF QuestTakes, trackerVars, watchVars, hotbarVars, Free
<1>2. /\ desk' \in Seq(Errand)
      /\ 1 \in DOMAIN desk /\ m = desk[1] /\ m \in Errand
      /\ \A k \in DOMAIN desk' :
            /\ k + 1 \in DOMAIN desk /\ desk'[k] = desk[k + 1]
            /\ desk'[k].from # m.from
      /\ \A i, j \in DOMAIN desk' : desk'[i].from = desk'[j].from => i = j
      /\ waiting[m.from] = "quest"
  BY QuestTaken
<1> HIDE DEF m
<1>3. m.from \in Process /\ m.session \in Session \cup {NoSession}
  BY <1>2 DEF Errand
<1>4. /\ waiting' \in [Process -> Actor \cup {Nobody}]
      /\ waiting'[m.from] = Nobody
      /\ \A q \in Process : q # m.from => waiting'[q] = waiting[q]
  BY <1>1, <1>3, Replied
<1>5. /\ \A k \in DOMAIN inbox : inbox[k].from \in Process /\ inbox[k].from # m.from
      /\ \A k \in DOMAIN desk' : desk'[k].from \in Process
  BY <1>2, Senders DEF OneCallEach
<1>6. BusTypeOK'
  <2>1. questOn' \in Session \cup {NoSession}
    BY <1>1, <1>3 DEF BusTypeOK
  <2> QED BY <1>1, <1>2, <1>4, <2>1 DEF BusTypeOK, Errand
<1>7. WaitOrder'
  BY <1>1, ReplyKeepsOrder
<1>8. OneCallEach'
  <2>1. \A k \in DOMAIN desk' : waiting'[desk'[k].from] = "quest"
    BY <1>2, <1>4, <1>5 DEF OneCallEach
  <2>2. \A k \in DOMAIN inbox : waiting'[inbox[k].from] = "tracker"
    BY <1>4, <1>5 DEF OneCallEach
  <2>3. announcing # << >> => waiting'[caller] = "tracker"
    BY <1>2, <1>4 DEF OneCallEach, BusTypeOK
  <2>4. carrying => waiting'["watcher"] = Nobody
    BY <1>4, Names DEF OneCallEach
  <2>5. ~told => waiting'["tracker"] = Nobody
    BY <1>4, Names DEF OneCallEach
  <2> QED BY <1>1, <1>2, <2>1, <2>2, <2>3, <2>4, <2>5 DEF OneCallEach
<1>9. FollowersInStep'
  <2>1. CASE m.from = "tracker"
    <3>1. told /\ m.kind = Head(announcing).what /\ m.session = Head(announcing).session
      BY <1>2, <2>1 DEF FollowersInStep
    <3>2. m.kind \in {"started", "stopped"}
      BY <1>2, <2>1 DEF FollowersInStep
    <3>3. questOn' = Target(Head(announcing))
      BY <1>1, <3>1, <3>2 DEF Target
    <3>4. \A k \in DOMAIN desk' : desk'[k].from # "tracker" /\ desk'[k].kind \notin {"started", "stopped"}
      BY <1>2, <2>1 DEF FollowersInStep
    <3> QED BY <1>1, <3>1, <3>3, <3>4 DEF FollowersInStep
  <2>2. CASE m.from # "tracker"
    <3>1. questOn' = questOn
      BY <1>1, <1>2, <2>2 DEF FollowersInStep
    <3>2. waiting'["tracker"] = waiting["tracker"]
      BY <1>4, <2>2, Names
    <3> QED BY <1>1, <1>2, <3>1, <3>2 DEF FollowersInStep
  <2> QED BY <2>1, <2>2
<1> QED BY <1>1, <1>6, <1>7, <1>8, <1>9, ClosesUndisturbed

\* A flush ends with its probe, if it has one.
LEMMA ProbeEndsFlush ==
    ASSUME NEW looted \in BOOLEAN, NEW received \in BOOLEAN, NEW completes \in BOOLEAN
    PROVE  LET flush == FlushOrder(looted, received, completes)
           IN  /\ flush \in Seq({"filter", "event", "mission", "probe"})
               /\ \A k \in DOMAIN flush : flush[k] = "probe" => k = Len(flush)
<1> DEFINE S == {"filter", "event", "mission"}
           loot == IF looted THEN <<"event">> ELSE << >>
           mission == IF received THEN <<"mission">> ELSE << >>
           head == <<"filter">> \o loot
           body == head \o mission \o <<"event">>
           probe == IF looted \/ completes THEN <<"probe">> ELSE << >>
           flush == body \o probe
<1>1. loot \in Seq(S) /\ mission \in Seq(S) /\ <<"filter">> \in Seq(S) /\ <<"event">> \in Seq(S)
  <2>1. /\ "filter" \in S /\ "event" \in S /\ "mission" \in S
        /\ << >> \in Seq(S)
    BY EmptySeq
  <2> HIDE DEF S
  <2>2. <<"filter">> \in Seq(S) /\ <<"event">> \in Seq(S) /\ <<"mission">> \in Seq(S)
    BY <2>1
  <2> QED BY <2>1, <2>2
<1>2. body \in Seq(S)
  <2> HIDE DEF loot, mission, S
  <2>1. head \in Seq(S)
    BY <1>1, ConcatProperties
  <2> HIDE DEF head
  <2>2. head \o mission \in Seq(S)
    BY <1>1, <2>1, ConcatProperties
  <2> DEFINE most == head \o mission
  <2> HIDE DEF most
  <2>3. most \o <<"event">> \in Seq(S)
    BY <1>1, <2>2, ConcatProperties DEF most
  <2> QED BY <2>3 DEF most
<1>3. /\ Len(body) \in Nat /\ DOMAIN body = 1 .. Len(body)
      /\ \A k \in DOMAIN body : body[k] \in S
  <2> HIDE DEF body, S
  <2> QED BY <1>2, LenProperties, ElementOfSeq
<1>4. \A k \in DOMAIN body : body[k] # "probe"
  BY <1>3
<1>5. body \in Seq({"filter", "event", "mission", "probe"})
  <2> HIDE DEF body
  <2>1. \A s : s \in Seq(S) => s \in Seq({"filter", "event", "mission", "probe"})
    BY DEF S
  <2> QED BY <1>2, <2>1
<1>6. /\ probe \in Seq({"filter", "event", "mission", "probe"}) /\ Len(probe) \in {0, 1}
  <2> DEFINE T == {"filter", "event", "mission", "probe"}
  <2>1. "probe" \in T /\ << >> \in Seq(T)
    BY EmptySeq
  <2> HIDE DEF T
  <2>2. <<"probe">> \in Seq(T) /\ Len(<<"probe">>) = 1 /\ Len(<< >>) = 0
    BY <2>1
  <2>3. probe \in Seq(T) /\ Len(probe) \in {0, 1}
    BY <2>1, <2>2
  <2> QED BY <2>3 DEF T
<1>7. FlushOrder(looted, received, completes) = flush
  BY DEF FlushOrder
<1> HIDE DEF body, probe
<1>8. /\ flush \in Seq({"filter", "event", "mission", "probe"})
      /\ Len(flush) = Len(body) + Len(probe)
      /\ \A k \in 1 .. Len(body) + Len(probe) :
             flush[k] = IF k <= Len(body) THEN body[k] ELSE probe[k - Len(body)]
  BY <1>5, <1>6, ConcatProperties
<1>9. DOMAIN flush = 1 .. Len(flush)
  BY <1>8, LenProperties
<1>10. \A k \in DOMAIN flush : flush[k] = "probe" => k = Len(flush)
  BY <1>3, <1>4, <1>6, <1>8, <1>9
<1> QED BY <1>7, <1>8, <1>10

LEMMA FlushTickKeeps ==
    ASSUME BusInv, FlushTick
    PROVE  BusInv'
<1> USE DEF BusInv
<1>1. /\ todo = << >> /\ waiting["watcher"] = Nobody /\ tick' = tick + 1
      /\ UNCHANGED <<live, subscribed, announcing, told, caller, absorbed, inbox, desk, questOn,
                     gate, intent, carrying, probes, waiting>>
  BY DEF FlushTick, Free, trackerVars, questVars, hotbarVars
<1>2. /\ todo' \in Seq({"filter", "event", "mission", "probe"})
      /\ \A k \in DOMAIN todo' : todo'[k] = "probe" => k = Len(todo')
  <2>1. PICK looted \in BOOLEAN, received \in BOOLEAN, completes \in BOOLEAN :
            todo' = FlushOrder(looted, received, completes)
    BY DEF FlushTick
  <2> QED BY <2>1, ProbeEndsFlush
<1>3. BusTypeOK'
  BY <1>1, <1>2 DEF BusTypeOK
<1>4. WaitOrder'
  BY <1>1, RestKeepsOrder
<1>5. OneCallEach' /\ FollowersInStep'
  BY <1>1 DEF OneCallEach, FollowersInStep
<1>6. \A k \in DOMAIN inbox : inbox[k].from # "watcher"
  BY <1>1, Names DEF OneCallEach
<1>7. \A t \in Nat : Over(t) => OverNext(t)
  BY <1>1 DEF Over, OverNext, BusTypeOK
<1>8. ClosesComeLast'
  <2>1. /\ \A q \in Probe : probes[q] # 0 => OverNext(probes[q])
        /\ \A k \in DOMAIN absorbed : absorbed[k].kind = "close" => OverNext(absorbed[k].tick)
        /\ \A k \in DOMAIN inbox :
              /\ inbox[k].kind # "event"
              /\ inbox[k].kind = "close" => OverNext(inbox[k].tick)
    <3>1. \A k \in DOMAIN absorbed : absorbed[k] \in Absorbed
      <4>1. absorbed \in Seq(Absorbed)
        BY DEF BusTypeOK
      <4> HIDE DEF BusInv
      <4> QED BY <4>1, LenProperties, ElementOfSeq
    <3>2. /\ \A k \in DOMAIN absorbed : absorbed[k].tick \in Nat
          /\ \A k \in DOMAIN inbox : inbox[k].tick \in Nat
          /\ \A q \in Probe : probes[q] \in Nat
      BY <3>1, Senders DEF Absorbed, Message, BusTypeOK
    <3> QED BY <1>6, <1>7, <3>2 DEF ClosesComeLast
  <2> QED BY <1>1, <1>2, <2>1, ClosesNext
<1>9. CloseAfterOwnTick' /\ IntentInItsSession'
  BY <1>1 DEF CloseAfterOwnTick, IntentInItsSession
<1> QED BY <1>3, <1>4, <1>5, <1>8, <1>9

LEMMA WatcherProbesKeeps ==
    ASSUME BusInv, WatcherProbes
    PROVE  BusInv'
<1> USE DEF BusInv
<1>1. PICK p \in Probe :
          /\ waiting["watcher"] = Nobody /\ todo # << >> /\ Head(todo) = "probe"
          /\ todo' = Tail(todo)
          /\ probes' = [probes EXCEPT ![p] = tick]
          /\ UNCHANGED <<live, subscribed, announcing, told, caller, absorbed, inbox, desk, questOn,
                         gate, intent, tick, carrying, waiting>>
  BY DEF WatcherProbes, WatcherAt, Free, trackerVars, questVars, hotbarVars
<1>2. /\ todo' \in Seq({"filter", "event", "mission", "probe"})
      /\ Len(todo) \in Nat /\ DOMAIN todo = 1 .. Len(todo) /\ 1 \in DOMAIN todo
      /\ todo[1] = "probe" /\ DOMAIN todo' = 1 .. Len(todo) - 1
  BY <1>1, TakeFirst DEF BusTypeOK
<1>3. DOMAIN todo' = {}
  BY <1>2 DEF ClosesComeLast
<1>4. BusTypeOK'
  BY <1>1, <1>2 DEF BusTypeOK
<1>5. WaitOrder'
  BY <1>1, RestKeepsOrder
<1>6. OneCallEach' /\ FollowersInStep'
  BY <1>1 DEF OneCallEach, FollowersInStep
<1>7. \A k \in DOMAIN inbox : inbox[k].from # "watcher"
  BY <1>1, Names DEF OneCallEach
<1>8. \A k \in DOMAIN inbox : inbox[k].kind # "event"
  BY <1>7 DEF ClosesComeLast
<1>9. EventsOut'
  BY <1>1, <1>3, <1>8 DEF EventsOut
<1>10. \A t : Over(t) => OverNext(t)
  BY <1>1, <1>9 DEF Over, OverNext
<1>11. ClosesComeLast'
  <2>1. OverNext(tick)
    BY <1>1, <1>9 DEF OverNext, BusTypeOK
  <2>2. \A q \in Probe : probes'[q] # 0 => OverNext(probes'[q])
    BY <1>1, <1>10, <2>1 DEF ClosesComeLast, BusTypeOK
  <2>3. /\ \A k \in DOMAIN absorbed : absorbed[k].kind = "close" => OverNext(absorbed[k].tick)
        /\ \A k \in DOMAIN inbox : inbox[k].kind = "close" => OverNext(inbox[k].tick)
    BY <1>10 DEF ClosesComeLast
  <2> QED BY <1>1, <1>3, <1>8, <2>2, <2>3, ClosesNext
<1>12. CloseAfterOwnTick' /\ IntentInItsSession'
  BY <1>1 DEF CloseAfterOwnTick, IntentInItsSession
<1> QED BY <1>4, <1>5, <1>6, <1>11, <1>12

LEMMA WatcherSnapshotsKeeps ==
    ASSUME BusInv, WatcherSnapshots
    PROVE  BusInv'
<1> USE DEF BusInv
<1>1. /\ waiting["watcher"] = Nobody /\ todo # << >> /\ Head(todo) = "event"
      /\ \/ carrying' = TRUE /\ todo' = todo
         \/ carrying' = carrying /\ ~carrying /\ todo' = Tail(todo)
      /\ UNCHANGED <<live, subscribed, announcing, told, caller, absorbed, inbox, desk, questOn,
                     gate, intent, tick, probes, waiting>>
  BY DEF WatcherSnapshots, WatcherAt, Free, trackerVars, questVars, hotbarVars
<1>2. /\ Tail(todo) \in Seq({"filter", "event", "mission", "probe"})
      /\ Len(todo) \in Nat /\ DOMAIN todo = 1 .. Len(todo) /\ 1 \in DOMAIN todo
      /\ todo[1] = "event" /\ DOMAIN Tail(todo) = 1 .. Len(todo) - 1
      /\ Len(Tail(todo)) = Len(todo) - 1
      /\ \A k \in DOMAIN Tail(todo) : k + 1 \in DOMAIN todo /\ Tail(todo)[k] = todo[k + 1]
  BY <1>1, TakeFirst DEF BusTypeOK
<1>3. BusTypeOK'
  BY <1>1, <1>2 DEF BusTypeOK
<1>4. WaitOrder'
  BY <1>1, RestKeepsOrder
<1>5. OneCallEach' /\ FollowersInStep'
  BY <1>1 DEF OneCallEach, FollowersInStep
<1>6. ~EventsOut
  BY <1>2 DEF EventsOut
<1>7. \A t : Over(t) => OverNext(t)
  BY <1>1, <1>6 DEF Over, OverNext
<1>8. ClosesComeLast'
  <2>1. \A k \in DOMAIN todo' : todo'[k] = "probe" => k = Len(todo')
    BY <1>1, <1>2 DEF ClosesComeLast
  <2>2. /\ \A q \in Probe : probes[q] # 0 => OverNext(probes[q])
        /\ \A k \in DOMAIN absorbed : absorbed[k].kind = "close" => OverNext(absorbed[k].tick)
        /\ \A k \in DOMAIN inbox :
              /\ inbox[k].kind = "event" => inbox[k].from = "watcher" /\ inbox[k].tick = tick
              /\ inbox[k].kind = "close" => OverNext(inbox[k].tick)
    BY <1>7 DEF ClosesComeLast
  <2> QED BY <1>1, <2>1, <2>2, ClosesNext
<1>9. CloseAfterOwnTick' /\ IntentInItsSession'
  BY <1>1 DEF CloseAfterOwnTick, IntentInItsSession
<1> QED BY <1>3, <1>4, <1>5, <1>8, <1>9

-----------------------------------------------------------------------------
(* The hotbar's own steps move only its request *)

LEMMA HotbarKeeps ==
    ASSUME BusInv, Press \/ IntentMatches \/ IntentSnapshots
    PROVE  BusInv'
<1> USE DEF BusInv
<1>1. UNCHANGED <<live, subscribed, announcing, told, caller, absorbed, inbox, desk, questOn,
                  gate, tick, todo, carrying, probes, waiting>>
  BY DEF Press, IntentMatches, IntentSnapshots, trackerVars, questVars, watchVars
<1>2. BusTypeOK'
  <2>1. intent' = NoIntent \/ intent' \in [step : {"queued", "matched", "carrying"}, session : Session]
    <3>1. CASE Press
      BY <3>1 DEF Press, BusTypeOK
    <3>2. CASE IntentMatches
      <4>1. intent = NoIntent \/ intent \in [step : {"queued", "matched", "carrying"}, session : Session]
        BY DEF BusTypeOK
      <4>2. intent.step = "queued"
        BY <3>2 DEF IntentMatches
      <4>3. intent \in [step : {"queued", "matched", "carrying"}, session : Session]
        BY <4>1, <4>2 DEF NoIntent
      <4>4. intent' = NoIntent \/ intent' = [intent EXCEPT !.step = "matched"]
        BY <3>2 DEF IntentMatches
      <4> QED BY <4>3, <4>4
    <3>3. CASE IntentSnapshots
      <4>1. intent = NoIntent \/ intent \in [step : {"queued", "matched", "carrying"}, session : Session]
        BY DEF BusTypeOK
      <4>2. intent.step = "matched"
        BY <3>3 DEF IntentSnapshots
      <4>3. intent \in [step : {"queued", "matched", "carrying"}, session : Session]
        BY <4>1, <4>2 DEF NoIntent
      <4>4. intent' = NoIntent \/ intent' = [intent EXCEPT !.step = "carrying"]
        BY <3>3 DEF IntentSnapshots
      <4> QED BY <4>3, <4>4
    <3> QED BY <3>1, <3>2, <3>3
  <2> QED BY <1>1, <2>1 DEF BusTypeOK
<1>3. WaitOrder' /\ OneCallEach' /\ FollowersInStep'
  BY <1>1 DEF WaitOrder, OneCallEach, FollowersInStep
<1> QED BY <1>1, <1>2, <1>3, ClosesUndisturbed

LEMMA BusStep == BusInv /\ [BusNext]_bus => BusInv'
<1> SUFFICES ASSUME BusInv, [BusNext]_bus PROVE BusInv'
  OBVIOUS
<1>1. CASE TrackerStep
  BY <1>1, TakeEventKeeps, TakeCommandKeeps, AnnounceKeeps, AnnouncedKeeps DEF TrackerStep
<1>2. CASE WatcherStep
  BY <1>2, WatcherAsksQuestKeeps, WatcherSnapshotsKeeps, WatcherDeliversKeeps, WatcherProbesKeeps
     DEF WatcherStep
<1>3. CASE HotbarStep \/ Press
  BY <1>3, HotbarKeeps, IntentDeliversKeeps DEF HotbarStep
<1>4. CASE \E p \in Probe : ProbeCloses(p)
  BY <1>4, ProbeClosesKeeps
<1>5. CASE UNCHANGED bus
  <2>1. /\ UNCHANGED <<live, subscribed, announcing, told, caller, absorbed, inbox, desk, questOn,
                       gate, intent, tick, todo, carrying, probes, waiting>>
    BY <1>5 DEF bus, trackerVars, questVars, watchVars, hotbarVars
  <2>2. BusTypeOK' /\ WaitOrder' /\ OneCallEach' /\ FollowersInStep'
    BY <2>1 DEF BusInv, BusTypeOK, WaitOrder, OneCallEach, FollowersInStep
  <2> QED BY <2>1, <2>2, ClosesUndisturbed DEF BusInv
<1> QED BY <1>1, <1>2, <1>3, <1>4, <1>5, QuestTakesKeeps, FlushTickKeeps, CommandKeeps DEF BusNext

\* The bus keeps its order: who waits for whom, one call each, followers in
\* step, closes after events.
THEOREM BusInvariant == BusSpec => []BusInv
BY BusInitInv, BusStep, PTL DEF BusSpec

\* A publisher that is free has nothing left in an inbox, and between
\* messages the followers hold the tracker's session (quests/actor.rs:8).
THEOREM PublishersAreAbsorbed == BusSpec => []CallsAbsorbed
<1>1. BusInv => CallsAbsorbed
  <2> SUFFICES ASSUME BusInv PROVE CallsAbsorbed
    OBVIOUS
  <2>1. AbsorbedOnReturn
    BY Names DEF BusInv, OneCallEach, AbsorbedOnReturn, Free
  <2>2. FollowersAgree
    BY DEF BusInv, FollowersInStep, FollowersAgree
  <2> QED BY <2>1, <2>2 DEF CallsAbsorbed
<1> QED BY <1>1, BusInvariant, PTL

\* An intent counts in the session it was pressed in, and a completion closes
\* its stretch after the events of its own tick (chatlog_watcher.rs:848).
THEOREM AttributionIsInPlace == BusSpec => []AttributedInPlace
<1>1. BusInv => AttributedInPlace
  BY DEF BusInv, AttributedInPlace
<1> QED BY <1>1, BusInvariant, PTL

-----------------------------------------------------------------------------
(* Whoever waits is being served *)

AtInbox(p) == \E k \in DOMAIN inbox : inbox[k].from = p
AtDesk(p)  == \E k \in DOMAIN desk : desk[k].from = p
InHands(p) == announcing # << >> /\ caller = p

\* A call that has not returned is in an inbox or in the tracker's hands.
Waiters ==
    \A p \in Process :
        /\ waiting[p] = "quest" => AtDesk(p)
        /\ waiting[p] = "tracker" => AtInbox(p) \/ InHands(p)

\* A message that is appended is there, with those before it.
LEMMA CallEnters ==
    ASSUME NEW S, NEW box \in Seq(S), NEW m \in S, NEW next, next = Append(box, m)
    PROVE  /\ \E k \in DOMAIN next : next[k].from = m.from
           /\ \A p : (\E k \in DOMAIN box : box[k].from = p) => \E k \in DOMAIN next : next[k].from = p
<1>1. /\ Len(box) \in Nat /\ DOMAIN box = 1 .. Len(box)
      /\ DOMAIN next = 1 .. Len(box) + 1 /\ next[Len(box) + 1] = m
      /\ \A k \in DOMAIN box : next[k] = box[k]
  BY AppendRow
<1>2. Len(box) + 1 \in DOMAIN next /\ \A k \in DOMAIN box : k \in DOMAIN next
  BY <1>1
<1> QED BY <1>1, <1>2

\* The message that is taken leaves the others there.
LEMMA CallLeaves ==
    ASSUME NEW S, NEW box \in Seq(S), box # << >>
    PROVE  \A p : (\E k \in DOMAIN box : box[k].from = p) /\ p # Head(box).from
               => \E k \in DOMAIN Tail(box) : Tail(box)[k].from = p
<1> DEFINE next == Tail(box)
<1>1. /\ Len(box) \in Nat \ {0} /\ DOMAIN box = 1 .. Len(box)
      /\ Head(box) = box[1] /\ DOMAIN next = 1 .. Len(box) - 1
      /\ \A k \in DOMAIN next : next[k] = box[k + 1]
  BY TakeFirst
<1> SUFFICES ASSUME NEW p, NEW k \in DOMAIN box, box[k].from = p, p # Head(box).from
             PROVE  \E i \in DOMAIN next : next[i].from = p
  OBVIOUS
<1>2. k # 1
  BY <1>1
<1>3. k - 1 \in DOMAIN next /\ (k - 1) + 1 = k
  BY <1>1, <1>2
<1>4. next[k - 1] = box[k]
  BY <1>1, <1>3
<1> QED BY <1>3, <1>4

\* A step that only asks the tracker, one that only asks the quest service, and
\* one that leaves the calls alone.
LEMMA AskingTrackerWaits ==
    ASSUME BusInv, Waiters, NEW p \in Process, NEW kind \in {"start", "stop", "close", "event", "intent"},
           NEW n \in Nat, NEW s \in Session \cup {NoSession}, AskTracker(p, kind, n, s),
           UNCHANGED <<desk, announcing, caller>>
    PROVE  Waiters'
<1> DEFINE m == [kind |-> kind, from |-> p, tick |-> n, session |-> s]
<1>1. m \in Message /\ inbox \in Seq(Message) /\ inbox' = Append(inbox, m)
  BY DEF Message, BusInv, BusTypeOK, AskTracker
<1>2. AtInbox(p)' /\ \A q : AtInbox(q) => AtInbox(q)'
  <2>1. m.from = p
    OBVIOUS
  <2> HIDE DEF m
  <2> QED BY <1>1, <2>1, CallEnters DEF AtInbox
<1>3. waiting'[p] = "tracker" /\ \A q \in Process : q # p => waiting'[q] = waiting[q]
  BY DEF AskTracker, Wait, BusInv, BusTypeOK
<1> QED BY <1>2, <1>3 DEF Waiters, AtDesk, InHands

LEMMA AskingQuestWaits ==
    ASSUME BusInv, Waiters, NEW p \in Process, NEW kind \in {"filter", "mission", "started", "stopped"},
           NEW s \in Session \cup {NoSession}, AskQuest(p, kind, s),
           UNCHANGED <<inbox, announcing, caller>>
    PROVE  Waiters'
<1> DEFINE m == [kind |-> kind, from |-> p, session |-> s]
<1>1. m \in Errand /\ desk \in Seq(Errand) /\ desk' = Append(desk, m)
  BY DEF Errand, BusInv, BusTypeOK, AskQuest
<1>2. AtDesk(p)' /\ \A q : AtDesk(q) => AtDesk(q)'
  <2>1. m.from = p
    OBVIOUS
  <2> HIDE DEF m
  <2> QED BY <1>1, <2>1, CallEnters DEF AtDesk
<1>3. waiting'[p] = "quest" /\ \A q \in Process : q # p => waiting'[q] = waiting[q]
  BY DEF AskQuest, Wait, BusInv, BusTypeOK
<1> QED BY <1>2, <1>3 DEF Waiters, AtInbox, InHands

LEMMA RestWaits ==
    ASSUME Waiters, UNCHANGED <<waiting, inbox, desk, announcing, caller>>
    PROVE  Waiters'
BY DEF Waiters, AtInbox, AtDesk, InHands

\* The tracker answers what it takes or has it in hand, and answers that last.
LEMMA TrackerServes ==
    ASSUME BusInv, Waiters, TakeEvent \/ TakeCommand
    PROVE  Waiters'
<1> DEFINE m == Head(inbox)
<1>1. /\ inbox \in Seq(Message) /\ inbox # << >> /\ inbox' = Tail(inbox) /\ announcing = << >>
      /\ UNCHANGED desk
  BY DEF TakeEvent, TakeCommand, Taking, questVars, BusInv, BusTypeOK
<1>2. m.from \in Process /\ waiting[m.from] = "tracker"
  BY TrackerTakes DEF TakeEvent, TakeCommand, BusInv, Message
<1>3. \A q : AtInbox(q) /\ q # m.from => AtInbox(q)'
  <2>1. \A q : (\E k \in DOMAIN inbox : inbox[k].from = q) /\ q # m.from
                => \E k \in DOMAIN Tail(inbox) : Tail(inbox)[k].from = q
    BY <1>1, CallLeaves
  <2> QED BY <1>1, <2>1 DEF AtInbox
<1>4. \A q \in Process : waiting[q] = "tracker" => AtInbox(q)
  BY <1>1 DEF Waiters, InHands
<1>5. \/ Reply(m.from)
      \/ announcing' # << >> /\ caller' = m.from /\ UNCHANGED waiting
  BY DEF TakeEvent, TakeCommand
<1> HIDE DEF m
<1>6. CASE Reply(m.from)
  <2>1. waiting'[m.from] = Nobody /\ \A q \in Process : q # m.from => waiting'[q] = waiting[q]
    BY <1>2, <1>6, Replied DEF BusInv
  <2> QED BY <1>1, <1>3, <1>4, <2>1, Names DEF Waiters, AtDesk
<1>7. CASE announcing' # << >> /\ caller' = m.from /\ UNCHANGED waiting
  BY <1>1, <1>3, <1>4, <1>7 DEF Waiters, AtDesk, InHands
<1> QED BY <1>5, <1>6, <1>7

LEMMA AnnounceWaits == ASSUME BusInv, Waiters, Announce PROVE Waiters'
<1> DEFINE e == Head(announcing)
<1>1. e \in Lifecycle
  BY TakeFirst DEF Announce, BusInv, BusTypeOK
<1>2. e.what \in {"started", "stopped"} /\ e.session \in Session \cup {NoSession}
  BY <1>1 DEF Lifecycle, Started, Stopped, BusTypeOK
<1>3. AskQuest("tracker", e.what, e.session) /\ UNCHANGED <<inbox, announcing, caller>>
  BY DEF Announce
<1> HIDE DEF e
<1> QED BY <1>2, <1>3, AskingQuestWaits, Names

LEMMA AnnouncedWaits == ASSUME BusInv, Waiters, Announced PROVE Waiters'
<1>1. /\ announcing' = Tail(announcing) /\ UNCHANGED <<inbox, desk, caller>>
      /\ (IF announcing' = << >> THEN Reply(caller) ELSE UNCHANGED waiting)
  BY DEF Announced, questVars
<1>2. CASE announcing' = << >>
  <2>1. waiting'[caller] = Nobody /\ \A q \in Process : q # caller => waiting'[q] = waiting[q]
    BY <1>1, <1>2, Replied DEF BusInv, BusTypeOK
  <2> QED BY <1>1, <2>1, Names DEF Waiters, AtInbox, AtDesk, InHands
<1>3. CASE announcing' # << >>
  <2>1. announcing # << >>
    BY DEF Announced, BusInv, FollowersInStep
  <2> QED BY <1>1, <1>3, <2>1 DEF Waiters, AtInbox, AtDesk, InHands
<1> QED BY <1>2, <1>3

LEMMA QuestServes == ASSUME BusInv, Waiters, QuestTakes PROVE Waiters'
<1> DEFINE m == Head(desk)
<1>1. /\ desk \in Seq(Errand) /\ desk # << >> /\ desk' = Tail(desk) /\ Reply(m.from)
      /\ UNCHANGED <<inbox, announcing, caller>>
  BY DEF QuestTakes, trackerVars, BusInv, BusTypeOK, Errand
<1>2. m.from \in Process
  BY QuestTaken DEF BusInv, Errand
<1>3. \A q : AtDesk(q) /\ q # m.from => AtDesk(q)'
  <2>1. \A q : (\E k \in DOMAIN desk : desk[k].from = q) /\ q # m.from
                => \E k \in DOMAIN Tail(desk) : Tail(desk)[k].from = q
    BY <1>1, CallLeaves
  <2> QED BY <1>1, <2>1 DEF AtDesk
<1> HIDE DEF m
<1>4. waiting'[m.from] = Nobody /\ \A q \in Process : q # m.from => waiting'[q] = waiting[q]
  BY <1>1, <1>2, Replied DEF BusInv
<1> QED BY <1>1, <1>3, <1>4, Names DEF Waiters, AtInbox, InHands

LEMMA WaitersStep == BusInv /\ Waiters /\ [BusNext]_bus => Waiters'
<1> SUFFICES ASSUME BusInv, Waiters, [BusNext]_bus PROVE Waiters'
  OBVIOUS
<1>1. CASE TrackerStep
  BY <1>1, TrackerServes, AnnounceWaits, AnnouncedWaits DEF TrackerStep
<1>2. CASE WatcherAsksQuest
  BY <1>2, AskingQuestWaits, Names DEF WatcherAsksQuest, trackerVars, BusInv, BusTypeOK
<1>3. CASE WatcherDelivers
  <2>1. tick \in Nat /\ UNCHANGED <<desk, announcing, caller>>
    BY <1>3 DEF WatcherDelivers, questVars, BusInv, BusTypeOK
  <2> QED BY <1>3, <2>1, AskingTrackerWaits, Names DEF WatcherDelivers
<1>4. ASSUME NEW p \in Probe, ProbeCloses(p) PROVE Waiters'
  <2>1. probes[p] \in Nat /\ UNCHANGED <<desk, announcing, caller>>
    BY <1>4 DEF ProbeCloses, questVars, BusInv, BusTypeOK
  <2> QED BY <1>4, <2>1, AskingTrackerWaits, Names DEF ProbeCloses
<1>5. CASE IntentDelivers
  <2>1. intent.session \in Session /\ UNCHANGED <<desk, announcing, caller>>
    <3>1. intent # NoIntent
      BY <1>5 DEF IntentDelivers, NoIntent
    <3> QED BY <1>5, <3>1 DEF IntentDelivers, questVars, BusInv, BusTypeOK
  <2> QED BY <1>5, <2>1, AskingTrackerWaits, Names DEF IntentDelivers
<1>6. CASE Command
  <2>1. UNCHANGED <<desk, announcing, caller>>
    BY <1>6 DEF Command, questVars
  <2> QED BY <1>6, <2>1, AskingTrackerWaits, Names DEF Command
<1>7. CASE \/ FlushTick \/ WatcherSnapshots \/ WatcherProbes \/ Press
           \/ IntentMatches \/ IntentSnapshots \/ UNCHANGED bus
  <2>1. UNCHANGED <<waiting, inbox, desk, announcing, caller>>
    BY <1>7 DEF FlushTick, WatcherSnapshots, WatcherProbes, Press, IntentMatches, IntentSnapshots,
                bus, trackerVars, questVars
  <2> QED BY <2>1, RestWaits
<1> QED BY <1>1, <1>2, <1>3, <1>4, <1>5, <1>6, <1>7, QuestServes
       DEF BusNext, WatcherStep, HotbarStep

LEMMA ServedWhenWaiting == ASSUME BusInv, Waiters PROVE WaitsAreServed
<1>1. waiting["quest"] = Nobody /\ waiting \in [Process -> Actor \cup {Nobody}]
  BY DEF BusInv, WaitOrder
<1>2. \A p \in Process : waiting[p] = "quest" => AtDesk(p) /\ QuestCanGoOn
  BY <1>1, EmptySeq DEF Waiters, AtDesk, QuestCanGoOn, Free
<1>3. ASSUME NEW p \in Process, waiting[p] = "tracker"
      PROVE  /\ AtInbox(p) \/ InHands(p)
             /\ TrackerCanGoOn \/ (waiting["tracker"] = "quest" /\ QuestCanGoOn)
  <2>1. AtInbox(p) \/ InHands(p)
    BY <1>3 DEF Waiters
  <2>2. CASE announcing = << >>
    BY <2>1, <2>2 DEF InHands, AtInbox, TrackerCanGoOn
  <2>3. CASE announcing # << >>
    <3>1. waiting["tracker"] \in {"quest", Nobody} /\ "tracker" \in Process
      BY <1>1, Names DEF BusInv, WaitOrder
    <3>2. waiting["tracker"] = Nobody => TrackerCanGoOn
      BY <2>3 DEF TrackerCanGoOn, Free
    <3>3. waiting["tracker"] = "quest" => QuestCanGoOn
      BY <1>2, <3>1
    <3> QED BY <2>1, <3>1, <3>2, <3>3
  <2> QED BY <2>1, <2>2, <2>3
<1> QED BY <1>2, <1>3 DEF WaitsAreServed, AtInbox, AtDesk, InHands

\* Every process that waits is being served: its call is in an inbox or is the
\* command under way, and the actor it waits for can go on, or waits for the quest
\* service, which can (tracker/actor.rs:346).
THEOREM EveryWaitIsServed == BusSpec => []WaitsAreServed
<1>1. BusInit => Waiters
  BY Names DEF BusInit, Waiters
<1>2. BusSpec => [](BusInv /\ Waiters)
  BY <1>1, BusInitInv, BusStep, WaitersStep, PTL DEF BusSpec
<1> QED BY <1>2, ServedWhenWaiting, PTL

\* No rendezvous can stop the program: nobody waits in a circle, and whoever is
\* waited for has a step to take (tracker/actor.rs:346).
THEOREM WaitsStaySound == BusSpec => []WaitsSound
<1>1. NoWaitCycle /\ WaitsAreServed => WaitsSound
  BY DEF WaitsSound
<1> QED BY <1>1, NobodyWaitsInACircle, EveryWaitIsServed, PTL

-----------------------------------------------------------------------------
\* Where the threads of each consumer can be.
PlacesOf(c) == CASE c = "hotbar"     -> {"idle", "decide", "mayStart", "mayStop", "start", "stop",
                                         "on", "off"}
                 [] c = "spacebar"   -> {"idle", "decide", "start", "stop", "on", "off"}
                 [] c = "confirm"    -> {"idle", "pressed", "arm", "disarm", "mayStart", "mayStop",
                                         "start", "stop", "on", "off"}
                 [] c = "navigation" -> {"idle", "on", "off"}

Places ==
    /\ \A t \in Thread : pc[t] \in PlacesOf(Of(t))
    /\ running["navigation"] => "route" \in Thread /\ pc["route"] # "idle"

\* A reconcile that never overlapped another is alone in its section.
AtMostOne(c) ==
    \A t, u \in Thread :
        Of(t) = c /\ Of(u) = c /\ pc[t] \notin Resting /\ pc[u] \notin Resting => t = u

Alone ==
    /\ crossed \subseteq {"hotbar", "confirm"}
    /\ \A c \in {"hotbar", "confirm"} : c \notin crossed => AtMostOne(c)
    /\ \A t \in Thread : Of(t) = "spacebar" /\ pc[t] # "idle" => lock = t

\* What a thread in its section knows of its consumer's flag.
Knows ==
    \A t \in Thread : Of(t) # "navigation" /\ Of(t) \notin crossed =>
        /\ pc[t] \in {"start", "on"} => ~running[Of(t)]
        /\ pc[t] = "stop" => running[Of(t)] = (Of(t) # "spacebar")
        /\ pc[t] = "off" /\ Of(t) = "spacebar" => ~running[Of(t)]

\* Whether the consumer holds a claim: its flag says so, but for a thread
\* that called the source and has not stored the outcome.
Holds(c) ==
    IF c = "navigation" THEN running[c] /\ pc["route"] = "on"
    ELSE \/ \E t \in Thread : Of(t) = c /\ (pc[t] = "on" \/ (pc[t] = "stop" /\ c = "spacebar"))
         \/ running[c] /\ \A t \in Thread : Of(t) = c => pc[t] # "off"

One(b) == IF b THEN 1 ELSE 0

HeldClaims == One(Holds("hotbar")) + One(Holds("spacebar")) + One(Holds("confirm"))
        + One(Holds("navigation"))

Counted == crossed = {} /\ ~blind => count = HeldClaims

\* The gates, step by step through a reconcile.
GatesInStep ==
    /\ (\A t \in Thread : Of(t) = "spacebar" => pc[t] \in {"idle", "start", "on"}) =>
           (running["spacebar"] \/ (\E t \in Thread : Of(t) = "spacebar" /\ pc[t] \in {"start", "on"})
                => flag["skill"] \/ flag["research"])
    /\ "hotbar" \notin crossed =>
           /\ \A t \in Thread : Of(t) = "hotbar" /\ pc[t] \in {"mayStart", "start", "on"} =>
                  flag["settings"] /\ flag["session"]
           /\ Idle("hotbar") => (running["hotbar"] => flag["settings"] /\ flag["session"])
    /\ "confirm" \notin crossed =>
           /\ \A t \in Thread : /\ pc[t] = "arm" => phase # "idle"
                                /\ pc[t] = "disarm" => phase = "idle"
           /\ (\A t \in Thread : pc[t] \notin {"arm", "disarm"}) => (enabled = (phase # "idle"))

ClaimsInv ==
    /\ ClaimsTypeOK /\ Places /\ Alone /\ Knows /\ Counted /\ GatesInStep

-----------------------------------------------------------------------------
(* Threads and their consumers *)

LEMMA Kinds ==
    \A t \in Thread :
        /\ t \in AllThreads /\ Of(t) \in Consumer
        /\ Of(t) = "hotbar" <=> t \in {"settings", "session"}
        /\ Of(t) = "spacebar" <=> t \in {"skill", "research"}
        /\ Of(t) = "confirm" <=> t \in {"calibrate", "enter"}
        /\ Of(t) = "navigation" <=> t = "route"
BY ThreadAssumption DEF AllThreads, Of, Consumer

LEMMA Moves ==
    ASSUME ClaimsTypeOK, NEW t \in Thread, NEW place \in Pcs, Goto(t, place)
    PROVE  /\ pc' \in [Thread -> Pcs] /\ pc'[t] = place
           /\ \A u \in Thread : u # t => pc'[u] = pc[u]
BY DEF ClaimsTypeOK, Goto

LEMMA PlacesKept ==
    ASSUME Places, NEW t \in Thread, Of(t) # "navigation", pc'[t] \in PlacesOf(Of(t)),
           \A u \in Thread : u # t => pc'[u] = pc[u],
           running'["navigation"] = running["navigation"]
    PROVE  Places'
<1>1. "route" \in Thread => pc'["route"] = pc["route"]
  BY Kinds
<1> QED BY <1>1 DEF Places

\* A thread's step leaves what the other consumers hold alone.
LEMMA OthersHold ==
    ASSUME NEW c \in Consumer, NEW d \in Consumer, c # d,
           \A u \in Thread : Of(u) # d => pc'[u] = pc[u],
           \A e \in Consumer : e # d => running'[e] = running[e],
           running["navigation"] => "route" \in Thread
    PROVE  Holds(c)' = Holds(c)
<1>1. CASE c = "navigation"
  <2>1. CASE "route" \in Thread
    <3>1. pc'["route"] = pc["route"]
      BY <1>1, <2>1, Kinds
    <3> QED BY <1>1, <3>1 DEF Holds
  <2>2. CASE "route" \notin Thread
    BY <1>1, <2>2 DEF Holds
  <2> QED BY <2>1, <2>2
<1>2. CASE c # "navigation"
  <2>1. \A u \in Thread : Of(u) = c => pc'[u] = pc[u]
    OBVIOUS
  <2>2. running'[c] = running[c]
    OBVIOUS
  <2> QED BY <1>2, <2>1, <2>2 DEF Holds
<1> QED BY <1>1, <1>2

\* The count follows what the moving consumer holds.
LEMMA CountFollows ==
    ASSUME ClaimsTypeOK, Counted, NEW d \in Consumer,
           \A u \in Thread : Of(u) # d => pc'[u] = pc[u],
           \A e \in Consumer : e # d => running'[e] = running[e],
           running["navigation"] => "route" \in Thread,
           crossed' = {} /\ ~blind' =>
               /\ crossed = {} /\ ~blind
               /\ count' = count - One(Holds(d)) + One(Holds(d)')
    PROVE  Counted'
<1>1. \A c \in Consumer : c # d => Holds(c)' = Holds(c)
  BY OthersHold
<1>2. \A b : One(b) \in Int
  BY DEF One
<1> HIDE DEF Holds, One
<1>3. /\ d # "hotbar" => Holds("hotbar")' = Holds("hotbar")
      /\ d # "spacebar" => Holds("spacebar")' = Holds("spacebar")
      /\ d # "confirm" => Holds("confirm")' = Holds("confirm")
      /\ d # "navigation" => Holds("navigation")' = Holds("navigation")
  BY <1>1 DEF Consumer
<1>4. \/ d = "hotbar" \/ d = "spacebar" \/ d = "confirm" \/ d = "navigation"
  BY DEF Consumer
<1> QED BY <1>2, <1>3, <1>4 DEF Counted, HeldClaims, ClaimsTypeOK

-----------------------------------------------------------------------------
(* The steps of a reconcile *)

LEMMA HotbarSetsKeeps ==
    ASSUME ClaimsInv, NEW t \in Thread, NEW value \in BOOLEAN, HotbarSets(t, value)
    PROVE  ClaimsInv'
<1> USE DEF ClaimsInv
<1>1. /\ t \in {"settings", "session"} /\ Of(t) = "hotbar"
      /\ pc[t] \in Resting /\ pc'[t] = "decide" /\ pc' \in [Thread -> Pcs]
      /\ \A u \in Thread : u # t => pc'[u] = pc[u]
      /\ flag' = [flag EXCEPT ![t] = value]
      /\ crossed' = (IF Idle("hotbar") THEN crossed ELSE crossed \cup {"hotbar"})
      /\ UNCHANGED <<count, hooked, running, lock, enabled, phase, blind>>
  BY Moves, Kinds DEF HotbarSets, Enter, Pcs
<1>2. ClaimsTypeOK'
  BY <1>1 DEF ClaimsTypeOK, Consumer, Flags
<1>3. Places'
  <2>1. \A u \in Thread : u # t => pc'[u] \in PlacesOf(Of(u))
    BY <1>1 DEF Places
  <2>2. pc'[t] \in PlacesOf(Of(t))
    BY <1>1 DEF PlacesOf
  <2>3. running'["navigation"] => "route" \in Thread /\ pc'["route"] # "idle"
    BY <1>1, Kinds DEF Places
  <2> QED BY <2>1, <2>2, <2>3 DEF Places
<1>4. Alone'
  BY <1>1, Kinds DEF Alone, AtMostOne, Idle, Resting
<1>5. Knows'
  BY <1>1, Kinds DEF Knows
<1>6. Counted'
  <2>1. crossed' = {} => Holds("hotbar")' = Holds("hotbar")
    BY <1>1 DEF Holds, Resting, Idle
  <2>2. crossed' = {} => crossed = {}
    BY <1>1
  <2>3. One(Holds("hotbar")) \in Int
    BY DEF One
  <2> HIDE DEF Holds
  <2> QED BY <1>1, <2>1, <2>2, <2>3, CountFollows DEF Places, Consumer, ClaimsTypeOK
<1>7. GatesInStep'
  <2>1. /\ flag'["skill"] = flag["skill"] /\ flag'["research"] = flag["research"]
    BY <1>1 DEF ClaimsTypeOK, Flags
  <2>2. \A u \in Thread : Of(u) = "spacebar" => pc'[u] = pc[u]
    BY <1>1
  <2>3. "hotbar" \notin crossed' => \A u \in Thread : Of(u) = "hotbar" /\ u # t => pc[u] \in Resting
    BY <1>1 DEF Idle
  <2>4. ~ Idle("hotbar")'
    BY <1>1 DEF Idle, Resting
  <2>5. "confirm" \in crossed' <=> "confirm" \in crossed
    BY <1>1
  <2>6. \A u \in Thread : pc'[u] \in {"arm", "disarm"} => pc'[u] = pc[u]
    BY <1>1
  <2>7. pc[t] \notin {"arm", "disarm"}
    BY <1>1 DEF Resting
  <2> QED BY <1>1, <2>1, <2>2, <2>3, <2>4, <2>5, <2>6, <2>7 DEF GatesInStep, Resting
<1> QED BY <1>2, <1>3, <1>4, <1>5, <1>6, <1>7

LEMMA HotbarDecidesKeeps ==
    ASSUME ClaimsInv, NEW t \in Thread, HotbarDecides(t)
    PROVE  ClaimsInv'
<1> USE DEF ClaimsInv
<1>1. /\ Of(t) = "hotbar" /\ pc[t] = "decide" /\ pc' \in [Thread -> Pcs]
      /\ pc'[t] = (IF flag["settings"] /\ flag["session"] THEN "mayStart" ELSE "mayStop")
      /\ \A u \in Thread : u # t => pc'[u] = pc[u]
      /\ UNCHANGED <<count, hooked, running, lock, flag, enabled, phase, crossed, blind>>
  BY Moves DEF HotbarDecides, Pcs
<1>2. ClaimsTypeOK'
  BY <1>1 DEF ClaimsTypeOK
<1>3. Places'
  <2>1. \A u \in Thread : u # t => pc'[u] \in PlacesOf(Of(u))
    BY <1>1 DEF Places
  <2>2. pc'[t] \in PlacesOf(Of(t))
    BY <1>1 DEF PlacesOf
  <2>3. running'["navigation"] => "route" \in Thread /\ pc'["route"] # "idle"
    BY <1>1, Kinds DEF Places
  <2> QED BY <2>1, <2>2, <2>3 DEF Places
<1>4. Alone'
  BY <1>1, Kinds DEF Alone, AtMostOne, Resting
<1>5. Knows'
  BY <1>1, Kinds DEF Knows
<1>6. Counted'
  <2>1. Holds("hotbar")' = Holds("hotbar")
    BY <1>1 DEF Holds
  <2>2. One(Holds("hotbar")) \in Int
    BY DEF One
  <2> HIDE DEF Holds
  <2> QED BY <1>1, <2>1, <2>2, CountFollows DEF Places, Consumer, ClaimsTypeOK
<1>7. GatesInStep'
  BY <1>1 DEF GatesInStep, Idle, Resting
<1> QED BY <1>2, <1>3, <1>4, <1>5, <1>6, <1>7

LEMMA ChecksKeeps ==
    ASSUME ClaimsInv, NEW t \in Thread, Checks(t)
    PROVE  ClaimsInv'
<1> USE DEF ClaimsInv
<1>1. /\ pc[t] \in {"mayStart", "mayStop"} /\ pc' \in [Thread -> Pcs]
      /\ pc'[t] = (IF pc[t] = "mayStart" THEN IF running[Of(t)] THEN "idle" ELSE "start"
                   ELSE IF running[Of(t)] THEN "stop" ELSE "idle")
      /\ \A u \in Thread : u # t => pc'[u] = pc[u]
      /\ UNCHANGED <<count, hooked, running, lock, flag, enabled, phase, crossed, blind>>
  BY Moves DEF Checks, Pcs
<1>2. Of(t) \in {"hotbar", "confirm"}
  BY <1>1, Kinds DEF Places, PlacesOf, Consumer
<1>3. ClaimsTypeOK'
  BY <1>1 DEF ClaimsTypeOK
<1>4. Places'
  <2>1. \A u \in Thread : pc'[u] \in PlacesOf(Of(u))
    BY <1>1, <1>2 DEF Places, PlacesOf
  <2>2. "route" \in Thread => pc'["route"] = pc["route"]
    BY <1>1, <1>2, Kinds
  <2> QED BY <1>1, <2>1, <2>2 DEF Places
<1>5. Alone'
  BY <1>1, <1>2, Kinds DEF Alone, AtMostOne, Resting
<1>6. Knows'
  BY <1>1, <1>2 DEF Knows
<1>7. Counted'
  <2>1. Holds(Of(t))' = Holds(Of(t))
    BY <1>1, <1>2 DEF Holds
  <2>2. One(Holds(Of(t))) \in Int
    BY DEF One
  <2> HIDE DEF Holds
  <2> QED BY <1>1, <1>2, <2>1, <2>2, CountFollows DEF Places, Consumer, ClaimsTypeOK
<1>8. GatesInStep'
  <2>1. Of(t) = "hotbar" /\ "hotbar" \notin crossed =>
            \A u \in Thread : u # t /\ Of(u) = "hotbar" => pc[u] \in Resting
    BY <1>1 DEF Alone, AtMostOne, Resting
  <2>2. pc[t] \notin {"arm", "disarm"} /\ pc'[t] \notin {"arm", "disarm"}
    BY <1>1
  <2> QED BY <1>1, <1>2, <2>1, <2>2 DEF GatesInStep, Idle, Resting
<1> QED BY <1>3, <1>4, <1>5, <1>6, <1>7, <1>8

LEMMA StartsKeeps ==
    ASSUME ClaimsInv, NEW t \in Thread, Of(t) # "navigation", Starts(t)
    PROVE  ClaimsInv'
<1> USE DEF ClaimsInv
<1>1. PICK attached \in BOOLEAN :
      /\ pc[t] = "start" /\ pc' \in [Thread -> Pcs]
      /\ pc'[t] = (IF attached THEN "on" ELSE "off")
      /\ \A u \in Thread : u # t => pc'[u] = pc[u]
      /\ count' = (IF attached THEN count + 1 ELSE count) /\ hooked' = attached
      /\ (count > 0 => attached)
      /\ UNCHANGED <<running, lock, flag, enabled, phase, crossed, blind>>
  BY Moves DEF Starts, SourceStart, Pcs
<1>2. Of(t) \in {"hotbar", "spacebar", "confirm"}
  BY Kinds DEF Consumer
<1>3. ClaimsTypeOK'
  BY <1>1 DEF ClaimsTypeOK
<1>4. Places'
  <2>1. \A u \in Thread : pc'[u] \in PlacesOf(Of(u))
    BY <1>1, <1>2 DEF Places, PlacesOf
  <2>2. "route" \in Thread => pc'["route"] = pc["route"]
    BY <1>1, <1>2, Kinds
  <2> QED BY <1>1, <2>1, <2>2 DEF Places
<1>5. Alone'
  BY <1>1, <1>2, Kinds DEF Alone, AtMostOne, Resting
<1>6. Knows'
  BY <1>1, <1>2 DEF Knows
<1>7. Of(t) \notin crossed => \A u \in Thread : u # t /\ Of(u) = Of(t) => pc[u] \in Resting
  BY <1>1, <1>2 DEF Alone, AtMostOne, Resting
<1>8. Counted'
  <2>1. crossed = {} => Holds(Of(t)) = FALSE
    BY <1>1, <1>2, <1>7 DEF Holds, Knows, Resting
  <2>2. crossed = {} => Holds(Of(t))' = attached
    BY <1>1, <1>2, <1>7 DEF Holds, Knows, Resting
  <2>3. crossed = {} => count' = count - One(Holds(Of(t))) + One(Holds(Of(t))')
    <3> HIDE DEF Holds
    <3> QED BY <1>1, <2>1, <2>2 DEF One, ClaimsTypeOK
  <2> HIDE DEF Holds
  <2> QED BY <1>1, <1>2, <2>3, CountFollows DEF Places, Consumer
<1>9. GatesInStep'
  <2>1. pc'[t] \notin Resting /\ pc[t] \notin Resting
    BY <1>1 DEF Resting
  <2>2. Of(t) = "spacebar" => \A u \in Thread : u # t /\ Of(u) = "spacebar" => pc[u] = "idle"
    BY <1>1 DEF Alone
  <2> QED BY <1>1, <1>2, <2>1, <2>2 DEF GatesInStep, Idle
<1> QED BY <1>3, <1>4, <1>5, <1>6, <1>8, <1>9

LEMMA StopsKeeps ==
    ASSUME ClaimsInv, NEW t \in Thread, Of(t) # "navigation", Stops(t)
    PROVE  ClaimsInv'
<1> USE DEF ClaimsInv
<1>1. /\ pc[t] = "stop" /\ pc' \in [Thread -> Pcs] /\ pc'[t] = "off"
      /\ \A u \in Thread : u # t => pc'[u] = pc[u]
      /\ count' = (IF count = 0 THEN 0 ELSE count - 1) /\ hooked' = (count > 1)
      /\ UNCHANGED <<running, lock, flag, enabled, phase, crossed, blind>>
  BY Moves DEF Stops, SourceStop, Pcs
<1>2. Of(t) \in {"hotbar", "confirm"}
  BY Kinds DEF Consumer, Stops
<1>3. ClaimsTypeOK'
  BY <1>1 DEF ClaimsTypeOK
<1>4. Places'
  <2>1. \A u \in Thread : pc'[u] \in PlacesOf(Of(u))
    BY <1>1, <1>2 DEF Places, PlacesOf
  <2>2. "route" \in Thread => pc'["route"] = pc["route"]
    BY <1>1, <1>2, Kinds
  <2> QED BY <1>1, <2>1, <2>2 DEF Places
<1>5. Alone'
  BY <1>1, <1>2, Kinds DEF Alone, AtMostOne, Resting
<1>6. Knows'
  BY <1>1, <1>2 DEF Knows
<1>7. Of(t) \notin crossed => \A u \in Thread : u # t /\ Of(u) = Of(t) => pc[u] \in Resting
  BY <1>1, <1>2 DEF Alone, AtMostOne, Resting
<1>8. Counted'
  <2>1. crossed = {} => Holds(Of(t)) = TRUE
    BY <1>1, <1>2, <1>7 DEF Holds, Knows, Resting
  <2>2. crossed = {} => Holds(Of(t))' = FALSE
    BY <1>1, <1>2, <1>7 DEF Holds, Knows, Resting
  <2>3. crossed = {} /\ ~blind => count # 0
    <3> HIDE DEF Holds
    <3> QED BY <1>2, <2>1 DEF Counted, HeldClaims, One
  <2>4. crossed = {} /\ ~blind => count' = count - One(Holds(Of(t))) + One(Holds(Of(t))')
    <3> HIDE DEF Holds
    <3> QED BY <1>1, <2>1, <2>2, <2>3 DEF One, ClaimsTypeOK
  <2> HIDE DEF Holds
  <2> QED BY <1>1, <1>2, <2>4, CountFollows DEF Places, Consumer
<1>9. GatesInStep'
  <2>1. pc'[t] \notin Resting /\ pc[t] \notin Resting
    BY <1>1 DEF Resting
  <2> QED BY <1>1, <1>2, <2>1 DEF GatesInStep, Idle
<1> QED BY <1>3, <1>4, <1>5, <1>6, <1>8, <1>9

LEMMA MarksKeeps ==
    ASSUME ClaimsInv, NEW t \in Thread, Of(t) # "navigation", Marks(t)
    PROVE  ClaimsInv'
<1> USE DEF ClaimsInv
<1>1. /\ pc[t] \in {"on", "off"} /\ pc' \in [Thread -> Pcs] /\ pc'[t] = "idle"
      /\ \A u \in Thread : u # t => pc'[u] = pc[u]
      /\ running' = [running EXCEPT ![Of(t)] = (pc[t] = "on")]
      /\ lock' = (IF lock = t THEN "free" ELSE lock)
      /\ UNCHANGED <<count, hooked, flag, enabled, phase, crossed, blind>>
  BY Moves DEF Marks, Pcs
<1>2. Of(t) \in {"hotbar", "spacebar", "confirm"}
  BY Kinds DEF Consumer
<1>3. /\ running' \in [Consumer -> BOOLEAN] /\ running'[Of(t)] = (pc[t] = "on")
      /\ \A c \in Consumer : c # Of(t) => running'[c] = running[c]
  BY <1>1, <1>2 DEF ClaimsTypeOK, Consumer
<1>4. ClaimsTypeOK'
  BY <1>1, <1>3 DEF ClaimsTypeOK
<1>5. Places'
  <2>1. \A u \in Thread : pc'[u] \in PlacesOf(Of(u))
    BY <1>1, <1>2 DEF Places, PlacesOf
  <2>2. "route" \in Thread => pc'["route"] = pc["route"]
    BY <1>1, <1>2, Kinds
  <2>3. running'["navigation"] = running["navigation"]
    BY <1>2, <1>3 DEF Consumer
  <2> QED BY <1>1, <2>1, <2>2, <2>3 DEF Places
<1>6. Alone'
  BY <1>1, <1>2, Kinds DEF Alone, AtMostOne, Resting
<1>7. Of(t) \notin crossed => \A u \in Thread : u # t /\ Of(u) = Of(t) => pc[u] \in Resting
  BY <1>1, <1>2 DEF Alone, AtMostOne, Resting
<1>8. Knows'
  BY <1>1, <1>2, <1>3, <1>7, Kinds DEF Knows, Resting
<1>9. Counted'
  <2>1. crossed = {} => Holds(Of(t))' = Holds(Of(t))
    BY <1>1, <1>2, <1>3, <1>7 DEF Holds, Knows, Resting
  <2>2. One(Holds(Of(t))) \in Int
    BY DEF One
  <2> HIDE DEF Holds
  <2> QED BY <1>1, <1>2, <1>3, <2>1, <2>2, CountFollows DEF Places, Consumer, ClaimsTypeOK
<1>10. GatesInStep'
  <2>1. Of(t) = "spacebar" => \A u \in Thread : u # t /\ Of(u) = "spacebar" => pc[u] = "idle"
    BY <1>1 DEF Alone
  <2>2. CASE Of(t) = "spacebar"
    <3>1. running'["hotbar"] = running["hotbar"]
      BY <1>3, <2>2 DEF Consumer
    <3> QED BY <1>1, <1>3, <2>1, <2>2, <3>1 DEF GatesInStep, Idle
  <2>3. CASE Of(t) = "hotbar"
    <3>1. running'["spacebar"] = running["spacebar"]
      BY <1>3, <2>3 DEF Consumer
    <3> QED BY <1>1, <1>3, <1>7, <2>3, <3>1 DEF GatesInStep, Idle
  <2>4. CASE Of(t) = "confirm"
    <3>1. running'["spacebar"] = running["spacebar"] /\ running'["hotbar"] = running["hotbar"]
      BY <1>3, <2>4 DEF Consumer
    <3> QED BY <1>1, <1>3, <2>4, <3>1 DEF GatesInStep, Idle
  <2> QED BY <1>2, <2>2, <2>3, <2>4
<1> QED BY <1>4, <1>5, <1>6, <1>8, <1>9, <1>10

-----------------------------------------------------------------------------
(* The spacebar, under its lock *)

LEMMA SpaceSetsKeeps ==
    ASSUME ClaimsInv, NEW t \in Thread, NEW value \in BOOLEAN, SpaceSets(t, value)
    PROVE  ClaimsInv'
<1> USE DEF ClaimsInv
<1>1. /\ t \in {"skill", "research"} /\ Of(t) = "spacebar" /\ pc[t] = "idle" /\ lock = "free"
      /\ lock' = t /\ flag' = [flag EXCEPT ![t] = value]
      /\ pc' \in [Thread -> Pcs] /\ pc'[t] = "decide"
      /\ \A u \in Thread : u # t => pc'[u] = pc[u]
      /\ UNCHANGED <<count, hooked, running, enabled, phase, crossed, blind>>
  BY Moves, Kinds DEF SpaceSets, Pcs
<1>2. \A u \in Thread : Of(u) = "spacebar" => pc[u] = "idle"
  <2>1. "free" \notin Thread
    BY ThreadAssumption DEF AllThreads
  <2> QED BY <1>1, <2>1 DEF Alone
<1>3. ClaimsTypeOK'
  BY <1>1 DEF ClaimsTypeOK, Flags
<1>4. Places'
  BY <1>1, PlacesKept DEF PlacesOf
<1>5. Alone'
  BY <1>1, <1>2 DEF Alone, AtMostOne
<1>6. Knows'
  BY <1>1, Kinds DEF Knows
<1>7. Counted'
  <2>1. Holds("spacebar")' = Holds("spacebar")
    BY <1>1, <1>2 DEF Holds
  <2>2. One(Holds("spacebar")) \in Int
    BY DEF One
  <2> HIDE DEF Holds
  <2> QED BY <1>1, <2>1, <2>2, CountFollows DEF Places, Consumer, ClaimsTypeOK
<1>8. GatesInStep'
  <2>1. flag'["settings"] = flag["settings"] /\ flag'["session"] = flag["session"]
    BY <1>1 DEF ClaimsTypeOK, Flags
  <2> QED BY <1>1, <2>1 DEF GatesInStep, Idle
<1> QED BY <1>3, <1>4, <1>5, <1>6, <1>7, <1>8

LEMMA SpaceDecidesKeeps ==
    ASSUME ClaimsInv, NEW t \in Thread, SpaceDecides(t)
    PROVE  ClaimsInv'
<1> DEFINE desired == flag["skill"] \/ flag["research"]
<1> USE DEF ClaimsInv
<1>1. /\ Of(t) = "spacebar" /\ pc[t] = "decide" /\ pc' \in [Thread -> Pcs]
      /\ pc'[t] = (IF desired /\ ~running["spacebar"] THEN "start"
                   ELSE IF ~desired /\ running["spacebar"] THEN "stop" ELSE "idle")
      /\ \A u \in Thread : u # t => pc'[u] = pc[u]
      /\ running' = [running EXCEPT !["spacebar"] = @ /\ desired]
      /\ lock' = (IF desired = running["spacebar"] THEN "free" ELSE lock)
      /\ UNCHANGED <<count, hooked, flag, enabled, phase, crossed, blind>>
  BY Moves DEF SpaceDecides, Pcs
<1>2. desired \in BOOLEAN /\ running["spacebar"] \in BOOLEAN
  BY DEF ClaimsTypeOK, Consumer, Flags
<1>3. /\ running' \in [Consumer -> BOOLEAN]
      /\ running'["spacebar"] = (running["spacebar"] /\ desired)
      /\ \A c \in Consumer : c # "spacebar" => running'[c] = running[c]
  BY <1>1, <1>2 DEF ClaimsTypeOK, Consumer
<1>4. \A u \in Thread : u # t /\ Of(u) = "spacebar" => pc[u] = "idle"
  BY <1>1 DEF Alone
<1>5. ClaimsTypeOK'
  BY <1>1, <1>3 DEF ClaimsTypeOK
<1>6. Places'
  <2>1. running'["navigation"] = running["navigation"]
    BY <1>3 DEF Consumer
  <2> QED BY <1>1, <2>1, PlacesKept DEF PlacesOf
<1>7. Alone'
  BY <1>1, <1>2, <1>4 DEF Alone, AtMostOne
<1>8. Knows'
  BY <1>1, <1>2, <1>3, <1>4, Kinds DEF Knows
<1>9. Counted'
  <2>1. Holds("spacebar")' = Holds("spacebar")
    BY <1>1, <1>2, <1>3, <1>4 DEF Holds
  <2>2. One(Holds("spacebar")) \in Int
    BY DEF One
  <2> HIDE DEF Holds
  <2> QED BY <1>1, <1>3, <2>1, <2>2, CountFollows DEF Places, Consumer, ClaimsTypeOK
<1>10. GatesInStep'
  <2>1. running'["hotbar"] = running["hotbar"]
    BY <1>3 DEF Consumer
  <2>2. (running'["spacebar"] \/ pc'[t] \in {"start", "on"}) => desired
    BY <1>1, <1>2, <1>3
  <2> QED BY <1>1, <1>4, <2>1, <2>2 DEF GatesInStep, Idle
<1> QED BY <1>5, <1>6, <1>7, <1>8, <1>9, <1>10

LEMMA SpaceStopsKeeps ==
    ASSUME ClaimsInv, NEW t \in Thread, SpaceStops(t)
    PROVE  ClaimsInv'
<1> USE DEF ClaimsInv
<1>1. /\ Of(t) = "spacebar" /\ pc[t] = "stop" /\ pc' \in [Thread -> Pcs] /\ pc'[t] = "idle"
      /\ \A u \in Thread : u # t => pc'[u] = pc[u]
      /\ count' = (IF count = 0 THEN 0 ELSE count - 1) /\ hooked' = (count > 1)
      /\ lock' = (IF lock = t THEN "free" ELSE lock)
      /\ UNCHANGED <<running, flag, enabled, phase, crossed, blind>>
  BY Moves DEF SpaceStops, SourceStop, Pcs
<1>2. ~running["spacebar"]
  BY <1>1 DEF Knows, Alone
<1>3. \A u \in Thread : u # t /\ Of(u) = "spacebar" => pc[u] = "idle"
  BY <1>1 DEF Alone
<1>4. ClaimsTypeOK'
  BY <1>1 DEF ClaimsTypeOK
<1>5. Places'
  BY <1>1, PlacesKept DEF PlacesOf
<1>6. Alone'
  BY <1>1, <1>3 DEF Alone, AtMostOne
<1>7. Knows'
  BY <1>1 DEF Knows
<1>8. Counted'
  <2>1. Holds("spacebar") = TRUE /\ Holds("spacebar")' = FALSE
    BY <1>1, <1>2, <1>3 DEF Holds
  <2> HIDE DEF Holds
  <2>2. crossed = {} /\ ~blind => count # 0
    BY <2>1 DEF Counted, HeldClaims, One
  <2>3. crossed = {} /\ ~blind =>
            count' = count - One(Holds("spacebar")) + One(Holds("spacebar")')
    BY <1>1, <2>1, <2>2 DEF One, ClaimsTypeOK
  <2> QED BY <1>1, <2>3, CountFollows DEF Places, Consumer
<1>9. GatesInStep'
  BY <1>1, <1>2, <1>3 DEF GatesInStep, Idle
<1> QED BY <1>4, <1>5, <1>6, <1>7, <1>8, <1>9

-----------------------------------------------------------------------------
(* The calibration *)

\* What a step of the calibration leaves as it was for the hook: the flow's
\* threads call the source only in Starts and Stops.
LEMMA CalibrationHolds ==
    ASSUME ClaimsInv, NEW t \in Thread, Of(t) = "confirm",
           pc[t] \notin {"on", "off"}, pc'[t] \notin {"on", "off"},
           \A u \in Thread : u # t => pc'[u] = pc[u],
           crossed' = {} => crossed = {},
           UNCHANGED <<count, running, blind>>
    PROVE  Counted'
<1>1. Holds("confirm")' = Holds("confirm")
  BY DEF Holds
<1>2. One(Holds("confirm")) \in Int
  BY DEF One
<1>3. /\ count' = count - One(Holds("confirm")) + One(Holds("confirm")')
      /\ \A u \in Thread : Of(u) # "confirm" => pc'[u] = pc[u]
  <2> HIDE DEF Holds
  <2> QED BY <1>1, <1>2 DEF ClaimsInv, ClaimsTypeOK
<1> HIDE DEF Holds
<1> QED BY <1>3, CountFollows DEF ClaimsInv, Places, Consumer

LEMMA CalibrationMovesKeeps ==
    ASSUME ClaimsInv, NEW to \in {"idle", "first"}, CalibrationMoves(to)
    PROVE  ClaimsInv'
<1> DEFINE t == "calibrate"
<1> USE DEF ClaimsInv
<1>1. /\ t \in Thread /\ Of(t) = "confirm" /\ phase' = to
      /\ pc[t] \in Resting /\ pc' \in [Thread -> Pcs]
      /\ pc'[t] = (IF to = "idle" THEN "disarm" ELSE "arm")
      /\ \A u \in Thread : u # t => pc'[u] = pc[u]
      /\ crossed' = (IF Idle("confirm") THEN crossed ELSE crossed \cup {"confirm"})
      /\ UNCHANGED <<count, hooked, running, lock, flag, enabled, blind>>
  BY Moves, Kinds DEF CalibrationMoves, Enter, Pcs
<1>2. ClaimsTypeOK'
  BY <1>1 DEF ClaimsTypeOK, Consumer
<1>3. Places'
  BY <1>1, PlacesKept DEF PlacesOf
<1>4. Alone'
  BY <1>1, Kinds DEF Alone, AtMostOne, Idle, Resting
<1>5. Knows'
  BY <1>1, Kinds DEF Knows
<1>6. Counted'
  BY <1>1, CalibrationHolds DEF Resting
<1>7. GatesInStep'
  <2>1. "confirm" \notin crossed' => \A u \in Thread : Of(u) = "confirm" /\ u # t => pc[u] \in Resting
    BY <1>1 DEF Idle
  <2>2. \A u \in Thread : pc[u] \in {"arm", "disarm"} => Of(u) = "confirm"
    BY Kinds DEF Places, PlacesOf, Consumer
  <2> QED BY <1>1, <2>1, <2>2 DEF GatesInStep, Resting, Idle
<1> QED BY <1>2, <1>3, <1>4, <1>5, <1>6, <1>7

LEMMA EnterPressedKeeps ==
    ASSUME ClaimsInv, EnterPressed
    PROVE  ClaimsInv'
<1> DEFINE t == "enter"
<1> USE DEF ClaimsInv
<1>1. /\ t \in Thread /\ Of(t) = "confirm" /\ pc[t] = "idle"
      /\ pc' \in [Thread -> Pcs] /\ pc'[t] = "pressed"
      /\ \A u \in Thread : u # t => pc'[u] = pc[u]
      /\ UNCHANGED <<count, hooked, running, lock, flag, enabled, phase, crossed, blind>>
  BY Moves, Kinds DEF EnterPressed, Pcs
<1>2. ClaimsTypeOK'
  BY <1>1 DEF ClaimsTypeOK
<1>3. Places'
  BY <1>1, PlacesKept DEF PlacesOf
<1>4. Alone'
  BY <1>1, Kinds DEF Alone, AtMostOne, Resting
<1>5. Knows'
  BY <1>1, Kinds DEF Knows
<1>6. Counted'
  BY <1>1, CalibrationHolds
<1>7. GatesInStep'
  BY <1>1 DEF GatesInStep, Idle, Resting
<1> QED BY <1>2, <1>3, <1>4, <1>5, <1>6, <1>7

LEMMA OnConfirmKeeps ==
    ASSUME ClaimsInv, NEW to \in {"idle", "second"}, OnConfirm(to)
    PROVE  ClaimsInv'
<1> DEFINE t == "enter"
<1> USE DEF ClaimsInv
<1>1. /\ t \in Thread /\ Of(t) = "confirm" /\ phase' = to /\ pc[t] = "pressed"
      /\ phase = "idle" => to = "idle"
      /\ pc' \in [Thread -> Pcs]
      /\ \/ /\ to = "idle" /\ pc'[t] = "disarm"
            /\ crossed' = (IF Idle("confirm") THEN crossed ELSE crossed \cup {"confirm"})
         \/ (to = "second" \/ phase = "idle") /\ pc'[t] = "idle" /\ crossed' = crossed
      /\ \A u \in Thread : u # t => pc'[u] = pc[u]
      /\ UNCHANGED <<count, hooked, running, lock, flag, enabled, blind>>
  BY Moves, Kinds DEF OnConfirm, Enter, Pcs
<1>2. ClaimsTypeOK'
  BY <1>1 DEF ClaimsTypeOK, Consumer
<1>3. Places'
  BY <1>1, PlacesKept DEF PlacesOf
<1>4. Alone'
  <2>1. CASE pc'[t] = "idle" /\ crossed' = crossed
    BY <1>1, <2>1, Kinds DEF Alone, AtMostOne, Resting
  <2>2. CASE pc'[t] = "disarm" /\ Idle("confirm") /\ crossed' = crossed
    BY <1>1, <2>2, Kinds DEF Alone, AtMostOne, Idle, Resting
  <2>3. CASE pc'[t] = "disarm" /\ crossed' = crossed \cup {"confirm"}
    BY <1>1, <2>3, Kinds DEF Alone, AtMostOne, Resting
  <2> QED BY <1>1, <2>1, <2>2, <2>3
<1>5. Knows'
  BY <1>1, Kinds DEF Knows
<1>6. Counted'
  BY <1>1, CalibrationHolds
<1>7. GatesInStep'
  <2>1. \A u \in Thread : pc[u] \in {"arm", "disarm"} => Of(u) = "confirm"
    BY Kinds DEF Places, PlacesOf, Consumer
  <2>2. CASE pc'[t] = "disarm"
    <3>1. "confirm" \notin crossed' => \A u \in Thread : Of(u) = "confirm" /\ u # t => pc[u] \in Resting
      BY <1>1, <2>2 DEF Idle
    <3> QED BY <1>1, <2>1, <2>2, <3>1 DEF GatesInStep, Resting, Idle
  <2>3. CASE pc'[t] = "idle" /\ crossed' = crossed /\ (to = "second" \/ phase = "idle")
    <3>1. (phase' = "idle") <=> (phase = "idle")
      BY <1>1, <2>3
    <3> QED BY <1>1, <2>3, <3>1 DEF GatesInStep, Idle
  <2> QED BY <1>1, <2>2, <2>3
<1> QED BY <1>2, <1>3, <1>4, <1>5, <1>6, <1>7

LEMMA ConfirmSetsKeeps ==
    ASSUME ClaimsInv, NEW t \in Thread, ConfirmSets(t)
    PROVE  ClaimsInv'
<1> USE DEF ClaimsInv
<1>1. /\ pc[t] \in {"arm", "disarm"} /\ pc' \in [Thread -> Pcs]
      /\ enabled' = (pc[t] = "arm")
      /\ pc'[t] = (IF enabled' = enabled THEN "idle"
                   ELSE IF enabled' THEN "mayStart" ELSE "mayStop")
      /\ \A u \in Thread : u # t => pc'[u] = pc[u]
      /\ UNCHANGED <<count, hooked, running, lock, flag, phase, crossed, blind>>
  BY Moves DEF ConfirmSets, Pcs
<1>2. Of(t) = "confirm"
  BY <1>1, Kinds DEF Places, PlacesOf, Consumer
<1>3. ClaimsTypeOK'
  BY <1>1 DEF ClaimsTypeOK
<1>4. Places'
  BY <1>1, <1>2, PlacesKept DEF PlacesOf
<1>5. Alone'
  BY <1>1, <1>2 DEF Alone, AtMostOne, Resting
<1>6. Knows'
  BY <1>1, <1>2 DEF Knows
<1>7. Counted'
  BY <1>1, <1>2, CalibrationHolds
<1>8. GatesInStep'
  <2>1. "confirm" \notin crossed => \A u \in Thread : Of(u) = "confirm" /\ u # t => pc[u] \in Resting
    BY <1>1, <1>2 DEF Alone, AtMostOne, Resting
  <2>2. \A u \in Thread : pc[u] \in {"arm", "disarm"} => Of(u) = "confirm"
    BY Kinds DEF Places, PlacesOf, Consumer
  <2> QED BY <1>1, <1>2, <2>1, <2>2 DEF GatesInStep, Idle, Resting
<1> QED BY <1>3, <1>4, <1>5, <1>6, <1>7, <1>8

-----------------------------------------------------------------------------
(* Navigation, which claims blindly *)

LEMMA RouteClaimsKeeps ==
    ASSUME ClaimsInv, RouteClaims
    PROVE  ClaimsInv'
<1> DEFINE t == "route"
<1> USE DEF ClaimsInv
<1>1. PICK attached \in BOOLEAN :
      /\ t \in Thread /\ Of(t) = "navigation" /\ ~running["navigation"]
      /\ running' = [running EXCEPT !["navigation"] = TRUE]
      /\ pc' \in [Thread -> Pcs] /\ pc'[t] = (IF attached THEN "on" ELSE "off")
      /\ \A u \in Thread : u # t => pc'[u] = pc[u]
      /\ count' = (IF attached THEN count + 1 ELSE count) /\ hooked' = attached
      /\ (count > 0 => attached)
      /\ UNCHANGED <<lock, flag, enabled, phase, crossed, blind>>
  BY Moves, Kinds DEF RouteClaims, SourceStart, Pcs
<1>2. /\ running' \in [Consumer -> BOOLEAN] /\ running'["navigation"] = TRUE
      /\ \A c \in Consumer : c # "navigation" => running'[c] = running[c]
  BY <1>1 DEF ClaimsTypeOK, Consumer
<1>3. ClaimsTypeOK'
  BY <1>1, <1>2 DEF ClaimsTypeOK
<1>4. Places'
  BY <1>1, Kinds DEF Places, PlacesOf
<1>5. Alone'
  BY <1>1, Kinds DEF Alone, AtMostOne
<1>6. Knows'
  BY <1>1, <1>2, Kinds DEF Knows
<1>7. Counted'
  <2>1. Holds("navigation") = FALSE /\ Holds("navigation")' = attached
    BY <1>1, <1>2 DEF Holds
  <2>2. count' = count - One(Holds("navigation")) + One(Holds("navigation")')
    <3> HIDE DEF Holds
    <3> QED BY <1>1, <2>1 DEF One, ClaimsTypeOK
  <2>3. \A u \in Thread : Of(u) # "navigation" => pc'[u] = pc[u]
    BY <1>1
  <2> HIDE DEF Holds
  <2> QED BY <1>1, <1>2, <2>2, <2>3, CountFollows DEF Places, Consumer
<1>8. GatesInStep'
  <2>1. running'["hotbar"] = running["hotbar"] /\ running'["spacebar"] = running["spacebar"]
    BY <1>2 DEF Consumer
  <2>2. pc[t] \notin {"arm", "disarm"} /\ pc'[t] \notin {"arm", "disarm"}
    BY <1>1 DEF Places, PlacesOf
  <2> QED BY <1>1, <2>1, <2>2 DEF GatesInStep, Idle
<1> QED BY <1>3, <1>4, <1>5, <1>6, <1>7, <1>8

LEMMA RouteReleasesKeeps ==
    ASSUME ClaimsInv, RouteReleases
    PROVE  ClaimsInv'
<1> DEFINE t == "route"
<1> USE DEF ClaimsInv
<1>1. /\ t \in Thread /\ Of(t) = "navigation" /\ running["navigation"]
      /\ running' = [running EXCEPT !["navigation"] = FALSE]
      /\ pc' \in [Thread -> Pcs] /\ pc'[t] = "idle"
      /\ \A u \in Thread : u # t => pc'[u] = pc[u]
      /\ count' = (IF count = 0 THEN 0 ELSE count - 1) /\ hooked' = (count > 1)
      /\ blind' = (blind \/ (pc[t] = "off" /\ count > 0))
      /\ UNCHANGED <<lock, flag, enabled, phase, crossed>>
  BY Moves, Kinds DEF RouteReleases, SourceStop, Pcs
<1>2. /\ running' \in [Consumer -> BOOLEAN] /\ running'["navigation"] = FALSE
      /\ \A c \in Consumer : c # "navigation" => running'[c] = running[c]
  BY <1>1 DEF ClaimsTypeOK, Consumer
<1>3. ClaimsTypeOK'
  BY <1>1, <1>2 DEF ClaimsTypeOK
<1>4. Places'
  BY <1>1, <1>2, Kinds DEF Places, PlacesOf
<1>5. Alone'
  BY <1>1, Kinds DEF Alone, AtMostOne
<1>6. Knows'
  BY <1>1, <1>2, Kinds DEF Knows
<1>7. Counted'
  <2>1. pc[t] \in {"on", "off"}
    BY <1>1 DEF Places, PlacesOf
  <2>2. /\ pc[t] = "on" => Holds("navigation") = TRUE
        /\ pc[t] = "off" => Holds("navigation") = FALSE
        /\ Holds("navigation")' = FALSE
    BY <1>1, <1>2 DEF Holds
  <2>3. crossed = {} /\ ~blind /\ pc[t] = "on" => count # 0
    <3> HIDE DEF Holds
    <3> QED BY <2>2 DEF Counted, HeldClaims, One
  <2>4. crossed' = {} /\ ~blind' =>
            count' = count - One(Holds("navigation")) + One(Holds("navigation")')
    <3> HIDE DEF Holds
    <3>1. CASE pc[t] = "on"
      BY <1>1, <2>2, <2>3, <3>1 DEF One, ClaimsTypeOK
    <3>2. CASE pc[t] = "off"
      <4>1. count \in Nat /\ blind' = (blind \/ count > 0)
        BY <1>1, <3>2 DEF ClaimsTypeOK
      <4>2. ~blind' => ~blind /\ ~(count > 0)
        <5> DEFINE some == count > 0
        <5> HIDE DEF some
        <5>1. blind' = (blind \/ some)
          BY <4>1 DEF some
        <5>2. ~blind' => ~blind /\ ~some
          BY <5>1, Zenon
        <5> QED BY <5>2 DEF some
      <4>3. ~blind' => ~blind /\ count = 0
        BY <4>1, <4>2
      <4> QED BY <1>1, <2>2, <3>2, <4>1, <4>3 DEF One
    <3> QED BY <2>1, <3>1, <3>2
  <2>5. \A u \in Thread : Of(u) # "navigation" => pc'[u] = pc[u]
    BY <1>1
  <2> HIDE DEF Holds
  <2> QED BY <1>1, <1>2, <2>4, <2>5, CountFollows DEF Places, Consumer
<1>8. GatesInStep'
  <2>1. running'["hotbar"] = running["hotbar"] /\ running'["spacebar"] = running["spacebar"]
    BY <1>2 DEF Consumer
  <2>2. pc[t] \notin {"arm", "disarm"} /\ pc'[t] \notin {"arm", "disarm"}
    BY <1>1 DEF Places, PlacesOf
  <2> QED BY <1>1, <2>1, <2>2 DEF GatesInStep, Idle
<1> QED BY <1>3, <1>4, <1>5, <1>6, <1>7, <1>8

-----------------------------------------------------------------------------
(* The claims *)

LEMMA ClaimsInitInv == ClaimsInit => ClaimsInv
<1> SUFFICES ASSUME ClaimsInit PROVE ClaimsInv
  OBVIOUS
<1> USE DEF ClaimsInit
<1>1. ClaimsTypeOK
  <2>1. hooked = (count > 0)
    <3>1. count = 0 /\ hooked = FALSE /\ ~ (0 > 0)
      OBVIOUS
    <3>2. (count > 0) = FALSE
      BY <3>1
    <3> QED BY <3>1, <3>2
  <2>2. /\ running \in [Consumer -> BOOLEAN] /\ pc \in [Thread -> Pcs]
        /\ flag \in [Flags -> BOOLEAN]
    BY DEF Pcs
  <2> QED BY <2>1, <2>2 DEF ClaimsTypeOK
<1>2. Places
  BY Kinds DEF Places, PlacesOf, Consumer
<1>3. Alone /\ Knows
  BY Kinds DEF Alone, AtMostOne, Resting, Knows
<1>4. \A c \in Consumer : Holds(c) = FALSE
  BY DEF Holds
<1>5. Counted
  <2> HIDE DEF Holds
  <2> QED BY <1>4 DEF Counted, HeldClaims, One, Consumer
<1>6. GatesInStep
  BY DEF GatesInStep, Consumer, Flags
<1> QED BY <1>1, <1>2, <1>3, <1>5, <1>6 DEF ClaimsInv

LEMMA ClaimsStep == ClaimsInv /\ [ClaimsNext]_claims => ClaimsInv'
<1> SUFFICES ASSUME ClaimsInv, [ClaimsNext]_claims PROVE ClaimsInv'
  OBVIOUS
<1>1. CASE ClaimsNext
  BY <1>1, HotbarSetsKeeps, HotbarDecidesKeeps, ChecksKeeps, StartsKeeps, StopsKeeps, MarksKeeps,
     SpaceSetsKeeps, SpaceDecidesKeeps, SpaceStopsKeeps, CalibrationMovesKeeps, EnterPressedKeeps,
     OnConfirmKeeps, ConfirmSetsKeeps, RouteClaimsKeeps, RouteReleasesKeeps
     DEF ClaimsNext
<1>2. CASE UNCHANGED claims
  <2>1. UNCHANGED <<count, hooked, running, pc, lock, flag, enabled, phase, crossed, blind>>
    BY <1>2 DEF claims
  <2>2. ClaimsTypeOK' /\ Places' /\ Alone' /\ Knows'
    BY <2>1 DEF ClaimsInv, ClaimsTypeOK, Places, Alone, AtMostOne, Knows
  <2>3. \A c \in Consumer : Holds(c)' = Holds(c)
    BY <2>1 DEF Holds
  <2>4. Counted'
    <3> HIDE DEF Holds
    <3> QED BY <2>1, <2>3 DEF ClaimsInv, Counted, HeldClaims, One, Consumer
  <2>5. GatesInStep'
    BY <2>1 DEF ClaimsInv, GatesInStep, Idle
  <2> QED BY <2>2, <2>4, <2>5 DEF ClaimsInv
<1> QED BY <1>1, <1>2

\* How many of the four consumers are in a set of them.
LEMMA CountConsumers ==
    ASSUME NEW T \in SUBSET Consumer
    PROVE  Cardinality(T) = One("hotbar" \in T) + One("spacebar" \in T) + One("confirm" \in T)
                            + One("navigation" \in T)
<1> DEFINE A == {} \cup (T \cap {"hotbar"})
           B == A \cup (T \cap {"spacebar"})
           C == B \cup (T \cap {"confirm"})
           D == C \cup (T \cap {"navigation"})
<1>1. ASSUME NEW S, IsFiniteSet(S), NEW x, x \notin S
      PROVE  /\ IsFiniteSet(S \cup (T \cap {x}))
             /\ Cardinality(S \cup (T \cap {x})) = Cardinality(S) + One(x \in T)
  <2>1. /\ IsFiniteSet(S \cup {x}) /\ Cardinality(S \cup {x}) = Cardinality(S) + 1
        /\ Cardinality(S) \in Nat
    BY <1>1, FS_AddElement, FS_CardinalityType
  <2>2. CASE x \in T
    <3>1. S \cup (T \cap {x}) = S \cup {x}
      BY <2>2
    <3> QED BY <2>1, <2>2, <3>1 DEF One
  <2>3. CASE x \notin T
    <3>1. S \cup (T \cap {x}) = S
      BY <2>3
    <3> QED BY <1>1, <2>1, <2>3, <3>1 DEF One
  <2> QED BY <2>2, <2>3
<1>2. IsFiniteSet({}) /\ Cardinality({}) = 0
  BY FS_EmptySet
<1>3. IsFiniteSet(A) /\ Cardinality(A) = One("hotbar" \in T)
  <2>1. IsFiniteSet(A) /\ Cardinality(A) = Cardinality({}) + One("hotbar" \in T)
    BY <1>1, <1>2
  <2> QED BY <1>2, <2>1 DEF One
<1>4. "spacebar" \notin A /\ "confirm" \notin B /\ "navigation" \notin C
  OBVIOUS
<1>5. IsFiniteSet(B) /\ Cardinality(B) = Cardinality(A) + One("spacebar" \in T)
  <2> HIDE DEF A
  <2> QED BY <1>1, <1>3, <1>4
<1>6. IsFiniteSet(C) /\ Cardinality(C) = Cardinality(B) + One("confirm" \in T)
  <2> HIDE DEF B
  <2> QED BY <1>1, <1>4, <1>5
<1>7. Cardinality(D) = Cardinality(C) + One("navigation" \in T)
  <2> HIDE DEF C
  <2> QED BY <1>1, <1>4, <1>6
<1>8. D = T
  BY DEF Consumer
<1> HIDE DEF A, B, C, D
<1> QED BY <1>3, <1>5, <1>6, <1>7, <1>8

\* At rest a consumer holds a claim exactly when it is a claimant.
LEMMA HoldersAreClaimants ==
    ASSUME ClaimsInv, Settled, NEW c \in Consumer
    PROVE  One(Holds(c)) = One(c \in Claimants)
<1>1. CASE c = "navigation"
  BY <1>1 DEF Holds, Claimants, One
<1>2. CASE c # "navigation"
  <2>1. \A t \in Thread : Of(t) = c => pc[t] \notin {"on", "off", "stop"}
    BY <1>2 DEF Settled, Idle, Resting
  <2> QED BY <1>2, <2>1 DEF Holds, Claimants, One
<1> QED BY <1>1, <1>2

LEMMA InsideOne == ClaimsInv => SpacebarExact
<1> SUFFICES ASSUME ClaimsInv PROVE SpacebarExact
  OBVIOUS
<1> DEFINE inside == {t \in Thread : Of(t) = "spacebar" /\ pc[t] # "idle"}
<1>1. inside \subseteq {lock}
  BY DEF ClaimsInv, Alone
<1>2. Cardinality(inside) <= 1
  <2> HIDE DEF inside
  <2>1. IsFiniteSet({lock}) /\ Cardinality({lock}) = 1
    BY FS_Singleton
  <2> QED BY <1>1, <2>1, FS_Subset
<1>3. inside = {} => (running["spacebar"] => flag["skill"] \/ flag["research"])
  BY DEF ClaimsInv, GatesInStep
<1>4. \A t \in inside : pc[t] \in {"start", "stop"} => ~running["spacebar"]
  BY DEF ClaimsInv, Knows, Alone
<1> QED BY <1>2, <1>3, <1>4 DEF SpacebarExact

\* Whatever order the threads of the four consumers run in, each claim is
\* one its gate allows, and the source counts them (keystroke_source.rs).
THEOREM ClaimsStaySound == ClaimsSpec => []ClaimsSound
<1>1. ClaimsInv => ClaimsSound
  <2> SUFFICES ASSUME ClaimsInv PROVE ClaimsSound
    OBVIOUS
  <2>1. ClaimsAreCounted
    <3> SUFFICES ASSUME Settled, crossed = {}, ~blind
                 PROVE  count = Cardinality(Claimants)
      BY DEF ClaimsInv, ClaimsAreCounted
    <3>1. Claimants \in SUBSET Consumer
      BY DEF Claimants
    <3>2. \A c \in Consumer : One(Holds(c)) = One(c \in Claimants)
      BY HoldersAreClaimants
    <3> HIDE DEF Claimants
    <3> QED BY <3>1, <3>2, CountConsumers DEF ClaimsInv, Counted, HeldClaims, Consumer
  <2>2. HotbarFollowsGate
    BY DEF ClaimsInv, GatesInStep, HotbarFollowsGate
  <2>3. ConfirmFollowsFlow
    <3> SUFFICES ASSUME Idle("confirm"), "confirm" \notin crossed
                 PROVE  enabled = (phase # "idle")
      BY DEF ConfirmFollowsFlow
    <3>1. \A t \in Thread : pc[t] \notin {"arm", "disarm"}
      BY Kinds DEF ClaimsInv, Places, PlacesOf, Idle, Resting, Consumer
    <3> QED BY <3>1 DEF ClaimsInv, GatesInStep
  <2> QED BY <2>1, <2>2, <2>3, InsideOne DEF ClaimsSound, GatesFollowed
<1> QED BY <1>1, ClaimsInitInv, ClaimsStep, PTL DEF ClaimsSpec

-----------------------------------------------------------------------------
(* The offset of the chat clock.                                           *)

Sample == [offset : Int, live : BOOLEAN, zone : Zones]

\* The last `n` samples agree on `v`.
RunOf(rows, n, v) == n <= Len(rows) /\ \A k \in 0 .. n - 1 : rows[Len(rows) - k].offset = v

ClockTyped ==
    /\ zone \in Zones
    /\ samples \in Seq(Sample) /\ Len(samples) <= Confirmations
    /\ offset \in Int \union {Unset} /\ (samples # << >> => offset \in Int)
    /\ candidate \in [offset : Int \union {Unset}, agreements : 0 .. Confirmations - 1]

\* A candidate counts the samples that agreed on it in a row, and a row of
\* samples that do not agree with the clock is being counted.
CandidateCounts ==
    /\ RunOf(samples, candidate.agreements, candidate.offset)
    /\ candidate.offset = offset => offset = Unset
    /\ \A n \in Nat \ {0}, v \in Int : RunOf(samples, n, v) /\ v # offset =>
           candidate.offset = v /\ candidate.agreements >= n

\* A live sample is right about the zone it was taken in.
LiveIsRight == \A k \in DOMAIN samples : samples[k].live => samples[k].offset = samples[k].zone

ClockInv == ClockTyped /\ CandidateCounts /\ LiveIsRight

\* A quotient lies between the multiples it lies between.
LEMMA QuotientIs ==
    ASSUME NEW m \in Int, NEW b \in Nat \ {0}, NEW x \in Int, m * b <= x, x < (m + 1) * b
    PROVE  x \div b = m
<1>1. x = b * (x \div b) + (x % b) /\ x % b \in 0 .. b - 1 /\ x \div b \in Int
  OBVIOUS
<1>2. PICK s \in Int : s = x \div b
  BY <1>1
<1>3. b * s <= x /\ x < b * s + b
  BY <1>1, <1>2
<1>4. CASE s < m
  <2>1. PICK e \in Nat : m = s + 1 + e
    <3>1. m - (s + 1) \in Nat /\ m = s + 1 + (m - (s + 1))
      BY <1>4
    <3> QED BY <3>1
  <2>2. m * b = b * s + b + e * b /\ e * b >= 0 /\ b * s \in Int /\ e * b \in Int
    BY <2>1
  <2> QED BY <1>3, <2>2
<1>5. CASE s > m
  <2>1. PICK e \in Nat : s = m + 1 + e
    <3>1. s - (m + 1) \in Nat /\ s = m + 1 + (s - (m + 1))
      BY <1>5
    <3> QED BY <3>1
  <2>2. b * s = (m + 1) * b + e * b /\ e * b >= 0 /\ b * s \in Int /\ e * b \in Int
        /\ (m + 1) * b \in Int
    BY <2>1
  <2> QED BY <1>3, <2>2
<1> QED BY <1>2, <1>4, <1>5

LEMMA SnapIsWhole == \A gap \in Int : Snap(gap) \in Int
<1> SUFFICES ASSUME NEW gap \in Int PROVE Snap(gap) \in Int
  OBVIOUS
<1>1. Magnitude(gap) \in Nat
  BY DEF Magnitude
<1>2. 2 * Magnitude(gap) + Quarter \in Nat /\ 2 * Quarter \in Nat \ {0}
  BY <1>1, ClockAssumption
<1> DEFINE quarters == (2 * Magnitude(gap) + Quarter) \div (2 * Quarter)
<1>3. quarters \in Int
  BY <1>2
<1>4. quarters * Quarter \in Int /\ -(quarters * Quarter) \in Int
  <2> HIDE DEF quarters
  <2> QED BY <1>3, ClockAssumption
<1> QED BY <1>4 DEF Snap

\* A zone and a small lag snap to that zone: half a quarter is out of reach.
LEMMA LiveSnaps ==
    ASSUME NEW n \in Int, NEW lag \in Int, Magnitude(lag) <= MaxLag
    PROVE  Snap(Quarter * n - lag) = Quarter * n
<1>1. PICK z \in Int : z = Quarter * n
  BY ClockAssumption
<1>2. Quarter \in Nat \ {0} /\ 2 * lag < Quarter /\ -(2 * lag) < Quarter
  BY ClockAssumption DEF Magnitude
<1>3. PICK b \in Nat \ {0} : b = 2 * Quarter
  BY <1>2
<1> DEFINE gap == z - lag
<1>4. CASE n = 0
  <2>1. z = 0
    BY <1>1, <1>2, <1>4
  <2>2. (2 * Magnitude(gap) + Quarter) \div b = 0
    <3>1. 0 * b <= 2 * Magnitude(gap) + Quarter /\ 2 * Magnitude(gap) + Quarter < (0 + 1) * b
          /\ 2 * Magnitude(gap) + Quarter \in Int
      BY <1>2, <1>3, <2>1 DEF Magnitude
    <3> QED BY <3>1, QuotientIs
  <2> QED BY <1>1, <1>2, <1>3, <2>1, <2>2 DEF Snap
<1>5. CASE n > 0
  <2>1. z >= Quarter
    <3>1. PICK e \in Nat : n = e + 1
      <4>1. n - 1 \in Nat /\ n = (n - 1) + 1
        BY <1>5
      <4> QED BY <4>1
    <3>2. z = Quarter * e + Quarter /\ Quarter * e >= 0 /\ Quarter * e \in Int
      BY <1>1, <1>2, <3>1
    <3> QED BY <1>2, <3>2
  <2>2. gap >= 0 /\ Magnitude(gap) = gap /\ gap \in Int
    BY <1>2, <2>1 DEF Magnitude
  <2>3. n * b = 2 * z /\ (n + 1) * b = 2 * z + b
    BY <1>1, <1>2, <1>3
  <2>4. (2 * Magnitude(gap) + Quarter) \div b = n
    <3>1. n * b <= 2 * gap + Quarter /\ 2 * gap + Quarter < (n + 1) * b /\ 2 * gap + Quarter \in Int
      BY <1>2, <1>3, <2>2, <2>3
    <3> QED BY <2>2, <3>1, QuotientIs
  <2>5. ~(gap < 0) /\ n * Quarter = Quarter * n
    BY <1>2, <2>2
  <2> QED BY <1>1, <1>3, <2>4, <2>5 DEF Snap
<1>6. CASE n < 0
  <2>1. z <= -Quarter
    <3>1. PICK e \in Nat : n = -e - 1
      <4>1. -n - 1 \in Nat /\ n = -(-n - 1) - 1
        BY <1>6
      <4> QED BY <4>1
    <3>2. z = -(Quarter * e) - Quarter /\ Quarter * e >= 0 /\ Quarter * e \in Int
      BY <1>1, <1>2, <3>1
    <3> QED BY <1>2, <3>2
  <2>2. gap < 0 /\ Magnitude(gap) = -gap /\ gap \in Int
    BY <1>2, <2>1 DEF Magnitude
  <2>3. (-n) * b = -(2 * z) /\ (-n + 1) * b = b - 2 * z
    BY <1>1, <1>2, <1>3
  <2>4. (2 * Magnitude(gap) + Quarter) \div b = -n
    <3>1. (-n) * b <= 2 * (-gap) + Quarter /\ 2 * (-gap) + Quarter < (-n + 1) * b
          /\ 2 * (-gap) + Quarter \in Int
      BY <1>2, <1>3, <2>2, <2>3
    <3> QED BY <2>2, <3>1, QuotientIs
  <2>5. -((-n) * Quarter) = Quarter * n
    BY <1>2
  <2> QED BY <1>1, <1>3, <2>2, <2>4, <2>5 DEF Snap
<1> QED BY <1>4, <1>5, <1>6

LEMMA ClockStarts == ClockInit => ClockInv
<1> SUFFICES ASSUME ClockInit PROVE ClockInv
  OBVIOUS
<1>1. Len(samples) = 0 /\ DOMAIN samples = {}
  BY DEF ClockInit
<1>2. ClockTyped
  BY <1>1, ClockAssumption DEF ClockInit, ClockTyped, NoCandidate
<1>3. CandidateCounts
  BY <1>1 DEF ClockInit, CandidateCounts, RunOf, NoCandidate
<1> QED BY <1>1, <1>2, <1>3 DEF ClockInv, LiveIsRight

\* What is remembered after one more sample: it is the last, and what was the
\* k-th before last is the k+1-st.
LEMMA OneMoreSample ==
    ASSUME ClockTyped, NEW s \in Sample,
           samples' = Append(IF Len(samples) < Confirmations THEN samples ELSE Tail(samples), s)
    PROVE  /\ samples' \in Seq(Sample) /\ Len(samples') \in 1 .. Confirmations
           /\ Len(samples') = IF Len(samples) < Confirmations THEN Len(samples) + 1
                              ELSE Confirmations
           /\ samples'[Len(samples')] = s
           /\ \A k \in 1 .. Len(samples') - 1 :
                  /\ samples'[Len(samples') - k] = samples[Len(samples) - (k - 1)]
                  /\ Len(samples) - (k - 1) \in DOMAIN samples
<1>1. samples \in Seq(Sample) /\ Len(samples) \in Nat /\ DOMAIN samples = 1 .. Len(samples)
      /\ Len(samples) <= Confirmations /\ Confirmations \in Nat \ {0}
  BY ClockAssumption, LenProperties DEF ClockTyped
<1>2. CASE Len(samples) < Confirmations
  <2>1. samples' = Append(samples, s)
    BY <1>2
  <2> HIDE DEF Sample
  <2>2. /\ samples' \in Seq(Sample) /\ Len(samples') = Len(samples) + 1
        /\ samples'[Len(samples) + 1] = s
        /\ \A i \in DOMAIN samples : samples'[i] = samples[i]
    BY <1>1, <2>1, AppendRow
  <2> QED BY <1>1, <1>2, <2>2
<1>3. CASE ~(Len(samples) < Confirmations)
  <2>0. Len(samples) = Confirmations /\ samples # << >>
    <3>1. \A n \in Nat, c \in Nat \ {0} : n <= c /\ ~(n < c) => n = c /\ n # 0
      OBVIOUS
    <3>2. Len(samples) = Confirmations /\ Len(samples) # 0
      <4>1. Len(samples) \in Nat /\ Confirmations \in Nat \ {0} /\ Len(samples) <= Confirmations
        BY <1>1
      <4> QED BY <1>3, <3>1, <4>1
    <3> QED BY <1>1, <3>2, EmptySeq
  <2> PICK rest : rest = Tail(samples)
    OBVIOUS
  <2> HIDE DEF Sample
  <2>1. /\ rest \in Seq(Sample) /\ Len(rest) = Len(samples) - 1
        /\ DOMAIN rest = 1 .. Len(samples) - 1
        /\ \A k \in DOMAIN rest : rest[k] = samples[k + 1]
    BY <1>1, <2>0, TakeFirst
  <2>2. samples' = Append(rest, s)
    BY <1>3
  <2>3. /\ samples' \in Seq(Sample) /\ Len(samples') = Len(rest) + 1
        /\ samples'[Len(rest) + 1] = s
        /\ \A i \in DOMAIN rest : samples'[i] = rest[i]
    <3>1. rest \in Seq(Sample) /\ s \in Sample
      BY <2>1
    <3>2. /\ Append(rest, s) \in Seq(Sample) /\ Len(Append(rest, s)) = Len(rest) + 1
          /\ Append(rest, s)[Len(rest) + 1] = s
          /\ \A i \in DOMAIN rest : Append(rest, s)[i] = rest[i]
      BY <3>1, AppendRow
    <3> QED BY <2>2, <3>2
  <2>4. Len(samples') = Confirmations
    BY <1>1, <2>0, <2>1, <2>3
  <2>5. ASSUME NEW k \in 1 .. Len(samples') - 1
        PROVE  samples'[Len(samples') - k] = samples[Len(samples) - (k - 1)]
               /\ Len(samples) - (k - 1) \in DOMAIN samples
    <3>1. Confirmations - k \in DOMAIN rest /\ (Confirmations - k) + 1 = Confirmations - (k - 1)
      BY <1>1, <2>0, <2>1, <2>4, <2>5
    <3> QED BY <1>1, <2>0, <2>1, <2>3, <2>4, <3>1
  <2> QED BY <1>1, <2>0, <2>1, <2>3, <2>4, <2>5
<1> QED BY <1>2, <1>3

LEMMA ObserveKeeps ==
    ASSUME ClockInv, NEW delay \in Delay, Observe(delay)
    PROVE  ClockInv'
<1> PICK gap : gap = zone - delay
  OBVIOUS
<1>0. delay \in Int /\ gap \in Int /\ zone \in Int
  <2>1. zone \in Int
    BY ClockAssumption DEF ClockInv, ClockTyped, Zones
  <2> QED BY <2>1, ClockAssumption
<1>1. CASE ~Plausible(gap)
  <2>1. UNCHANGED clockVars
    BY <1>1 DEF Observe
  <2> QED BY <2>1 DEF clockVars, clockOwn, ClockInv, ClockTyped, CandidateCounts, RunOf, LiveIsRight
<1>2. CASE Plausible(gap)
  <2> PICK v : v = Snap(gap)
    OBVIOUS
  <2> DEFINE s == [offset |-> v, live |-> Magnitude(delay) <= MaxLag, zone |-> zone]
  <2>1. /\ Proven(v) /\ UNCHANGED zone
        /\ samples' = Append(IF Len(samples) < Confirmations THEN samples ELSE Tail(samples), s)
    BY <1>2 DEF Observe
  <2>2. v \in Int /\ s \in Sample /\ s.offset = v /\ s.zone = zone
        /\ s.live = (Magnitude(delay) <= MaxLag)
    BY <1>0, SnapIsWhole DEF Sample, ClockInv, ClockTyped
  <2>3. s.live => v = zone
    <3>1. PICK n \in ZoneQuarters : zone = Quarter * n
      BY DEF ClockInv, ClockTyped, Zones
    <3> QED BY <1>0, <2>2, <3>1, LiveSnaps, ClockAssumption
  <2> HIDE DEF s
  <2>4. /\ samples' \in Seq(Sample) /\ Len(samples') \in 1 .. Confirmations
        /\ Len(samples') = IF Len(samples) < Confirmations THEN Len(samples) + 1
                           ELSE Confirmations
        /\ samples'[Len(samples')] = s
        /\ \A k \in 1 .. Len(samples') - 1 :
               /\ samples'[Len(samples') - k] = samples[Len(samples) - (k - 1)]
               /\ Len(samples) - (k - 1) \in DOMAIN samples
    BY <2>1, <2>2, OneMoreSample DEF ClockInv
  <2>5. /\ Len(samples) \in Nat /\ DOMAIN samples = 1 .. Len(samples)
        /\ DOMAIN samples' = 1 .. Len(samples') /\ Confirmations \in Nat \ {0}
        /\ Len(samples) <= Confirmations
    BY <2>4, LenProperties, ClockAssumption DEF ClockInv, ClockTyped
  <2> DEFINE agreed == IF candidate.offset = v THEN candidate.agreements + 1 ELSE 1
             moves == offset = Unset \/ (v # offset /\ agreed >= Confirmations)
  <2>6. /\ moves => offset' = v /\ candidate' = NoCandidate
        /\ ~moves /\ v = offset => offset' = offset /\ candidate' = NoCandidate
        /\ ~moves /\ v # offset => offset' = offset /\ candidate' = [offset |-> v, agreements |-> agreed]
    BY <2>1 DEF Proven
  <2>7. candidate.agreements \in 0 .. Confirmations - 1 /\ agreed \in Nat \ {0}
    BY <2>5 DEF ClockInv, ClockTyped
  <2> HIDE DEF agreed
  <2>8. ClockTyped'
    <3>1. samples' # << >>
      BY <2>4
    <3>2. offset' \in Int
      BY <2>2, <2>6, ClockAssumption DEF ClockInv, ClockTyped
    <3>3. candidate' \in [offset : Int \union {Unset}, agreements : 0 .. Confirmations - 1]
      BY <2>2, <2>5, <2>6, <2>7 DEF NoCandidate
    <3> QED BY <2>1, <2>4, <3>1, <3>2, <3>3 DEF ClockInv, ClockTyped, Zones
  \* what agreed before the new sample
  <2>9. ASSUME NEW n \in Nat, NEW w, RunOf(samples, n, w), w = v, n + 1 <= Len(samples')
        PROVE  RunOf(samples', n + 1, w)
    <3>1. ASSUME NEW k \in 0 .. n PROVE samples'[Len(samples') - k].offset = w
      <4>1. CASE k = 0
        BY <2>2, <2>4, <2>9, <4>1
      <4>2. CASE k # 0
        <5>1. k \in 1 .. Len(samples') - 1 /\ k - 1 \in 0 .. n - 1
          BY <2>4, <2>9, <3>1, <4>2
        <5> QED BY <2>4, <2>9, <5>1 DEF RunOf
      <4> QED BY <4>1, <4>2
    <3>2. (n + 1) - 1 = n
      BY <2>9
    <3> QED BY <2>9, <3>1, <3>2 DEF RunOf
  <2>10. ASSUME NEW n \in Nat \ {0}, NEW w \in Int, RunOf(samples', n, w)
         PROVE  w = v /\ RunOf(samples, n - 1, w)
    <3>1. n <= Len(samples') /\ \A k \in 0 .. n - 1 : samples'[Len(samples') - k].offset = w
      BY <2>10 DEF RunOf
    <3>2. w = v
      <4>1. 0 \in 0 .. n - 1 /\ Len(samples') - 0 = Len(samples')
        BY <2>4, <2>10
      <4>2. samples'[Len(samples') - 0].offset = w
        BY <3>1, <4>1
      <4> QED BY <2>2, <2>4, <4>1, <4>2
    <3>3. ASSUME NEW k \in 0 .. (n - 1) - 1 PROVE samples[Len(samples) - k].offset = w
      <4>1. k + 1 \in 1 .. Len(samples') - 1 /\ k + 1 \in 0 .. n - 1 /\ (k + 1) - 1 = k
        BY <2>4, <2>10, <3>1, <3>3
      <4> QED BY <2>4, <3>1, <4>1
    <3>4. n - 1 <= Len(samples)
      BY <2>4, <2>5, <2>10, <3>1
    <3> QED BY <3>2, <3>3, <3>4 DEF RunOf
  <2>11. CandidateCounts'
    <3>1. RunOf(samples', candidate'.agreements, candidate'.offset)
      <4>1. CASE candidate' = NoCandidate
        <5>1. candidate'.agreements = 0 /\ 0 .. 0 - 1 = {} /\ 0 <= Len(samples')
          BY <2>4, <4>1 DEF NoCandidate
        <5> QED BY <5>1 DEF RunOf
      <4>2. CASE candidate' # NoCandidate
        <5>1. candidate' = [offset |-> v, agreements |-> agreed] /\ ~moves /\ v # offset
          BY <2>6, <4>2
        <5>2. agreed < Confirmations
          BY <2>5, <2>7, <5>1
        <5>3. CASE candidate.offset = v
          <6>1. RunOf(samples, candidate.agreements, v) /\ agreed = candidate.agreements + 1
            BY <5>3 DEF ClockInv, CandidateCounts, agreed
          <6>2. candidate.agreements <= Len(samples)
            BY <6>1 DEF RunOf
          <6>3. candidate.agreements + 1 <= Len(samples')
            BY <2>4, <2>5, <2>7, <5>2, <6>1, <6>2
          <6> QED BY <2>7, <2>9, <5>1, <6>1, <6>3
        <5>4. CASE candidate.offset # v
          <6>1. agreed = 0 + 1 /\ RunOf(samples, 0, v) /\ 0 + 1 <= Len(samples')
            BY <2>4, <2>5, <5>4 DEF agreed, RunOf
          <6> QED BY <2>9, <5>1, <6>1
        <5> QED BY <5>3, <5>4
      <4> QED BY <4>1, <4>2
    <3>2. candidate'.offset = offset' => offset' = Unset
      BY <2>2, <2>6, ClockAssumption DEF NoCandidate, ClockInv, ClockTyped
    <3>3. ASSUME NEW n \in Nat \ {0}, NEW w \in Int, RunOf(samples', n, w), w # offset'
          PROVE  candidate'.offset = w /\ candidate'.agreements >= n
      <4>1. w = v /\ RunOf(samples, n - 1, w)
        BY <2>10, <3>3
      <4>2. ~moves /\ v # offset /\ candidate' = [offset |-> v, agreements |-> agreed]
        BY <2>6, <3>3, <4>1
      <4>3. CASE n = 1
        BY <2>7, <4>1, <4>2, <4>3
      <4>4. CASE n # 1
        <5>1. n - 1 \in Nat \ {0}
          BY <4>4
        <5>2. candidate.offset = v /\ candidate.agreements >= n - 1
          BY <2>2, <4>1, <4>2, <5>1 DEF ClockInv, CandidateCounts
        <5>3. agreed = candidate.agreements + 1
          BY <5>2 DEF agreed
        <5> QED BY <2>7, <4>1, <4>2, <5>2, <5>3
      <4> QED BY <4>3, <4>4
    <3> QED BY <3>1, <3>2, <3>3 DEF CandidateCounts
  <2>12. LiveIsRight'
    <3> SUFFICES ASSUME NEW i \in DOMAIN samples', samples'[i].live
                 PROVE  samples'[i].offset = samples'[i].zone
      BY DEF LiveIsRight
    <3>1. CASE i = Len(samples')
      BY <2>2, <2>3, <2>4, <3>1
    <3>2. CASE i # Len(samples')
      <4>1. PICK k \in 1 .. Len(samples') - 1 : i = Len(samples') - k
        <5>1. Len(samples') - i \in 1 .. Len(samples') - 1 /\ i = Len(samples') - (Len(samples') - i)
          BY <2>4, <2>5, <3>2
        <5> QED BY <5>1
      <4> QED BY <2>4, <4>1 DEF ClockInv, LiveIsRight
    <3> QED BY <3>1, <3>2
  <2> QED BY <2>8, <2>11, <2>12 DEF ClockInv
<1> QED BY <1>1, <1>2

LEMMA ClockStep == ClockInv /\ [ClockNext]_clockVars => ClockInv'
<1> SUFFICES ASSUME ClockInv, [ClockNext]_clockVars PROVE ClockInv'
  OBVIOUS
<1>1. ASSUME NEW to \in Zones, ServerMoves(to) PROVE ClockInv'
  BY <1>1 DEF ServerMoves, ClockInv, ClockTyped, CandidateCounts, RunOf, LiveIsRight
<1>2. CASE UNCHANGED clockVars
  BY <1>2 DEF clockVars, clockOwn, ClockInv, ClockTyped, CandidateCounts, RunOf, LiveIsRight
<1> QED BY <1>1, <1>2, ObserveKeeps DEF ClockNext

\* Samples that agree often enough are the offset in use, and live ones bring
\* the zone of the server, whatever was sampled before and for any period and
\* any number of confirmations; a live tick cannot look like another zone
\* because twice the lag is less than a quarter of an hour.
THEOREM OffsetIsProved == ClockSpec => []OffsetProved
<1>1. ClockInv => OffsetProved
  <2> SUFFICES ASSUME ClockInv PROVE OffsetProved
    OBVIOUS
  <2>1. /\ Len(samples) \in Nat /\ DOMAIN samples = 1 .. Len(samples) /\ Confirmations \in Nat \ {0}
        /\ \A i \in DOMAIN samples : samples[i] \in Sample
        /\ candidate.agreements \in 0 .. Confirmations - 1
    BY LenProperties, ElementOfSeq, ClockAssumption DEF ClockInv, ClockTyped
  <2>2. ASSUME Agreeing PROVE offset = samples[1].offset
    <3>1. /\ Len(samples) = Confirmations
          /\ \A k \in DOMAIN samples : samples[k].offset = samples[1].offset
      BY <2>2 DEF Agreeing
    <3>2. samples[1].offset \in Int
      BY <2>1, <3>1 DEF Sample
    <3>3. RunOf(samples, Confirmations, samples[1].offset)
      <4>1. \A k \in 0 .. Confirmations - 1 : Len(samples) - k \in DOMAIN samples
        BY <2>1, <3>1
      <4> QED BY <2>1, <3>1, <4>1 DEF RunOf
    <3> QED BY <2>1, <3>2, <3>3 DEF ClockInv, CandidateCounts
  <2>3. ASSUME Agreeing, \A k \in DOMAIN samples : samples[k].live /\ samples[k].zone = zone
        PROVE  offset = zone
    <3>1. 1 \in DOMAIN samples
      BY <2>1, <2>3 DEF Agreeing
    <3> QED BY <2>2, <2>3, <3>1 DEF ClockInv, LiveIsRight
  <2> QED BY <2>1, <2>2, <2>3 DEF OffsetProved, ClockInv, CandidateCounts, RunOf
<1> QED BY <1>1, ClockStarts, ClockStep, PTL DEF ClockSpec

-----------------------------------------------------------------------------
(* The connection core.                                                    *)

Jobs == [id : Nat \ {0}, owns : BOOLEAN]

PoolTyped ==
    /\ handles \in Nat /\ closed \in BOOLEAN
    /\ queued \in [Queues -> Seq(Jobs)]
    /\ submitted \in [Queues -> Seq(Nat \ {0})] /\ ran \in [Queues -> Seq(Nat \ {0})]
    /\ step \in [Worker -> {"idle", "recv", "run", "drop", "reply", "gone"}]
    /\ job \in [Worker -> [id : Nat, owns : BOOLEAN]]

\* What was submitted to a queue is what has begun and then what waits, in order.
QueueSplit(begun, waits, all) ==
    /\ Len(all) = Len(begun) + Len(waits)
    /\ \A i \in DOMAIN begun : all[i] = begun[i]
    /\ \A i \in DOMAIN waits : all[Len(begun) + i] = waits[i].id

InOrder == \A q \in Queues : QueueSplit(ran[q], queued[q], submitted[q])

\* Every submission has a number of its own, over both queues.
NumberedOnce ==
    \A q, p \in Queues : \A i \in DOMAIN submitted[q], k \in DOMAIN submitted[p] :
        /\ submitted[q][i] <= Submitted
        /\ submitted[q][i] = submitted[p][k] => q = p /\ i = k

\* A worker has jobs of its own queue only.
OwnJobs == \A w \in Worker : job[w].id # 0 =>
    \E i \in DOMAIN submitted[JobQueue(w)] : submitted[JobQueue(w)][i] = job[w].id

\* Nothing is submitted to a closed core, so a worker that has ended missed nothing.
GoneLast ==
    /\ closed => handles = 0
    /\ \A w \in Worker : step[w] = "gone" => closed /\ queued[JobQueue(w)] = << >>

PoolInv == PoolTyped /\ InOrder /\ NumberedOnce /\ OwnJobs /\ GoneLast

LEMMA QueuesAre ==
    /\ \A w \in Worker : JobQueue(w) \in Queues
    /\ \A w \in Worker : JobQueue(w) = "writes" => w = Writer
    /\ "writes" \in Queues /\ "reads" \in Queues
BY DEF JobQueue, Queues

\* A job submitted goes behind those that wait.
LEMMA SplitAppend ==
    ASSUME NEW begun \in Seq(Nat \ {0}), NEW waits \in Seq(Jobs), NEW all \in Seq(Nat \ {0}),
           QueueSplit(begun, waits, all), NEW j \in Jobs
    PROVE  QueueSplit(begun, Append(waits, j), Append(all, j.id))
<1>1. /\ Len(begun) \in Nat /\ DOMAIN begun = 1 .. Len(begun)
      /\ Len(waits) \in Nat /\ DOMAIN waits = 1 .. Len(waits)
      /\ Len(all) \in Nat /\ DOMAIN all = 1 .. Len(all) /\ j.id \in Nat \ {0}
  BY LenProperties DEF Jobs
<1> PICK n : n = j.id
  OBVIOUS
<1>2. /\ Len(Append(waits, j)) = Len(waits) + 1
      /\ DOMAIN Append(waits, j) = 1 .. Len(waits) + 1
      /\ Append(waits, j)[Len(waits) + 1] = j
      /\ \A i \in DOMAIN waits : Append(waits, j)[i] = waits[i]
  BY AppendRow
<1>3. /\ Len(Append(all, n)) = Len(all) + 1 /\ Append(all, n)[Len(all) + 1] = n
      /\ \A i \in DOMAIN all : Append(all, n)[i] = all[i]
  BY <1>1, AppendRow
<1> PICK w2 : w2 = Append(waits, j)
  OBVIOUS
<1> PICK a2 : a2 = Append(all, n)
  OBVIOUS
<1>4. /\ Len(all) = Len(begun) + Len(waits)
      /\ \A i \in DOMAIN begun : all[i] = begun[i]
      /\ \A i \in DOMAIN waits : all[Len(begun) + i] = waits[i].id
  BY DEF QueueSplit
<1>5. Len(a2) = Len(begun) + Len(w2) /\ \A i \in DOMAIN begun : a2[i] = begun[i]
  BY <1>1, <1>2, <1>3, <1>4
<1>6. ASSUME NEW i \in DOMAIN w2 PROVE a2[Len(begun) + i] = w2[i].id
  <2>1. CASE i \in DOMAIN waits
    <3>1. Len(begun) + i \in DOMAIN all
      BY <1>1, <1>4, <2>1
    <3> QED BY <1>2, <1>3, <1>4, <2>1, <3>1
  <2>2. CASE i = Len(waits) + 1
    <3>1. Len(begun) + i = Len(all) + 1
      BY <1>1, <1>4, <2>2
    <3> QED BY <1>2, <1>3, <2>2, <3>1
  <2>3. i \in DOMAIN waits \/ i = Len(waits) + 1
    BY <1>1, <1>2
  <2> QED BY <2>1, <2>2, <2>3
<1> QED BY <1>5, <1>6 DEF QueueSplit

\* The job that waited longest begins next.
LEMMA SplitTake ==
    ASSUME NEW begun \in Seq(Nat \ {0}), NEW waits \in Seq(Jobs), NEW all \in Seq(Nat \ {0}),
           QueueSplit(begun, waits, all), waits # << >>
    PROVE  /\ QueueSplit(Append(begun, Head(waits).id), Tail(waits), all)
           /\ Head(waits) \in Jobs
           /\ \E i \in DOMAIN all : all[i] = Head(waits).id
<1>1. /\ Len(begun) \in Nat /\ DOMAIN begun = 1 .. Len(begun)
      /\ Len(waits) \in Nat /\ DOMAIN waits = 1 .. Len(waits)
      /\ Len(all) \in Nat /\ DOMAIN all = 1 .. Len(all)
  BY LenProperties
<1> PICK j : j = Head(waits)
  OBVIOUS
<1> PICK rest : rest = Tail(waits)
  OBVIOUS
<1>2. /\ j \in Jobs /\ j = waits[1] /\ 1 \in DOMAIN waits /\ Len(rest) = Len(waits) - 1
      /\ DOMAIN rest = 1 .. Len(waits) - 1
      /\ \A k \in DOMAIN rest : k + 1 \in DOMAIN waits /\ rest[k] = waits[k + 1]
  BY TakeFirst
<1> PICK n : n = j.id
  OBVIOUS
<1>3. n \in Nat \ {0}
  BY <1>2 DEF Jobs
<1> PICK b2 : b2 = Append(begun, n)
  OBVIOUS
<1>4. /\ Len(b2) = Len(begun) + 1 /\ DOMAIN b2 = 1 .. Len(begun) + 1 /\ b2[Len(begun) + 1] = n
      /\ \A i \in DOMAIN begun : b2[i] = begun[i]
  BY <1>3, AppendRow
<1>5. /\ Len(all) = Len(begun) + Len(waits)
      /\ \A i \in DOMAIN begun : all[i] = begun[i]
      /\ \A i \in DOMAIN waits : all[Len(begun) + i] = waits[i].id
  BY DEF QueueSplit
<1>6. all[Len(begun) + 1] = n /\ Len(begun) + 1 \in DOMAIN all
  <2>1. Len(begun) + 1 \in DOMAIN all
    BY <1>1, <1>2, <1>5
  <2>2. all[Len(begun) + 1] = waits[1].id
    BY <1>2, <1>5
  <2> QED BY <1>2, <2>1, <2>2
<1>7. Len(all) = Len(b2) + Len(rest)
  BY <1>1, <1>2, <1>4, <1>5
<1>8. \A i \in DOMAIN b2 : all[i] = b2[i]
  BY <1>1, <1>4, <1>5, <1>6
<1>9. ASSUME NEW k \in DOMAIN rest PROVE all[Len(b2) + k] = rest[k].id
  <2>1. Len(b2) + k = Len(begun) + (k + 1)
    BY <1>1, <1>2, <1>4, <1>9
  <2> QED BY <1>2, <1>5, <2>1
<1>10. QueueSplit(b2, rest, all)
  BY <1>7, <1>8, <1>9 DEF QueueSplit
<1> QED BY <1>2, <1>6, <1>10

LEMMA SplitIsPrefix ==
    ASSUME NEW begun \in Seq(Nat \ {0}), NEW waits \in Seq(Jobs), NEW all \in Seq(Nat \ {0}),
           QueueSplit(begun, waits, all)
    PROVE  IsPrefix(begun, all)
<1>1. /\ Len(begun) \in Nat /\ DOMAIN begun = 1 .. Len(begun)
      /\ Len(waits) \in Nat /\ DOMAIN waits = 1 .. Len(waits)
      /\ Len(all) \in Nat /\ DOMAIN all = 1 .. Len(all) /\ Len(all) = Len(begun) + Len(waits)
  BY LenProperties DEF QueueSplit
<1> PICK n : n = Len(begun)
  OBVIOUS
<1>2. \A i \in 1 .. n : begun[i] \in Nat \ {0} /\ all[i] = begun[i]
  BY <1>1, ElementOfSeq DEF QueueSplit
<1>3. /\ SubSeq(begun, 1, n) \in Seq(Nat \ {0}) /\ Len(SubSeq(begun, 1, n)) = n
      /\ \A i \in 1 .. n : SubSeq(begun, 1, n)[i] = begun[i]
  <2>1. /\ SubSeq(begun, 1, n) \in Seq(Nat \ {0})
        /\ Len(SubSeq(begun, 1, n)) = IF 1 <= n THEN n - 1 + 1 ELSE 0
        /\ \A i \in 1 .. n - 1 + 1 : SubSeq(begun, 1, n)[i] = begun[1 + i - 1]
    BY <1>1, <1>2, SubSeqProperties
  <2>2. (IF 1 <= n THEN n - 1 + 1 ELSE 0) = n /\ n - 1 + 1 = n /\ \A i \in 1 .. n : 1 + i - 1 = i
    BY <1>1
  <2> QED BY <2>1, <2>2
<1>4. /\ SubSeq(all, 1, n) \in Seq(Nat \ {0}) /\ Len(SubSeq(all, 1, n)) = n
      /\ \A i \in 1 .. n : SubSeq(all, 1, n)[i] = all[i]
  <2>1. /\ SubSeq(all, 1, n) \in Seq(Nat \ {0})
        /\ Len(SubSeq(all, 1, n)) = IF 1 <= n THEN n - 1 + 1 ELSE 0
        /\ \A i \in 1 .. n - 1 + 1 : SubSeq(all, 1, n)[i] = all[1 + i - 1]
    BY <1>1, <1>2, SubSeqProperties
  <2>2. (IF 1 <= n THEN n - 1 + 1 ELSE 0) = n /\ n - 1 + 1 = n /\ \A i \in 1 .. n : 1 + i - 1 = i
    BY <1>1
  <2> QED BY <2>1, <2>2
<1>5. \A i \in 1 .. Len(SubSeq(begun, 1, n)) : SubSeq(begun, 1, n)[i] = SubSeq(all, 1, n)[i]
  BY <1>2, <1>3, <1>4
<1>6. SubSeq(begun, 1, n) = SubSeq(all, 1, n)
  BY <1>3, <1>4, <1>5, SeqEqual
<1> QED BY <1>1, <1>6 DEF IsPrefix

LEMMA SubmittedIsCounted ==
    \A a, b \in Seq(Nat \ {0}) : a = submitted["writes"] /\ b = submitted["reads"] =>
        Submitted = Len(a) + Len(b) /\ Len(a) \in Nat /\ Len(b) \in Nat /\ Submitted \in Nat
<1> SUFFICES ASSUME NEW a \in Seq(Nat \ {0}), NEW b \in Seq(Nat \ {0})
             PROVE  a = submitted["writes"] /\ b = submitted["reads"] =>
                        Submitted = Len(a) + Len(b) /\ Len(a) \in Nat /\ Len(b) \in Nat
                        /\ Submitted \in Nat
  OBVIOUS
<1>1. Len(a) \in Nat /\ Len(b) \in Nat
  BY LenProperties
<1>2. Len(a) + Len(b) \in Nat
  BY <1>1
<1> QED BY <1>1, <1>2 DEF Submitted

LEMMA PoolStarts == PoolInit => PoolInv
<1> SUFFICES ASSUME PoolInit PROVE PoolInv
  OBVIOUS
<1>1. PoolTyped
  <2>1. << >> \in Seq(Jobs) /\ << >> \in Seq(Nat \ {0})
    OBVIOUS
  <2>2. /\ queued = [q \in Queues |-> << >>] /\ submitted = [q \in Queues |-> << >>]
        /\ ran = [q \in Queues |-> << >>]
    BY DEF PoolInit
  <2>3. queued \in [Queues -> Seq(Jobs)] /\ submitted \in [Queues -> Seq(Nat \ {0})]
        /\ ran \in [Queues -> Seq(Nat \ {0})]
    BY <2>1, <2>2
  <2>4. step \in [Worker -> {"idle", "recv", "run", "drop", "reply", "gone"}]
    BY DEF PoolInit
  <2>5. job \in [Worker -> [id : Nat, owns : BOOLEAN]]
    BY DEF PoolInit, NoJob
  <2> QED BY <2>3, <2>4, <2>5 DEF PoolInit, PoolTyped
<1>2. \A q \in Queues : queued[q] = << >> /\ submitted[q] = << >> /\ ran[q] = << >>
  BY DEF PoolInit
<1>3. InOrder
  <2>1. Len(<< >>) = 0 /\ DOMAIN << >> = {} /\ 0 = 0 + 0
    OBVIOUS
  <2>2. QueueSplit(<< >>, << >>, << >>)
    BY <2>1 DEF QueueSplit
  <2> QED BY <1>2, <2>2 DEF InOrder
<1>4. NumberedOnce
  BY <1>2 DEF NumberedOnce
<1>5. OwnJobs
  BY DEF PoolInit, OwnJobs, NoJob
<1>6. GoneLast
  BY DEF PoolInit, GoneLast
<1> QED BY <1>1, <1>3, <1>4, <1>5, <1>6 DEF PoolInv

LEMMA SubmitKeeps ==
    ASSUME PoolInv, NEW queue \in Queues, NEW owns \in BOOLEAN, Submit(queue, owns)
    PROVE  PoolInv'
<1> PICK n : n = Submitted + 1
  OBVIOUS
<1> PICK j : j = [id |-> n, owns |-> owns]
  OBVIOUS
<1>1. /\ handles > 0
      /\ queued' = [queued EXCEPT ![queue] = Append(queued[queue], j)]
      /\ submitted' = [submitted EXCEPT ![queue] = Append(submitted[queue], n)]
      /\ UNCHANGED <<handles, closed, step, job, ran>>
  BY DEF Submit
<1>2. /\ \A q \in Queues : queued[q] \in Seq(Jobs) /\ submitted[q] \in Seq(Nat \ {0})
                           /\ ran[q] \in Seq(Nat \ {0})
      /\ DOMAIN queued = Queues /\ DOMAIN submitted = Queues
  BY DEF PoolInv, PoolTyped
<1>a. PICK a : a = submitted["writes"]
  OBVIOUS
<1>b. PICK b : b = submitted["reads"]
  OBVIOUS
<1>3. /\ Submitted = Len(a) + Len(b) /\ Len(a) \in Nat /\ Len(b) \in Nat /\ Submitted \in Nat
      /\ n \in Nat \ {0} /\ j \in Jobs /\ j.id = n
  <2>1. Submitted = Len(a) + Len(b) /\ Len(a) \in Nat /\ Len(b) \in Nat /\ Submitted \in Nat
    BY <1>2, <1>a, <1>b, QueuesAre, SubmittedIsCounted
  <2>2. n \in Nat \ {0}
    BY <2>1
  <2> QED BY <2>1, <2>2 DEF Jobs
<1>waits. PICK waits : waits = queued[queue]
  OBVIOUS
<1>all. PICK all : all = submitted[queue]
  OBVIOUS
<1>4. /\ queued'[queue] = Append(waits, j) /\ submitted'[queue] = Append(all, n)
      /\ \A q \in Queues : q # queue => queued'[q] = queued[q] /\ submitted'[q] = submitted[q]
  BY <1>1, <1>2, <1>waits, <1>all
<1>all2. PICK all2 : all2 = submitted'[queue]
  OBVIOUS
<1>5. waits \in Seq(Jobs) /\ all \in Seq(Nat \ {0}) /\ all2 = Append(all, n)
  BY <1>2, <1>4, <1>waits, <1>all, <1>all2
<1>6. /\ all2 \in Seq(Nat \ {0}) /\ Len(all) \in Nat /\ DOMAIN all = 1 .. Len(all)
      /\ DOMAIN all2 = 1 .. Len(all) + 1 /\ Len(all2) = Len(all) + 1
      /\ all2[Len(all) + 1] = n
      /\ \A i \in DOMAIN all : all2[i] = all[i]
  BY <1>3, <1>5, AppendRow
<1>7. Submitted' = n
  <2>1. CASE queue = "writes"
    <3>1. submitted'["reads"] = b /\ submitted'["writes"] = all2 /\ all = a
      BY <1>4, <1>a, <1>b, <1>all, <1>all2, <2>1, QueuesAre
    <3>2. Submitted' = Len(all2) + Len(b)
      BY <3>1 DEF Submitted
    <3>3. Len(all2) + Len(b) = n
      BY <1>3, <1>6, <3>1
    <3> QED BY <3>2, <3>3
  <2>2. CASE queue = "reads"
    <3>1. submitted'["writes"] = a /\ submitted'["reads"] = all2 /\ all = b
      BY <1>4, <1>a, <1>b, <1>all, <1>all2, <2>2, QueuesAre
    <3>2. Submitted' = Len(a) + Len(all2)
      BY <3>1 DEF Submitted
    <3>3. Len(a) + Len(all2) = n
      BY <1>3, <1>6, <3>1
    <3> QED BY <3>2, <3>3
  <2> QED BY <2>1, <2>2 DEF Queues
<1>8. PoolTyped'
  <2>1. Append(waits, j) \in Seq(Jobs)
    BY <1>3, <1>5, AppendRow
  <2>2. queued' \in [Queues -> Seq(Jobs)] /\ submitted' \in [Queues -> Seq(Nat \ {0})]
    BY <1>1, <1>2, <1>4, <1>6, <1>all2, <2>1
  <2> QED BY <1>1, <2>2 DEF PoolInv, PoolTyped
<1>9. InOrder'
  <2> SUFFICES ASSUME NEW q \in Queues PROVE QueueSplit(ran[q], queued'[q], submitted'[q])
    BY <1>1 DEF InOrder
  <2>1. QueueSplit(ran[q], queued[q], submitted[q])
    BY DEF PoolInv, InOrder
  <2>2. CASE q = queue
    <3> PICK begun : begun = ran[q]
      OBVIOUS
    <3>1. begun \in Seq(Nat \ {0}) /\ QueueSplit(begun, waits, all)
      BY <1>2, <1>waits, <1>all, <2>1, <2>2
    <3>2. QueueSplit(begun, Append(waits, j), Append(all, j.id))
      BY <1>3, <1>5, <3>1, SplitAppend
    <3> QED BY <1>3, <1>4, <2>2, <3>2
  <2>3. CASE q # queue
    BY <1>4, <2>1, <2>3
  <2> QED BY <2>2, <2>3
<1>10. ASSUME NEW q \in Queues, NEW i \in DOMAIN submitted'[q]
       PROVE  \/ i \in DOMAIN submitted[q] /\ submitted'[q][i] = submitted[q][i]
              \/ q = queue /\ i = Len(all) + 1 /\ submitted'[q][i] = n
  <2>1. CASE q = queue
    <3>1. i \in DOMAIN all2
      BY <1>10, <1>all2, <2>1
    <3>2. i \in DOMAIN all \/ i = Len(all) + 1
      BY <1>6, <3>1
    <3> QED BY <1>6, <1>all, <1>all2, <2>1, <3>2
  <2>2. CASE q # queue
    BY <1>4, <1>10, <2>2
  <2> QED BY <2>1, <2>2
<1>11. \A q \in Queues : \A i \in DOMAIN submitted[q] :
           /\ submitted[q][i] <= n /\ submitted[q][i] # n
           /\ \A p \in Queues : \A k \in DOMAIN submitted[p] :
                  submitted[q][i] = submitted[p][k] => q = p /\ i = k
  <2> SUFFICES ASSUME NEW q \in Queues, NEW i \in DOMAIN submitted[q]
               PROVE  submitted[q][i] <= n /\ submitted[q][i] # n
    BY DEF PoolInv, NumberedOnce
  <2>1. PICK x : x = submitted[q][i]
    OBVIOUS
  <2>2. x \in Nat /\ x <= Submitted
    <3>1. submitted[q] \in Seq(Nat \ {0}) /\ submitted[q][i] <= Submitted
      BY <1>2 DEF PoolInv, NumberedOnce
    <3> QED BY <2>1, <3>1, ElementOfSeq
  <2>3. x <= n /\ x # n
    BY <1>3, <2>2
  <2> QED BY <2>1, <2>3
<1>12. NumberedOnce'
  <2>0. n <= n
    BY <1>3
  <2> SUFFICES ASSUME NEW q \in Queues, NEW p \in Queues,
                      NEW i \in DOMAIN submitted'[q], NEW k \in DOMAIN submitted'[p]
               PROVE  /\ submitted'[q][i] <= n
                      /\ submitted'[q][i] = submitted'[p][k] => q = p /\ i = k
    BY <1>7 DEF NumberedOnce
  <2>1. \/ i \in DOMAIN submitted[q] /\ submitted'[q][i] = submitted[q][i]
        \/ q = queue /\ i = Len(all) + 1 /\ submitted'[q][i] = n
    BY <1>10
  <2>2. \/ k \in DOMAIN submitted[p] /\ submitted'[p][k] = submitted[p][k]
        \/ p = queue /\ k = Len(all) + 1 /\ submitted'[p][k] = n
    BY <1>10
  <2>3. submitted'[q][i] <= n
    BY <1>11, <2>0, <2>1, Zenon
  <2>4. ASSUME submitted'[q][i] = submitted'[p][k] PROVE q = p /\ i = k
    <3>1. CASE i \in DOMAIN submitted[q] /\ submitted'[q][i] = submitted[q][i]
      <4>1. CASE k \in DOMAIN submitted[p] /\ submitted'[p][k] = submitted[p][k]
        <5>1. submitted[q][i] = submitted[p][k]
          BY <2>4, <3>1, <4>1, Zenon
        <5> QED BY <1>11, <3>1, <4>1, <5>1, Zenon
      <4>2. CASE p = queue /\ k = Len(all) + 1 /\ submitted'[p][k] = n
        BY <1>11, <2>4, <3>1, <4>2, Zenon
      <4> QED BY <2>2, <4>1, <4>2
    <3>2. CASE q = queue /\ i = Len(all) + 1 /\ submitted'[q][i] = n
      <4>1. CASE k \in DOMAIN submitted[p] /\ submitted'[p][k] = submitted[p][k]
        BY <1>11, <2>4, <3>2, <4>1, Zenon
      <4>2. CASE p = queue /\ k = Len(all) + 1 /\ submitted'[p][k] = n
        BY <3>2, <4>2, Zenon
      <4> QED BY <2>2, <4>1, <4>2
    <3> QED BY <2>1, <3>1, <3>2
  <2> QED BY <2>3, <2>4
<1>13. OwnJobs'
  <2> SUFFICES ASSUME NEW w \in Worker, job[w].id # 0
               PROVE  \E i \in DOMAIN submitted'[JobQueue(w)] : submitted'[JobQueue(w)][i] = job[w].id
    BY <1>1 DEF OwnJobs, JobQueue
  <2> PICK q \in Queues : q = JobQueue(w)
    BY QueuesAre
  <2>1. PICK i \in DOMAIN submitted[q] : submitted[q][i] = job[w].id
    BY DEF PoolInv, OwnJobs
  <2>2. i \in DOMAIN submitted'[q] /\ submitted'[q][i] = submitted[q][i]
    <3>1. CASE q = queue
      <4>1. i \in DOMAIN all /\ all2 = submitted'[q]
        BY <1>all, <1>all2, <2>1, <3>1
      <4>2. i \in DOMAIN all2
        BY <1>6, <4>1
      <4> QED BY <1>6, <1>all, <3>1, <4>1, <4>2
    <3>2. CASE q # queue
      BY <1>4, <2>1, <3>2
    <3> QED BY <3>1, <3>2
  <2> QED BY <2>1, <2>2
<1>14. GoneLast'
  <2>1. ~closed
    BY <1>1 DEF PoolInv, GoneLast, PoolTyped
  <2> QED BY <1>1, <2>1 DEF PoolInv, GoneLast
<1> QED BY <1>8, <1>9, <1>12, <1>13, <1>14 DEF PoolInv

LEMMA ReceiveKeeps ==
    ASSUME PoolInv, NEW w \in Worker, Receive(w)
    PROVE  PoolInv'
<1>q. PICK q : q = JobQueue(w)
  OBVIOUS
<1>0. q \in Queues
  BY <1>q, QueuesAre
<1>1. /\ \A p \in Queues : queued[p] \in Seq(Jobs) /\ submitted[p] \in Seq(Nat \ {0})
                           /\ ran[p] \in Seq(Nat \ {0})
      /\ DOMAIN queued = Queues /\ DOMAIN ran = Queues /\ DOMAIN step = Worker /\ DOMAIN job = Worker
  BY DEF PoolInv, PoolTyped
<1>waits. PICK waits : waits = queued[q]
  OBVIOUS
<1>begun. PICK begun : begun = ran[q]
  OBVIOUS
<1>all. PICK all : all = submitted[q]
  OBVIOUS
<1>2. CASE waits = << >>
  <2>1. closed /\ step' = [step EXCEPT ![w] = "gone"]
        /\ UNCHANGED <<handles, queued, closed, job, submitted, ran>>
    BY <1>2, <1>q, <1>waits DEF Receive
  <2>2. PoolTyped'
    BY <2>1 DEF PoolInv, PoolTyped
  <2>3. InOrder' /\ NumberedOnce' /\ OwnJobs'
    <3>1. Submitted' = Submitted
      BY <2>1 DEF Submitted
    <3> QED BY <2>1, <3>1 DEF PoolInv, InOrder, NumberedOnce, OwnJobs, JobQueue
  <2>4. GoneLast'
    <3> SUFFICES ASSUME NEW v \in Worker, step'[v] = "gone" PROVE queued[JobQueue(v)] = << >>
      BY <2>1 DEF PoolInv, GoneLast, JobQueue
    <3>1. CASE v = w
      BY <1>2, <1>q, <1>waits, <3>1
    <3>2. CASE v # w
      BY <1>1, <2>1, <3>2 DEF PoolInv, GoneLast
    <3> QED BY <3>1, <3>2
  <2> QED BY <2>2, <2>3, <2>4 DEF PoolInv
<1>3. CASE waits # << >>
  <2>j. PICK j : j = Head(waits)
    OBVIOUS
  <2>1. /\ job' = [job EXCEPT ![w] = j]
        /\ queued' = [queued EXCEPT ![q] = Tail(waits)]
        /\ ran' = [ran EXCEPT ![q] = Append(begun, j.id)]
        /\ step' = [step EXCEPT ![w] = "run"]
        /\ UNCHANGED <<handles, closed, submitted>>
    BY <1>1, <1>3, <1>q, <1>waits, <1>begun, <2>j DEF Receive
  <2>2. waits \in Seq(Jobs) /\ begun \in Seq(Nat \ {0}) /\ all \in Seq(Nat \ {0})
        /\ QueueSplit(begun, waits, all)
    BY <1>0, <1>1, <1>waits, <1>begun, <1>all DEF PoolInv, InOrder
  <2>3. /\ QueueSplit(Append(begun, j.id), Tail(waits), all) /\ j \in Jobs
        /\ \E i \in DOMAIN all : all[i] = j.id
    BY <1>3, <2>2, <2>j, SplitTake
  <2>4. Tail(waits) \in Seq(Jobs) /\ Append(begun, j.id) \in Seq(Nat \ {0})
    <3>1. j.id \in Nat \ {0}
      BY <2>3 DEF Jobs
    <3> QED BY <1>3, <2>2, <3>1, TakeFirst, AppendRow
  <2>5. /\ queued'[q] = Tail(waits) /\ ran'[q] = Append(begun, j.id)
        /\ \A p \in Queues : p # q => queued'[p] = queued[p] /\ ran'[p] = ran[p]
    BY <1>0, <1>1, <2>1
  <2>6. PoolTyped'
    <3>1. queued' \in [Queues -> Seq(Jobs)] /\ ran' \in [Queues -> Seq(Nat \ {0})]
      BY <1>1, <2>1, <2>4, <2>5
    <3>2. job' \in [Worker -> [id : Nat, owns : BOOLEAN]]
      BY <2>1, <2>3 DEF Jobs, PoolInv, PoolTyped
    <3> QED BY <2>1, <3>1, <3>2 DEF PoolInv, PoolTyped
  <2>7. InOrder'
    <3> SUFFICES ASSUME NEW p \in Queues PROVE QueueSplit(ran'[p], queued'[p], submitted[p])
      BY <2>1 DEF InOrder
    <3>1. CASE p = q
      BY <1>all, <2>3, <2>5, <3>1
    <3>2. CASE p # q
      BY <2>5, <3>2 DEF PoolInv, InOrder
    <3> QED BY <3>1, <3>2
  <2>8. NumberedOnce'
    <3>1. Submitted' = Submitted
      BY <2>1 DEF Submitted
    <3> QED BY <2>1, <3>1 DEF PoolInv, NumberedOnce
  <2>9. OwnJobs'
    <3> SUFFICES ASSUME NEW v \in Worker, job'[v].id # 0
                 PROVE  \E i \in DOMAIN submitted[JobQueue(v)] : submitted[JobQueue(v)][i] = job'[v].id
      BY <2>1 DEF OwnJobs, JobQueue
    <3>1. CASE v = w
      <4>1. job'[v] = j
        BY <1>1, <2>1, <3>1
      <4> QED BY <1>q, <1>all, <2>3, <3>1, <4>1
    <3>2. CASE v # w
      <4>1. job'[v] = job[v]
        BY <1>1, <2>1, <3>2
      <4> QED BY <4>1 DEF PoolInv, OwnJobs
    <3> QED BY <3>1, <3>2
  <2>10. GoneLast'
    <3> SUFFICES ASSUME NEW v \in Worker, step'[v] = "gone"
                 PROVE  closed /\ queued'[JobQueue(v)] = << >>
      BY <2>1 DEF PoolInv, GoneLast, JobQueue
    <3>1. v # w /\ step[v] = "gone"
      BY <1>1, <2>1
    <3>2. closed /\ queued[JobQueue(v)] = << >>
      BY <3>1 DEF PoolInv, GoneLast
    <3>3. JobQueue(v) # q
      BY <1>3, <1>waits, <3>2
    <3> QED BY <2>5, <3>2, <3>3, QueuesAre
  <2> QED BY <2>6, <2>7, <2>8, <2>9, <2>10 DEF PoolInv
<1> QED BY <1>2, <1>3

\* A step that leaves the queues alone and may close the core, drop what a job
\* holds, or move a worker to where it has not ended.
LEMMA OthersKeep ==
    ASSUME PoolInv, handles' \in Nat, closed' \in BOOLEAN, closed' => handles' = 0,
           closed => closed',
           UNCHANGED <<queued, submitted, ran>>,
           step' \in [Worker -> {"idle", "recv", "run", "drop", "reply", "gone"}],
           \A w \in Worker : step'[w] = "gone" => step[w] = "gone",
           job' \in [Worker -> [id : Nat, owns : BOOLEAN]],
           \A w \in Worker : job'[w].id = 0 \/ job'[w].id = job[w].id
    PROVE  PoolInv'
<1>1. PoolTyped'
  BY DEF PoolInv, PoolTyped
<1>2. InOrder' /\ NumberedOnce'
  <2>1. Submitted' = Submitted
    BY DEF Submitted
  <2> QED BY <2>1 DEF PoolInv, InOrder, NumberedOnce
<1>3. OwnJobs'
  BY DEF PoolInv, OwnJobs, JobQueue
<1>4. GoneLast'
  BY DEF PoolInv, GoneLast, JobQueue
<1> QED BY <1>1, <1>2, <1>3, <1>4 DEF PoolInv

LEMMA PoolStep == PoolInv /\ [PoolNext]_poolVars => PoolInv'
<1> SUFFICES ASSUME PoolInv, [PoolNext]_poolVars PROVE PoolInv'
  OBVIOUS
<1>0. /\ handles \in Nat /\ closed \in BOOLEAN /\ (closed => handles = 0)
      /\ step \in [Worker -> {"idle", "recv", "run", "drop", "reply", "gone"}]
      /\ job \in [Worker -> [id : Nat, owns : BOOLEAN]]
  BY DEF PoolInv, PoolTyped, GoneLast
<1>1. ASSUME CloneHandle PROVE PoolInv'
  <2>1. /\ handles' \in Nat /\ ~closed /\ UNCHANGED <<closed, step, job, queued, submitted, ran>>
    BY <1>0, <1>1 DEF CloneHandle
  <2> QED BY <1>0, <2>1, OthersKeep
<1>2. ASSUME ReleaseHandle PROVE PoolInv'
  <2>1. handles > 0 /\ handles' = handles - 1 /\ UNCHANGED <<step, job, queued, submitted, ran>>
    BY <1>2 DEF ReleaseHandle
  <2>2. ~closed /\ handles' \in Nat
    BY <1>0, <2>1
  <2>3. closed' \in BOOLEAN /\ (closed' => handles' = 0)
    <3>1. CASE handles = 1 /\ Owned = {}
      <4>1. handles' = 0 /\ closed' = TRUE
        BY <1>0, <1>2, <2>1, <3>1 DEF ReleaseHandle, DropCore
      <4> QED BY <4>1
    <3>2. CASE ~(handles = 1 /\ Owned = {})
      <4>1. closed' = closed
        BY <1>2, <3>2 DEF ReleaseHandle
      <4> QED BY <1>0, <2>2, <4>1
    <3> QED BY <3>1, <3>2
  <2> QED BY <1>0, <2>1, <2>2, <2>3, OthersKeep
<1>3. ASSUME NEW w \in Worker, LockReceiver(w) PROVE PoolInv'
  <2>1. step' = [step EXCEPT ![w] = "recv"] /\ UNCHANGED <<handles, closed, job, queued, submitted, ran>>
    BY <1>3 DEF LockReceiver
  <2>2. step' \in [Worker -> {"idle", "recv", "run", "drop", "reply", "gone"}]
        /\ \A v \in Worker : step'[v] = "gone" => step[v] = "gone"
    BY <1>0, <2>1
  <2> QED BY <1>0, <2>1, <2>2, OthersKeep
<1>4. ASSUME NEW w \in Worker, RunJob(w) PROVE PoolInv'
  <2>1. /\ job' = [job EXCEPT ![w].owns = FALSE] /\ UNCHANGED <<handles, queued, submitted, ran>>
        /\ step' = [step EXCEPT ![w] = "drop"] \/ step' = [step EXCEPT ![w] = "reply"]
        /\ closed' = closed \/ (closed' = TRUE /\ handles = 0)
    BY <1>4 DEF RunJob, DropCore
  <2>2. job' \in [Worker -> [id : Nat, owns : BOOLEAN]] /\ \A v \in Worker : job'[v].id = job[v].id
    <3>1. job \in [Worker -> [id : Nat, owns : BOOLEAN]]
      BY <1>0
    <3>2. PICK row : row = [job[w] EXCEPT !.owns = FALSE]
      OBVIOUS
    <3>3. row \in [id : Nat, owns : BOOLEAN] /\ row.id = job[w].id
      BY <3>1, <3>2
    <3>4. job' = [job EXCEPT ![w] = row]
      BY <2>1, <3>2
    <3> QED BY <3>1, <3>3, <3>4
  <2>3. step' \in [Worker -> {"idle", "recv", "run", "drop", "reply", "gone"}]
        /\ \A v \in Worker : step'[v] = "gone" => step[v] = "gone"
    BY <1>0, <2>1
  <2>4. handles' \in Nat /\ closed' \in BOOLEAN /\ (closed' => handles' = 0) /\ (closed => closed')
    <3>1. handles' = handles /\ handles \in Nat /\ closed \in BOOLEAN /\ (closed => handles = 0)
      BY <1>0, <2>1
    <3>2. CASE closed' = closed
      BY <3>1, <3>2
    <3>3. CASE closed' = TRUE /\ handles = 0
      BY <3>1, <3>3
    <3> QED BY <2>1, <3>2, <3>3
  <2>5. UNCHANGED <<queued, submitted, ran>>
    BY <2>1
  <2> QED BY <2>2, <2>3, <2>4, <2>5, OthersKeep
<1>5. ASSUME NEW w \in Worker, Answer(w) PROVE PoolInv'
  <2>1. /\ job' = [job EXCEPT ![w] = NoJob] /\ step' = [step EXCEPT ![w] = "idle"]
        /\ UNCHANGED <<handles, closed, queued, submitted, ran>>
    BY <1>5 DEF Answer
  <2>2. job' \in [Worker -> [id : Nat, owns : BOOLEAN]]
        /\ \A v \in Worker : job'[v].id = 0 \/ job'[v].id = job[v].id
    BY <1>0, <2>1 DEF NoJob
  <2>3. step' \in [Worker -> {"idle", "recv", "run", "drop", "reply", "gone"}]
        /\ \A v \in Worker : step'[v] = "gone" => step[v] = "gone"
    BY <1>0, <2>1
  <2> QED BY <1>0, <2>1, <2>2, <2>3, OthersKeep
<1>6. ASSUME JoinNext PROVE PoolInv'
  <2>1. step' = step \/ step' = [step EXCEPT ![dropper[1]] = "reply"]
    BY <1>6 DEF JoinNext
  <2>2. UNCHANGED <<handles, closed, job, queued, submitted, ran>>
    BY <1>6 DEF JoinNext
  <2>3. step' \in [Worker -> {"idle", "recv", "run", "drop", "reply", "gone"}]
        /\ \A v \in Worker : step'[v] = "gone" => step[v] = "gone"
    BY <1>0, <2>1
  <2> QED BY <1>0, <2>2, <2>3, OthersKeep
<1>7. CASE UNCHANGED poolVars
  <2>1. UNCHANGED <<handles, closed, step, job, queued, submitted, ran>>
    BY <1>7 DEF poolVars
  <2> QED BY <1>0, <2>1, OthersKeep
<1> QED BY <1>1, <1>2, <1>3, <1>4, <1>5, <1>6, <1>7, SubmitKeeps, ReceiveKeeps
        DEF PoolNext, WorkerStep

\* For any readers, jobs and handles: what has begun of the writes is the front
\* of what was submitted, at most the writer runs one of them, nothing begins
\* twice, and a worker ends only when its queue is closed and drained.  What is
\* submitted to a queue splits into what has begun and what waits, and both
\* queues number their jobs from one count.
THEOREM PoolStaysInOrder == PoolSpec => []PoolInOrder
<1>1. PoolInv => PoolInOrder
  <2> SUFFICES ASSUME PoolInv PROVE PoolInOrder
    OBVIOUS
  <2>1. \A q \in Queues : /\ queued[q] \in Seq(Jobs) /\ submitted[q] \in Seq(Nat \ {0})
                          /\ ran[q] \in Seq(Nat \ {0})
                          /\ QueueSplit(ran[q], queued[q], submitted[q])
    BY DEF PoolInv, PoolTyped, InOrder
  <2>2. \A q \in Queues : IsPrefix(ran[q], submitted[q])
    BY <2>1, SplitIsPrefix
  <2>3. \A q \in Queues : \A i \in DOMAIN ran[q] :
            i \in DOMAIN submitted[q] /\ submitted[q][i] = ran[q][i]
    <3> SUFFICES ASSUME NEW q \in Queues PROVE \A i \in DOMAIN ran[q] :
            i \in DOMAIN submitted[q] /\ submitted[q][i] = ran[q][i]
      OBVIOUS
    <3>1. \A begun, all \in Seq(Nat \ {0}), waits \in Seq(Jobs) : QueueSplit(begun, waits, all) =>
              \A i \in DOMAIN begun : i \in DOMAIN all /\ all[i] = begun[i]
      <4> SUFFICES ASSUME NEW begun \in Seq(Nat \ {0}), NEW all \in Seq(Nat \ {0}),
                          NEW waits \in Seq(Jobs), QueueSplit(begun, waits, all), NEW i \in DOMAIN begun
                   PROVE  i \in DOMAIN all /\ all[i] = begun[i]
        OBVIOUS
      <4>1. /\ Len(begun) \in Nat /\ DOMAIN begun = 1 .. Len(begun) /\ Len(waits) \in Nat
            /\ DOMAIN all = 1 .. Len(all) /\ Len(all) = Len(begun) + Len(waits)
            /\ \A k \in DOMAIN begun : all[k] = begun[k]
        BY LenProperties DEF QueueSplit
      <4> QED BY <4>1
    <3> QED BY <2>1, <3>1, Zenon
  <2>4. Cardinality(Running("writes")) <= 1
    <3>1. Running("writes") \subseteq {Writer}
      <4> SUFFICES ASSUME NEW w \in Worker, job[w].id \in ToSet(submitted["writes"])
                   PROVE  w = Writer
        BY DEF Running
      <4>1. PICK i \in DOMAIN submitted["writes"] : submitted["writes"][i] = job[w].id
        BY DEF ToSet
      <4>2. job[w].id # 0
        <5>1. submitted["writes"][i] \in Nat \ {0}
          BY <2>1, QueuesAre, ElementOfSeq
        <5> QED BY <4>1, <5>1
      <4>3. PICK k \in DOMAIN submitted[JobQueue(w)] : submitted[JobQueue(w)][k] = job[w].id
        BY <4>2 DEF PoolInv, OwnJobs
      <4>4. JobQueue(w) = "writes"
        BY <4>1, <4>3, QueuesAre DEF PoolInv, NumberedOnce
      <4> QED BY <4>4, QueuesAre
    <3>2. IsFiniteSet({Writer}) /\ Cardinality({Writer}) = 1
      BY FS_Singleton
    <3> QED BY <3>1, <3>2, FS_Subset
  <2>5. IsInjective(ran["reads"])
    <3> SUFFICES ASSUME NEW i \in DOMAIN ran["reads"], NEW k \in DOMAIN ran["reads"],
                        ran["reads"][i] = ran["reads"][k]
                 PROVE  i = k
      BY DEF IsInjective
    <3>1. i \in DOMAIN submitted["reads"] /\ k \in DOMAIN submitted["reads"]
          /\ submitted["reads"][i] = submitted["reads"][k]
      BY <2>3, QueuesAre
    <3> QED BY <3>1, QueuesAre DEF PoolInv, NumberedOnce
  <2>6. ToSet(ran["reads"]) \subseteq ToSet(submitted["reads"])
    BY <2>3, QueuesAre DEF ToSet
  <2>7. \A w \in Worker : step[w] = "gone" => closed /\ queued[JobQueue(w)] = << >>
    BY DEF PoolInv, GoneLast
  <2> QED BY <2>2, <2>4, <2>5, <2>6, <2>7, QueuesAre DEF PoolInOrder
<1> QED BY <1>1, PoolStarts, PoolStep, PTL DEF PoolSpec

-----------------------------------------------------------------------------
(* The core never stands still while it owes something.                    *)

\* A worker holds its queue's receiver exactly while it waits for a job.
ReceiverHeld ==
    /\ receiver \in [Queues -> Worker \union {Caller}]
    /\ \A q \in Queues : receiver[q] # Caller =>
           JobQueue(receiver[q]) = q /\ step[receiver[q]] = "recv"
    /\ \A w \in Worker : step[w] = "recv" => receiver[JobQueue(w)] = w

Begun(q, n) == \E i \in DOMAIN ran[q] : ran[q][i] = n
Waits(q, n) == \E k \in DOMAIN queued[q] : queued[q][k].id = n
InHand(q, n) == \E w \in Worker :
    JobQueue(w) = q /\ step[w] \in {"run", "drop", "reply"} /\ job[w].id = n

\* What a worker has in hand has begun, and no other worker has it.
JobsApart ==
    /\ \A w \in Worker : job[w].id # 0 => Begun(JobQueue(w), job[w].id)
    /\ \A v, w \in Worker : job[v].id # 0 /\ job[v].id = job[w].id => v = w
    /\ \A w \in Worker : job[w].owns => job[w].id # 0

\* A closed core has no handle left, in a queue or in a worker's hands.
NothingOwned ==
    closed => /\ \A q \in Queues : \A k \in DOMAIN queued[q] : ~queued[q][k].owns
              /\ \A w \in Worker : ~job[w].owns

\* The worker that drops the core waits for its joins, and nobody else does.
DropJoins ==
    /\ joins \in Seq(Worker) /\ (joins # << >> => closed)
    /\ joins # << >> /\ dropper[1] # Caller =>
           dropper[1] \in Worker /\ step[dropper[1]] = "drop"
    /\ \A w \in Worker : step[w] = "drop" => joins # << >> /\ dropper[1] = w

\* An unanswered job waits in its queue or a worker has it.
JobsAccounted ==
    \A q \in Queues : \A i \in DOMAIN submitted[q] :
        submitted[q][i] \in answered \/ Waits(q, submitted[q][i]) \/ InHand(q, submitted[q][i])

CoreRest == ReceiverHeld /\ JobsApart /\ NothingOwned /\ DropJoins /\ JobsAccounted
CoreInv  == PoolInv /\ CoreRest

LEMMA CoreTypes ==
    ASSUME CoreInv
    PROVE  /\ handles \in Nat /\ closed \in BOOLEAN /\ (closed => handles = 0)
           /\ step \in [Worker -> {"idle", "recv", "run", "drop", "reply", "gone"}]
           /\ job \in [Worker -> [id : Nat, owns : BOOLEAN]]
           /\ receiver \in [Queues -> Worker \union {Caller}]
           /\ joins \in Seq(Worker)
           /\ Caller \notin Worker
           /\ DOMAIN queued = Queues /\ DOMAIN ran = Queues /\ DOMAIN submitted = Queues
           /\ \A q \in Queues : queued[q] \in Seq(Jobs) /\ ran[q] \in Seq(Nat \ {0})
                                /\ submitted[q] \in Seq(Nat \ {0})
BY PoolAssumption DEF CoreInv, CoreRest, PoolInv, PoolTyped, GoneLast, ReceiverHeld, DropJoins, Worker

\* Where in the submissions what has begun stands, and what waits.
LEMMA SplitPlaces ==
    ASSUME NEW begun \in Seq(Nat \ {0}), NEW waits \in Seq(Jobs), NEW all \in Seq(Nat \ {0}),
           QueueSplit(begun, waits, all)
    PROVE  /\ \A i \in DOMAIN begun : i \in DOMAIN all /\ all[i] = begun[i] /\ i <= Len(begun)
           /\ \A k \in DOMAIN waits : /\ Len(begun) + k \in DOMAIN all
                                      /\ all[Len(begun) + k] = waits[k].id
                                      /\ ~(Len(begun) + k <= Len(begun))
<1>1. /\ Len(begun) \in Nat /\ DOMAIN begun = 1 .. Len(begun)
      /\ Len(waits) \in Nat /\ DOMAIN waits = 1 .. Len(waits)
      /\ DOMAIN all = 1 .. Len(all) /\ Len(all) = Len(begun) + Len(waits)
      /\ \A i \in DOMAIN begun : all[i] = begun[i]
      /\ \A k \in DOMAIN waits : all[Len(begun) + k] = waits[k].id
  BY LenProperties DEF QueueSplit
<1> PICK b : b = Len(begun)
  OBVIOUS
<1> PICK w : w = Len(waits)
  OBVIOUS
<1>2. b \in Nat /\ w \in Nat /\ DOMAIN begun = 1 .. b /\ DOMAIN waits = 1 .. w /\ DOMAIN all = 1 .. b + w
  BY <1>1
<1>3. \A i \in 1 .. b : i \in 1 .. b + w /\ i <= b
  BY <1>2
<1>4. \A k \in 1 .. w : b + k \in 1 .. b + w /\ ~(b + k <= b)
  BY <1>2
<1> QED BY <1>1, <1>2, <1>3, <1>4

\* What has begun no longer waits: every job has one place in one queue.
LEMMA BegunIsGone ==
    ASSUME PoolInv, NEW p \in Queues, NEW q \in Queues, NEW n, Begun(p, n), Waits(q, n)
    PROVE  FALSE
<1>1. PICK i \in DOMAIN ran[p] : ran[p][i] = n
  BY DEF Begun
<1>2. PICK k \in DOMAIN queued[q] : queued[q][k].id = n
  BY DEF Waits
<1>3. /\ \A begun, all \in Seq(Nat \ {0}), waits \in Seq(Jobs) : QueueSplit(begun, waits, all) =>
             \A l \in DOMAIN begun : l \in DOMAIN all /\ all[l] = begun[l] /\ l <= Len(begun)
      /\ \A begun, all \in Seq(Nat \ {0}), waits \in Seq(Jobs) : QueueSplit(begun, waits, all) =>
             \A l \in DOMAIN waits : /\ Len(begun) + l \in DOMAIN all
                                    /\ all[Len(begun) + l] = waits[l].id
                                    /\ ~(Len(begun) + l <= Len(begun))
  BY SplitPlaces
<1>4. \A r \in Queues : /\ ran[r] \in Seq(Nat \ {0}) /\ queued[r] \in Seq(Jobs)
                        /\ submitted[r] \in Seq(Nat \ {0})
                        /\ QueueSplit(ran[r], queued[r], submitted[r])
  BY DEF PoolInv, PoolTyped, InOrder
<1>5. i \in DOMAIN submitted[p] /\ submitted[p][i] = n /\ i <= Len(ran[p])
  <2>1. \A l \in DOMAIN ran[p] : /\ l \in DOMAIN submitted[p] /\ submitted[p][l] = ran[p][l]
                                /\ l <= Len(ran[p])
    BY <1>3, <1>4, Zenon
  <2> QED BY <1>1, <2>1, Zenon
<1>6. /\ Len(ran[q]) + k \in DOMAIN submitted[q] /\ submitted[q][Len(ran[q]) + k] = n
      /\ ~(Len(ran[q]) + k <= Len(ran[q]))
  <2>1. \A l \in DOMAIN queued[q] : /\ Len(ran[q]) + l \in DOMAIN submitted[q]
                                   /\ submitted[q][Len(ran[q]) + l] = queued[q][l].id
                                   /\ ~(Len(ran[q]) + l <= Len(ran[q]))
    BY <1>3, <1>4, Zenon
  <2> QED BY <1>2, <2>1, Zenon
<1>7. p = q /\ i = Len(ran[q]) + k
  <2>1. submitted[p][i] = submitted[q][Len(ran[q]) + k]
    BY <1>5, <1>6
  <2> QED BY <1>5, <1>6, <2>1 DEF PoolInv, NumberedOnce
<1>8. ~(i <= Len(ran[p]))
  BY <1>6, <1>7, Zenon
<1> QED BY <1>5, <1>8

\* A job that a step neither takes, drops nor answers stays where it is.
LEMMA HandsStay ==
    ASSUME \A w \in Worker : step[w] \in {"run", "drop", "reply"} =>
               step'[w] \in {"run", "drop", "reply"} /\ job'[w].id = job[w].id
    PROVE  \A q, n : InHand(q, n) => InHand(q, n)'
BY DEF InHand, JobQueue

LEMMA StillAccounted ==
    ASSUME JobsAccounted, UNCHANGED submitted, \A n \in answered : n \in answered',
           \A q \in Queues : \A n : Waits(q, n) => Waits(q, n)' \/ InHand(q, n)',
           \A q \in Queues : \A n : InHand(q, n) => InHand(q, n)' \/ n \in answered'
    PROVE  JobsAccounted'
BY DEF JobsAccounted

LEMMA WaitingStays == ASSUME UNCHANGED queued PROVE \A q, n : Waits(q, n) => Waits(q, n)'
BY DEF Waits

\* The joins of a drop: the writer's, then the readers'.
LEMMA JoinsAreWorkers ==
    ASSUME NEW all, all = <<Writer>> \o SetToSeq(Reader)
    PROVE  all \in Seq(Worker) /\ all # << >>
<1>1. Reader \subseteq Worker /\ Writer \in Worker /\ IsFiniteSet(Reader)
  BY PoolAssumption DEF Worker
<1>2. SetToSeq(Reader) \in Seq(Reader)
  <2> PICK n : n = Cardinality(Reader)
    OBVIOUS
  <2>1. n \in Nat /\ ExistsBijection(1 .. n, Reader)
    BY <1>1, FS_CardinalityType
  <2>2. \E f \in [1 .. n -> Reader] : IsInjective(f)
    BY <2>1 DEF ExistsBijection, Bijection, Injection
  <2> PICK f : f = SetToSeq(Reader)
    OBVIOUS
  <2>3. f \in [1 .. n -> Reader]
    BY <2>2 DEF SetToSeq
  <2>4. f \in Seq(Reader)
    BY <2>1, <2>3, IsASeq
  <2> QED BY <2>4
<1> PICK others : others = SetToSeq(Reader)
  OBVIOUS
<1>3. others \in Seq(Worker) /\ <<Writer>> \in Seq(Worker) /\ Len(<<Writer>>) = 1
  BY <1>1, <1>2
<1>4. all \in Seq(Worker) /\ Len(all) = 1 + Len(others) /\ Len(others) \in Nat
  BY <1>3, ConcatProperties, LenProperties
<1> QED BY <1>4, EmptySeq

-----------------------------------------------------------------------------
(* Step by step.                                                           *)

LEMMA CoreStarts == PoolInit => CoreInv
<1> SUFFICES ASSUME PoolInit PROVE CoreRest
  BY PoolStarts DEF CoreInv
<1>1. \A q \in Queues : queued[q] = << >> /\ submitted[q] = << >> /\ ran[q] = << >> /\ receiver[q] = Caller
  BY DEF PoolInit
<1>2. \A w \in Worker : step[w] = "idle" /\ job[w] = NoJob
  BY DEF PoolInit
<1>3. ReceiverHeld
  BY <1>1, <1>2 DEF PoolInit, ReceiverHeld
<1>4. JobsApart /\ NothingOwned
  BY <1>2 DEF PoolInit, JobsApart, NothingOwned, NoJob
<1>5. DropJoins
  BY <1>2, EmptySeq DEF PoolInit, DropJoins
<1>6. JobsAccounted
  BY <1>1 DEF JobsAccounted
<1> QED BY <1>3, <1>4, <1>5, <1>6 DEF CoreRest

LEMMA SubmitKeepsCore ==
    ASSUME CoreInv, NEW queue \in Queues, NEW owns \in BOOLEAN, Submit(queue, owns)
    PROVE  CoreRest'
<1> PICK n : n = Submitted + 1
  OBVIOUS
<1> PICK j : j = [id |-> n, owns |-> owns]
  OBVIOUS
<1> PICK waits : waits = queued[queue]
  OBVIOUS
<1> PICK all : all = submitted[queue]
  OBVIOUS
<1>1. /\ handles > 0
      /\ queued' = [queued EXCEPT ![queue] = Append(waits, j)]
      /\ submitted' = [submitted EXCEPT ![queue] = Append(all, n)]
      /\ UNCHANGED <<handles, closed, receiver, step, job, dropper, joins, ran, answered>>
  BY DEF Submit
<1>2. ~closed
  BY <1>1, CoreTypes
<1>3. ReceiverHeld' /\ JobsApart' /\ DropJoins'
  BY <1>1 DEF CoreInv, CoreRest, ReceiverHeld, JobsApart, DropJoins, Begun, JobQueue
<1>4. NothingOwned'
  BY <1>1, <1>2 DEF NothingOwned
<1>5. n \in Nat \ {0} /\ j \in Jobs /\ j.id = n
  <2> PICK a : a = submitted["writes"]
    OBVIOUS
  <2> PICK b : b = submitted["reads"]
    OBVIOUS
  <2>1. Submitted \in Nat
    BY CoreTypes, QueuesAre, SubmittedIsCounted
  <2> QED BY <2>1 DEF Jobs
<1>6. /\ waits \in Seq(Jobs) /\ all \in Seq(Nat \ {0})
      /\ queued'[queue] = Append(waits, j) /\ submitted'[queue] = Append(all, n)
      /\ \A q \in Queues : q # queue => queued'[q] = queued[q] /\ submitted'[q] = submitted[q]
  BY <1>1, CoreTypes
<1> PICK waits2 : waits2 = Append(waits, j)
  OBVIOUS
<1> PICK all2 : all2 = Append(all, n)
  OBVIOUS
<1>7. /\ Len(waits) + 1 \in DOMAIN waits2 /\ waits2[Len(waits) + 1] = j
      /\ \A k \in DOMAIN waits : k \in DOMAIN waits2 /\ waits2[k] = waits[k]
  <2>1. /\ Len(waits) \in Nat /\ DOMAIN waits = 1 .. Len(waits)
        /\ DOMAIN waits2 = 1 .. Len(waits) + 1 /\ waits2[Len(waits) + 1] = j
        /\ \A k \in DOMAIN waits : waits2[k] = waits[k]
    BY <1>5, <1>6, AppendRow
  <2> QED BY <2>1
<1>8. \A i \in DOMAIN all2 : all2[i] = n \/ (i \in DOMAIN all /\ all2[i] = all[i])
  <2>1. /\ Len(all) \in Nat /\ DOMAIN all = 1 .. Len(all)
        /\ DOMAIN all2 = 1 .. Len(all) + 1 /\ all2[Len(all) + 1] = n
        /\ \A i \in DOMAIN all : all2[i] = all[i]
    BY <1>5, <1>6, AppendRow
  <2> QED BY <2>1
<1>9. Waits(queue, n)' /\ \A q \in Queues : \A m : Waits(q, m) => Waits(q, m)'
  <2>1. queued'[queue] = waits2 /\ queued[queue] = waits
    BY <1>6
  <2>2. Waits(queue, n)' /\ \A m : Waits(queue, m) => Waits(queue, m)'
    BY <1>5, <1>7, <2>1 DEF Waits
  <2>3. \A q \in Queues : q # queue => \A m : Waits(q, m) => Waits(q, m)'
    BY <1>6 DEF Waits
  <2> QED BY <2>2, <2>3
<1>10. \A q \in Queues : \A m : InHand(q, m) => InHand(q, m)'
  BY <1>1, HandsStay
<1>11. JobsAccounted'
  <2> SUFFICES ASSUME NEW q \in Queues, NEW i \in DOMAIN submitted'[q], NEW m, m = submitted'[q][i]
               PROVE  m \in answered' \/ Waits(q, m)' \/ InHand(q, m)'
    BY DEF JobsAccounted
  <2>1. CASE q = queue /\ m = n
    BY <1>9, <2>1
  <2>2. CASE i \in DOMAIN submitted[q] /\ m = submitted[q][i]
    <3>1. m \in answered \/ Waits(q, m) \/ InHand(q, m)
      BY <2>2 DEF CoreInv, CoreRest, JobsAccounted
    <3> QED BY <1>1, <1>9, <1>10, <3>1
  <2>3. (q = queue /\ m = n) \/ (i \in DOMAIN submitted[q] /\ m = submitted[q][i])
    <3>1. CASE q = queue
      <4>1. submitted'[q] = all2 /\ submitted[q] = all
        BY <1>6, <3>1
      <4> QED BY <1>8, <3>1, <4>1
    <3>2. CASE q # queue
      BY <1>6, <3>2
    <3> QED BY <3>1, <3>2
  <2> QED BY <2>1, <2>2, <2>3
<1> QED BY <1>3, <1>4, <1>11 DEF CoreRest

LEMMA CloneKeepsCore == ASSUME CoreInv, CloneHandle PROVE CoreRest'
<1>1. UNCHANGED <<queued, closed, receiver, step, job, dropper, joins, submitted, ran, answered>>
  BY DEF CloneHandle
<1> QED BY <1>1 DEF CoreInv, CoreRest, ReceiverHeld, JobsApart, NothingOwned, DropJoins,
                    JobsAccounted, Begun, Waits, InHand, JobQueue

\* Owned has every handle that a job holds.
LEMMA OwnedHolds ==
    /\ \A q \in Queues : \A k \in DOMAIN queued[q] : queued[q][k].owns => queued[q][k].id \in Owned
    /\ \A w \in Worker : job[w].owns => job[w].id \in Owned
<1>1. ASSUME NEW q \in Queues, NEW k \in DOMAIN queued[q], queued[q][k].owns
      PROVE  queued[q][k].id \in Owned
  <2>1. queued[q][k] \in {i \in ToSet(queued[q]) : i.owns}
    BY <1>1 DEF ToSet
  <2>2. queued[q][k].id \in {j.id : j \in {i \in ToSet(queued[q]) : i.owns}}
    BY <2>1
  <2> QED BY <2>2 DEF Owned
<1>2. ASSUME NEW w \in Worker, job[w].owns PROVE job[w].id \in Owned
  <2>1. w \in {v \in Worker : job[v].owns}
    BY <1>2
  <2>2. job[w].id \in {job[v].id : v \in {u \in Worker : job[u].owns}}
    BY <2>1
  <2> QED BY <2>2, Zenon DEF Owned
<1> QED BY <1>1, <1>2

\* A core that is open joins nothing, and no worker waits for joins.
LEMMA OpenJoinsNothing == ASSUME CoreInv, ~closed PROVE joins = << >> /\ \A w \in Worker : step[w] # "drop"
BY DEF CoreInv, CoreRest, DropJoins

LEMMA ReleaseKeepsCore == ASSUME CoreInv, ReleaseHandle PROVE CoreRest'
<1>1. /\ handles > 0
      /\ UNCHANGED <<queued, receiver, step, job, submitted, ran, answered>>
      /\ \/ Owned = {} /\ DropCore(Caller)
         \/ UNCHANGED <<closed, dropper, joins>>
  BY DEF ReleaseHandle
<1>2. ReceiverHeld' /\ JobsApart' /\ JobsAccounted'
  BY <1>1 DEF CoreInv, CoreRest, ReceiverHeld, JobsApart, JobsAccounted, Begun, Waits, InHand, JobQueue
<1>3. CASE Owned = {} /\ DropCore(Caller)
  <2>1. ~closed
    BY <1>1, CoreTypes
  <2>2. NothingOwned'
    BY <1>1, <1>3, OwnedHolds DEF NothingOwned
  <2>3. closed' /\ dropper' = <<Caller>> /\ joins' \in Seq(Worker)
    BY <1>3, JoinsAreWorkers DEF DropCore
  <2>4. DropJoins'
    BY <1>1, <2>1, <2>3, OpenJoinsNothing DEF DropJoins
  <2> QED BY <1>2, <2>2, <2>4 DEF CoreRest
<1>4. CASE UNCHANGED <<closed, dropper, joins>>
  BY <1>1, <1>2, <1>4 DEF CoreInv, CoreRest, NothingOwned, DropJoins
<1> QED BY <1>1, <1>3, <1>4

LEMMA LockKeepsCore == ASSUME CoreInv, NEW w \in Worker, LockReceiver(w) PROVE CoreRest'
<1>1. /\ step[w] = "idle" /\ receiver[JobQueue(w)] = Caller
      /\ receiver' = [receiver EXCEPT ![JobQueue(w)] = w]
      /\ step' = [step EXCEPT ![w] = "recv"]
      /\ UNCHANGED <<handles, queued, closed, job, dropper, joins, submitted, ran, answered>>
  BY DEF LockReceiver
<1>2. /\ step'[w] = "recv" /\ \A v \in Worker : v # w => step'[v] = step[v]
      /\ JobQueue(w) \in Queues /\ receiver'[JobQueue(w)] = w
      /\ \A q \in Queues : q # JobQueue(w) => receiver'[q] = receiver[q]
      /\ receiver' \in [Queues -> Worker \union {Caller}]
  BY <1>1, CoreTypes, QueuesAre
<1>3. ReceiverHeld'
  <2>1. \A q \in Queues : receiver'[q] # Caller => JobQueue(receiver'[q]) = q /\ step'[receiver'[q]] = "recv"
    <3> SUFFICES ASSUME NEW q \in Queues, receiver'[q] # Caller
                 PROVE  JobQueue(receiver'[q]) = q /\ step'[receiver'[q]] = "recv"
      OBVIOUS
    <3>1. CASE q = JobQueue(w)
      BY <1>2, <3>1
    <3>2. CASE q # JobQueue(w)
      <4>1. receiver'[q] = receiver[q] /\ receiver[q] \in Worker
        BY <1>2, <3>2, CoreTypes
      <4>2. JobQueue(receiver[q]) = q /\ step[receiver[q]] = "recv"
        BY <4>1 DEF CoreInv, CoreRest, ReceiverHeld
      <4> QED BY <1>1, <1>2, <4>1, <4>2
    <3> QED BY <3>1, <3>2
  <2>2. \A v \in Worker : step'[v] = "recv" => receiver'[JobQueue(v)] = v
    <3> SUFFICES ASSUME NEW v \in Worker, v # w, step[v] = "recv" PROVE receiver'[JobQueue(v)] = v
      BY <1>2
    <3>1. receiver[JobQueue(v)] = v
      BY DEF CoreInv, CoreRest, ReceiverHeld
    <3>2. JobQueue(v) # JobQueue(w)
      BY <1>1, <3>1, CoreTypes
    <3> QED BY <1>2, <3>1, <3>2, QueuesAre
  <2> QED BY <1>2, <2>1, <2>2 DEF ReceiverHeld, JobQueue
<1>4. JobsApart' /\ NothingOwned'
  BY <1>1 DEF CoreInv, CoreRest, JobsApart, NothingOwned, Begun, JobQueue
<1>5. DropJoins'
  BY <1>1, <1>2 DEF CoreInv, CoreRest, DropJoins
<1>6. JobsAccounted'
  <2>1. \A q, n : InHand(q, n) => InHand(q, n)'
    BY <1>1, <1>2, HandsStay
  <2>2. \A q, n : Waits(q, n) => Waits(q, n)'
    BY <1>1, WaitingStays
  <2> QED BY <1>1, <2>1, <2>2, StillAccounted DEF CoreInv, CoreRest
<1> QED BY <1>3, <1>4, <1>5, <1>6 DEF CoreRest

\* The worker that received lets the receiver go, and it alone.
LEMMA ReceiverFreed ==
    ASSUME CoreInv, NEW w \in Worker, step[w] = "recv",
           receiver' = [receiver EXCEPT ![JobQueue(w)] = Caller],
           NEW place \in {"run", "gone"}, step' = [step EXCEPT ![w] = place]
    PROVE  ReceiverHeld'
<1>1. receiver[JobQueue(w)] = w /\ JobQueue(w) \in Queues
  BY QueuesAre DEF CoreInv, CoreRest, ReceiverHeld
<1>2. /\ step'[w] # "recv" /\ \A v \in Worker : v # w => step'[v] = step[v]
      /\ receiver'[JobQueue(w)] = Caller
      /\ \A q \in Queues : q # JobQueue(w) => receiver'[q] = receiver[q]
      /\ receiver' \in [Queues -> Worker \union {Caller}]
  BY <1>1, CoreTypes
<1>3. ASSUME NEW q \in Queues, receiver'[q] # Caller
      PROVE  JobQueue(receiver'[q]) = q /\ step'[receiver'[q]] = "recv"
  <2>1. q # JobQueue(w) /\ receiver'[q] = receiver[q] /\ receiver[q] \in Worker
    BY <1>2, <1>3, CoreTypes
  <2>2. JobQueue(receiver[q]) = q /\ step[receiver[q]] = "recv"
    BY <1>3, <2>1 DEF CoreInv, CoreRest, ReceiverHeld
  <2> QED BY <1>2, <2>1, <2>2
<1>4. ASSUME NEW v \in Worker, step'[v] = "recv" PROVE receiver'[JobQueue(v)] = v
  <2>1. v # w /\ step[v] = "recv"
    BY <1>2, <1>4
  <2>2. receiver[JobQueue(v)] = v
    BY <2>1 DEF CoreInv, CoreRest, ReceiverHeld
  <2>3. JobQueue(v) # JobQueue(w)
    BY <1>1, <2>1, <2>2
  <2> QED BY <1>2, <2>2, <2>3, QueuesAre
<1> QED BY <1>2, <1>3, <1>4 DEF ReceiverHeld, JobQueue

\* A step that moves only workers that are elsewhere leaves the receivers.
LEMMA ReceiversStay ==
    ASSUME CoreInv, UNCHANGED receiver,
           \A w \in Worker : step'[w] = "recv" <=> step[w] = "recv"
    PROVE  ReceiverHeld'
<1>1. \A q \in Queues : receiver[q] # Caller => receiver[q] \in Worker
  BY CoreTypes
<1> QED BY <1>1 DEF CoreInv, CoreRest, ReceiverHeld, JobQueue

LEMMA EndingKeepsCore ==
    ASSUME CoreInv, NEW w \in Worker, Receive(w), queued[JobQueue(w)] = << >>
    PROVE  CoreRest'
<1>1. /\ step[w] = "recv" /\ receiver' = [receiver EXCEPT ![JobQueue(w)] = Caller]
      /\ step' = [step EXCEPT ![w] = "gone"]
      /\ UNCHANGED <<handles, closed, dropper, joins, submitted, answered, job, queued, ran>>
  BY DEF Receive
<1>2. step'[w] = "gone" /\ \A v \in Worker : v # w => step'[v] = step[v]
  BY <1>1, CoreTypes
<1>3. ReceiverHeld'
  BY <1>1, ReceiverFreed
<1>4. JobsApart' /\ NothingOwned'
  BY <1>1 DEF CoreInv, CoreRest, JobsApart, NothingOwned, Begun, JobQueue
<1>5. DropJoins'
  BY <1>1, <1>2 DEF CoreInv, CoreRest, DropJoins
<1>6. JobsAccounted'
  <2>1. \A q, n : InHand(q, n) => InHand(q, n)'
    BY <1>1, <1>2, HandsStay
  <2>2. \A q, n : Waits(q, n) => Waits(q, n)'
    BY <1>1, WaitingStays
  <2> QED BY <1>1, <2>1, <2>2, StillAccounted DEF CoreInv, CoreRest
<1> QED BY <1>3, <1>4, <1>5, <1>6 DEF CoreRest

LEMMA TakingKeepsCore ==
    ASSUME CoreInv, NEW w \in Worker, Receive(w), queued[JobQueue(w)] # << >>
    PROVE  CoreRest'
<1> PICK q : q = JobQueue(w)
  OBVIOUS
<1>0. q \in Queues /\ JobQueue(w) \in Queues
  BY QueuesAre
<1> PICK waits : waits = queued[q]
  OBVIOUS
<1> PICK begun : begun = ran[q]
  OBVIOUS
<1> PICK j : j = Head(waits)
  OBVIOUS
<1>1. /\ step[w] = "recv" /\ receiver' = [receiver EXCEPT ![JobQueue(w)] = Caller]
      /\ job' = [job EXCEPT ![w] = j] /\ queued' = [queued EXCEPT ![q] = Tail(waits)]
      /\ ran' = [ran EXCEPT ![q] = Append(begun, j.id)] /\ step' = [step EXCEPT ![w] = "run"]
      /\ UNCHANGED <<handles, closed, dropper, joins, submitted, answered>>
  BY <1>0, CoreTypes DEF Receive
<1>2. waits \in Seq(Jobs) /\ waits # << >> /\ begun \in Seq(Nat \ {0})
  BY <1>0, CoreTypes
<1> PICK rest : rest = Tail(waits)
  OBVIOUS
<1>3. /\ j \in Jobs /\ 1 \in DOMAIN waits /\ waits[1] = j
      /\ \A k \in DOMAIN waits : waits[k] = j \/ \E l \in DOMAIN rest : rest[l] = waits[k]
      /\ \A l \in DOMAIN rest : l + 1 \in DOMAIN waits /\ rest[l] = waits[l + 1]
  <2>1. /\ Len(waits) \in Nat \ {0} /\ DOMAIN waits = 1 .. Len(waits) /\ 1 \in DOMAIN waits
        /\ j = waits[1] /\ j \in Jobs /\ DOMAIN rest = 1 .. Len(waits) - 1
        /\ \A k \in DOMAIN rest : k + 1 \in DOMAIN waits /\ rest[k] = waits[k + 1]
    BY <1>2, TakeFirst
  <2>2. ASSUME NEW k \in DOMAIN waits, k # 1 PROVE \E l \in DOMAIN rest : rest[l] = waits[k]
    <3>1. k - 1 \in DOMAIN rest /\ (k - 1) + 1 = k
      BY <2>1, <2>2
    <3>2. rest[k - 1] = waits[k]
      BY <2>1, <3>1
    <3> QED BY <3>1, <3>2
  <2> QED BY <2>1, <2>2
<1>4. j.id \in Nat \ {0} /\ j.id # 0
  BY <1>3 DEF Jobs
<1> PICK n : n = j.id
  OBVIOUS
<1> PICK begun2 : begun2 = Append(begun, n)
  OBVIOUS
<1>5. /\ \E i \in DOMAIN begun2 : begun2[i] = n
      /\ \A i \in DOMAIN begun : i \in DOMAIN begun2 /\ begun2[i] = begun[i]
  <2>1. /\ Len(begun) \in Nat /\ DOMAIN begun = 1 .. Len(begun)
        /\ DOMAIN begun2 = 1 .. Len(begun) + 1 /\ begun2[Len(begun) + 1] = n
        /\ \A i \in DOMAIN begun : begun2[i] = begun[i]
    BY <1>2, <1>4, AppendRow
  <2>2. Len(begun) + 1 \in DOMAIN begun2 /\ \A i \in DOMAIN begun : i \in DOMAIN begun2
    BY <2>1
  <2> QED BY <2>1, <2>2
<1>6. /\ queued'[q] = rest /\ ran'[q] = begun2
      /\ \A p \in Queues : p # q => queued'[p] = queued[p] /\ ran'[p] = ran[p]
      /\ job'[w] = j /\ step'[w] = "run"
      /\ \A v \in Worker : v # w => job'[v] = job[v] /\ step'[v] = step[v]
  BY <1>0, <1>1, CoreTypes
<1>7. Waits(q, n)
  BY <1>3 DEF Waits
<1>8. Begun(q, n)' /\ \A p \in Queues : \A m : Begun(p, m) => Begun(p, m)'
  <2>1. Begun(q, n)'
    BY <1>5, <1>6 DEF Begun
  <2>2. ASSUME NEW p \in Queues, NEW m, Begun(p, m) PROVE Begun(p, m)'
    <3>1. PICK i \in DOMAIN ran[p] : ran[p][i] = m
      BY <2>2 DEF Begun
    <3>2. i \in DOMAIN ran'[p] /\ ran'[p][i] = m
      <4>1. CASE p = q
        <5>1. i \in DOMAIN begun /\ begun[i] = m
          BY <3>1, <4>1
        <5>2. i \in DOMAIN begun2 /\ begun2[i] = m
          BY <1>5, <5>1
        <5> QED BY <1>6, <4>1, <5>2
      <4>2. CASE p # q
        BY <1>6, <3>1, <4>2
      <4> QED BY <4>1, <4>2
    <3> QED BY <3>2 DEF Begun
  <2> QED BY <2>1, <2>2
<1>9. \A p \in Queues : ~Begun(p, n)
  <2> SUFFICES ASSUME NEW p \in Queues, Begun(p, n) PROVE FALSE
    OBVIOUS
  <2>1. PoolInv /\ q \in Queues /\ Begun(p, n) /\ Waits(q, n)
    BY <1>0, <1>7 DEF CoreInv
  <2> QED BY <2>1, BegunIsGone
<1>10. \A v \in Worker : job[v].id # 0 => job[v].id # n
  BY <1>9, QueuesAre DEF CoreInv, CoreRest, JobsApart
<1>11. ReceiverHeld'
  BY <1>1, ReceiverFreed
<1>12. JobsApart'
  <2>1. ASSUME NEW v \in Worker, NEW m, m = job'[v].id, m # 0 PROVE Begun(JobQueue(v), m)'
    <3>1. CASE v = w
      <4>1. m = n
        BY <1>6, <2>1, <3>1
      <4> QED BY <1>8, <3>1, <4>1 DEF JobQueue
    <3>2. CASE v # w
      <4>1. m = job[v].id
        BY <1>6, <2>1, <3>2
      <4>2. Begun(JobQueue(v), m)
        BY <2>1, <4>1 DEF CoreInv, CoreRest, JobsApart
      <4> QED BY <1>8, <4>2, QueuesAre DEF JobQueue
    <3> QED BY <3>1, <3>2
  <2>2. \A v, u \in Worker : job'[v].id # 0 /\ job'[v].id = job'[u].id => v = u
    <3> SUFFICES ASSUME NEW v \in Worker, NEW u \in Worker, job'[v].id # 0, job'[v].id = job'[u].id
                 PROVE  v = u
      OBVIOUS
    <3>1. CASE v = w /\ u # w
      <4>1. job'[v].id = n /\ job'[u].id = job[u].id
        BY <1>6, <3>1
      <4> QED BY <1>4, <1>10, <4>1
    <3>2. CASE v # w /\ u = w
      <4>1. job'[u].id = n /\ job'[v].id = job[v].id
        BY <1>6, <3>2
      <4> QED BY <1>4, <1>10, <4>1
    <3>3. CASE v # w /\ u # w
      <4>1. job'[u].id = job[u].id /\ job'[v].id = job[v].id
        BY <1>6, <3>3
      <4> QED BY <4>1 DEF CoreInv, CoreRest, JobsApart
    <3> QED BY <3>1, <3>2, <3>3
  <2>3. \A v \in Worker : job'[v].owns => job'[v].id # 0
    BY <1>4, <1>6 DEF CoreInv, CoreRest, JobsApart
  <2> QED BY <2>1, <2>2, <2>3 DEF JobsApart
<1>13. NothingOwned'
  <2> SUFFICES ASSUME closed PROVE /\ \A p \in Queues : \A k \in DOMAIN queued'[p] : ~queued'[p][k].owns
                                   /\ \A v \in Worker : ~job'[v].owns
    BY <1>1 DEF NothingOwned
  <2>1. /\ \A p \in Queues : \A k \in DOMAIN queued[p] : ~queued[p][k].owns
        /\ \A v \in Worker : ~job[v].owns
    BY DEF CoreInv, CoreRest, NothingOwned
  <2>2. /\ \A k \in DOMAIN waits : ~waits[k].owns
        /\ ~j.owns
    BY <1>0, <1>3, <2>1
  <2>3. \A k \in DOMAIN rest : ~rest[k].owns
    BY <1>3, <2>2
  <2>4. ASSUME NEW p \in Queues PROVE \A k \in DOMAIN queued'[p] : ~queued'[p][k].owns
    <3>1. CASE p = q
      BY <1>6, <2>3, <3>1
    <3>2. CASE p # q
      BY <1>6, <2>1, <3>2
    <3> QED BY <3>1, <3>2
  <2>5. \A v \in Worker : ~job'[v].owns
    BY <1>6, <2>1, <2>2
  <2> QED BY <2>4, <2>5
<1>14. DropJoins'
  BY <1>1, <1>6 DEF CoreInv, CoreRest, DropJoins
<1>15. JobsAccounted'
  <2>1. \A p \in Queues : \A m : InHand(p, m) => InHand(p, m)'
    <3>1. \A v \in Worker : step[v] \in {"run", "drop", "reply"} =>
              step'[v] \in {"run", "drop", "reply"} /\ job'[v].id = job[v].id
      BY <1>1, <1>6
    <3> QED BY <3>1, HandsStay
  <2>2. InHand(q, n)'
    BY <1>6 DEF InHand, JobQueue
  <2>3. \A m : Waits(q, m) => Waits(q, m)' \/ InHand(q, m)'
    <3> SUFFICES ASSUME NEW m, Waits(q, m), m # n PROVE Waits(q, m)'
      BY <2>2
    <3>1. PICK k \in DOMAIN waits : waits[k].id = m
      BY DEF Waits
    <3>2. PICK l \in DOMAIN rest : rest[l] = waits[k]
      BY <1>3, <3>1
    <3> QED BY <1>6, <3>1, <3>2 DEF Waits
  <2>4. \A p \in Queues : p # q => \A m : Waits(p, m) => Waits(p, m)'
    BY <1>6 DEF Waits
  <2>5. \A p \in Queues : \A m : Waits(p, m) => Waits(p, m)' \/ InHand(p, m)'
    BY <2>3, <2>4
  <2> QED BY <1>1, <2>1, <2>5, StillAccounted DEF CoreInv, CoreRest
<1> QED BY <1>11, <1>12, <1>13, <1>14, <1>15 DEF CoreRest

\* The job's captures are dropped on its worker; when it held the last handle,
\* no other job holds one, and the core was open until then.
LEMMA RunKeepsCore == ASSUME CoreInv, NEW w \in Worker, RunJob(w) PROVE CoreRest'
<1>1. /\ step[w] = "run" /\ job' = [job EXCEPT ![w].owns = FALSE]
      /\ \/ job[w].owns /\ Owned = {job[w].id} /\ DropCore(w) /\ step' = [step EXCEPT ![w] = "drop"]
         \/ step' = [step EXCEPT ![w] = "reply"] /\ UNCHANGED <<closed, dropper, joins>>
      /\ UNCHANGED <<handles, queued, receiver, submitted, ran, answered>>
  BY DEF RunJob
<1>2. /\ step'[w] \in {"drop", "reply"} /\ \A v \in Worker : v # w => step'[v] = step[v]
      /\ \A v \in Worker : v # w => job'[v] = job[v]
      /\ \A v \in Worker : job'[v].id = job[v].id /\ (job'[v].owns => job[v].owns)
      /\ ~job'[w].owns
  <2>1. step \in [Worker -> {"idle", "recv", "run", "drop", "reply", "gone"}]
    BY CoreTypes
  <2>2. job \in [Worker -> [id : Nat, owns : BOOLEAN]]
    BY CoreTypes
  <2> PICK row : row = [job[w] EXCEPT !.owns = FALSE]
    OBVIOUS
  <2>3. row.id = job[w].id /\ row.owns = FALSE /\ job' = [job EXCEPT ![w] = row]
    BY <1>1, <2>2
  <2> QED BY <1>1, <2>1, <2>2, <2>3
<1>3. ReceiverHeld'
  <2>1. \A v \in Worker : step'[v] = "recv" <=> step[v] = "recv"
    BY <1>1, <1>2
  <2> QED BY <1>1, <2>1, ReceiversStay
<1>4. JobsApart'
  BY <1>1, <1>2 DEF CoreInv, CoreRest, JobsApart, Begun, JobQueue
<1>5. JobsAccounted'
  <2>1. \A v \in Worker : step[v] \in {"run", "drop", "reply"} =>
              step'[v] \in {"run", "drop", "reply"} /\ job'[v].id = job[v].id
    BY <1>1, <1>2
  <2>2. \A q, n : InHand(q, n) => InHand(q, n)'
    BY <2>1, HandsStay
  <2>3. \A q, n : Waits(q, n) => Waits(q, n)'
    BY <1>1, WaitingStays
  <2> QED BY <1>1, <2>2, <2>3, StillAccounted DEF CoreInv, CoreRest
<1>6. CASE job[w].owns /\ Owned = {job[w].id} /\ DropCore(w) /\ step' = [step EXCEPT ![w] = "drop"]
  <2>1. ~closed
    BY <1>6 DEF CoreInv, CoreRest, NothingOwned
  <2>2. job[w].id # 0 /\ Begun(JobQueue(w), job[w].id)
    BY <1>6 DEF CoreInv, CoreRest, JobsApart
  <2>3. \A v \in Worker : v # w => ~job[v].owns
    <3> SUFFICES ASSUME NEW v \in Worker, job[v].owns PROVE v = w
      OBVIOUS
    <3>1. job[v].id = job[w].id
      BY <1>6, OwnedHolds
    <3> QED BY <2>2, <3>1 DEF CoreInv, CoreRest, JobsApart
  <2>4. \A q \in Queues : \A k \in DOMAIN queued[q] : ~queued[q][k].owns
    <3> SUFFICES ASSUME NEW q \in Queues, NEW k \in DOMAIN queued[q], queued[q][k].owns PROVE FALSE
      OBVIOUS
    <3>1. queued[q][k].id = job[w].id
      BY <1>6, OwnedHolds
    <3>2. Waits(q, job[w].id)
      BY <3>1 DEF Waits
    <3> QED BY <2>2, <3>2, QueuesAre, BegunIsGone DEF CoreInv
  <2>5. NothingOwned'
    BY <1>1, <1>2, <2>3, <2>4 DEF NothingOwned
  <2>6. closed' /\ dropper' = <<w>> /\ joins' \in Seq(Worker) /\ joins' # << >>
    BY <1>6, JoinsAreWorkers DEF DropCore
  <2>7. step'[w] = "drop" /\ \A v \in Worker : step[v] # "drop"
    BY <1>6, <2>1, CoreTypes, OpenJoinsNothing
  <2>8. DropJoins'
    BY <1>2, <2>6, <2>7 DEF DropJoins
  <2> QED BY <1>3, <1>4, <1>5, <2>5, <2>8 DEF CoreRest
<1>7. CASE step' = [step EXCEPT ![w] = "reply"] /\ UNCHANGED <<closed, dropper, joins>>
  <2>1. step'[w] = "reply"
    BY <1>7, CoreTypes
  <2>2. NothingOwned'
    BY <1>1, <1>2, <1>7 DEF CoreInv, CoreRest, NothingOwned
  <2>3. DropJoins'
    BY <1>1, <1>2, <1>7, <2>1 DEF CoreInv, CoreRest, DropJoins
  <2> QED BY <1>3, <1>4, <1>5, <2>2, <2>3 DEF CoreRest
<1> QED BY <1>1, <1>6, <1>7

LEMMA AnswerKeepsCore == ASSUME CoreInv, NEW w \in Worker, Answer(w) PROVE CoreRest'
<1>1. /\ step[w] = "reply" /\ answered' = answered \union {job[w].id}
      /\ job' = [job EXCEPT ![w] = NoJob] /\ step' = [step EXCEPT ![w] = "idle"]
      /\ UNCHANGED <<handles, queued, closed, receiver, dropper, joins, submitted, ran>>
  BY DEF Answer
<1>2. /\ step'[w] = "idle" /\ job'[w] = NoJob
      /\ \A v \in Worker : v # w => step'[v] = step[v] /\ job'[v] = job[v]
  BY <1>1, CoreTypes
<1>3. ReceiverHeld'
  <2>1. \A v \in Worker : step'[v] = "recv" <=> step[v] = "recv"
    BY <1>1, <1>2
  <2> QED BY <1>1, <2>1, ReceiversStay
<1>4. JobsApart'
  BY <1>1, <1>2 DEF CoreInv, CoreRest, JobsApart, Begun, JobQueue, NoJob
<1>5. NothingOwned'
  BY <1>1, <1>2 DEF CoreInv, CoreRest, NothingOwned, NoJob
<1>6. DropJoins'
  BY <1>1, <1>2 DEF CoreInv, CoreRest, DropJoins
<1>7. JobsAccounted'
  <2>1. ASSUME NEW q \in Queues, NEW n, InHand(q, n) PROVE InHand(q, n)' \/ n \in answered'
    <3>1. PICK v \in Worker : JobQueue(v) = q /\ step[v] \in {"run", "drop", "reply"} /\ job[v].id = n
      BY <2>1 DEF InHand
    <3>2. CASE v = w
      BY <1>1, <3>1, <3>2
    <3>3. CASE v # w
      BY <1>2, <3>1, <3>3 DEF InHand, JobQueue
    <3> QED BY <3>2, <3>3
  <2>2. \A q, n : Waits(q, n) => Waits(q, n)'
    BY <1>1, WaitingStays
  <2> QED BY <1>1, <2>1, <2>2, StillAccounted DEF CoreInv, CoreRest
<1> QED BY <1>3, <1>4, <1>5, <1>6, <1>7 DEF CoreRest

LEMMA JoinKeepsCore == ASSUME CoreInv, JoinNext PROVE CoreRest'
<1>1. /\ joins # << >> /\ joins' = Tail(joins)
      /\ step' = IF Len(joins) = 1 /\ dropper[1] # Caller
                 THEN [step EXCEPT ![dropper[1]] = "reply"] ELSE step
      /\ UNCHANGED <<handles, queued, closed, receiver, job, dropper, submitted, ran, answered>>
  BY DEF JoinNext
<1>2. /\ joins \in Seq(Worker) /\ closed
      /\ dropper[1] # Caller => dropper[1] \in Worker /\ step[dropper[1]] = "drop"
      /\ \A w \in Worker : step[w] = "drop" => dropper[1] = w
  BY <1>1 DEF CoreInv, CoreRest, DropJoins
<1>3. /\ joins' \in Seq(Worker) /\ Len(joins') = Len(joins) - 1 /\ Len(joins) \in Nat \ {0}
      /\ (joins' = << >>) <=> (Len(joins) = 1)
  <2> PICK rest : rest = Tail(joins)
    OBVIOUS
  <2>1. rest \in Seq(Worker) /\ Len(rest) = Len(joins) - 1 /\ Len(joins) \in Nat \ {0}
    BY <1>1, <1>2, TakeFirst
  <2>2. (rest = << >>) <=> (Len(rest) = 0)
    BY <2>1, EmptySeq
  <2> QED BY <1>1, <2>1, <2>2
<1>4. \A w \in Worker : /\ step'[w] = step[w] \/ (step[w] = "drop" /\ step'[w] = "reply")
                        /\ Len(joins) = 1 => step'[w] # "drop"
                        /\ Len(joins) # 1 => step'[w] = step[w]
  BY <1>1, <1>2, CoreTypes
<1>5. ReceiverHeld'
  <2>1. \A v \in Worker : step'[v] = "recv" <=> step[v] = "recv"
    BY <1>4
  <2> QED BY <1>1, <2>1, ReceiversStay
<1>6. JobsApart' /\ NothingOwned'
  BY <1>1 DEF CoreInv, CoreRest, JobsApart, NothingOwned, Begun, JobQueue
<1>7. DropJoins'
  BY <1>1, <1>2, <1>3, <1>4 DEF DropJoins
<1>8. JobsAccounted'
  <2>1. \A v \in Worker : step[v] \in {"run", "drop", "reply"} =>
              step'[v] \in {"run", "drop", "reply"} /\ job'[v].id = job[v].id
    BY <1>1, <1>4
  <2>2. \A q, n : InHand(q, n) => InHand(q, n)'
    BY <2>1, HandsStay
  <2>3. \A q, n : Waits(q, n) => Waits(q, n)'
    BY <1>1, WaitingStays
  <2> QED BY <1>1, <2>2, <2>3, StillAccounted DEF CoreInv, CoreRest
<1> QED BY <1>5, <1>6, <1>7, <1>8 DEF CoreRest

LEMMA CoreStep == CoreInv /\ [PoolNext]_poolVars => CoreInv'
<1> SUFFICES ASSUME CoreInv, [PoolNext]_poolVars PROVE CoreRest'
  BY PoolStep DEF CoreInv
<1>1. CASE \E w \in Worker : WorkerStep(w)
  BY <1>1, LockKeepsCore, EndingKeepsCore, TakingKeepsCore, RunKeepsCore, AnswerKeepsCore DEF WorkerStep
<1>2. CASE UNCHANGED poolVars
  BY <1>2 DEF poolVars, CoreInv, CoreRest, ReceiverHeld, JobsApart, NothingOwned, DropJoins,
              JobsAccounted, Begun, Waits, InHand, JobQueue
<1> QED BY <1>1, <1>2, SubmitKeepsCore, CloneKeepsCore, ReleaseKeepsCore, JoinKeepsCore DEF PoolNext

-----------------------------------------------------------------------------
(* What goes on.                                                           *)

\* A worker that has not ended can go on, or its queue's receiver can, once the
\* core is closed; the one that drops the core waits for its joins.
LEMMA ClosedGoesOn ==
    ASSUME CoreInv, closed, NEW w \in Worker
    PROVE  step[w] \in {"gone", "drop"} \/ SomeCanGoOn(JobQueue(w))
<1>1. step[w] \in {"idle", "recv", "run", "drop", "reply", "gone"} /\ JobQueue(w) \in Queues
  BY CoreTypes, QueuesAre
<1>2. step[w] \in {"recv", "run", "reply"} => CanGoOn(w)
  BY DEF CanGoOn
<1>3. CASE step[w] = "idle"
  <2>1. CASE receiver[JobQueue(w)] = Caller
    BY <1>3, <2>1 DEF CanGoOn, SomeCanGoOn
  <2>2. CASE receiver[JobQueue(w)] # Caller
    <3> PICK v : v = receiver[JobQueue(w)]
      OBVIOUS
    <3>1. v \in Worker /\ JobQueue(v) = JobQueue(w) /\ step[v] = "recv"
      BY <1>1, <2>2, CoreTypes DEF CoreInv, CoreRest, ReceiverHeld
    <3>2. CanGoOn(v)
      BY <3>1 DEF CanGoOn
    <3> QED BY <3>1, <3>2 DEF SomeCanGoOn
  <2> QED BY <2>1, <2>2
<1> QED BY <1>1, <1>2, <1>3 DEF SomeCanGoOn

\* A queue with a job waiting has a thread that can go on, unless one of its
\* threads drops the core.
LEMMA WaitingGoesOn ==
    ASSUME CoreInv, NEW q \in Queues, queued[q] # << >>, joins = << >>
    PROVE  SomeCanGoOn(q)
<1>1. CASE receiver[q] # Caller
  <2> PICK v : v = receiver[q]
    OBVIOUS
  <2>1. v \in Worker /\ JobQueue(v) = q /\ step[v] = "recv"
    BY <1>1, CoreTypes DEF CoreInv, CoreRest, ReceiverHeld
  <2>2. CanGoOn(v)
    BY <2>1 DEF CanGoOn
  <2> QED BY <2>1, <2>2 DEF SomeCanGoOn
<1>2. CASE receiver[q] = Caller
  <2>1. PICK w \in Worker : JobQueue(w) = q
    <3>1. PICK r \in Reader : TRUE
      BY PoolAssumption
    <3>2. JobQueue(Writer) = "writes" /\ JobQueue(r) = "reads" /\ Writer \in Worker /\ r \in Worker
      BY PoolAssumption DEF JobQueue, Worker
    <3> QED BY <3>2 DEF Queues
  <2>2. step[w] \in {"idle", "recv", "run", "drop", "reply", "gone"}
    BY CoreTypes
  <2>3. step[w] # "gone" /\ step[w] # "drop"
    BY <2>1 DEF CoreInv, CoreRest, PoolInv, GoneLast, DropJoins
  <2>4. step[w] # "recv"
    BY <1>2, <2>1, CoreTypes DEF CoreInv, CoreRest, ReceiverHeld
  <2>5. CanGoOn(w)
    BY <1>2, <2>1, <2>2, <2>3, <2>4 DEF CanGoOn
  <2> QED BY <2>1, <2>5 DEF SomeCanGoOn
<1> QED BY <1>1, <1>2

LEMMA CoreGoesOn == ASSUME CoreInv PROVE CoreNeverStuck
<1>1. ASSUME NEW q \in Queues, Unanswered(q), joins = << >> PROVE SomeCanGoOn(q)
  <2>1. PICK i \in DOMAIN submitted[q] : submitted[q][i] \notin answered
    BY <1>1 DEF Unanswered
  <2>2. Waits(q, submitted[q][i]) \/ InHand(q, submitted[q][i])
    BY <2>1 DEF CoreInv, CoreRest, JobsAccounted
  <2>3. CASE Waits(q, submitted[q][i])
    <3>1. queued[q] # << >>
      BY <2>3, EmptySeq DEF Waits
    <3> QED BY <1>1, <3>1, WaitingGoesOn
  <2>4. CASE InHand(q, submitted[q][i])
    <3>1. PICK w \in Worker : JobQueue(w) = q /\ step[w] \in {"run", "drop", "reply"}
      BY <2>4 DEF InHand
    <3>2. step[w] # "drop"
      BY <1>1 DEF CoreInv, CoreRest, DropJoins
    <3> QED BY <3>1, <3>2 DEF SomeCanGoOn, CanGoOn
  <2> QED BY <2>2, <2>3, <2>4
<1>2. ASSUME joins # << >> PROVE JoinEnds(Head(joins)) \/ SomeCanGoOn(JobQueue(Head(joins)))
  <2> PICK h : h = Head(joins)
    OBVIOUS
  <2>1. h \in Worker /\ closed
    BY <1>2, CoreTypes, TakeFirst DEF CoreInv, CoreRest, DropJoins
  <2>2. step[h] = "drop" => dropper[1] = h
    BY <2>1 DEF CoreInv, CoreRest, DropJoins
  <2>3. step[h] \in {"gone", "drop"} \/ SomeCanGoOn(JobQueue(h))
    BY <2>1, ClosedGoesOn
  <2> QED BY <2>2, <2>3 DEF JoinEnds
<1>3. ASSUME closed, joins = << >>, NEW w \in Worker
      PROVE  step[w] = "gone" \/ SomeCanGoOn(JobQueue(w))
  <2>1. step[w] # "drop"
    BY <1>3 DEF CoreInv, CoreRest, DropJoins
  <2> QED BY <1>3, <2>1, ClosedGoesOn
<1> QED BY <1>1, <1>2, <1>3 DEF CoreNeverStuck

\* The connection core never stands still while it owes an answer, a join or an
\* end: for any readers and jobs, and wherever the last handle is dropped, some
\* thread that is waited for can go on ("joining that thread from itself would
\* deadlock", Drop of CoreInner).
THEOREM CoreKeepsGoing == PoolSpec => []CoreNeverStuck
<1>1. PoolSpec => []CoreInv
  BY CoreStarts, CoreStep, PTL DEF PoolSpec
<1> QED BY <1>1, CoreGoesOn, PTL

\* The connection core works its queues in order and never stands still while it
\* owes an answer or an end (db/pool.rs:137).
THEOREM PoolStaysSound == PoolSpec => []PoolSound
<1>1. PoolInOrder /\ CoreNeverStuck => PoolSound
  BY DEF PoolSound
<1> QED BY <1>1, PoolStaysInOrder, CoreKeepsGoing, PTL

-----------------------------------------------------------------------------
(***************************************************************************)
(* The tail of the chat log.  What is published and what is buffered, one  *)
(* after the other, are the lines handled so far (TicksHoldHandled): both  *)
(* are in the order of the file, and readings in order are known by what   *)
(* is in them, so that it is enough to compare sets.  The order comes from *)
(* where the reader stands (ReadsFollowFile).                              *)
(***************************************************************************)

\* f[k] is the first k sequences one after the other.
FlattensUpTo(f, P, n) == f = [k \in 1 .. n |-> IF k = 1 THEN P[k] ELSE f[k - 1] \o P[k]]

LEMMA FlattensFirst ==
    ASSUME NEW P, NEW n \in Nat, NEW f, FlattensUpTo(f, P, n), n # 0
    PROVE  f[1] = P[1]
<1>1. f = [k \in 1 .. n |-> IF k = 1 THEN P[k] ELSE f[k - 1] \o P[k]]
  BY DEF FlattensUpTo
<1>2. 1 \in 1 .. n
  OBVIOUS
<1>3. \A k \in 1 .. n : k = 1 => f[k] = P[k]
  BY <1>1
<1> QED BY <1>2, <1>3

LEMMA FlattensNext ==
    ASSUME NEW P, NEW n \in Nat, NEW f, FlattensUpTo(f, P, n)
    PROVE  \A k \in Nat : k # 0 /\ k < n => f[k + 1] = f[k] \o P[k + 1]
<1>1. f = [k \in 1 .. n |-> IF k = 1 THEN P[k] ELSE f[k - 1] \o P[k]]
  BY DEF FlattensUpTo
<1>2. \A k \in 1 .. n : f[k] = IF k = 1 THEN P[k] ELSE f[k - 1] \o P[k]
  BY <1>1
<1>3. \A k \in Nat : k # 0 /\ k < n => k + 1 \in 1 .. n /\ k + 1 # 1 /\ (k + 1) - 1 = k
  OBVIOUS
<1> QED BY <1>2, <1>3

LEMMA FlatteningGrows ==
    ASSUME NEW P, NEW n \in Nat, NEW h, FlattensUpTo(h, P, n)
    PROVE  \E f : FlattensUpTo(f, P, n + 1)
<1> DEFINE f == [k \in 1 .. n + 1 |-> IF k <= n THEN h[k] ELSE IF k = 1 THEN P[k] ELSE h[k - 1] \o P[k]]
           g == [k \in 1 .. n + 1 |-> IF k = 1 THEN P[k] ELSE f[k - 1] \o P[k]]
<1>0. n # 0 => h[1] = P[1]
  BY FlattensFirst
<1>1. \A k \in Nat : k # 0 /\ k < n => h[k + 1] = h[k] \o P[k + 1]
  BY FlattensNext
<1>2. \A k \in 1 .. n + 1 : f[k] = g[k]
  <2> SUFFICES ASSUME NEW k \in 1 .. n + 1 PROVE f[k] = g[k]
    OBVIOUS
  <2>1. CASE k = 1
    BY <1>0, <2>1
  <2>2. CASE k # 1
    <3>1. k - 1 \in 1 .. n + 1 /\ k - 1 <= n /\ f[k - 1] = h[k - 1]
      BY <2>2
    <3>2. g[k] = h[k - 1] \o P[k]
      BY <2>2, <3>1
    <3>3. CASE k <= n
      <4>1. k - 1 \in Nat /\ k - 1 # 0 /\ k - 1 < n /\ (k - 1) + 1 = k /\ f[k] = h[k]
        BY <2>2, <3>3
      <4> HIDE DEF f, g
      <4>2. h[(k - 1) + 1] = h[k - 1] \o P[(k - 1) + 1]
        BY <1>1, <4>1
      <4> QED BY <3>2, <4>1, <4>2
    <3>4. CASE ~(k <= n)
      <4>1. f[k] = h[k - 1] \o P[k]
        BY <2>2, <3>4
      <4> QED BY <3>2, <4>1
    <3> QED BY <3>3, <3>4
  <2> QED BY <2>1, <2>2
<1>3. f = g
  BY <1>2
<1>4. FlattensUpTo(f, P, n + 1)
  BY <1>3 DEF FlattensUpTo
<1> QED BY <1>4

LEMMA FlatteningExists == ASSUME NEW P, NEW n \in Nat PROVE \E f : FlattensUpTo(f, P, n)
<1> DEFINE G == {k \in Nat : \E f : FlattensUpTo(f, P, k)}
<1>1. 0 \in G
  <2> DEFINE f == [k \in 1 .. 0 |-> << >>]
  <2>1. f = [k \in 1 .. 0 |-> IF k = 1 THEN P[k] ELSE f[k - 1] \o P[k]]
    OBVIOUS
  <2>2. FlattensUpTo(f, P, 0)
    BY <2>1 DEF FlattensUpTo
  <2> QED BY <2>2
<1>2. \A k \in Nat : k < n /\ k \in G => k + 1 \in G
  BY FlatteningGrows
<1> HIDE DEF G
<1>3. n \in G
  BY <1>1, <1>2, CountUp
<1> QED BY <1>3 DEF G

LEMMA FlattenByCount ==
    ASSUME NEW P, NEW n \in Nat, n = Len(P), n # 0
    PROVE  \E f : FlattensUpTo(f, P, n) /\ FlattenSeq(P) = f[n]
<1> DEFINE f == CHOOSE f : f = [k \in 1 .. n |-> IF k = 1 THEN P[k] ELSE f[k - 1] \o P[k]]
<1>1. FlattenSeq(P) = f[n]
  BY DEF FlattenSeq
<1>2. \E g : g = [k \in 1 .. n |-> IF k = 1 THEN P[k] ELSE g[k - 1] \o P[k]]
  <2>1. PICK g : FlattensUpTo(g, P, n)
    BY FlatteningExists
  <2> QED BY <2>1 DEF FlattensUpTo
<1>3. f = [k \in 1 .. n |-> IF k = 1 THEN P[k] ELSE f[k - 1] \o P[k]]
  BY <1>2
<1> HIDE DEF f
<1>4. FlattensUpTo(f, P, n)
  BY <1>3 DEF FlattensUpTo
<1> QED BY <1>1, <1>4

LEMMA FlattenOfEmpty == FlattenSeq(<< >>) = << >>
BY DEF FlattenSeq

\* What was flattened before another sequence came is flattened alike.
LEMMA FlatteningAgrees ==
    ASSUME NEW P, NEW Q, NEW n \in Nat, NEW m \in Nat, n <= m,
           NEW f, FlattensUpTo(f, P, n), NEW g, FlattensUpTo(g, Q, m),
           \A k \in 1 .. n : P[k] = Q[k]
    PROVE  \A k \in 0 .. n : k # 0 => f[k] = g[k]
<1> DEFINE G == {k \in Nat : k # 0 => f[k] = g[k]}
<1>1. 0 \in G
  OBVIOUS
<1>2. ASSUME NEW k \in Nat, k < n, k \in G PROVE k + 1 \in G
  <2>0. k + 1 \in 1 .. n
    BY <1>2
  <2>1. P[k + 1] = Q[k + 1]
    BY <2>0
  <2>2. CASE k = 0
    <3>1. n # 0 /\ m # 0 /\ k + 1 = 1
      BY <1>2, <2>2
    <3>2. f[1] = P[1]
      BY <3>1, FlattensFirst
    <3>3. g[1] = Q[1]
      BY <3>1, FlattensFirst
    <3> QED BY <2>1, <3>1, <3>2, <3>3
  <2>3. CASE k # 0
    <3>1. k < m
      BY <1>2, <2>3
    <3>2. f[k + 1] = f[k] \o P[k + 1]
      BY <1>2, <2>3, FlattensNext
    <3>3. g[k + 1] = g[k] \o Q[k + 1]
      BY <2>3, <3>1, FlattensNext
    <3>4. f[k] = g[k]
      BY <1>2, <2>3
    <3>5. f[k + 1] = g[k + 1]
      BY <2>1, <3>2, <3>3, <3>4
    <3> QED BY <3>5
  <2> QED BY <2>2, <2>3
<1> HIDE DEF G
<1>3. \A k \in 0 .. n : k \in G
  BY <1>1, <1>2, CountUp
<1> QED BY <1>3 DEF G

LEMMA FlattenOfLonger ==
    ASSUME NEW P, NEW Q, NEW n \in Nat, OneLonger(Q, P, n), n # 0
    PROVE  FlattenSeq(Q) = FlattenSeq(P) \o Q[n + 1]
<1>1. PICK f : FlattensUpTo(f, P, n) /\ FlattenSeq(P) = f[n]
  BY FlattenByCount DEF OneLonger
<1>2. PICK m \in Nat : m = n + 1 /\ m = Len(Q) /\ m # 0
  BY DEF OneLonger
<1>3. PICK g : FlattensUpTo(g, Q, m) /\ FlattenSeq(Q) = g[m]
  BY <1>2, FlattenByCount
<1>4. n <= m /\ \A k \in 1 .. n : P[k] = Q[k]
  BY <1>2 DEF OneLonger
<1>5. \A k \in 0 .. n : k # 0 => f[k] = g[k]
  BY <1>1, <1>3, <1>4, FlatteningAgrees
<1>6. f[n] = g[n]
  BY <1>5
<1>7. \A k \in Nat : k # 0 /\ k < m => g[k + 1] = g[k] \o Q[k + 1]
  BY <1>3, FlattensNext
<1>8. g[n + 1] = g[n] \o Q[n + 1]
  <2>1. n < m
    BY <1>2
  <2> QED BY <1>7, <2>1
<1> QED BY <1>1, <1>2, <1>3, <1>6, <1>8

LEMMA FlattenOfOne ==
    ASSUME NEW Q, NEW n \in Nat, n = Len(Q), n = 1
    PROVE  FlattenSeq(Q) = Q[n]
<1>0. n # 0
  OBVIOUS
<1>1. PICK g : FlattensUpTo(g, Q, n) /\ FlattenSeq(Q) = g[n]
  BY <1>0, FlattenByCount
<1>2. g[1] = Q[1]
  BY <1>1, FlattensFirst
<1> QED BY <1>1, <1>2

LEMMA FlattenOfAppend ==
    ASSUME NEW E, NEW P \in Seq(Seq(E)), NEW q \in Seq(E)
    PROVE  FlattenSeq(Append(P, q)) = FlattenSeq(P) \o q
<1>1. PICK n \in Nat : n = Len(P)
  BY LenProperties
<1>2. PICK Q : Q = Append(P, q)
  OBVIOUS
<1>3. n + 1 = Len(Q) /\ Q[n + 1] = q /\ \A k \in 1 .. n : P[k] = Q[k]
  BY <1>1, <1>2, AppendRow
<1>4. CASE n # 0
  <2>1. FlattenSeq(Q) = FlattenSeq(P) \o Q[n + 1]
    BY <1>1, <1>3, <1>4, FlattenOfLonger DEF OneLonger
  <2> QED BY <1>2, <1>3, <2>1
<1>5. CASE n = 0
  <2>1. P = << >>
    BY <1>1, <1>5, EmptySeq
  <2>2. FlattenSeq(Q) = q
    <3>1. PICK m \in Nat : m = n + 1 /\ m = Len(Q) /\ m = 1
      BY <1>3, <1>5
    <3>2. FlattenSeq(Q) = Q[m]
      BY <3>1, FlattenOfOne
    <3> QED BY <1>3, <3>1, <3>2
  <2>3. << >> \o q = q
    BY ConcatEmptySeq
  <2> QED BY <1>2, <2>1, <2>2, <2>3, FlattenOfEmpty
<1> QED BY <1>4, <1>5

\* What is flattened are the elements of the sequences.
LEMMA FlattenedMembers ==
    ASSUME NEW E, NEW P \in Seq(Seq(E))
    PROVE  /\ FlattenSeq(P) \in Seq(E)
           /\ \A e : e \in Range(FlattenSeq(P)) <=> \E t \in DOMAIN P : e \in Range(P[t])
<1> DEFINE Part(k, e) == \E t \in 1 .. k : e \in Range(P[t])
<1>0. PICK n \in Nat : n = Len(P)
  BY LenProperties
<1>1. DOMAIN P = 1 .. n /\ \A k \in 1 .. n : P[k] \in Seq(E)
  BY <1>0, LenProperties, ElementOfSeq
<1>2. CASE n = 0
  <2>1. P = << >>
    BY <1>0, <1>2, EmptySeq
  <2>2. << >> \in Seq(E) /\ Range(<< >>) = {} /\ DOMAIN P = {}
    BY <1>1, <1>2 DEF Range
  <2> QED BY <2>1, <2>2, FlattenOfEmpty
<1>3. CASE n # 0
  <2>1. PICK f : FlattensUpTo(f, P, n) /\ FlattenSeq(P) = f[n]
    BY <1>0, <1>3, FlattenByCount
  <2>2. f[1] = P[1]
    BY <1>3, <2>1, FlattensFirst
  <2>3. \A k \in Nat : k # 0 /\ k < n => f[k + 1] = f[k] \o P[k + 1]
    BY <2>1, FlattensNext
  <2> DEFINE G == {k \in Nat : k # 0 => f[k] \in Seq(E) /\ \A e : e \in Range(f[k]) <=> Part(k, e)}
  <2>4. 0 \in G
    OBVIOUS
  <2>5. ASSUME NEW k \in Nat, k < n, k \in G PROVE k + 1 \in G
    <3>0. k + 1 \in 1 .. n
      BY <2>5
    <3>1. P[k + 1] \in Seq(E)
      BY <1>1, <3>0
    <3>2. \A e : Part(k + 1, e) <=> Part(k, e) \/ e \in Range(P[k + 1])
      <4>1. \A t : t \in 1 .. k + 1 <=> t \in 1 .. k \/ t = k + 1
        OBVIOUS
      <4> QED BY <4>1
    <3>3. CASE k = 0
      <4>1. k + 1 = 1 /\ 1 .. k = {}
        BY <3>3
      <4>2. \A e : ~Part(k, e)
        BY <4>1
      <4> HIDE DEF Part
      <4>3. f[k + 1] = P[k + 1]
        BY <2>2, <4>1
      <4> QED BY <3>1, <3>2, <4>2, <4>3
    <3>4. CASE k # 0
      <4>1. f[k] \in Seq(E) /\ \A e : e \in Range(f[k]) <=> Part(k, e)
        BY <2>5, <3>4
      <4>2. f[k + 1] = f[k] \o P[k + 1]
        BY <2>3, <2>5, <3>4
      <4> HIDE DEF Part
      <4>3. f[k + 1] \in Seq(E) /\ Range(f[k + 1]) = Range(f[k]) \cup Range(P[k + 1])
        BY <3>1, <4>1, <4>2, ConcatRange
      <4> QED BY <3>2, <4>1, <4>3
    <3> QED BY <3>3, <3>4
  <2> HIDE DEF G
  <2>6. \A k \in 0 .. n : k \in G
    BY <2>4, <2>5, CountUp
  <2>7. n \in G
    BY <2>6
  <2>8. f[n] \in Seq(E) /\ \A e : e \in Range(f[n]) <=> Part(n, e)
    BY <1>3, <2>7 DEF G
  <2> QED BY <1>1, <2>1, <2>8
<1> QED BY <1>2, <1>3

Piece == [line : Nat, second : Nat, event : BOOLEAN, whole : BOOLEAN, ends : BOOLEAN]
Reading == [line : Nat, second : Nat, known : BOOLEAN, ends : BOOLEAN]

\* Later readings are of later lines.
Increasing(q) == \A i, j \in DOMAIN q : i < j => q[i].line < q[j].line

\* Of the readings in S, each is of a later line than all before it.
IncreasingIn(q, S) == \A i, j \in DOMAIN q : i < j /\ q[j] \in S => q[i].line < q[j].line

LEMMA ReadingLine == \A r \in Reading : r.line \in Nat
BY DEF Reading

\* A reading of a later line comes last.
LEMMA IncreasingAppend ==
    ASSUME NEW q \in Seq(Reading), NEW x \in Reading, Increasing(q),
           \A e \in Range(q) : e.line < x.line
    PROVE  Increasing(Append(q, x))
<1>1. PICK n, t : n = Len(q) /\ t = Append(q, x)
  OBVIOUS
<1>2. /\ n \in Nat /\ DOMAIN q = 1 .. n /\ DOMAIN t = 1 .. n + 1 /\ t[n + 1] = x
      /\ \A i \in DOMAIN q : t[i] = q[i]
  BY <1>1, AppendRow
<1>3. SUFFICES ASSUME NEW i \in 1 .. n + 1, NEW j \in 1 .. n + 1, i < j
               PROVE  t[i].line < t[j].line
  BY <1>1, <1>2 DEF Increasing
<1>4. i \in DOMAIN q /\ t[i] = q[i]
  BY <1>2, <1>3
<1>5. CASE j = n + 1
  <2>1. q[i] \in Range(q)
    BY <1>4 DEF Range
  <2> QED BY <1>2, <1>4, <1>5, <2>1
<1>6. CASE j # n + 1
  <2>1. j \in DOMAIN q /\ t[j] = q[j]
    BY <1>2, <1>6
  <2> QED BY <1>3, <1>4, <2>1 DEF Increasing
<1> QED BY <1>5, <1>6

\* Without its end, and the end is of later lines than the rest.
LEMMA IncreasingConcat ==
    ASSUME NEW s \in Seq(Reading), NEW t \in Seq(Reading), Increasing(s \o t)
    PROVE  Increasing(s) /\ Range(s) \cap Range(t) = {}
<1>1. PICK m \in Nat, n \in Nat : m = Len(s) /\ n = Len(t)
  BY LenProperties
<1>2. DOMAIN s = 1 .. m /\ DOMAIN t = 1 .. n /\ \A i \in 1 .. m : s[i] \in Reading
  BY <1>1, LenProperties, ElementOfSeq
<1>3. PICK u : u = s \o t
  OBVIOUS
<1>4. /\ u \in Seq(Reading) /\ Len(u) = m + n
      /\ \A i \in 1 .. m + n : u[i] = IF i <= m THEN s[i] ELSE t[i - m]
  BY <1>1, <1>3, ConcatProperties
<1>5. DOMAIN u = 1 .. m + n
  BY <1>4, LenProperties
<1>6. \A i \in 1 .. m : i \in DOMAIN u /\ u[i] = s[i]
  BY <1>4, <1>5
<1>7. \A i \in 1 .. n : i + m \in DOMAIN u /\ u[i + m] = t[i]
  <2> TAKE i \in 1 .. n
  <2>1. i + m \in 1 .. m + n /\ ~(i + m <= m) /\ (i + m) - m = i
    OBVIOUS
  <2> QED BY <1>4, <1>5, <2>1
<1>8. \A i, j \in DOMAIN u : i < j => u[i].line < u[j].line
  BY <1>3 DEF Increasing
<1>9. Increasing(s)
  BY <1>2, <1>6, <1>8 DEF Increasing
<1>10. ASSUME NEW i \in 1 .. m, NEW j \in 1 .. n, s[i] = t[j] PROVE FALSE
  <2>1. i < j + m
    OBVIOUS
  <2>2. s[i].line < t[j].line
    BY <1>6, <1>7, <1>8, <2>1
  <2>3. s[i].line \in Nat
    BY <1>2, ReadingLine
  <2> QED BY <1>10, <2>2, <2>3
<1> QED BY <1>2, <1>9, <1>10 DEF Range

\* Readings in order are known by what is in them.
LEMMA IncreasingPlace ==
    ASSUME NEW s \in Seq(Reading), NEW t \in Seq(Reading), Increasing(s), Increasing(t),
           NEW k \in DOMAIN s, Range(s) \subseteq Range(t), k \in DOMAIN t,
           \A i \in DOMAIN s : i < k => s[i] = t[i], s[k] # t[k]
    PROVE  t[k].line < s[k].line
<1>1. PICK j \in DOMAIN t : s[k] = t[j]
  BY DEF Range
<1>2. DOMAIN s \subseteq Nat /\ DOMAIN t \subseteq Nat /\ \A i \in DOMAIN s : s[i].line \in Nat
  BY LenProperties, ElementOfSeq, ReadingLine
<1>3. DOMAIN s = 1 .. Len(s) /\ Len(s) \in Nat /\ DOMAIN t = 1 .. Len(t)
  BY LenProperties
<1>4. ~(j < k)
  <2> SUFFICES ASSUME j < k PROVE FALSE
    OBVIOUS
  <2>1. j \in DOMAIN s
    BY <1>3
  <2>2. s[j].line < s[k].line
    BY <2>1 DEF Increasing
  <2>3. s[j] = s[k]
    BY <1>1, <2>1
  <2> QED BY <1>2, <2>2, <2>3
<1>5. k < j
  BY <1>1, <1>2, <1>4
<1> QED BY <1>1, <1>5 DEF Increasing

LEMMA IncreasingLength ==
    ASSUME NEW s \in Seq(Reading), NEW t \in Seq(Reading), Increasing(t),
           Range(t) \subseteq Range(s),
           \A i \in DOMAIN s : i \in DOMAIN t => s[i] = t[i]
    PROVE  Len(t) <= Len(s)
<1>1. PICK n \in Nat, m \in Nat : n = Len(s) /\ m = Len(t)
  BY LenProperties
<1>2. DOMAIN s = 1 .. n /\ DOMAIN t = 1 .. m /\ \A i \in 1 .. m : t[i].line \in Nat
  BY <1>1, LenProperties, ElementOfSeq, ReadingLine
<1>3. SUFFICES ASSUME n < m PROVE FALSE
  BY <1>1
<1>4. n + 1 \in 1 .. m
  BY <1>3
<1>5. PICK j \in 1 .. n : t[n + 1] = s[j]
  BY <1>2, <1>4 DEF Range
<1>6. j \in 1 .. m /\ j < n + 1
  BY <1>3
<1>7. t[j] = t[n + 1] /\ t[j].line < t[n + 1].line
  BY <1>2, <1>4, <1>5, <1>6 DEF Increasing
<1> QED BY <1>2, <1>4, <1>7

LEMMA IncreasingSame ==
    ASSUME NEW s \in Seq(Reading), NEW t \in Seq(Reading), Increasing(s), Increasing(t),
           Range(s) = Range(t)
    PROVE  s = t
<1>1. PICK n \in Nat, m \in Nat : n = Len(s) /\ m = Len(t)
  BY LenProperties
<1>2. DOMAIN s = 1 .. n /\ DOMAIN t = 1 .. m /\ (\A i \in 1 .. n : s[i].line \in Nat)
      /\ \A i \in 1 .. m : t[i].line \in Nat
  BY <1>1, LenProperties, ElementOfSeq, ReadingLine
<1> DEFINE Bad == {i \in Nat : i \in DOMAIN s /\ i \in DOMAIN t /\ s[i] # t[i]}
<1>3. Bad = {}
  <2> SUFFICES ASSUME Bad # {} PROVE FALSE
    OBVIOUS
  <2>1. PICK k \in Bad : \A i \in Bad : k <= i
    <3>1. Bad \in SUBSET Nat
      OBVIOUS
    <3> HIDE DEF Bad
    <3> QED BY <3>1, LeastExists
  <2>2. k \in DOMAIN s /\ k \in DOMAIN t /\ s[k] # t[k]
    OBVIOUS
  <2>3. \A i \in Nat : i < k /\ i \in DOMAIN s /\ i \in DOMAIN t => s[i] = t[i]
    BY <1>2, <2>1
  <2>4. \A i \in Nat : i < k => (i \in DOMAIN s <=> i \in DOMAIN t)
    BY <1>2, <2>2
  <2>5. DOMAIN s \subseteq Nat /\ DOMAIN t \subseteq Nat
    BY <1>2
  <2> HIDE DEF Bad
  <2>6. \A i \in DOMAIN s : i < k => s[i] = t[i]
    BY <2>3, <2>4, <2>5
  <2>7. \A i \in DOMAIN t : i < k => t[i] = s[i]
    BY <2>3, <2>4, <2>5
  <2>8. t[k].line < s[k].line
    BY <2>2, <2>6, IncreasingPlace
  <2>9. s[k].line < t[k].line
    BY <2>2, <2>7, IncreasingPlace
  <2>10. s[k].line \in Nat /\ t[k].line \in Nat
    BY <1>2, <2>2
  <2> QED BY <2>8, <2>9, <2>10
<1>4. \A i \in DOMAIN s : i \in DOMAIN t => s[i] = t[i]
  BY <1>2, <1>3
<1>5. Len(t) <= Len(s)
  BY <1>4, IncreasingLength
<1>6. Len(s) <= Len(t)
  BY <1>4, IncreasingLength
<1>7. n = m
  BY <1>1, <1>5, <1>6
<1>8. \A i \in 1 .. n : s[i] = t[i]
  BY <1>2, <1>4, <1>7
<1> QED BY <1>1, <1>7, <1>8, SeqEqual

\* What is selected keeps its order.
LEMMA SelectedInOrder ==
    ASSUME NEW s \in Seq(Reading), NEW S, IncreasingIn(s, S)
    PROVE  Increasing(Selected(s, S))
<1>0. PICK n \in Nat : n = Len(s)
  BY LenProperties
<1>1. DOMAIN s = 1 .. n /\ \A k \in 1 .. n : s[k] \in Reading
  BY <1>0, LenProperties, ElementOfSeq
<1>2. PICK f : SelectsUpTo(f, s, S, n) /\ Selected(s, S) = f[n]
  BY <1>0, SelectedByCount
<1>3. f[0] = << >>
  BY <1>2, SelectsNone
<1>4. \A k \in Nat : k < n => f[k + 1] = IF s[k + 1] \in S THEN Append(f[k], s[k + 1]) ELSE f[k]
  BY <1>2, SelectsNext
<1> DEFINE Before(k) == {s[i] : i \in 1 .. k}
           G == {k \in Nat : f[k] \in Seq(Reading) /\ Range(f[k]) \subseteq Before(k) /\ Increasing(f[k])}
<1>5. 0 \in G
  <2>1. << >> \in Seq(Reading) /\ Range(<< >>) = {} /\ Increasing(<< >>)
    BY DEF Range, Increasing
  <2> QED BY <1>3, <2>1
<1>6. ASSUME NEW k \in Nat, k < n, k \in G PROVE k + 1 \in G
  <2>1. PICK q, r, x : q = f[k] /\ r = f[k + 1] /\ x = s[k + 1]
    OBVIOUS
  <2>2. q \in Seq(Reading) /\ Range(q) \subseteq Before(k) /\ Increasing(q)
    BY <1>6, <2>1
  <2>3. k + 1 \in 1 .. n /\ x \in Reading /\ r = IF x \in S THEN Append(q, x) ELSE q
    BY <1>1, <1>4, <1>6, <2>1
  <2>4. x \in Before(k + 1) /\ Before(k) \subseteq Before(k + 1)
    BY <2>1
  <2>5. x \in S => \A e \in Before(k) : e.line < x.line
    <3> SUFFICES ASSUME x \in S, NEW i \in 1 .. k PROVE s[i].line < x.line
      OBVIOUS
    <3>1. i \in DOMAIN s /\ k + 1 \in DOMAIN s /\ i < k + 1
      BY <1>1, <1>6
    <3> QED BY <2>1, <3>1 DEF IncreasingIn
  <2> HIDE DEF Before
  <2>6. r \in Seq(Reading) /\ Range(r) \subseteq Before(k + 1) /\ Increasing(r)
    <3>1. CASE x \notin S
      BY <2>2, <2>3, <2>4, <3>1
    <3>2. CASE x \in S
      <4>1. Append(q, x) \in Seq(Reading) /\ Range(Append(q, x)) = Range(q) \cup {x}
        BY <2>2, <2>3, AppendRange
      <4>2. Increasing(Append(q, x))
        BY <2>2, <2>3, <2>5, <3>2, IncreasingAppend
      <4> QED BY <2>2, <2>3, <2>4, <3>2, <4>1, <4>2
    <3> QED BY <3>1, <3>2
  <2> QED BY <2>1, <2>6
<1> HIDE DEF G
<1>7. \A k \in 0 .. n : k \in G
  BY <1>5, <1>6, CountUp
<1>8. n \in G
  BY <1>7
<1> QED BY <1>2, <1>8 DEF G

\* The pieces handed on begin where the reader stands.
LEMMA NextPiecesRead ==
    ASSUME file \in Seq(Piece), seek \in 0 .. Len(file)
    PROVE  /\ NextPieces \in Seq(Piece) /\ Len(NextPieces) \in Nat
           /\ seek + Len(NextPieces) <= Len(file)
           /\ NextPieces # << >> => Len(NextPieces) # 0 /\ NextPieces[1] = file[seek + 1]
<1>1. PICK n \in Nat : n = Len(file)
  BY LenProperties
<1>2. seek \in Nat /\ seek <= n /\ \A i \in 1 .. n : file[i] \in Piece
  BY <1>1, LenProperties, ElementOfSeq
<1>3. PICK rest : rest = SubSeq(file, seek + 1, Len(file))
  OBVIOUS
<1>4. /\ rest \in Seq(Piece) /\ Len(rest) = n - seek
      /\ \A i \in 1 .. n - seek : rest[i] = file[seek + i]
  <2>1. seek + 1 \in Int /\ n \in Int /\ \A i \in seek + 1 .. n : file[i] \in Piece
    BY <1>2
  <2>2. /\ SubSeq(file, seek + 1, n) \in Seq(Piece)
        /\ Len(SubSeq(file, seek + 1, n)) = IF seek + 1 <= n THEN n - (seek + 1) + 1 ELSE 0
        /\ \A i \in 1 .. n - (seek + 1) + 1 : SubSeq(file, seek + 1, n)[i] = file[seek + 1 + i - 1]
    BY <2>1, SubSeqProperties
  <2>3. n - (seek + 1) + 1 = n - seek /\ \A i \in 1 .. n - seek : seek + 1 + i - 1 = seek + i
    BY <1>2
  <2> QED BY <1>1, <1>2, <1>3, <2>2, <2>3
<1>5. PICK e : e = SelectInSeq(rest, LAMBDA piece : piece.ends)
  OBVIOUS
<1>6. e = 0 \/ e \in 1 .. n - seek
  <2> DEFINE I == {i \in 1 .. Len(rest) : rest[i].ends}
  <2>1. e = IF I # {} THEN Min(I) ELSE 0
    BY <1>5 DEF SelectInSeq
  <2>2. I \in SUBSET Nat /\ I \subseteq 1 .. n - seek
    BY <1>4
  <2> HIDE DEF I
  <2>3. ASSUME I # {} PROVE Min(I) \in I
    <3>1. \E x \in I : \A y \in I : x <= y
      BY <2>2, <2>3, LeastExists
    <3> QED BY <3>1 DEF Min
  <2> QED BY <2>1, <2>2, <2>3
<1>7. NextPieces = IF e = 0 THEN rest ELSE SubSeq(rest, 1, e)
  BY <1>3, <1>5 DEF NextPieces
<1>8. PICK p : p = NextPieces
  OBVIOUS
<1>9. PICK m \in Nat : /\ p \in Seq(Piece) /\ Len(p) = m /\ m <= n - seek
                       /\ \A i \in 1 .. m : p[i] = file[seek + i]
  <2>1. CASE e = 0
    BY <1>2, <1>4, <1>7, <1>8, <2>1
  <2>2. CASE e # 0
    <3>1. e \in 1 .. n - seek /\ p = SubSeq(rest, 1, e)
      BY <1>6, <1>7, <1>8, <2>2
    <3>2. \A i \in 1 .. n - seek : rest[i] \in Piece
      BY <1>4, ElementOfSeq
    <3>3. e \in Int /\ 1 \in Int /\ \A i \in 1 .. e : rest[i] \in Piece
      BY <1>2, <3>1, <3>2
    <3>4. /\ p \in Seq(Piece) /\ Len(p) = IF 1 <= e THEN e - 1 + 1 ELSE 0
          /\ \A i \in 1 .. e - 1 + 1 : p[i] = rest[1 + i - 1]
      BY <3>1, <3>3, SubSeqProperties
    <3>5. e \in Nat /\ 1 <= e /\ e <= n - seek /\ e - 1 + 1 = e
      BY <1>2, <3>1
    <3>6. \A i \in 1 .. e : 1 + i - 1 = i /\ i \in 1 .. n - seek
      BY <1>2, <3>5
    <3>7. Len(p) = e /\ p \in Seq(Piece)
      BY <3>4, <3>5
    <3>8. \A i \in 1 .. e : p[i] = file[seek + i]
      <4> TAKE i \in 1 .. e
      <4>1. p[i] = rest[i]
        BY <3>4, <3>5, <3>6
      <4> QED BY <1>4, <3>6, <4>1
    <3> QED BY <3>5, <3>7, <3>8
  <2> QED BY <2>1, <2>2
<1>10. p # << >> => m # 0 /\ p[1] = file[seek + 1]
  <2> SUFFICES ASSUME p # << >> PROVE m # 0 /\ p[1] = file[seek + 1]
    OBVIOUS
  <2>1. m # 0
    BY <1>9, EmptySeq
  <2>2. 1 \in 1 .. m
    BY <2>1
  <2> QED BY <1>9, <2>1, <2>2
<1> QED BY <1>1, <1>2, <1>8, <1>9, <1>10

TailStage == {"off", "open", "poll", "line", "close", "count", "clear", "final"}

\* The thread has a line in its hands.
WithLine == {"line", "close", "count"}

Known == {r \in Reading : r.known}
Through == IF tail \in {"line", "close"} THEN Front(read) ELSE read
Done == FlattenSeq(published) \o events
OneSecond(lines) == \A i, j \in DOMAIN lines : lines[i].second = lines[j].second

TailTyped ==
    /\ file \in Seq(Piece) /\ buffer \in Seq(Piece) /\ line \in Seq(Piece)
    /\ events \in Seq(Reading) /\ read \in Seq(Reading) /\ published \in Seq(Seq(Reading))
    /\ tailing \in BOOLEAN /\ pending \in BOOLEAN
    /\ seek \in 0 .. Len(file) /\ seen \in Nat
    /\ tail \in TailStage /\ after \in {"poll", "final", "off"}
    /\ waiter \in [lines : Nat, stage : {"idle", "lines", "tick", "drained"}]

\* The game numbers its lines, and what begins a line is later than all before it.
FileNumbered ==
    /\ Cardinality(Written) \in Nat /\ Written = 1 .. Cardinality(Written)
    /\ \A i, j \in DOMAIN file : i < j /\ file[j].whole => file[i].line < file[j].line

\* What was read lies before what is held, and what is held before the reader.
ReadsFollowFile ==
    /\ Len(buffer) <= seek
    /\ buffer # << >> => buffer[1] = file[seek - Len(buffer) + 1]
    /\ \A r \in Range(read) : \E k \in 1 .. seek - Len(buffer) : r.line = file[k].line
    /\ IncreasingIn(read, Known)

\* What the thread has in its hands at each of its steps.
HandsAgree ==
    /\ line # << >> <=> tail \in WithLine
    /\ tail \in {"line", "close"} => read # << >> /\ Last(read) = Item(line)
    /\ tail \in {"off", "open", "clear", "close"} => events = << >>
    /\ events # << >> => pending
    /\ seen = IF tail \in WithLine THEN Len(read) - 1 ELSE Len(read)

\* Where the thread ends, it was told to.
EndsWhenTold ==
    /\ tail \in {"off", "final"} => ~tailing
    /\ tail \in WithLine => after = "poll" \/ (after = "final" /\ ~tailing)
    /\ tail = "clear" => after = "poll" \/ (after = "off" /\ ~tailing)
    /\ line # << >> /\ ~Last(line).ends => ~tailing

OneSecondEach == OneSecond(events) /\ \A k \in DOMAIN published : OneSecond(published[k])

\* Every known line that was handled and not lost is in the ticks, in order.
TicksHoldHandled ==
    /\ Increasing(Done)
    /\ Range(Done) = {r \in Range(Through) : r.known /\ r \notin lost}
    /\ lost \subseteq Range(Through)

WaitsForSeen ==
    /\ waiter.stage \in {"tick", "drained"} => waiter.lines <= seen
    /\ DrainedIsPublished

TailInv ==
    /\ TailTyped /\ FileNumbered /\ ReadsFollowFile /\ HandsAgree /\ EndsWhenTold
    /\ OneSecondEach /\ TicksHoldHandled /\ WaitsForSeen

\* What is read off the pieces of a line.
LEMMA ItemIsReading ==
    ASSUME NEW pieces \in Seq(Piece), pieces # << >>
    PROVE  /\ Item(pieces) \in Reading
           /\ Item(pieces).line = pieces[1].line /\ Item(pieces).second = pieces[1].second
           /\ Item(pieces).known <=> Recognised(pieces)
           /\ Item(pieces).known => pieces[1].whole
<1>1. PICK n \in Nat : n = Len(pieces) /\ n # 0
  BY EmptySeq, LenProperties
<1>2. pieces[1] \in Piece /\ pieces[n] \in Piece
  <2>1. 1 \in 1 .. n /\ n \in 1 .. n
    BY <1>1
  <2> QED BY <1>1, <2>1, ElementOfSeq
<1>3. PICK a, b : a = pieces[1] /\ b = pieces[n]
  OBVIOUS
<1>4. a.line \in Nat /\ a.second \in Nat /\ a.whole \in BOOLEAN /\ a.event \in BOOLEAN /\ b.ends \in BOOLEAN
  BY <1>2, <1>3 DEF Piece
<1>5. Item(pieces) = [line |-> a.line, second |-> a.second, known |-> a.whole /\ a.event, ends |-> b.ends]
  BY <1>1, <1>3 DEF Item, Recognised, Last
<1>6. Item(pieces) \in Reading
  BY <1>4, <1>5 DEF Reading
<1>7. Recognised(pieces) <=> a.whole /\ a.event
  BY <1>3 DEF Recognised
<1>8. PICK r : r = Item(pieces)
  OBVIOUS
<1>9. r.line = a.line /\ r.second = a.second /\ r.known = (a.whole /\ a.event)
  BY <1>5, <1>8
<1> QED BY <1>3, <1>6, <1>7, <1>8, <1>9

\* What was handled is the front of what was read.
LEMMA ThroughFacts ==
    ASSUME TailInv
    PROVE  /\ Through \in Seq(Reading) /\ Range(Through) \subseteq Range(read)
           /\ \A k \in 1 .. seen : k \in DOMAIN Through /\ k \in DOMAIN read /\ Through[k] = read[k]
           /\ IncreasingIn(Through, Known)
           /\ tail \notin {"line", "close"} => Through = read
           /\ tail \in {"line", "close"} =>
                  /\ Item(line) \in Reading /\ read = Append(Through, Item(line))
                  /\ Item(line).known => \A e \in Range(Through) : e.line < Item(line).line
<1>1. read \in Seq(Reading) /\ IncreasingIn(read, Known) /\ seen \in Nat
      /\ seen = IF tail \in WithLine THEN Len(read) - 1 ELSE Len(read)
  BY DEF TailInv, TailTyped, ReadsFollowFile, HandsAgree
<1>2. PICK n \in Nat : n = Len(read) /\ DOMAIN read = 1 .. n
  BY <1>1, LenProperties
<1>3. seen <= n
  BY <1>1, <1>2
<1>4. CASE tail \notin {"line", "close"}
  <2>1. Through = read
    BY <1>4 DEF Through
  <2> QED BY <1>1, <1>2, <1>3, <1>4, <2>1
<1>5. CASE tail \in {"line", "close"}
  <2>1. read # << >> /\ Last(read) = Item(line) /\ line # << >> /\ line \in Seq(Piece)
    BY <1>5 DEF TailInv, TailTyped, HandsAgree, WithLine
  <2>2. PICK f \in Seq(Reading), x \in Reading :
            f = SubSeq(read, 1, Len(read) - 1) /\ x = read[Len(read)] /\ read = Append(f, x)
            /\ Range(read) = Range(f) \cup {x}
    <3>1. PICK q \in Seq(Reading) : q = read /\ q # << >>
      BY <1>1, <2>1
    <3>2. PICK f \in Seq(Reading), x \in Reading :
              f = SubSeq(q, 1, Len(q) - 1) /\ x = q[Len(q)] /\ q = Append(f, x)
              /\ Range(q) = Range(f) \cup {x}
      BY <3>1, FrontAndLast
    <3> QED BY <3>1, <3>2
  <2>3. Through = f /\ x = Item(line)
    BY <1>5, <2>1, <2>2 DEF Through, Front, Last
  <2>4. PICK m \in Nat : m = Len(f) /\ DOMAIN f = 1 .. m
    BY <2>2, LenProperties
  <2>5. n = m + 1 /\ read[m + 1] = x /\ \A i \in 1 .. m : read[i] = f[i]
    BY <1>2, <2>2, <2>4, AppendRow
  <2>6. seen = m
    BY <1>1, <1>2, <1>5, <2>5 DEF WithLine
  <2>7. \A i \in 1 .. m : i \in 1 .. n
    BY <2>5
  <2>8. IncreasingIn(f, Known)
    BY <1>1, <1>2, <2>4, <2>5, <2>7 DEF IncreasingIn
  <2>9. ASSUME x.known, NEW i \in 1 .. m PROVE f[i].line < x.line
    <3>1. i < m + 1 /\ m + 1 \in 1 .. n
      BY <2>5
    <3>2. x \in Known
      BY <2>2, <2>9 DEF Known
    <3> QED BY <1>1, <1>2, <2>5, <2>7, <2>9, <3>1, <3>2 DEF IncreasingIn
  <2>10. x.known => \A e \in Range(f) : e.line < x.line
    BY <2>4, <2>9 DEF Range
  <2> QED BY <1>2, <1>5, <2>2, <2>3, <2>4, <2>5, <2>6, <2>7, <2>8, <2>10
<1> QED BY <1>4, <1>5

LEMMA DoneFacts ==
    ASSUME TailInv
    PROVE  /\ published \in Seq(Seq(Reading)) /\ events \in Seq(Reading)
           /\ FlattenSeq(published) \in Seq(Reading) /\ Done \in Seq(Reading)
           /\ Range(Done) = Range(FlattenSeq(published)) \cup Range(events)
           /\ \A e \in Range(FlattenSeq(published)) : \E t \in DOMAIN published : e \in Range(published[t])
           /\ events = << >> => Done = FlattenSeq(published) /\ Range(events) = {}
<1>1. published \in Seq(Seq(Reading)) /\ events \in Seq(Reading)
  BY DEF TailInv, TailTyped
<1>2. PICK F : F = FlattenSeq(published)
  OBVIOUS
<1>3. F \in Seq(Reading) /\ \A e \in Range(F) : \E t \in DOMAIN published : e \in Range(published[t])
  BY <1>1, <1>2, FlattenedMembers
<1>4. F \o events \in Seq(Reading) /\ Range(F \o events) = Range(F) \cup Range(events)
  BY <1>1, <1>3, ConcatRange
<1>5. events = << >> => F \o events = F /\ Range(events) = {}
  BY <1>3, ConcatEmptySeq DEF Range
<1> QED BY <1>1, <1>2, <1>3, <1>4, <1>5 DEF Done

\* What is through is what is in the ticks.
LEMMA DoneIsHandled == ASSUME TailInv PROVE Handled = Done
<1>1. /\ Through \in Seq(Reading) /\ IncreasingIn(Through, Known)
  BY ThroughFacts
<1>2. Done \in Seq(Reading) /\ Increasing(Done)
      /\ Range(Done) = {r \in Range(Through) : r.known /\ r \notin lost}
  BY DoneFacts DEF TailInv, TicksHoldHandled
<1>3. PICK S : S = {r \in ToSet(Through) : r.known /\ r \notin lost}
  OBVIOUS
<1>4. Handled = Selected(Through, S)
  BY <1>3 DEF Handled, Through
<1>5. ToSet(Through) = Range(Through) /\ Range(Through) \subseteq Reading
  <2>1. \A k \in DOMAIN Through : Through[k] \in Reading
    BY <1>1, LenProperties, ElementOfSeq
  <2> QED BY <2>1 DEF ToSet, Range
<1>6. S \subseteq Known
  BY <1>3, <1>5 DEF Known
<1>7. IncreasingIn(Through, S)
  BY <1>1, <1>6 DEF IncreasingIn
<1>8. Selected(Through, S) \in Seq(Reading) /\ Range(Selected(Through, S)) = S \cap Range(Through)
  BY <1>1, SelectedRange
<1>9. Range(Selected(Through, S)) = Range(Done)
  BY <1>2, <1>3, <1>5, <1>8
<1>10. Increasing(Selected(Through, S))
  BY <1>1, <1>7, SelectedInOrder
<1> QED BY <1>2, <1>4, <1>8, <1>9, <1>10, IncreasingSame

LEMMA TailInvSound == TailInv => TailSound
<1> SUFFICES ASSUME TailInv PROVE TailSound
  OBVIOUS
<1>1. Handled = Done /\ Increasing(Done)
  BY DoneIsHandled DEF TailInv, TicksHoldHandled
<1>2. TailTypeOK
  <2>1. PICK n \in Nat : n = Len(read)
    BY LenProperties DEF TailInv, TailTyped
  <2>2. seen \in Nat /\ seen <= n
    BY <2>1 DEF TailInv, TailTyped, HandsAgree
  <2>3. seek \in 0 .. Len(file) /\ (tail = "off" => events = << >>) /\ (tailing => tail # "off")
    BY DEF TailInv, TailTyped, HandsAgree, EndsWhenTold
  <2>4. seen \in 0 .. n
    BY <2>2
  <2> QED BY <2>1, <2>3, <2>4 DEF TailTypeOK
<1>3. \A k \in DOMAIN published : \A i, j \in DOMAIN published[k] :
           published[k][i].second = published[k][j].second
  BY DEF TailInv, OneSecondEach, OneSecond
<1>4. line # << >> /\ ~Last(line).ends => ~tailing
  BY DEF TailInv, EndsWhenTold
<1>5. DrainedIsPublished
  BY DEF TailInv, WaitsForSeen
<1> QED BY <1>1, <1>2, <1>3, <1>4, <1>5 DEF TailSound, EveryLineInItsTick, Done, Increasing

\* A step that takes and reads nothing.
SameReading == file' = file /\ seek' = seek /\ buffer' = buffer /\ read' = read

LEMMA SameReadingStays ==
    ASSUME TailInv, SameReading PROVE FileNumbered' /\ ReadsFollowFile'
BY DEF TailInv, SameReading, FileNumbered, Written, ReadsFollowFile

\* A step that neither handles a line nor publishes nor buffers.
LEMMA SameTicksStay ==
    ASSUME TailInv, published' = published, events' = events, lost' = lost, Through' = Through
    PROVE  OneSecondEach' /\ TicksHoldHandled'
<1>1. OneSecondEach'
  BY DEF TailInv, OneSecondEach, OneSecond
<1>2. Done' = Done
  BY DEF Done
<1> QED BY <1>1, <1>2 DEF TailInv, TicksHoldHandled, Increasing

\* What a drained wait saw stays seen, published and lost.
LEMMA WaitStays ==
    ASSUME TailInv, waiter' = waiter, seen \in Nat, seen' \in Nat, seen <= seen',
           \A k \in 1 .. seen : read'[k] = read[k],
           lost \subseteq lost',
           \A t \in DOMAIN published : t \in DOMAIN published' /\ published'[t] = published[t]
    PROVE  WaitsForSeen'
<1>1. waiter.lines \in Nat
  BY DEF TailInv, TailTyped
<1>2. waiter.stage \in {"tick", "drained"} => waiter.lines <= seen
  BY DEF TailInv, WaitsForSeen
<1>3. waiter'.stage \in {"tick", "drained"} => waiter'.lines <= seen'
  BY <1>1, <1>2
<1>4. DrainedIsPublished'
  <2> SUFFICES ASSUME waiter.stage = "drained", NEW k \in 1 .. waiter.lines,
                      read'[k].known, read'[k] \notin lost'
               PROVE  \E t \in DOMAIN published' : read'[k] \in ToSet(published'[t])
    BY DEF DrainedIsPublished, ToSet
  <2>1. k \in 1 .. seen
    BY <1>1, <1>2
  <2>2. read'[k] = read[k] /\ read[k].known /\ read[k] \notin lost
    BY <2>1
  <2>3. PICK t \in DOMAIN published : read[k] \in ToSet(published[t])
    BY <2>2 DEF TailInv, WaitsForSeen, DrainedIsPublished
  <2> QED BY <2>2, <2>3
<1> QED BY <1>3, <1>4 DEF WaitsForSeen

\* A piece more at the end of the file.
LEMMA PieceWritten ==
    ASSUME TailInv, NEW p \in Piece, file' = Append(file, p),
           \/ p.line = Cardinality(Written) + 1
           \/ ~p.whole /\ p.line \in Written,
           seek' = seek, buffer' = buffer, read' = read
    PROVE  /\ file' \in Seq(Piece) /\ seek' \in 0 .. Len(file')
           /\ FileNumbered' /\ ReadsFollowFile'
<1>1. file \in Seq(Piece) /\ seek \in 0 .. Len(file)
  BY DEF TailInv, TailTyped
<1>2. PICK n \in Nat : /\ n = Len(file) /\ DOMAIN file = 1 .. n /\ DOMAIN file' = 1 .. n + 1
                       /\ Len(file') = n + 1 /\ file' \in Seq(Piece)
                       /\ file'[n + 1] = p /\ \A i \in 1 .. n : file'[i] = file[i]
  BY <1>1, AppendRow
<1>3. Written' = Written \cup {p.line}
  <2>1. \A i : i \in 1 .. n + 1 <=> i \in 1 .. n \/ i = n + 1
    OBVIOUS
  <2> QED BY <1>2, <2>1 DEF Written
<1>4. PICK c \in Nat : c = Cardinality(Written) /\ Written = 1 .. c
  BY DEF TailInv, FileNumbered
<1>5. Cardinality(Written') \in Nat /\ Written' = 1 .. Cardinality(Written')
  <2>1. CASE p.line = c + 1
    <3>1. Written' = 1 .. c + 1
      <4>1. (1 .. c) \cup {c + 1} = 1 .. c + 1
        OBVIOUS
      <4>2. Written' = (1 .. c) \cup {c + 1}
        BY <1>3, <1>4, <2>1
      <4> QED BY <4>1, <4>2
    <3>2. Cardinality(1 .. c + 1) = c + 1
      <4>1. PICK d \in Nat : d = c + 1 /\ d # 0
        OBVIOUS
      <4>2. Cardinality(1 .. d) = IF 1 > d THEN 0 ELSE d - 1 + 1
        BY <4>1, FS_Interval
      <4> QED BY <4>1, <4>2
    <3> QED BY <3>1, <3>2
  <2>2. CASE p.line \in Written
    BY <1>3, <1>4, <2>2
  <2> QED BY <1>4, <2>1, <2>2
<1>6. \A i, j \in DOMAIN file' : i < j /\ file'[j].whole => file'[i].line < file'[j].line
  <2> SUFFICES ASSUME NEW i \in 1 .. n + 1, NEW j \in 1 .. n + 1, i < j, file'[j].whole
               PROVE  file'[i].line < file'[j].line
    BY <1>2
  <2>1. i \in 1 .. n
    OBVIOUS
  <2>2. CASE j = n + 1
    <3>1. p.whole /\ p.line = c + 1
      BY <1>2, <1>4, <2>2
    <3>2. file[i].line \in 1 .. c
      BY <1>2, <1>4, <2>1 DEF Written
    <3> QED BY <1>2, <2>1, <2>2, <3>1, <3>2
  <2>3. CASE j # n + 1
    <3>1. j \in 1 .. n
      BY <2>3
    <3> QED BY <1>2, <2>1, <3>1 DEF TailInv, FileNumbered
  <2> QED BY <2>2, <2>3
<1>7. ReadsFollowFile'
  <2>1. PICK b \in Nat : b = Len(buffer)
    BY LenProperties DEF TailInv, TailTyped
  <2>2. b <= seek /\ seek <= n /\ seek \in Nat
    BY <1>1, <1>2, <2>1 DEF TailInv, ReadsFollowFile
  <2>3. /\ buffer # << >> => buffer[1] = file[seek - b + 1]
        /\ \A r \in Range(read) : \E k \in 1 .. seek - b : r.line = file[k].line
        /\ IncreasingIn(read, Known)
    BY <2>1 DEF TailInv, ReadsFollowFile
  <2>4. buffer # << >> => b # 0
    BY <2>1, EmptySeq DEF TailInv, TailTyped
  <2>5. buffer # << >> => seek - b + 1 \in 1 .. n
    BY <2>2, <2>4
  <2>6. \A k \in 1 .. seek - b : k \in 1 .. n
    BY <2>2
  <2>7. \A r \in Range(read) : \E k \in 1 .. seek - b : r.line = file'[k].line
    BY <1>2, <2>3, <2>6
  <2>8. buffer # << >> => buffer[1] = file'[seek - b + 1]
    BY <1>2, <2>3, <2>5
  <2> QED BY <2>1, <2>2, <2>3, <2>7, <2>8 DEF ReadsFollowFile
<1>8. seek' \in 0 .. Len(file')
  BY <1>1, <1>2
<1> QED BY <1>2, <1>5, <1>6, <1>7, <1>8 DEF FileNumbered

\* What only the game and the control thread touch leaves the books of the tail alone.
LEMMA FileWritten ==
    ASSUME TailInv, NEW p \in Piece, file' = Append(file, p),
           \/ p.line = Cardinality(Written) + 1
           \/ ~p.whole /\ p.line \in Written,
           UNCHANGED <<tailing, threadVars, starts, waiter, read, published, lost>>
    PROVE  TailInv'
<1>1. /\ file' \in Seq(Piece) /\ seek' \in 0 .. Len(file')
      /\ FileNumbered' /\ ReadsFollowFile'
  BY PieceWritten DEF threadVars
<1>2. TailTyped'
  BY <1>1 DEF TailInv, TailTyped, threadVars
<1>3. HandsAgree' /\ EndsWhenTold'
  BY DEF TailInv, HandsAgree, EndsWhenTold, threadVars, Item, Recognised
<1>4. Through' = Through
  BY DEF Through, threadVars
<1>5. OneSecondEach' /\ TicksHoldHandled'
  BY <1>4, SameTicksStay DEF threadVars
<1>6. WaitsForSeen'
  BY WaitStays DEF TailInv, TailTyped, threadVars
<1> QED BY <1>1, <1>2, <1>3, <1>5, <1>6 DEF TailInv

LEMMA WriteLineStep ==
    ASSUME TailInv, NEW second \in Second, NEW event \in BOOLEAN, WriteLine(second, event)
    PROVE  TailInv'
<1>1. PICK ends \in BOOLEAN :
          file' = Append(file, [line |-> Cardinality(Written) + 1, second |-> second,
                                event |-> event, whole |-> TRUE, ends |-> ends])
  BY DEF WriteLine
<1>2. PICK p : p = [line |-> Cardinality(Written) + 1, second |-> second,
                    event |-> event, whole |-> TRUE, ends |-> ends]
  OBVIOUS
<1>3. Cardinality(Written) + 1 \in Nat /\ second \in Nat
  BY TailAssumption DEF TailInv, FileNumbered
<1>4. p \in Piece /\ p.line = Cardinality(Written) + 1
  BY <1>2, <1>3 DEF Piece
<1>5. file' = Append(file, p)
  BY <1>1, <1>2
<1> QED BY <1>4, <1>5, FileWritten DEF WriteLine

LEMMA WriteRestStep == ASSUME TailInv, WriteRest PROVE TailInv'
<1>1. file \in Seq(Piece) /\ file # << >>
  BY DEF TailInv, TailTyped, WriteRest, HalfDone
<1>2. PICK n \in Nat : n = Len(file) /\ n \in DOMAIN file /\ file[n] \in Piece
  <2>1. PICK n \in Nat : n = Len(file) /\ n # 0 /\ DOMAIN file = 1 .. n
    BY <1>1, EmptySeq, LenProperties
  <2>2. n \in 1 .. n
    BY <2>1
  <2> QED BY <1>1, <2>1, <2>2, ElementOfSeq
<1>3. PICK q, p : q = file[n] /\ p = [q EXCEPT !.whole = FALSE, !.ends = TRUE]
  OBVIOUS
<1>4. p = [line |-> q.line, second |-> q.second, event |-> q.event, whole |-> FALSE, ends |-> TRUE]
  BY <1>2, <1>3 DEF Piece
<1>5. p \in Piece /\ p.line = q.line /\ ~p.whole
  BY <1>2, <1>3, <1>4 DEF Piece
<1>6. p.line \in Written
  BY <1>2, <1>3, <1>5 DEF Written
<1>7. file' = Append(file, p)
  BY <1>2, <1>3 DEF WriteRest, Last
<1> QED BY <1>5, <1>6, <1>7, FileWritten DEF WriteRest

LEMMA TypesNow ==
    ASSUME TailInv
    PROVE  /\ file \in Seq(Piece) /\ buffer \in Seq(Piece) /\ line \in Seq(Piece)
           /\ events \in Seq(Reading) /\ read \in Seq(Reading) /\ published \in Seq(Seq(Reading))
           /\ tailing \in BOOLEAN /\ pending \in BOOLEAN
           /\ seek \in 0 .. Len(file) /\ seen \in Nat
           /\ tail \in TailStage /\ after \in {"poll", "final", "off"}
           /\ waiter \in [lines : Nat, stage : {"idle", "lines", "tick", "drained"}]
BY DEF TailInv, TailTyped

LEMMA StartStep == ASSUME TailInv, NEW again \in BOOLEAN, Start(again) PROVE TailInv'
<1>1. /\ tail = "off" /\ tail' = "open" /\ tailing' = TRUE
      /\ pending' = IF again THEN FALSE ELSE pending
      /\ UNCHANGED <<file, after, seek, buffer, line, events, seen, waiter, read, published, lost>>
  BY DEF Start
<1>2. TailTyped'
  BY <1>1 DEF TailInv, TailTyped, TailStage
<1>3. FileNumbered' /\ ReadsFollowFile'
  BY <1>1, SameReadingStays DEF SameReading
<1>4. HandsAgree' /\ EndsWhenTold'
  BY <1>1 DEF TailInv, HandsAgree, EndsWhenTold, WithLine, Item, Recognised
<1>5. Through' = Through
  BY <1>1 DEF Through
<1>6. OneSecondEach' /\ TicksHoldHandled'
  BY <1>1, <1>5, SameTicksStay
<1>7. WaitsForSeen'
  BY <1>1, TypesNow, WaitStays
<1> QED BY <1>2, <1>3, <1>4, <1>6, <1>7 DEF TailInv

LEMMA StopStep == ASSUME TailInv, Stop PROVE TailInv'
<1>1. /\ tailing' = FALSE
      /\ UNCHANGED <<file, tail, after, seek, buffer, line, events, pending, seen, waiter, read,
                     published, lost>>
  BY DEF Stop, threadVars
<1>2. TailTyped'
  BY <1>1 DEF TailInv, TailTyped
<1>3. FileNumbered' /\ ReadsFollowFile'
  BY <1>1, SameReadingStays DEF SameReading
<1>4. HandsAgree' /\ EndsWhenTold'
  BY <1>1 DEF TailInv, HandsAgree, EndsWhenTold, Item, Recognised
<1>5. Through' = Through
  BY <1>1 DEF Through
<1>6. OneSecondEach' /\ TicksHoldHandled'
  BY <1>1, <1>5, SameTicksStay
<1>7. WaitsForSeen'
  BY <1>1, TypesNow, WaitStays
<1> QED BY <1>2, <1>3, <1>4, <1>6, <1>7 DEF TailInv

\* Nothing that was read lies beyond where the reader will be.
LEMMA ReadsLieBefore ==
    ASSUME TailInv, file' = file, seek' \in Nat, buffer' \in Seq(Piece), read' = read,
           seek - Len(buffer) <= seek' - Len(buffer'), Len(buffer') <= seek',
           buffer' # << >> => buffer'[1] = file[seek' - Len(buffer') + 1]
    PROVE  FileNumbered' /\ ReadsFollowFile'
<1>1. FileNumbered'
  BY DEF TailInv, FileNumbered, Written
<1>2. PICK a \in Nat, b \in Nat, c \in Nat, d \in Nat :
          a = seek /\ b = Len(buffer) /\ c = seek' /\ d = Len(buffer')
  <2>1. Len(buffer) \in Nat /\ Len(file) \in Nat /\ seek \in Nat
    BY TypesNow, LenProperties
  <2>2. Len(buffer') \in Nat
    BY LenProperties
  <2> QED BY <2>1, <2>2
<1>3. \A k \in 1 .. a - b : k \in 1 .. c - d
  BY <1>2
<1>4. \A r \in Range(read) : \E k \in 1 .. a - b : r.line = file[k].line
  BY <1>2 DEF TailInv, ReadsFollowFile
<1>5. \A r \in Range(read) : \E k \in 1 .. c - d : r.line = file[k].line
  BY <1>3, <1>4
<1>6. IncreasingIn(read, Known)
  BY DEF TailInv, ReadsFollowFile
<1> QED BY <1>1, <1>2, <1>5, <1>6 DEF ReadsFollowFile

LEMMA OpenStep == ASSUME TailInv, Open PROVE TailInv'
<1>1. /\ tail = "open" /\ tail' = "poll"
      /\ seek' = Len(file) /\ buffer' = << >> /\ events' = << >> /\ line' = << >>
      /\ UNCHANGED <<file, tailing, after, pending, seen, waiter, read, published, lost>>
  BY DEF Open
<1>2. PICK n \in Nat, b \in Nat : n = Len(file) /\ b = Len(buffer)
  BY TypesNow, LenProperties
<1>3. << >> \in Seq(Piece) /\ << >> \in Seq(Reading) /\ Len(<< >>) = 0
  OBVIOUS
<1>4. seek \in 0 .. n /\ seek' = n
  BY <1>1, <1>2, TypesNow
<1>5. TailTyped'
  <2>1. seek' \in 0 .. Len(file')
    BY <1>1, <1>2, <1>4
  <2> QED BY <1>1, <1>3, <2>1 DEF TailInv, TailTyped, TailStage
<1>6. FileNumbered' /\ ReadsFollowFile'
  <2>1. /\ buffer' = << >> /\ Len(buffer') = 0
    BY <1>1, <1>3
  <2>2. seek' \in Nat /\ Len(buffer') <= seek' /\ seek - Len(buffer) <= seek' - Len(buffer')
    BY <1>2, <1>4, <2>1
  <2> QED BY <1>1, <1>3, <2>1, <2>2, ReadsLieBefore
<1>7. HandsAgree' /\ EndsWhenTold'
  BY <1>1 DEF TailInv, HandsAgree, EndsWhenTold, WithLine
<1>8. Through' = Through /\ events = << >>
  BY <1>1 DEF Through, TailInv, HandsAgree
<1>9. OneSecondEach' /\ TicksHoldHandled'
  BY <1>1, <1>8, SameTicksStay
<1>10. WaitsForSeen'
  BY <1>1, TypesNow, WaitStays
<1> QED BY <1>5, <1>6, <1>7, <1>9, <1>10 DEF TailInv

LEMMA CountStep == ASSUME TailInv, Count PROVE TailInv'
<1>1. /\ tail = "count" /\ seen' = seen + 1 /\ line' = << >> /\ tail' = after
      /\ UNCHANGED <<file, tailing, after, seek, buffer, events, pending, waiter, read, published,
                     lost>>
  BY DEF Count
<1>2. after \in {"poll", "final"} /\ (after = "final" => ~tailing)
  BY <1>1 DEF TailInv, EndsWhenTold, WithLine
<1>3. TailTyped'
  BY <1>1, <1>2 DEF TailInv, TailTyped, TailStage
<1>4. FileNumbered' /\ ReadsFollowFile'
  BY <1>1, SameReadingStays DEF SameReading
<1>5. HandsAgree'
  <2>1. PICK n \in Nat : n = Len(read)
    BY TypesNow, LenProperties
  <2>2. seen = n - 1
    BY <1>1, <2>1 DEF TailInv, HandsAgree, WithLine
  <2>3. seen' = Len(read')
    BY <1>1, <2>1, <2>2
  <2> QED BY <1>1, <1>2, <2>3 DEF TailInv, HandsAgree, WithLine
<1>6. EndsWhenTold'
  BY <1>1, <1>2 DEF TailInv, EndsWhenTold, WithLine
<1>7. Through' = Through
  BY <1>1, <1>2 DEF Through
<1>8. OneSecondEach' /\ TicksHoldHandled'
  BY <1>1, <1>7, SameTicksStay
<1>9. WaitsForSeen'
  BY <1>1, TypesNow, WaitStays
<1> QED BY <1>3, <1>4, <1>5, <1>6, <1>8, <1>9 DEF TailInv

LEMMA CloseTickStep == ASSUME TailInv, CloseTick PROVE TailInv'
<1>1. /\ tail = "close" /\ pending' = FALSE /\ tail' = "line"
      /\ UNCHANGED <<file, tailing, after, seek, buffer, line, events, seen, waiter, read, published,
                     lost>>
  BY DEF CloseTick
<1>2. TailTyped'
  BY <1>1 DEF TailInv, TailTyped, TailStage
<1>3. FileNumbered' /\ ReadsFollowFile'
  BY <1>1, SameReadingStays DEF SameReading
<1>4. HandsAgree' /\ EndsWhenTold'
  BY <1>1 DEF TailInv, HandsAgree, EndsWhenTold, WithLine, Item, Recognised
<1>5. Through' = Through
  BY <1>1 DEF Through
<1>6. OneSecondEach' /\ TicksHoldHandled'
  BY <1>1, <1>5, SameTicksStay
<1>7. WaitsForSeen'
  BY <1>1, TypesNow, WaitStays
<1> QED BY <1>2, <1>3, <1>4, <1>6, <1>7 DEF TailInv

LEMMA ClearStep == ASSUME TailInv, Clear PROVE TailInv'
<1>1. /\ tail = "clear" /\ pending' = FALSE /\ tail' = after
      /\ UNCHANGED <<file, tailing, after, seek, buffer, line, events, seen, waiter, read, published,
                     lost>>
  BY DEF Clear
<1>2. after \in {"poll", "off"} /\ (after = "off" => ~tailing) /\ events = << >>
  BY <1>1 DEF TailInv, EndsWhenTold, HandsAgree
<1>3. TailTyped'
  BY <1>1, <1>2 DEF TailInv, TailTyped, TailStage
<1>4. FileNumbered' /\ ReadsFollowFile'
  BY <1>1, SameReadingStays DEF SameReading
<1>5. HandsAgree' /\ EndsWhenTold'
  BY <1>1, <1>2 DEF TailInv, HandsAgree, EndsWhenTold, WithLine
<1>6. Through' = Through
  BY <1>1, <1>2 DEF Through
<1>7. OneSecondEach' /\ TicksHoldHandled'
  BY <1>1, <1>6, SameTicksStay
<1>8. WaitsForSeen'
  BY <1>1, TypesNow, WaitStays
<1> QED BY <1>3, <1>4, <1>5, <1>7, <1>8 DEF TailInv

\* The buffered lines become a tick.
LEMMA TickPublished ==
    ASSUME TailInv, published' = Append(published, events), events' = << >>, lost' = lost,
           Through' = Through
    PROVE  /\ published' \in Seq(Seq(Reading)) /\ events' \in Seq(Reading)
           /\ \A t \in DOMAIN published : t \in DOMAIN published' /\ published'[t] = published[t]
           /\ OneSecondEach' /\ TicksHoldHandled'
<1>1. published \in Seq(Seq(Reading)) /\ events \in Seq(Reading) /\ << >> \in Seq(Reading)
  BY TypesNow
<1>2. PICK n \in Nat :
          /\ DOMAIN published = 1 .. n /\ DOMAIN published' = 1 .. n + 1
          /\ published' \in Seq(Seq(Reading)) /\ published'[n + 1] = events
          /\ \A t \in DOMAIN published : published'[t] = published[t]
  <2>1. PICK P, e, n : P = published /\ e = events /\ n = Len(P)
    OBVIOUS
  <2>2. /\ Append(P, e) \in Seq(Seq(Reading)) /\ n \in Nat /\ DOMAIN P = 1 .. n
        /\ DOMAIN Append(P, e) = 1 .. n + 1 /\ Append(P, e)[n + 1] = e
        /\ \A t \in DOMAIN P : Append(P, e)[t] = P[t]
    BY <1>1, <2>1, AppendRow
  <2> QED BY <2>1, <2>2
<1>3. \A t \in DOMAIN published' : t \in DOMAIN published \/ t = n + 1
  BY <1>2
<1>4. OneSecondEach'
  <2>1. OneSecond(events) /\ \A t \in DOMAIN published : OneSecond(published[t])
    BY DEF TailInv, OneSecondEach
  <2>2. \A t \in DOMAIN published' : OneSecond(published'[t])
    BY <1>2, <1>3, <2>1
  <2>3. OneSecond(<< >>)
    BY DEF OneSecond
  <2> QED BY <2>2, <2>3 DEF OneSecondEach, OneSecond
<1>5. Done' = Done
  <2>1. PICK P \in Seq(Seq(Reading)), e \in Seq(Reading) : P = published /\ e = events
    BY <1>1
  <2>2. FlattenSeq(Append(P, e)) = FlattenSeq(P) \o e
    BY <2>1, FlattenOfAppend
  <2>3. FlattenSeq(P) \o e \in Seq(Reading)
    BY <2>1, DoneFacts DEF Done
  <2>4. (FlattenSeq(P) \o e) \o << >> = FlattenSeq(P) \o e
    BY <2>3, ConcatEmptySeq
  <2> QED BY <2>1, <2>2, <2>4 DEF Done
<1>6. TicksHoldHandled'
  BY <1>5 DEF TailInv, TicksHoldHandled, Increasing
<1>7. \A t \in DOMAIN published : t \in DOMAIN published'
  BY <1>2
<1> QED BY <1>1, <1>2, <1>4, <1>6, <1>7

LEMMA PublishStays ==
    ASSUME TailInv, NEW next, Publish(next), lost' = lost, Through' = Through
    PROVE  /\ published' \in Seq(Seq(Reading)) /\ events' \in Seq(Reading) /\ events' = << >>
           /\ \A t \in DOMAIN published : t \in DOMAIN published' /\ published'[t] = published[t]
           /\ OneSecondEach' /\ TicksHoldHandled'
<1>1. CASE events = << >>
  <2>1. published' = published /\ events' = events
    BY <1>1 DEF Publish
  <2> QED BY <1>1, <2>1, TypesNow, SameTicksStay
<1>2. CASE events # << >>
  <2>1. published' = Append(published, events) /\ events' = << >>
    BY <1>2 DEF Publish
  <2> QED BY <2>1, TickPublished
<1> QED BY <1>1, <1>2

LEMMA FinalFlushStep == ASSUME TailInv, FinalFlush PROVE TailInv'
<1>1. /\ tail = "final" /\ Publish("off")
      /\ UNCHANGED <<file, tailing, seek, buffer, line, pending, seen, waiter, read, lost>>
  BY DEF FinalFlush
<1>2. tail' = "clear" /\ after' = "off" /\ ~tailing
  BY <1>1 DEF Publish, TailInv, EndsWhenTold
<1>3. Through' = Through
  BY <1>1, <1>2 DEF Through
<1>4. /\ published' \in Seq(Seq(Reading)) /\ events' \in Seq(Reading) /\ events' = << >>
      /\ \A t \in DOMAIN published : t \in DOMAIN published' /\ published'[t] = published[t]
      /\ OneSecondEach' /\ TicksHoldHandled'
  BY <1>1, <1>3, PublishStays
<1>5. TailTyped'
  BY <1>1, <1>2, <1>4 DEF TailInv, TailTyped, TailStage
<1>6. FileNumbered' /\ ReadsFollowFile'
  BY <1>1, SameReadingStays DEF SameReading
<1>7. HandsAgree' /\ EndsWhenTold'
  BY <1>1, <1>2, <1>4 DEF TailInv, HandsAgree, EndsWhenTold, WithLine
<1>8. WaitsForSeen'
  BY <1>1, <1>4, TypesNow, WaitStays
<1> QED BY <1>4, <1>5, <1>6, <1>7, <1>8 DEF TailInv

\* The file cannot be read: what is buffered is lost.
LEMMA ReadFailsStep == ASSUME TailInv, ReadFails PROVE TailInv'
<1>1. /\ tail \in {"open", "poll"} /\ tailing' = FALSE /\ tail' = "off"
      /\ lost' = lost \cup {events[k] : k \in DOMAIN events}
      /\ events' = << >> /\ buffer' = << >>
      /\ UNCHANGED <<file, after, seek, line, pending, seen, waiter, read, published>>
  BY DEF ReadFails
<1>2. << >> \in Seq(Piece) /\ << >> \in Seq(Reading) /\ Len(<< >>) = 0
  OBVIOUS
<1>3. TailTyped'
  BY <1>1, <1>2 DEF TailInv, TailTyped, TailStage
<1>4. FileNumbered' /\ ReadsFollowFile'
  <2>1. PICK b \in Nat, s \in Nat : b = Len(buffer) /\ s = seek
    BY TypesNow, LenProperties
  <2>2. seek' \in Nat /\ Len(buffer') <= seek' /\ seek - Len(buffer) <= seek' - Len(buffer')
    BY <1>1, <1>2, <2>1
  <2> QED BY <1>1, <1>2, <2>2, ReadsLieBefore
<1>5. HandsAgree' /\ EndsWhenTold'
  BY <1>1 DEF TailInv, HandsAgree, EndsWhenTold, WithLine
<1>6. Through' = Through /\ Through = read
  BY <1>1 DEF Through
<1>7. OneSecondEach'
  BY <1>1 DEF TailInv, OneSecondEach, OneSecond
<1>8. TicksHoldHandled'
  <2>1. PICK F \in Seq(Reading), e \in Seq(Reading) :
            F = FlattenSeq(published) /\ e = events /\ Done = F \o e
            /\ Range(Done) = Range(F) \cup Range(e)
    BY DoneFacts DEF Done
  <2>2. Increasing(F) /\ Range(F) \cap Range(e) = {}
    BY <2>1, IncreasingConcat DEF TailInv, TicksHoldHandled
  <2>3. Done' = F
    <3>1. F \o << >> = F
      BY <2>1, ConcatEmptySeq
    <3> QED BY <1>1, <2>1, <3>1 DEF Done
  <2>4. Range(Done) = {r \in Range(Through) : r.known /\ r \notin lost} /\ lost \subseteq Range(Through)
    BY DEF TailInv, TicksHoldHandled
  <2>5. lost' = lost \cup Range(e)
    BY <1>1, <2>1 DEF Range
  <2>6. Range(F) = {r \in Range(Through) : r.known /\ r \notin lost'}
    BY <2>1, <2>2, <2>4, <2>5
  <2>7. lost' \subseteq Range(Through)
    BY <2>1, <2>4, <2>5
  <2> QED BY <1>6, <2>2, <2>3, <2>6, <2>7 DEF TicksHoldHandled, Increasing
<1>9. WaitsForSeen'
  BY <1>1, TypesNow, WaitStays
<1> QED BY <1>3, <1>4, <1>5, <1>7, <1>8, <1>9 DEF TailInv

\* The thread takes the pieces that begin where nothing was read yet into process_line.
LEMMA LineTaken ==
    ASSUME TailInv, NEW pieces \in Seq(Piece), pieces # << >>, Take(pieces), tail = "poll",
           file' = file, seek' \in 0 .. Len(file), seek - Len(buffer) < seek',
           pieces[1] = file[seek - Len(buffer) + 1],
           seen' = seen, lost' = lost, published' = published, events' = events,
           waiter' = waiter
    PROVE  /\ read' \in Seq(Reading) /\ buffer' \in Seq(Piece) /\ line' \in Seq(Piece)
           /\ FileNumbered' /\ ReadsFollowFile' /\ OneSecondEach' /\ TicksHoldHandled'
           /\ WaitsForSeen'
           /\ tail' = "line" /\ line' = pieces /\ line' # << >> /\ read' # << >>
           /\ Last(read') = Item(line') /\ seen' = Len(read') - 1
<1>1. /\ line' = pieces /\ read' = Append(read, Item(pieces)) /\ tail' = "line" /\ buffer' = << >>
  BY DEF Take
<1>2. PICK x \in Reading : x = Item(pieces) /\ x.line = pieces[1].line /\ (x.known => pieces[1].whole)
  BY ItemIsReading
<1>3. PICK n \in Nat :
          /\ n = Len(read) /\ DOMAIN read = 1 .. n /\ DOMAIN read' = 1 .. n + 1 /\ Len(read') = n + 1
          /\ read' \in Seq(Reading) /\ read'[n + 1] = x /\ \A i \in DOMAIN read : read'[i] = read[i]
  <2>1. PICK q \in Seq(Reading), n \in Nat : q = read /\ n = Len(q)
    BY TypesNow, LenProperties
  <2>2. /\ Append(q, x) \in Seq(Reading) /\ n \in Nat /\ DOMAIN q = 1 .. n
        /\ DOMAIN Append(q, x) = 1 .. n + 1 /\ Len(Append(q, x)) = n + 1 /\ Append(q, x)[n + 1] = x
        /\ \A i \in DOMAIN q : Append(q, x)[i] = q[i]
    BY <2>1, AppendRow
  <2> QED BY <1>1, <1>2, <2>1, <2>2
<1>4. Range(read') = Range(read) \cup {x}
  <2>1. \A i : i \in 1 .. n + 1 <=> i \in 1 .. n \/ i = n + 1
    OBVIOUS
  <2> QED BY <1>3, <2>1 DEF Range
<1>5. PICK m \in Nat, c \in Nat, s \in Nat : /\ m = Len(file) /\ c = seek - Len(buffer) /\ s = seek'
                                             /\ c < s /\ s <= m /\ DOMAIN file = 1 .. m
  <2>1. PICK m \in Nat, b \in Nat : m = Len(file) /\ b = Len(buffer) /\ DOMAIN file = 1 .. m
    BY TypesNow, LenProperties
  <2>2. seek \in Nat /\ b <= seek
    BY <2>1, TypesNow DEF TailInv, ReadsFollowFile
  <2>3. seek - b \in Nat
    BY <2>1, <2>2
  <2> QED BY <2>1, <2>3
<1>6. /\ \A r \in Range(read) : \E k \in 1 .. c : r.line = file[k].line
      /\ IncreasingIn(read, Known)
  BY <1>5 DEF TailInv, ReadsFollowFile
<1>7. c + 1 \in 1 .. s /\ c + 1 \in 1 .. m /\ pieces[1] = file[c + 1]
  BY <1>5
<1>8. x.known => \A r \in Range(read) : r.line < x.line
  <2> SUFFICES ASSUME x.known, NEW r \in Range(read) PROVE r.line < x.line
    OBVIOUS
  <2>1. PICK k \in 1 .. c : r.line = file[k].line
    BY <1>6
  <2>2. k \in 1 .. m /\ k < c + 1
    BY <1>5
  <2>3. file[c + 1].whole
    BY <1>2, <1>7
  <2>4. \A i, j \in DOMAIN file : i < j /\ file[j].whole => file[i].line < file[j].line
    BY DEF TailInv, FileNumbered
  <2>5. file[k].line < file[c + 1].line
    BY <1>5, <1>7, <2>2, <2>3, <2>4
  <2> QED BY <1>2, <1>7, <2>1, <2>5
<1>9. FileNumbered'
  BY DEF TailInv, FileNumbered, Written
<1>10. IncreasingIn(read', Known)
  <2> SUFFICES ASSUME NEW i \in 1 .. n + 1, NEW j \in 1 .. n + 1, i < j, read'[j] \in Known
               PROVE  read'[i].line < read'[j].line
    BY <1>3 DEF IncreasingIn
  <2>1. i \in DOMAIN read /\ read'[i] = read[i]
    BY <1>3
  <2>2. CASE j = n + 1
    <3>1. x.known
      BY <1>3, <2>2 DEF Known
    <3>2. read[i] \in Range(read)
      BY <2>1 DEF Range
    <3> QED BY <1>3, <1>8, <2>1, <2>2, <3>1, <3>2
  <2>3. CASE j # n + 1
    <3>1. j \in DOMAIN read /\ read'[j] = read[j]
      BY <1>3, <2>3
    <3> QED BY <1>6, <2>1, <3>1 DEF IncreasingIn
  <2> QED BY <2>2, <2>3
<1>11. ReadsFollowFile'
  <2>0. Len(<< >>) = 0 /\ s - 0 = s
    OBVIOUS
  <2>1. Len(buffer') = 0 /\ seek' - Len(buffer') = s
    BY <1>1, <1>5, <2>0
  <2>2. \A r \in Range(read') : \E k \in 1 .. s : r.line = file[k].line
    <3>1. \A k \in 1 .. c : k \in 1 .. s
      BY <1>5
    <3> QED BY <1>2, <1>4, <1>6, <1>7, <3>1
  <2>3. Len(buffer') <= seek'
    BY <1>5, <2>1
  <2> QED BY <1>1, <1>10, <2>1, <2>2, <2>3 DEF ReadsFollowFile
<1>12. Through' = Through
  <2>1. Through = read
    BY DEF Through
  <2>2. SubSeq(Append(read, x), 1, Len(Append(read, x)) - 1) = read
    <3>1. PICK q \in Seq(Reading) : q = read
      BY TypesNow
    <3> QED BY <3>1, FrontOfAppend
  <2> QED BY <1>1, <1>2, <2>1, <2>2 DEF Through, Front
<1>13. OneSecondEach' /\ TicksHoldHandled'
  BY <1>12, SameTicksStay
<1>14. seen = n
  BY <1>3 DEF TailInv, HandsAgree, WithLine
<1>15. WaitsForSeen'
  <2>1. \A k \in 1 .. seen : read'[k] = read[k]
    BY <1>3, <1>14
  <2> QED BY <2>1, TypesNow, WaitStays
<1>16. read' # << >> /\ Last(read') = Item(line') /\ seen' = Len(read') - 1
  <2>1. n + 1 \in DOMAIN read'
    BY <1>3
  <2>2. read' # << >>
    BY <2>1
  <2>3. Last(read') = x
    BY <1>3 DEF Last
  <2>4. Item(line') = x
    BY <1>1, <1>2 DEF Item, Recognised
  <2> QED BY <1>3, <1>14, <2>2, <2>3, <2>4
<1>17. << >> \in Seq(Piece)
  OBVIOUS
<1> QED BY <1>1, <1>3, <1>9, <1>11, <1>13, <1>15, <1>16, <1>17

\* The pieces on hand and those read next begin where nothing was read yet.
LEMMA PiecesOnHand ==
    ASSUME TailInv, NextPieces # << >>
    PROVE  /\ buffer \o NextPieces \in Seq(Piece) /\ buffer \o NextPieces # << >>
           /\ (buffer \o NextPieces)[1] = file[seek - Len(buffer) + 1]
           /\ Len(buffer \o NextPieces) = Len(buffer) + Len(NextPieces)
           /\ seek + Len(NextPieces) \in 0 .. Len(file)
           /\ Len(buffer) \in Nat /\ Len(NextPieces) \in Nat \ {0} /\ Len(buffer) <= seek
           /\ Len(file) \in Nat
<1>1. PICK p \in Seq(Piece), m \in Nat : /\ p = NextPieces /\ m = Len(p) /\ m # 0
                                         /\ seek + m <= Len(file) /\ p[1] = file[seek + 1]
  BY TypesNow, NextPiecesRead
<1>2. PICK q \in Seq(Piece), b \in Nat : q = buffer /\ b = Len(q)
  BY TypesNow, LenProperties
<1>3. Len(file) \in Nat /\ seek \in Nat /\ b <= seek
      /\ (q # << >> => q[1] = file[seek - b + 1])
  BY <1>2, TypesNow, LenProperties DEF TailInv, ReadsFollowFile
<1>4. PICK u : u = q \o p
  OBVIOUS
<1>5. u \in Seq(Piece) /\ Len(u) = b + m /\ \A i \in 1 .. b + m : u[i] = IF i <= b THEN q[i] ELSE p[i - b]
  BY <1>1, <1>2, <1>4, ConcatProperties
<1>6. u # << >>
  <2>1. Len(u) # 0
    BY <1>1, <1>5
  <2> QED BY <2>1
<1>7. 1 \in 1 .. b + m
  BY <1>1
<1>8. u[1] = file[seek - b + 1]
  <2>1. CASE b = 0
    <3>1. u[1] = p[1]
      BY <1>5, <1>7, <2>1
    <3>2. seek - b + 1 = seek + 1
      BY <1>3, <2>1
    <3> QED BY <1>1, <3>1, <3>2
  <2>2. CASE b # 0
    <3>1. u[1] = q[1]
      BY <1>5, <1>7, <2>2
    <3>2. q # << >>
      BY <1>2, <2>2
    <3> QED BY <1>3, <3>1, <3>2
  <2> QED BY <2>1, <2>2
<1>9. seek + m \in 0 .. Len(file)
  BY <1>1, <1>3
<1> QED BY <1>1, <1>2, <1>3, <1>4, <1>5, <1>6, <1>8, <1>9

\* The watcher stops on a line whose end has not arrived.
LEMMA PollHeld == ASSUME TailInv, Poll, ~tailing, buffer # << >> PROVE TailInv'
<1>1. /\ tail = "poll" /\ Take(buffer) /\ after' = "final"
      /\ UNCHANGED <<file, tailing, seek, pending, seen, waiter, events, published, lost>>
  BY DEF Poll
<1>2. PICK p \in Seq(Piece), b \in Nat, m \in Nat :
          p = buffer /\ b = Len(p) /\ m = Len(file) /\ b # 0 /\ p # << >>
  BY TypesNow, EmptySeq, LenProperties
<1>3. seek \in Nat /\ seek \in 0 .. m /\ seek - b < seek /\ p[1] = file[seek - b + 1]
  BY <1>2, TypesNow DEF TailInv, ReadsFollowFile
<1>4. /\ read' \in Seq(Reading) /\ buffer' \in Seq(Piece) /\ line' \in Seq(Piece)
      /\ FileNumbered' /\ ReadsFollowFile' /\ OneSecondEach' /\ TicksHoldHandled'
      /\ WaitsForSeen'
      /\ tail' = "line" /\ line' = p /\ line' # << >> /\ read' # << >>
      /\ Last(read') = Item(line') /\ seen' = Len(read') - 1
  <2>1. Take(p) /\ p[1] = file[seek - Len(buffer) + 1] /\ seek - Len(buffer) < seek'
        /\ seek' \in 0 .. Len(file)
    BY <1>1, <1>2, <1>3
  <2> QED BY <1>1, <1>2, <2>1, LineTaken
<1>5. TailTyped'
  BY <1>1, <1>4 DEF TailInv, TailTyped, TailStage
<1>6. HandsAgree' /\ EndsWhenTold'
  BY <1>1, <1>4 DEF TailInv, HandsAgree, EndsWhenTold, WithLine
<1> QED BY <1>4, <1>5, <1>6 DEF TailInv

\* The loop ends with nothing held.
LEMMA PollEnds == ASSUME TailInv, Poll, ~tailing, buffer = << >> PROVE TailInv'
<1>1. /\ tail = "poll" /\ tail' = "final"
      /\ UNCHANGED <<file, tailing, seek, buffer, line, read, after, pending, seen, waiter, events,
                     published, lost>>
  BY DEF Poll
<1>2. TailTyped'
  BY <1>1 DEF TailInv, TailTyped, TailStage
<1>3. FileNumbered' /\ ReadsFollowFile'
  BY <1>1, SameReadingStays DEF SameReading
<1>4. HandsAgree' /\ EndsWhenTold'
  BY <1>1 DEF TailInv, HandsAgree, EndsWhenTold, WithLine
<1>5. Through' = Through
  BY <1>1 DEF Through
<1>6. OneSecondEach' /\ TicksHoldHandled'
  BY <1>1, <1>5, SameTicksStay
<1>7. WaitsForSeen'
  BY <1>1, TypesNow, WaitStays
<1> QED BY <1>2, <1>3, <1>4, <1>6, <1>7 DEF TailInv

\* An idle file: what is buffered is flushed.
LEMMA PollIdle == ASSUME TailInv, Poll, tailing, NextPieces = << >> PROVE TailInv'
<1>1. /\ tail = "poll" /\ Publish("poll")
      /\ UNCHANGED <<file, tailing, seek, buffer, line, read, pending, seen, waiter, lost>>
  BY DEF Poll
<1>2. tail' = "clear" /\ after' = "poll"
  BY <1>1 DEF Publish
<1>3. Through' = Through
  BY <1>1, <1>2 DEF Through
<1>4. /\ published' \in Seq(Seq(Reading)) /\ events' \in Seq(Reading) /\ events' = << >>
      /\ \A t \in DOMAIN published : t \in DOMAIN published' /\ published'[t] = published[t]
      /\ OneSecondEach' /\ TicksHoldHandled'
  BY <1>1, <1>3, PublishStays
<1>5. TailTyped'
  BY <1>1, <1>2, <1>4 DEF TailInv, TailTyped, TailStage
<1>6. FileNumbered' /\ ReadsFollowFile'
  BY <1>1, SameReadingStays DEF SameReading
<1>7. HandsAgree' /\ EndsWhenTold'
  BY <1>1, <1>2, <1>4 DEF TailInv, HandsAgree, EndsWhenTold, WithLine
<1>8. WaitsForSeen'
  BY <1>1, <1>4, TypesNow, WaitStays
<1> QED BY <1>4, <1>5, <1>6, <1>7, <1>8 DEF TailInv

\* Pieces are read: a line, or one to hold until its end arrives.
LEMMA PollReads == ASSUME TailInv, Poll, tailing, NextPieces # << >> PROVE TailInv'
<1>1. PICK pieces : pieces = buffer \o NextPieces
  OBVIOUS
<1>2. /\ tail = "poll" /\ seek' = seek + Len(NextPieces)
      /\ IF Held(pieces) THEN buffer' = pieces /\ UNCHANGED <<tail, line, read, after>>
         ELSE Take(pieces) /\ after' = "poll"
      /\ UNCHANGED <<file, tailing, pending, seen, waiter, events, published, lost>>
  BY <1>1 DEF Poll
<1>3. PICK b \in Nat, m \in Nat, n \in Nat :
          /\ b = Len(buffer) /\ m = Len(NextPieces) /\ n = Len(file) /\ m # 0 /\ b <= seek
          /\ pieces \in Seq(Piece) /\ pieces # << >> /\ Len(pieces) = b + m
          /\ pieces[1] = file[seek - b + 1] /\ seek + m \in 0 .. n
  BY <1>1, PiecesOnHand
<1>4. seek \in Nat
  BY <1>3, TypesNow
<1>5. CASE Held(pieces)
  <2>1. /\ buffer' = pieces
        /\ UNCHANGED <<file, tailing, tail, line, read, after, pending, seen, waiter, events,
                       published, lost>>
    BY <1>2, <1>5
  <2>2. /\ seek' \in Nat /\ buffer' \in Seq(Piece) /\ Len(buffer') = b + m /\ seek' = seek + m
        /\ seek' \in 0 .. n
    BY <1>2, <1>3, <1>4, <2>1
  <2>3. FileNumbered' /\ ReadsFollowFile'
    <3>1. /\ seek - Len(buffer) <= seek' - Len(buffer') /\ Len(buffer') <= seek'
          /\ seek' - Len(buffer') = seek - b
      BY <1>3, <1>4, <2>2
    <3>2. buffer'[1] = file[seek' - Len(buffer') + 1]
      BY <1>3, <2>1, <3>1
    <3> QED BY <2>1, <2>2, <3>1, <3>2, ReadsLieBefore
  <2>4. TailTyped'
    BY <1>3, <2>1, <2>2 DEF TailInv, TailTyped
  <2>5. HandsAgree' /\ EndsWhenTold'
    BY <2>1 DEF TailInv, HandsAgree, EndsWhenTold, Item, Recognised
  <2>6. Through' = Through
    BY <2>1 DEF Through
  <2>7. OneSecondEach' /\ TicksHoldHandled'
    BY <2>1, <2>6, SameTicksStay
  <2>8. WaitsForSeen'
    BY <2>1, TypesNow, WaitStays
  <2> QED BY <2>3, <2>4, <2>5, <2>7, <2>8 DEF TailInv
<1>6. CASE ~Held(pieces)
  <2>1. /\ Take(pieces) /\ after' = "poll" /\ Last(pieces).ends
        /\ UNCHANGED <<file, tailing, pending, seen, waiter, events, published, lost>>
    BY <1>2, <1>6 DEF Held
  <2>2. seek - Len(buffer) < seek' /\ seek' \in 0 .. Len(file)
        /\ pieces[1] = file[seek - Len(buffer) + 1]
    BY <1>2, <1>3, <1>4
  <2>3. /\ read' \in Seq(Reading) /\ buffer' \in Seq(Piece) /\ line' \in Seq(Piece)
        /\ FileNumbered' /\ ReadsFollowFile' /\ OneSecondEach' /\ TicksHoldHandled'
        /\ WaitsForSeen'
        /\ tail' = "line" /\ line' = pieces /\ line' # << >> /\ read' # << >>
        /\ Last(read') = Item(line') /\ seen' = Len(read') - 1
    BY <1>2, <1>3, <2>1, <2>2, LineTaken
  <2>4. TailTyped'
    BY <2>1, <2>2, <2>3 DEF TailInv, TailTyped, TailStage
  <2>5. HandsAgree' /\ EndsWhenTold'
    BY <1>2, <2>1, <2>3 DEF TailInv, HandsAgree, EndsWhenTold, WithLine
  <2> QED BY <2>3, <2>4, <2>5 DEF TailInv
<1> QED BY <1>5, <1>6

LEMMA PollStep == ASSUME TailInv, Poll PROVE TailInv'
BY PollHeld, PollEnds, PollIdle, PollReads

\* A line of the tick's second joins it.
LEMMA LineBuffered ==
    ASSUME TailInv, tail = "line", Recognised(line), ~Closes(Item(line)), tail' = "count",
           events' = Append(events, Item(line)),
           UNCHANGED <<file, tailing, after, seek, buffer, line, seen, waiter, read, published, lost>>
    PROVE  events' \in Seq(Reading) /\ events' # << >> /\ OneSecondEach' /\ TicksHoldHandled'
<1>1. /\ Through \in Seq(Reading) /\ Item(line) \in Reading /\ read = Append(Through, Item(line))
      /\ Item(line).known => \A e \in Range(Through) : e.line < Item(line).line
  BY ThroughFacts
<1>2. PICK x \in Reading : x = Item(line)
  BY <1>1
<1>3. x.known
  BY <1>2 DEF Item
<1>4. \A e \in Range(Through) : e.line < x.line
  BY <1>1, <1>2, <1>3
<1>5. PICK F \in Seq(Reading), e \in Seq(Reading) :
          F = FlattenSeq(published) /\ e = events /\ Done = F \o e /\ Done \in Seq(Reading)
  BY DoneFacts DEF Done
<1>6. Done' = Append(Done, x)
  <2>1. F \o Append(e, x) = Append(F \o e, x)
    BY <1>5, AppendIsConcat, ConcatAssociative
  <2> QED BY <1>2, <1>5, <2>1 DEF Done
<1>7. Through' = read
  BY DEF Through
<1>8. Range(read) = Range(Through) \cup {x}
  BY <1>1, <1>2, AppendRange
<1>9. /\ Increasing(Done) /\ lost \subseteq Range(Through)
      /\ Range(Done) = {r \in Range(Through) : r.known /\ r \notin lost}
  BY DEF TailInv, TicksHoldHandled
<1>10. x.line \in Nat /\ x \notin Range(Through)
  <2>1. x.line \in Nat
    BY ReadingLine
  <2> QED BY <1>4, <2>1
<1>11. Increasing(Append(Done, x))
  BY <1>4, <1>5, <1>9, IncreasingAppend
<1>12. Range(Append(Done, x)) = Range(Done) \cup {x}
  <2>1. PICK D \in Seq(Reading) : D = Done
    BY <1>5
  <2>2. Range(Append(D, x)) = Range(D) \cup {x}
    BY AppendRange
  <2> QED BY <2>1, <2>2
<1>13. TicksHoldHandled'
  <2>1. Range(Done') = {r \in Range(read) : r.known /\ r \notin lost}
    BY <1>3, <1>6, <1>8, <1>9, <1>10, <1>12
  <2>2. lost \subseteq Range(read)
    BY <1>8, <1>9
  <2> QED BY <1>6, <1>7, <1>11, <2>1, <2>2 DEF TicksHoldHandled, Increasing
<1>14. e \in Seq(Reading) /\ OneSecond(e) /\ (e # << >> => Last(e).second = x.second)
  BY <1>2, <1>5 DEF TailInv, OneSecondEach, Closes
<1>15. OneSecond(Append(e, x))
  <2>1. PICK n, t : n = Len(e) /\ t = Append(e, x)
    OBVIOUS
  <2>2. /\ n \in Nat /\ DOMAIN e = 1 .. n /\ DOMAIN t = 1 .. n + 1 /\ t[n + 1] = x
        /\ \A i \in DOMAIN e : t[i] = e[i]
    BY <2>1, AppendRow
  <2>3. \A i \in DOMAIN e : e[i].second = x.second
    <3> SUFFICES ASSUME NEW i \in DOMAIN e PROVE e[i].second = x.second
      OBVIOUS
    <3>1. n \in DOMAIN e /\ e # << >>
      BY <2>2
    <3>2. e[n].second = x.second
      BY <1>14, <2>1, <3>1 DEF Last
    <3>3. e[i].second = e[n].second
      BY <1>14, <3>1 DEF OneSecond
    <3> QED BY <3>2, <3>3
  <2>4. \A i \in DOMAIN t : i \in DOMAIN e \/ i = n + 1
    BY <2>2
  <2>5. \A i \in DOMAIN t : t[i].second = x.second
    BY <2>2, <2>3, <2>4
  <2> QED BY <2>1, <2>5 DEF OneSecond
<1>16. OneSecondEach'
  BY <1>2, <1>5, <1>15 DEF TailInv, OneSecondEach, OneSecond
<1>17. Append(e, x) \in Seq(Reading) /\ Append(e, x) # << >>
  BY <1>14, AppendRange
<1> QED BY <1>2, <1>5, <1>13, <1>16, <1>17

LEMMA ProcessLineStep == ASSUME TailInv, ProcessLine PROVE TailInv'
<1>1. /\ tail = "line"
      /\ UNCHANGED <<file, tailing, after, seek, buffer, line, seen, waiter, read, lost>>
  BY DEF ProcessLine
<1>2. FileNumbered' /\ ReadsFollowFile'
  BY <1>1, SameReadingStays DEF SameReading
<1>3. CASE ~Recognised(line)
  <2>1. tail' = "count" /\ UNCHANGED <<events, published, pending>>
    BY <1>3 DEF ProcessLine
  <2>2. TailTyped'
    BY <1>1, <2>1 DEF TailInv, TailTyped, TailStage
  <2>3. HandsAgree' /\ EndsWhenTold'
    BY <1>1, <2>1 DEF TailInv, HandsAgree, EndsWhenTold, WithLine
  <2>4. OneSecondEach'
    BY <2>1 DEF TailInv, OneSecondEach, OneSecond
  <2>5. TicksHoldHandled'
    <3>1. /\ Through \in Seq(Reading) /\ Item(line) \in Reading /\ read = Append(Through, Item(line))
      BY <1>1, ThroughFacts
    <3>2. PICK x \in Reading : x = Item(line) /\ ~x.known
      BY <1>3, <3>1 DEF Item
    <3>3. Range(read) = Range(Through) \cup {x}
      BY <3>1, <3>2, AppendRange
    <3>4. Through' = read /\ Done' = Done
      BY <1>1, <2>1 DEF Through, Done
    <3>5. /\ Increasing(Done) /\ lost \subseteq Range(Through)
          /\ Range(Done) = {r \in Range(Through) : r.known /\ r \notin lost}
      BY DEF TailInv, TicksHoldHandled
    <3>6. Range(Done) = {r \in Range(read) : r.known /\ r \notin lost} /\ lost \subseteq Range(read)
      BY <3>2, <3>3, <3>5
    <3> QED BY <1>1, <3>4, <3>5, <3>6 DEF TicksHoldHandled, Increasing
  <2>6. WaitsForSeen'
    BY <1>1, <2>1, TypesNow, WaitStays
  <2> QED BY <1>2, <2>2, <2>3, <2>4, <2>5, <2>6 DEF TailInv
<1>4. CASE Recognised(line) /\ Closes(Item(line))
  <2>1. /\ published' = Append(published, events) /\ events' = << >> /\ tail' = "close"
        /\ pending' = pending
    BY <1>4 DEF ProcessLine
  <2>2. Through' = Through
    BY <1>1, <2>1 DEF Through
  <2>3. /\ published' \in Seq(Seq(Reading)) /\ events' \in Seq(Reading)
        /\ \A t \in DOMAIN published : t \in DOMAIN published' /\ published'[t] = published[t]
        /\ OneSecondEach' /\ TicksHoldHandled'
    BY <1>1, <2>1, <2>2, TickPublished
  <2>4. TailTyped'
    BY <1>1, <2>1, <2>3 DEF TailInv, TailTyped, TailStage
  <2>5. HandsAgree' /\ EndsWhenTold'
    BY <1>1, <2>1 DEF TailInv, HandsAgree, EndsWhenTold, WithLine, Item, Recognised
  <2>6. WaitsForSeen'
    BY <1>1, <2>3, TypesNow, WaitStays
  <2> QED BY <1>2, <2>3, <2>4, <2>5, <2>6 DEF TailInv
<1>5. CASE Recognised(line) /\ ~Closes(Item(line))
  <2>1. events' = Append(events, Item(line)) /\ pending' = TRUE /\ tail' = "count"
        /\ published' = published
    BY <1>5 DEF ProcessLine, Buffer
  <2>2. events' \in Seq(Reading) /\ events' # << >> /\ OneSecondEach' /\ TicksHoldHandled'
    BY <1>1, <1>5, <2>1, LineBuffered
  <2>3. TailTyped'
    BY <1>1, <2>1, <2>2 DEF TailInv, TailTyped, TailStage
  <2>4. HandsAgree' /\ EndsWhenTold'
    BY <1>1, <2>1 DEF TailInv, HandsAgree, EndsWhenTold, WithLine
  <2>5. WaitsForSeen'
    BY <1>1, <2>1, TypesNow, WaitStays
  <2> QED BY <1>2, <2>2, <2>3, <2>4, <2>5 DEF TailInv
<1> QED BY <1>3, <1>4, <1>5

\* A wait touches nothing but itself.
LEMMA WaiterStep ==
    ASSUME TailInv, UNCHANGED <<file, tailing, threadVars, starts, read, published, lost>>,
           waiter' \in [lines : Nat, stage : {"idle", "lines", "tick", "drained"}],
           waiter'.stage \in {"tick", "drained"} => waiter'.lines <= seen, DrainedIsPublished'
    PROVE  TailInv'
<1>1. UNCHANGED <<file, tailing, tail, after, seek, buffer, line, events, pending, seen, read,
                  published, lost>>
  BY DEF threadVars
<1>2. TailTyped'
  BY <1>1 DEF TailInv, TailTyped
<1>3. FileNumbered' /\ ReadsFollowFile'
  BY <1>1, SameReadingStays DEF SameReading
<1>4. HandsAgree' /\ EndsWhenTold'
  BY <1>1 DEF TailInv, HandsAgree, EndsWhenTold, Item, Recognised
<1>5. Through' = Through
  BY <1>1 DEF Through
<1>6. OneSecondEach' /\ TicksHoldHandled'
  BY <1>1, <1>5, SameTicksStay
<1>7. WaitsForSeen'
  BY <1>1 DEF WaitsForSeen
<1> QED BY <1>2, <1>3, <1>4, <1>6, <1>7 DEF TailInv

LEMMA WaitDrainedStep == ASSUME TailInv, NEW lines \in 1 .. MaxLines, WaitDrained(lines) PROVE TailInv'
<1>1. waiter' = [lines |-> lines, stage |-> "lines"]
      /\ UNCHANGED <<file, tailing, threadVars, starts, read, published, lost>>
  BY DEF WaitDrained
<1>2. lines \in Nat
  BY TailAssumption
<1>3. waiter'.stage = "lines"
  BY <1>1
<1> QED BY <1>1, <1>2, <1>3, WaiterStep DEF DrainedIsPublished

LEMMA SeesLinesStep == ASSUME TailInv, SeesLines PROVE TailInv'
<1>1. waiter' = [waiter EXCEPT !.stage = "tick"] /\ seen >= waiter.lines
      /\ UNCHANGED <<file, tailing, threadVars, starts, read, published, lost>>
  BY DEF SeesLines
<1>2. waiter' = [lines |-> waiter.lines, stage |-> "tick"] /\ waiter.lines \in Nat /\ seen \in Nat
  BY <1>1, TypesNow
<1>3. waiter'.stage = "tick" /\ waiter'.lines = waiter.lines
  BY <1>2
<1>4. waiter.lines <= seen
  BY <1>1, <1>2
<1> QED BY <1>1, <1>2, <1>3, <1>4, WaiterStep DEF DrainedIsPublished

\* No tick is pending: what was seen before has been published.
LEMMA SeesTickStep == ASSUME TailInv, SeesTick PROVE TailInv'
<1>1. /\ waiter.stage = "tick"
      /\ waiter' = [waiter EXCEPT !.stage = IF pending THEN "lines" ELSE "drained"]
      /\ UNCHANGED <<file, tailing, threadVars, starts, read, published, lost>>
  BY DEF SeesTick
<1>2. PICK stage \in {"lines", "drained"} : stage = IF pending THEN "lines" ELSE "drained"
  OBVIOUS
<1>3. waiter' = [lines |-> waiter.lines, stage |-> stage] /\ waiter.lines \in Nat /\ seen \in Nat
  BY <1>1, <1>2, TypesNow
<1>4. waiter'.stage = stage /\ waiter'.lines = waiter.lines
  BY <1>3
<1>5. waiter.lines <= seen
  BY <1>1 DEF TailInv, WaitsForSeen
<1>6. DrainedIsPublished'
  <2> SUFFICES ASSUME stage = "drained", NEW k \in 1 .. waiter.lines,
                      read[k].known, read[k] \notin lost
               PROVE  \E t \in DOMAIN published : read[k] \in ToSet(published[t])
    BY <1>1, <1>4 DEF DrainedIsPublished, ToSet
  <2>1. events = << >>
    BY <1>2 DEF TailInv, HandsAgree
  <2>2. k \in 1 .. seen
    BY <1>3, <1>5
  <2>3. k \in DOMAIN Through /\ Through[k] = read[k]
    BY <2>2, ThroughFacts
  <2>4. read[k] \in Range(Through)
    BY <2>3 DEF Range
  <2>5. read[k] \in Range(Done)
    BY <2>4 DEF TailInv, TicksHoldHandled
  <2>6. \E t \in DOMAIN published : read[k] \in Range(published[t])
    BY <2>1, <2>5, DoneFacts
  <2> QED BY <2>6 DEF Range, ToSet
<1> QED BY <1>1, <1>3, <1>4, <1>5, <1>6, WaiterStep

LEMMA TailInitInv == TailInit => TailInv
<1> SUFFICES ASSUME TailInit PROVE TailInv
  OBVIOUS
<1>1. /\ file = << >> /\ tailing = FALSE /\ tail = "off" /\ after = "off"
      /\ seek = 0 /\ buffer = << >> /\ line = << >> /\ events = << >>
      /\ pending = FALSE /\ seen = 0 /\ waiter = [lines |-> 0, stage |-> "idle"]
      /\ read = << >> /\ published = << >> /\ lost = {}
  BY DEF TailInit
<1>2. /\ << >> \in Seq(Piece) /\ << >> \in Seq(Reading) /\ << >> \in Seq(Seq(Reading))
      /\ Len(<< >>) = 0 /\ DOMAIN << >> = {} /\ Range(<< >>) = {}
  BY DEF Range
<1>3. TailTyped
  <2>1. seek \in 0 .. Len(file)
    BY <1>1, <1>2
  <2> QED BY <1>1, <1>2, <2>1 DEF TailTyped, TailStage
<1>4. FileNumbered
  <2>1. Written = {}
    BY <1>1, <1>2 DEF Written
  <2>2. Cardinality({}) = 0 /\ 1 .. 0 = {}
    BY FS_EmptySet
  <2> QED BY <1>1, <1>2, <2>1, <2>2 DEF FileNumbered
<1>5. ReadsFollowFile
  BY <1>1, <1>2 DEF ReadsFollowFile, IncreasingIn
<1>6. HandsAgree /\ EndsWhenTold
  BY <1>1, <1>2 DEF HandsAgree, EndsWhenTold, WithLine
<1>7. Through = << >> /\ Done = << >>
  <2>1. Done = << >> \o << >>
    BY <1>1, FlattenOfEmpty DEF Done
  <2>2. << >> \o << >> = << >>
    BY <1>2, ConcatEmptySeq
  <2> QED BY <1>1, <2>1, <2>2 DEF Through
<1>8. OneSecondEach /\ TicksHoldHandled
  BY <1>1, <1>2, <1>7 DEF OneSecondEach, OneSecond, TicksHoldHandled, Increasing
<1>9. WaitsForSeen
  <2>1. waiter.stage = "idle"
    BY <1>1
  <2> QED BY <2>1 DEF WaitsForSeen, DrainedIsPublished
<1> QED BY <1>3, <1>4, <1>5, <1>6, <1>8, <1>9 DEF TailInv

LEMMA TailStep == TailInv /\ [TailNext]_tailVars => TailInv'
<1> SUFFICES ASSUME TailInv, [TailNext]_tailVars PROVE TailInv'
  OBVIOUS
<1>1. CASE UNCHANGED tailVars
  <2>1. UNCHANGED <<file, tailing, threadVars, starts, read, published, lost>> /\ waiter' = waiter
    BY <1>1 DEF tailVars, threadVars
  <2>2. DrainedIsPublished'
    BY <2>1 DEF TailInv, WaitsForSeen, DrainedIsPublished, ToSet
  <2>3. waiter.stage \in {"tick", "drained"} => waiter.lines <= seen
    BY DEF TailInv, WaitsForSeen
  <2> QED BY <2>1, <2>2, <2>3, TypesNow, WaiterStep
<1>2. CASE TailNext
  <2>1. ASSUME NEW second \in Second, NEW event \in BOOLEAN, WriteLine(second, event) PROVE TailInv'
    BY <2>1, WriteLineStep
  <2>2. ASSUME NEW again \in BOOLEAN, Start(again) PROVE TailInv'
    BY <2>2, StartStep
  <2>3. ASSUME NEW lines \in 1 .. MaxLines, WaitDrained(lines) PROVE TailInv'
    BY <2>3, WaitDrainedStep
  <2>4. CASE WriteRest
    BY <2>4, WriteRestStep
  <2>5. CASE Stop
    BY <2>5, StopStep
  <2>6. CASE Open
    BY <2>6, OpenStep
  <2>7. CASE Poll
    BY <2>7, PollStep
  <2>8. CASE ProcessLine
    BY <2>8, ProcessLineStep
  <2>9. CASE CloseTick
    BY <2>9, CloseTickStep
  <2>10. CASE Count
    BY <2>10, CountStep
  <2>11. CASE Clear
    BY <2>11, ClearStep
  <2>12. CASE FinalFlush
    BY <2>12, FinalFlushStep
  <2>13. CASE ReadFails
    BY <2>13, ReadFailsStep
  <2>14. CASE SeesLines
    BY <2>14, SeesLinesStep
  <2>15. CASE SeesTick
    BY <2>15, SeesTickStep
  <2> QED BY <1>2, <2>1, <2>2, <2>3, <2>4, <2>5, <2>6, <2>7, <2>8, <2>9, <2>10, <2>11, <2>12,
             <2>13, <2>14, <2>15 DEF TailNext
<1> QED BY <1>1, <1>2

\* At each step of the tail thread (tail_loop, process_line, flush_tick), whatever the game
\* appends and the control threads ask, the reader stands where its lines end, its hands
\* hold what the counters do not count yet, and the ticks hold what was handled.
THEOREM TailInvariant == TailSpec => []TailInv
<1>1. TailInv /\ [TailNext]_tailVars => TailInv'
  BY TailStep
<1> QED BY <1>1, TailInitInv, PTL DEF TailSpec

\* Through half-written appends, idle polls, stops, restarts and files that cannot be read,
\* every recognised line the watcher read and did not lose is in exactly one tick, in the
\* order of the file, a tick holds one second, and a drain wait that returned has seen its
\* lines published (process_line, flush_tick and wait_until_drained).
THEOREM TailStaysSound == TailSpec => []TailSound
BY TailInvariant, TailInvSound, PTL
=============================================================================
