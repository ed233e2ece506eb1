----------------------- MODULE LeadOutboxRunnerProofs -----------------------
(***************************************************************************)
(* A lead message has at most one run that calls out, and a run that was   *)
(* lost is never repeated, for every set of workers, claim times and       *)
(* faults, lost lock connections included.                                 *)
(***************************************************************************)
EXTENDS LeadOutboxProofs

(* What holds an event refers to a message that was received; a command is *)
(* executed only for an event that is not a lead; a task in hand carries a *)
(* claim time.                                                             *)
Present ==
    /\ \A e \in Event : e[2] > nextSeq[e[1]] => status[e] = "absent"
    /\ \A e \in Event : status[e] = "absent" => kind[e] = "lead"
    /\ \A c \in tasks \cup scan.claims : status[c.event] # "absent"
    /\ \A w \in Workers : wk[w].pc # "idle" => status[wk[w].ev] # "absent"
    /\ \A w \in Workers : wk[w].pc \in {"lock", "take"} => wk[w].stamp \in Stamps
    /\ \A w \in Workers : wk[w].pc = "cmd" => kind[wk[w].ev] # "lead"

(* No event appears or disappears. *)
KeepsEvents ==
    \A e \in Event : status'[e] = "absent" <=> status[e] = "absent"

(* Every slot but w stays as it is. *)
OnlySlot(w) == \A v \in Workers : v # w => wk'[v] = wk[v]

(* A verdict on a received event neither adds nor removes one. *)
LEMMA VerdictKeepsEvents ==
  ASSUME TypeOK, NEW e \in Event, status[e] # "absent",
         NEW s \in Statuses \ {"absent"}, Verdict(e, s)
  PROVE  KeepsEvents
BY DEF TypeOK, Verdict, KeepsEvents

LEMMA FailureKeepsEvents ==
  ASSUME TypeOK, NEW e \in Event, status[e] # "absent",
         NEW t \in BOOLEAN, RecordFailure(e, t)
  PROVE  KeepsEvents
BY VerdictKeepsEvents DEF RecordFailure, AfterFailure, Statuses

(* Steps that leave the slots alone. *)
LEMMA PresentFrame ==
  ASSUME TypeOK, Present, KeepsEvents, UNCHANGED <<nextSeq, kind, wk>>,
         tasks' \cup scan'.claims \subseteq tasks \cup scan.claims
  PROVE  Present'
<1>1. \A c \in tasks \cup scan.claims : c.event \in Event
  BY DEF TypeOK, Claim
<1>2. \A w \in Workers : wk[w].ev \in Event
  BY DEF TypeOK, WorkerState
<1> QED
  BY <1>1, <1>2 DEF Present, KeepsEvents

(* Steps of one slot that is not asked to take, lock or run a command. *)
LEMMA PresentSlot ==
  ASSUME TypeOK, Present, KeepsEvents,
         UNCHANGED <<nextSeq, kind, tasks, scan>>,
         NEW w \in Workers, OnlySlot(w),
         wk'[w].pc \notin {"lock", "take", "cmd"},
         wk'[w].pc # "idle" => wk'[w].ev \in Event /\ status[wk'[w].ev] # "absent"
  PROVE  Present'
<1>1. \A c \in tasks \cup scan.claims : c.event \in Event
  BY DEF TypeOK, Claim
<1>2. \A v \in Workers : wk[v].ev \in Event
  BY DEF TypeOK, WorkerState
<1> QED
  BY <1>1, <1>2 DEF Present, KeepsEvents, OnlySlot

(* A program-counter move. *)
LEMMA GotoSlot ==
  ASSUME TypeOK, NEW w \in Workers, NEW l \in PCs, Goto(w, l)
  PROVE  /\ OnlySlot(w)
         /\ wk'[w] = [wk[w] EXCEPT !.pc = l]
         /\ wk'[w].pc = l /\ wk'[w].ev = wk[w].ev
         /\ wk'[w].claimed = wk[w].claimed /\ wk'[w].recover = wk[w].recover
         /\ wk'[w].stamp = wk[w].stamp
BY DEF TypeOK, Goto, WorkerState, OnlySlot

LEMMA ReturnSlot ==
  ASSUME TypeOK, NEW w \in Workers, Return(w)
  PROVE  OnlySlot(w) /\ wk'[w].pc = "idle"
BY IdleType DEF TypeOK, Return, OnlySlot

LEMMA PresentGoto ==
  ASSUME TypeOK, Present, KeepsEvents,
         UNCHANGED <<nextSeq, kind, tasks, scan>>,
         NEW w \in Workers, wk[w].pc # "idle",
         NEW l \in PCs \ {"lock", "take", "cmd"}, Goto(w, l)
  PROVE  Present'
<1>1. wk[w].ev \in Event /\ status[wk[w].ev] # "absent"
  BY DEF TypeOK, WorkerState, Present
<1> QED
  BY <1>1, GotoSlot, PresentSlot

LEMMA PresentReturn ==
  ASSUME TypeOK, Present, KeepsEvents,
         UNCHANGED <<nextSeq, kind, tasks, scan>>,
         NEW w \in Workers, Return(w)
  PROVE  Present'
BY ReturnSlot, PresentSlot

-----------------------------------------------------------------------------
(* Every step keeps the book-keeping facts. *)
LEMMA PresentStep ==
  ASSUME TypeOK, Present, [Next]_vars
  PROVE  Present'
<1> DEFINE Ev(w) == wk[w].ev
<1>ev. \A w \in Workers :
         Ev(w) \in Event /\ (wk[w].pc # "idle" => status[Ev(w)] # "absent")
  BY DEF TypeOK, WorkerState, Present
<1>0. CASE UNCHANGED vars
  BY <1>0 DEF vars, Present
<1>1. ASSUME NEW s \in Sales, NEW k \in Kinds, NEW m \in MediaInputs,
             NEW q \in 0..MaxSeq, Receive(s, k, m, q)
      PROVE  Present'
  <2> DEFINE e == <<s, nextSeq[s] + 1>>
  <2>1. e \in Event /\ status[e] = "absent"
    BY <1>1 DEF Receive, Present, TypeOK
  <2>2. \A f \in Event : f # e => status'[f] = status[f] /\ kind'[f] = kind[f]
    BY <1>1 DEF Receive, TypeOK
  <2>3. status'[e] = "pending"
    BY <1>1, <2>1 DEF Receive, TypeOK
  <2>4. ASSUME NEW f \in Event, f[2] > nextSeq'[f[1]]
        PROVE  status'[f] = "absent"
    <3>1. f # e /\ f[2] > nextSeq[f[1]]
      BY <1>1, <2>4, EventParts DEF Receive, TypeOK
    <3> QED
      BY <3>1, <2>2 DEF Present
  <2>5. \A f \in Event : status'[f] = "absent" => kind'[f] = "lead"
    BY <2>2, <2>3 DEF Present
  <2>6. UNCHANGED <<tasks, scan, wk>>
    BY <1>1 DEF Receive
  <2>7. \A c \in tasks \cup scan.claims : c.event \in Event
    BY DEF TypeOK, Claim
  <2>8. \A c \in tasks \cup scan.claims : status'[c.event] # "absent"
    BY <2>2, <2>3, <2>7 DEF Present
  <2>9. \A w \in Workers : wk[w].pc # "idle" => wk[w].ev # e
    BY <2>1 DEF Present
  <2> QED
    BY <2>2, <2>3, <2>4, <2>5, <2>6, <2>8, <2>9, <1>ev DEF Present
<1>2. ASSUME NEW s \in Sales, Deactivate(s)
      PROVE  Present'
  BY <1>2, PresentFrame DEF Deactivate, KeepsEvents, eventVars
<1>3. CASE ScanStart \/ ScanEnd \/ ScanCrash \/ \E t \in tasks : LoseTask(t)
  <2>1. tasks' \cup scan'.claims \subseteq tasks \cup scan.claims
    BY <1>3 DEF ScanStart, ScanEnd, ScanCrash, LoseTask, NoScan
  <2> QED
    BY <1>3, <2>1, PresentFrame
    DEF ScanStart, ScanEnd, ScanCrash, LoseTask, KeepsEvents, eventVars
<1>4. ASSUME NEW e \in Event, ScanClaim(e)
      PROVE  Present'
  <2>1. CASE holder[Owner(e)] = NoWorker /\ Dispatchable(e)
    <3>1. status[e] # "absent"
      BY <2>1 DEF Dispatchable, LeaseExpired
    <3>2. status' = [status EXCEPT ![e] = "processing"]
      BY <1>4, <2>1 DEF ScanClaim
    <3>3. PICK c : c.event = e /\ scan'.claims = scan.claims \cup {c}
      <4> DEFINE c == [event |-> e, stamp |-> CHOOSE x \in UnusedStamps(e) : TRUE,
                       recover |-> RecoverFlag(e)]
      <4>1. scan' = [scan EXCEPT !.slots = @ - 1, !.cands = @ \ {e},
                                 !.claims = @ \cup {c}]
        BY <1>4, <2>1 DEF ScanClaim
      <4>2. c.event = e
        OBVIOUS
      <4> HIDE DEF c
      <4>3. scan'.claims = scan.claims \cup {c}
        BY <4>1 DEF TypeOK
      <4> QED
        BY <4>2, <4>3
    <3>4. KeepsEvents
      BY <3>1, <3>2 DEF KeepsEvents, TypeOK
    <3>5. \A d \in tasks \cup scan.claims : d.event \in Event
      BY DEF TypeOK, Claim
    <3>6. UNCHANGED <<nextSeq, kind, tasks, wk>>
      BY <1>4 DEF ScanClaim
    <3> QED
      BY <3>1, <3>3, <3>4, <3>5, <3>6, <1>ev DEF Present, KeepsEvents
  <2>2. CASE ~(holder[Owner(e)] = NoWorker /\ Dispatchable(e))
    <3>1. scan'.claims = scan.claims
      BY <1>4, <2>2 DEF ScanClaim, TypeOK
    <3>2. KeepsEvents /\ UNCHANGED <<nextSeq, kind, wk, tasks>>
      BY <1>4, <2>2 DEF ScanClaim, KeepsEvents
    <3> QED
      BY <3>1, <3>2, PresentFrame
  <2> QED
    BY <2>1, <2>2
<1>5. ASSUME NEW e \in Event,
             MediaWaitEnds(e) \/ LeaseRunsOut(e) \/ Flush(e) \/ ManualRetry(e)
      PROVE  Present'
  <2>1. KeepsEvents
    <3>1. CASE MediaWaitEnds(e) \/ LeaseRunsOut(e)
      BY <3>1 DEF MediaWaitEnds, MediaArrives, LeaseRunsOut, KeepsEvents
    <3>2. CASE FlushSettles(e) \/ ManualRetry(e)
      BY <3>2, VerdictKeepsEvents DEF FlushSettles, ManualRetry, Statuses
    <3>3. CASE \E t \in BOOLEAN : FlushFails(e, t)
      BY <3>3, FailureKeepsEvents DEF FlushFails
    <3> QED
      BY <1>5, <3>1, <3>2, <3>3 DEF Flush
  <2>2. UNCHANGED <<nextSeq, kind, tasks, scan, wk>>
    BY <1>5 DEF MediaWaitEnds, MediaArrives, LeaseRunsOut, Flush,
                FlushSettles, FlushFails, ManualRetry
  <2> QED
    BY <2>1, <2>2, PresentFrame
<1>6. ASSUME NEW w \in Workers, NEW t \in tasks, NEW a \in BOOLEAN,
             Deliver(w, t, a)
      PROVE  Present'
  <2>1. t.event \in Event /\ t.stamp \in Stamps /\ status[t.event] # "absent"
    BY DEF TypeOK, Claim, Present
  <2>2. /\ OnlySlot(w) /\ wk'[w].ev = t.event /\ wk'[w].stamp = t.stamp
        /\ wk'[w].pc = "lock"
    BY <1>6 DEF Deliver, TypeOK, OnlySlot
  <2>3. tasks' \subseteq tasks /\ UNCHANGED <<nextSeq, status, kind, scan>>
    BY <1>6 DEF Deliver, eventVars
  <2> QED
    BY <2>1, <2>2, <2>3 DEF Present, OnlySlot
<1>7. ASSUME NEW w \in Workers, AcquireSalesLock(w)
      PROVE  Present'
  <2>1. Goto(w, "take") /\ wk[w].pc = "lock"
    BY <1>7 DEF AcquireSalesLock
  <2>2. UNCHANGED <<nextSeq, status, kind, tasks, scan>>
    BY <1>7 DEF AcquireSalesLock, eventVars
  <2>3. /\ OnlySlot(w) /\ wk'[w].pc = "take"
        /\ wk'[w].ev = wk[w].ev /\ wk'[w].stamp = wk[w].stamp
    BY <2>1, GotoSlot DEF PCs
  <2> QED
    BY <2>1, <2>2, <2>3 DEF Present, OnlySlot
<1>8. ASSUME NEW w \in Workers, TakeClaim(w)
      PROVE  Present'
  <2>1. KeepsEvents /\ UNCHANGED <<nextSeq, kind, tasks, scan>>
    BY <1>8 DEF TakeClaim, KeepsEvents
  <2>2. CASE ClaimMatches(w)
    <3>1. OnlySlot(w) /\ wk'[w].pc = "route" /\ wk'[w].ev = wk[w].ev
      BY <1>8, <2>2 DEF TakeClaim, TypeOK, WorkerState, OnlySlot
    <3>2. wk[w].pc # "idle"
      BY <1>8 DEF TakeClaim
    <3> QED
      BY <2>1, <3>1, <3>2, <1>ev, PresentSlot
  <2>3. CASE ~ClaimMatches(w)
    BY <1>8, <2>1, <2>3, PresentReturn DEF TakeClaim
  <2> QED
    BY <2>2, <2>3
<1>9. ASSUME NEW w \in Workers, RouteCommand(w)
      PROVE  Present'
  <2>1. Goto(w, "cmd") /\ wk[w].pc = "route" /\ kind[wk[w].ev] # "lead"
    BY <1>9 DEF RouteCommand
  <2>2. UNCHANGED <<nextSeq, status, kind, tasks, scan>>
    BY <1>9 DEF RouteCommand, eventVars
  <2>3. OnlySlot(w) /\ wk'[w].pc = "cmd" /\ wk'[w].ev = wk[w].ev
    BY <2>1, GotoSlot DEF PCs
  <2> QED
    BY <2>1, <2>2, <2>3 DEF Present, OnlySlot
<1>10. ASSUME NEW w \in Workers,
              RouteUnrecognized(w) \/ RouteAction(w) \/ Command(w) \/ CommandPending(w)
       PROVE  Present'
  <2>1. /\ Return(w) /\ wk[w].pc # "idle"
        /\ UNCHANGED <<nextSeq, kind, tasks, scan>>
    BY <1>10 DEF RouteUnrecognized, RouteAction, Command, FinishCommand,
                 CommandFails, CommandPending, eventVars
  <2>2. KeepsEvents
    <3>1. CASE RouteAction(w)
      BY <3>1 DEF RouteAction, KeepsEvents, eventVars
    <3>2. CASE RouteUnrecognized(w) \/ FinishCommand(w) \/ CommandPending(w)
      BY <3>2, <1>ev, VerdictKeepsEvents
      DEF RouteUnrecognized, FinishCommand, CommandPending, Statuses
    <3>3. CASE CommandFails(w)
      BY <3>3, <1>ev, FailureKeepsEvents DEF CommandFails
    <3> QED
      BY <1>10, <3>1, <3>2, <3>3 DEF Command
  <2> QED
    BY <2>1, <2>2, PresentReturn
<1>11. ASSUME NEW w \in Workers,
              RouteRecover(w) \/ (\E m \in Media : RouteLead(w, m)) \/ External(w)
       PROVE  Present'
  <2>1. /\ Goto(w, "next") \/ Goto(w, "lead")
        /\ wk[w].pc # "idle" /\ UNCHANGED <<nextSeq, kind, tasks, scan>>
    BY <1>11 DEF RouteRecover, RouteLead, External, ExternalSettles, ExternalFails
  <2>2. KeepsEvents
    <3>1. CASE \E m \in Media : RouteLead(w, m)
      BY <3>1 DEF RouteLead, KeepsEvents
    <3>2. CASE RouteRecover(w)
      BY <3>2, <1>ev, VerdictKeepsEvents DEF RouteRecover, KeepsEvents, Statuses
    <3>3. CASE \E v \in {"settled", "batch_pending"} : ExternalSettles(w, v)
      BY <3>3, <1>ev, VerdictKeepsEvents DEF ExternalSettles, Statuses
    <3>4. CASE \E t \in BOOLEAN : ExternalFails(w, t)
      BY <3>4, <1>ev, FailureKeepsEvents DEF ExternalFails
    <3> QED
      BY <1>11, <3>1, <3>2, <3>3, <3>4 DEF External
  <2> QED
    BY <2>1, <2>2, PresentGoto DEF PCs
<1>12. ASSUME NEW w \in Workers, Consume(w)
       PROVE  Present'
  <2>1. /\ wk[w].pc = "lead" /\ (Goto(w, "next") \/ Goto(w, "ext"))
        /\ UNCHANGED <<nextSeq, kind, tasks, scan>>
    BY <1>12
    DEF Consume, ConsumeSettled, ConsumeUnauthorized, ConsumeBatchRetry,
        ConsumeQuoteWaits, ConsumeQuoteUnresolved, ConsumeWaits,
        ConsumeAwaitsMedia, ConsumeLocally,
        ConsumeCallsOut, Release, Turn, Proceeds, MayConsume, AtLead,
        eventVars
  <2>2. KeepsEvents
    <3>1. CASE ConsumeWaits(w)
      BY <3>1 DEF ConsumeWaits, KeepsEvents, eventVars
    <3>2. CASE ConsumeCallsOut(w)
      <4>1. PICK e \in Event : /\ wk[w].ev = e
                               /\ status' = [status EXCEPT ![e] = "processing"]
        BY <3>2 DEF ConsumeCallsOut, Turn, Proceeds, MayConsume, AtLead
      <4> QED
        BY <2>1, <4>1, <1>ev DEF KeepsEvents, TypeOK
    <3>3. CASE ~ConsumeWaits(w) /\ ~ConsumeCallsOut(w)
      <4>1. \/ status' = status
            \/ \E s \in Statuses \ {"absent"} : Verdict(wk[w].ev, s)
        BY <1>12, <3>3
        DEF Consume, ConsumeSettled, ConsumeUnauthorized, ConsumeBatchRetry,
            ConsumeQuoteWaits, ConsumeQuoteUnresolved, ConsumeAwaitsMedia,
            ConsumeLocally, Release,
            Turn, Proceeds, MayConsume, AtLead, LocalVerdicts, Statuses
      <4> QED
        BY <2>1, <4>1, <1>ev, VerdictKeepsEvents DEF KeepsEvents
    <3> QED
      BY <3>1, <3>2, <3>3
  <2> QED
    BY <2>1, <2>2, PresentGoto DEF PCs
<1>13. ASSUME NEW w \in Workers, ConsumeNext(w)
       PROVE  Present'
  <2>1. KeepsEvents /\ UNCHANGED <<nextSeq, kind, tasks, scan>>
    BY <1>13 DEF ConsumeNext, KeepsEvents, eventVars
  <2>2. CASE status[wk[w].ev] \in Completed /\ NextOpen(wk[w].ev) # {}
    <3>1. PICK f \in NextOpen(wk[w].ev) :
             wk' = [wk EXCEPT ![w] = [pc |-> "lead", ev |-> f,
                      stamp |-> NoStamp, recover |-> FALSE, claimed |-> FALSE]]
      BY <1>13, <2>2 DEF ConsumeNext
    <3>2. f \in Event /\ status[f] # "absent"
      BY DEF NextOpen, Later
    <3>3. OnlySlot(w) /\ wk'[w].pc = "lead" /\ wk'[w].ev = f
      BY <3>1 DEF TypeOK, OnlySlot
    <3> QED
      BY <2>1, <3>2, <3>3, PresentSlot
  <2>3. CASE ~(status[wk[w].ev] \in Completed /\ NextOpen(wk[w].ev) # {})
    BY <1>13, <2>1, <2>3, PresentReturn DEF ConsumeNext
  <2> QED
    BY <2>2, <2>3
<1>14. ASSUME NEW w \in Workers, WorkerCrash(w)
       PROVE  Present'
  BY <1>14, PresentReturn DEF WorkerCrash, KeepsEvents, eventVars
<1>15. ASSUME NEW w \in Workers, LoseLock(w)
       PROVE  Present'
  BY <1>15, PresentFrame DEF LoseLock, KeepsEvents, eventVars
<1>16. CASE Intake \/ Dispatcher
  BY <1>1, <1>2, <1>3, <1>4, <1>16 DEF Intake, Dispatcher
<1>17. CASE Faults
  BY <1>3, <1>6, <1>10, <1>14, <1>15, <1>17 DEF Faults
<1>18. CASE \E w \in Workers : WorkerStep(w)
  BY <1>6, <1>7, <1>8, <1>9, <1>10, <1>11, <1>12, <1>13, <1>18
  DEF WorkerStep, Lookup, Route
<1> QED
  BY <1>0, <1>5, <1>16, <1>17, <1>18 DEF Next

-----------------------------------------------------------------------------
(* Who can run an event *)

(* Startability comes only from the event itself or from a claim made for  *)
(* it: a slot that lets go of a task, or a task that disappears, adds none. *)
LEMMA StartableFrame ==
  ASSUME NEW e \in Event, NEW w \in Workers, OnlySlot(w),
         status'[e] = status[e], stamp'[e] = stamp[e],
         tasks' \cup scan'.claims \subseteq tasks \cup scan.claims,
         wk'[w].ev = e => wk'[w].pc \notin {"lock", "take"},
         Startable(e)'
  PROVE  Startable(e)
BY DEF Startable, Open, FreshClaim, OnlySlot

(* Nothing that could run e is added. *)
LEMMA RunnerFrame ==
  ASSUME NEW e \in Event, SingleRunnerOf(e), kind'[e] = kind[e],
         \A v \in Workers : Runs(v, e)' => Runs(v, e),
         e \in dangling' => e \in dangling,
         Startable(e)' => Startable(e)
  PROVE  SingleRunnerOf(e)'
BY DEF SingleRunnerOf

(* w runs e, or e was startable, and w then runs it or leaves it.  It has  *)
(* been the only one to run it, and e stays startable only if w leaves.    *)
LEMMA RunnerActs ==
  ASSUME NEW e \in Event, SingleRunnerOf(e), kind'[e] = kind[e],
         NEW w \in Workers, OnlySlot(w), Runs(w, e) \/ Startable(e),
         e \in dangling' => e \in dangling,
         ~(Runs(w, e)' /\ Startable(e)')
  PROVE  SingleRunnerOf(e)'
BY DEF SingleRunnerOf, OnlySlot, Runs

(* A slot that moves on to the settling part of a task, or is free, runs   *)
(* nothing and carries no claim.                                           *)
Passive(w) ==
    \/ wk'[w].pc \in {"idle", "next", "cmd"}
    \/ wk'[w].pc = "lead" /\ ~wk'[w].claimed
    \/ wk'[w].pc = "route" /\ wk'[w].recover

(* Verdicts touch one event. *)
LEMMA VerdictElsewhere ==
  ASSUME TypeOK, NEW e \in Event, NEW d \in Event, d # e,
         NEW s, Verdict(d, s)
  PROVE  status'[e] = status[e] /\ stamp'[e] = stamp[e]
BY DEF Verdict, TypeOK

(* A verdict that is not an open status leaves nothing startable. *)
LEMMA VerdictStarts ==
  ASSUME TypeOK, NEW e \in Event, NEW s, Verdict(e, s), Startable(e)'
  PROVE  s \in Open
BY ConstantsAssumption DEF Verdict, TypeOK, Startable, FreshClaim, Open

(* A slot that becomes passive while its event gets a verdict.  If the     *)
(* event is opened again, the slot was its runner or it was open already.  *)
LEMMA SettleStep ==
  ASSUME TypeOK, NEW e \in Event, SingleRunnerOf(e),
         UNCHANGED <<kind, tasks, scan>>,
         dangling' = dangling,
         NEW w \in Workers, OnlySlot(w), Passive(w),
         \/ UNCHANGED <<status, stamp>>
         \/ \E s : /\ Verdict(wk[w].ev, s)
                   /\ s \in Open => \/ kind[wk[w].ev] # "lead"
                                    \/ Runs(w, wk[w].ev) \/ Startable(wk[w].ev)
  PROVE  SingleRunnerOf(e)'
<1>1. \A v \in Workers : Runs(v, e)' => Runs(v, e)
  BY DEF Runs, OnlySlot, Passive
<1>2. ~Runs(w, e)'
  BY DEF Runs, Passive
<1>3. CASE UNCHANGED <<status, stamp>>
  <2>1. Startable(e)' => Startable(e)
    BY <1>3, StartableFrame DEF Passive
  <2> QED
    BY <1>1, <2>1, RunnerFrame
<1>4. ASSUME NEW s, Verdict(wk[w].ev, s),
             s \in Open => \/ kind[wk[w].ev] # "lead"
                           \/ Runs(w, wk[w].ev) \/ Startable(wk[w].ev)
      PROVE  SingleRunnerOf(e)'
  <2>1. wk[w].ev \in Event
    BY DEF TypeOK, WorkerState
  <2>2. CASE e # wk[w].ev
    <3>1. status'[e] = status[e] /\ stamp'[e] = stamp[e]
      BY <1>4, <2>1, <2>2, VerdictElsewhere
    <3>2. Startable(e)' => Startable(e)
      BY <3>1, StartableFrame DEF Passive
    <3> QED
      BY <1>1, <3>2, RunnerFrame
  <2>3. CASE e = wk[w].ev /\ kind[e] # "lead"
    BY <2>3 DEF SingleRunnerOf
  <2>4. CASE e = wk[w].ev /\ kind[e] = "lead" /\ s \in Open
    BY <1>2, <1>4, <2>4, RunnerActs
  <2>5. CASE e = wk[w].ev /\ s \notin Open
    <3>1. ~Startable(e)'
      BY <1>4, <2>5, VerdictStarts
    <3> QED
      BY <1>1, <3>1, RunnerFrame
  <2> QED
    BY <2>2, <2>3, <2>4, <2>5
<1> QED
  BY <1>3, <1>4

(* A step that touches no slot and no claim time. *)
LEMMA EventStep ==
  ASSUME TypeOK, NEW e \in Event, SingleRunnerOf(e),
         UNCHANGED <<kind, wk, dangling>>,
         tasks' \cup scan'.claims \subseteq tasks \cup scan.claims,
         \/ status'[e] = status[e] /\ stamp'[e] = stamp[e]
         \/ \E s : Verdict(e, s) /\ (s \in Open => status[e] \in Open)
  PROVE  SingleRunnerOf(e)'
<1>1. \A v \in Workers : Runs(v, e)' => Runs(v, e)
  BY DEF Runs
<1>2. Startable(e)' => Startable(e)
  <2>1. CASE status'[e] = status[e] /\ stamp'[e] = stamp[e]
    BY <2>1 DEF Startable, FreshClaim
  <2>2. CASE \E s : Verdict(e, s) /\ (s \in Open => status[e] \in Open)
    BY <2>2, VerdictStarts DEF Startable
  <2> QED
    BY <2>1, <2>2
<1> QED
  BY <1>1, <1>2, RunnerFrame

(* Every step keeps runs of a lead message exclusive. *)
LEMMA SingleRunnerStep ==
  ASSUME TypeOK, Present, SingleRunner, [Next]_vars, NEW e \in Event
  PROVE  SingleRunnerOf(e)'
<1>sr. \A f \in Event : SingleRunnerOf(f)
  BY DEF SingleRunner
<1>ev. \A w \in Workers : wk[w].ev \in Event
  BY DEF TypeOK, WorkerState
<1>0. CASE UNCHANGED vars
  BY <1>0, <1>sr, EventStep DEF vars
<1>1. ASSUME NEW s \in Sales, NEW k \in Kinds, NEW m \in MediaInputs,
             NEW q \in 0..MaxSeq, Receive(s, k, m, q)
      PROVE  SingleRunnerOf(e)'
  <2> DEFINE d == <<s, nextSeq[s] + 1>>
  <2>1. d \in Event /\ status[d] = "absent" /\ kind[d] = "lead"
    BY <1>1 DEF Receive, Present, TypeOK
  <2>2. UNCHANGED <<stamp, wk, tasks, scan, dangling>>
    BY <1>1 DEF Receive, histVars
  <2>3. \A f \in Event : f # d => status'[f] = status[f] /\ kind'[f] = kind[f]
    BY <1>1 DEF Receive, TypeOK
  <2>4. CASE e = d
    <3>1. (\A w \in Workers : ~Runs(w, e)) /\ e \notin dangling
      BY <1>sr, <2>1, <2>4 DEF SingleRunnerOf, Startable, Open
    <3> QED
      BY <2>2, <3>1 DEF SingleRunnerOf, Runs
  <2>5. CASE e # d
    <3>1. Startable(e)' => Startable(e)
      BY <2>2, <2>3, <2>5 DEF Startable, FreshClaim
    <3>2. \A v \in Workers : Runs(v, e)' => Runs(v, e)
      BY <2>2 DEF Runs
    <3> QED
      BY <1>sr, <2>2, <2>3, <2>5, <3>1, <3>2, RunnerFrame
  <2> QED
    BY <2>4, <2>5
<1>2. CASE \/ \E s \in Sales : Deactivate(s)
           \/ ScanStart \/ ScanEnd \/ ScanCrash \/ \E t \in tasks : LoseTask(t)
           \/ \E w \in Workers : LoseLock(w)
           \/ \E f \in Event : MediaWaitEnds(f) \/ LeaseRunsOut(f)
  <2>1. tasks' \cup scan'.claims \subseteq tasks \cup scan.claims
    BY <1>2 DEF Deactivate, ScanStart, ScanEnd, ScanCrash, LoseTask, LoseLock,
                MediaWaitEnds, MediaArrives, LeaseRunsOut, NoScan
  <2>2. UNCHANGED <<kind, wk, dangling, status, stamp>>
    BY <1>2 DEF Deactivate, ScanStart, ScanEnd, ScanCrash, LoseTask, LoseLock,
                MediaWaitEnds, MediaArrives, LeaseRunsOut, eventVars, histVars
  <2> QED
    BY <1>sr, <2>1, <2>2, EventStep
<1>3. ASSUME NEW f \in Event, Flush(f) \/ ManualRetry(f)
      PROVE  SingleRunnerOf(e)'
  <2>1. /\ UNCHANGED <<kind, wk, dangling, tasks, scan>>
        /\ \E s : Verdict(f, s) /\ (s \in Open => status[f] \in Open)
    BY <1>3 DEF Flush, FlushSettles, FlushFails, RecordFailure, ManualRetry, Open
  <2>2. CASE e = f
    BY <1>sr, <2>1, <2>2, EventStep
  <2>3. CASE e # f
    BY <1>sr, <2>1, <2>3, VerdictElsewhere, EventStep
  <2> QED
    BY <2>2, <2>3
<1>4. ASSUME NEW d \in Event, ScanClaim(d)
      PROVE  SingleRunnerOf(e)'
  <2>0. UNCHANGED <<kind, wk, dangling, tasks>>
    BY <1>4 DEF ScanClaim, histVars
  <2>1. CASE holder[Owner(d)] = NoWorker /\ Dispatchable(d)
    <3> DEFINE t == CHOOSE x \in UnusedStamps(d) : TRUE
               c == [event |-> d, stamp |-> t, recover |-> RecoverFlag(d)]
    <3>1. /\ t \in UnusedStamps(d)
          /\ status' = [status EXCEPT ![d] = "processing"]
          /\ stamp' = [stamp EXCEPT ![d] = t]
      BY <1>4, <2>1 DEF ScanClaim
    <3>2. scan'.claims = scan.claims \cup {c}
      BY <1>4, <2>1 DEF ScanClaim, TypeOK
    <3>3. \A v \in Workers : Runs(v, e)' => Runs(v, e)
      BY <2>0 DEF Runs
    <3>4. CASE e = d
      <4>1. status'[e] = "processing" /\ stamp'[e] = t
        BY <3>1, <3>4 DEF TypeOK
      <4>2. /\ \A x \in tasks \cup scan.claims : x.event = e => x.stamp # t
            /\ \A w \in Workers : wk[w].ev = e => wk[w].stamp # t
        BY <3>1, <3>4 DEF UnusedStamps
      <4>3. Startable(e)' => ~RecoverFlag(d)
        BY <2>0, <3>2, <4>1, <4>2 DEF Startable, FreshClaim, Open
      <4>4. ~RecoverFlag(d) => Startable(e)
        BY <2>1, <3>4 DEF Dispatchable, RecoverFlag, Startable, Open
      <4> QED
        BY <1>sr, <2>0, <3>3, <4>3, <4>4, RunnerFrame
    <3>5. CASE e # d
      <4>1. status'[e] = status[e] /\ stamp'[e] = stamp[e]
        BY <3>1, <3>5 DEF TypeOK
      <4>2. Startable(e)' => Startable(e)
        BY <2>0, <3>2, <3>5, <4>1 DEF Startable, FreshClaim
      <4> QED
        BY <1>sr, <2>0, <3>3, <4>2, RunnerFrame
    <3> QED
      BY <3>4, <3>5
  <2>2. CASE ~(holder[Owner(d)] = NoWorker /\ Dispatchable(d))
    <3>1. scan'.claims = scan.claims /\ UNCHANGED <<status, stamp>>
      BY <1>4, <2>2 DEF ScanClaim, TypeOK
    <3> QED
      BY <1>sr, <2>0, <3>1, EventStep
  <2> QED
    BY <2>1, <2>2
<1>5. ASSUME NEW w \in Workers, NEW t \in tasks, NEW a \in BOOLEAN,
             Deliver(w, t, a)
      PROVE  SingleRunnerOf(e)'
  <2>1. /\ OnlySlot(w) /\ wk'[w].pc = "lock" /\ wk'[w].ev = t.event
        /\ wk'[w].stamp = t.stamp /\ wk'[w].recover = t.recover
    BY <1>5 DEF Deliver, TypeOK, OnlySlot
  <2>2. tasks' \subseteq tasks /\ UNCHANGED <<status, stamp, kind, scan, dangling>>
    BY <1>5 DEF Deliver, eventVars, histVars
  <2>3. \A v \in Workers : Runs(v, e)' => Runs(v, e)
    BY <2>1 DEF Runs, OnlySlot
  <2>4. Startable(e)' => Startable(e)
    BY <2>1, <2>2 DEF Startable, FreshClaim, OnlySlot
  <2> QED
    BY <1>sr, <2>2, <2>3, <2>4, RunnerFrame
<1>6. ASSUME NEW w \in Workers, AcquireSalesLock(w)
      PROVE  SingleRunnerOf(e)'
  <2>1. Goto(w, "take") /\ wk[w].pc = "lock"
    BY <1>6 DEF AcquireSalesLock
  <2>2. /\ OnlySlot(w) /\ wk'[w].pc = "take" /\ wk'[w].ev = wk[w].ev
        /\ wk'[w].stamp = wk[w].stamp /\ wk'[w].recover = wk[w].recover
    BY <2>1, GotoSlot DEF PCs
  <2>3. UNCHANGED <<status, stamp, kind, tasks, scan, dangling>>
    BY <1>6 DEF AcquireSalesLock, eventVars, histVars
  <2>4. \A v \in Workers : Runs(v, e)' => Runs(v, e)
    BY <2>2 DEF Runs, OnlySlot
  <2>5. Startable(e)' => Startable(e)
    BY <2>1, <2>2, <2>3 DEF Startable, FreshClaim, OnlySlot
  <2> QED
    BY <1>sr, <2>3, <2>4, <2>5, RunnerFrame
<1>7. ASSUME NEW w \in Workers, TakeClaim(w)
      PROVE  SingleRunnerOf(e)'
  <2>0. UNCHANGED <<status, kind, tasks, scan, dangling>> /\ wk[w].pc = "take"
    BY <1>7 DEF TakeClaim, histVars
  <2>1. CASE ClaimMatches(w)
    <3> DEFINE d == wk[w].ev
    <3>1. /\ OnlySlot(w) /\ wk'[w].pc = "route" /\ wk'[w].ev = d
          /\ wk'[w].recover = wk[w].recover
      BY <1>7, <2>1 DEF TakeClaim, TypeOK, WorkerState, OnlySlot
    <3>2. stamp' = [stamp EXCEPT ![d] = Taken]
      BY <1>7, <2>1 DEF TakeClaim
    <3>3. status[d] = "processing" /\ stamp[d] = wk[w].stamp
      BY <2>1 DEF ClaimMatches
    <3>4. CASE e = d
      <4>1. ~Startable(e)'
        BY <1>ev, <2>0, <3>2, <3>3, <3>4, ConstantsAssumption
        DEF TypeOK, Startable, FreshClaim, Open
      <4>2. CASE wk[w].recover
        <5>1. \A v \in Workers : Runs(v, e)' => Runs(v, e)
          BY <3>1, <4>2 DEF Runs, OnlySlot
        <5> QED
          BY <1>sr, <2>0, <4>1, <5>1, RunnerFrame
      <4>3. CASE ~wk[w].recover
        <5>1. Startable(e)
          BY <2>0, <3>3, <3>4, <4>3 DEF Present, Startable, FreshClaim
        <5> QED
          BY <1>sr, <2>0, <3>1, <4>1, <5>1, RunnerActs
      <4> QED
        BY <4>2, <4>3
    <3>5. CASE e # d
      <4>1. stamp'[e] = stamp[e]
        BY <3>2, <3>5 DEF TypeOK
      <4>2. Startable(e)' => Startable(e)
        BY <2>0, <3>1, <4>1, StartableFrame
      <4>3. \A v \in Workers : Runs(v, e)' => Runs(v, e)
        BY <3>1, <3>5 DEF Runs, OnlySlot
      <4> QED
        BY <1>sr, <2>0, <4>2, <4>3, RunnerFrame
    <3> QED
      BY <3>4, <3>5
  <2>2. CASE ~ClaimMatches(w)
    <3>1. Return(w) /\ UNCHANGED stamp
      BY <1>7, <2>2 DEF TakeClaim
    <3> QED
      BY <1>sr, <2>0, <3>1, ReturnSlot, SettleStep DEF Passive
  <2> QED
    BY <2>1, <2>2
<1>8. ASSUME NEW w \in Workers, RouteCommand(w)
      PROVE  SingleRunnerOf(e)'
  <2>1. Goto(w, "cmd") /\ UNCHANGED <<status, stamp, kind, tasks, scan, dangling>>
    BY <1>8 DEF RouteCommand, eventVars, histVars
  <2>2. OnlySlot(w) /\ Passive(w)
    BY <2>1, GotoSlot DEF PCs, Passive
  <2> QED
    BY <1>sr, <2>1, <2>2, SettleStep
<1>9. ASSUME NEW w \in Workers,
             RouteUnrecognized(w) \/ RouteAction(w) \/ Command(w) \/ CommandPending(w)
      PROVE  SingleRunnerOf(e)'
  <2>1. Return(w) /\ UNCHANGED <<kind, tasks, scan, dangling>>
    BY <1>9 DEF RouteUnrecognized, RouteAction, Command, FinishCommand,
                CommandFails, CommandPending, eventVars, histVars
  <2>2. wk[w].pc = "cmd" => kind[wk[w].ev] # "lead"
    BY DEF Present
  <2>3. \/ UNCHANGED <<status, stamp>>
        \/ \E s : Verdict(wk[w].ev, s) /\ (s \in Open => kind[wk[w].ev] # "lead")
    BY <1>9, <2>2
    DEF RouteUnrecognized, RouteAction, Command, FinishCommand, CommandFails,
        RecordFailure, CommandPending, eventVars
  <2> QED
    BY <1>sr, <2>1, <2>3, ReturnSlot, SettleStep DEF Passive
<1>10. ASSUME NEW w \in Workers, RouteRecover(w)
       PROVE  SingleRunnerOf(e)'
  <2>1. Goto(w, "next") /\ UNCHANGED <<kind, tasks, scan, dangling>>
    BY <1>10 DEF RouteRecover
  <2>2. \/ UNCHANGED <<status, stamp>>
        \/ \E s : Verdict(wk[w].ev, s) /\ s \notin Open
    BY <1>10 DEF RouteRecover, Open
  <2>3. OnlySlot(w) /\ Passive(w)
    BY <2>1, GotoSlot DEF PCs, Passive
  <2> QED
    BY <1>sr, <2>1, <2>2, <2>3, SettleStep
<1>11. ASSUME NEW w \in Workers, NEW m \in Media, RouteLead(w, m)
       PROVE  SingleRunnerOf(e)'
  <2>1. /\ Goto(w, "lead") /\ UNCHANGED <<status, stamp, kind, tasks, scan, dangling>>
        /\ wk[w].pc = "route" /\ ~wk[w].recover
    BY <1>11 DEF RouteLead, histVars
  <2>2. OnlySlot(w) /\ wk'[w].pc = "lead" /\ wk'[w].ev = wk[w].ev
    BY <2>1, GotoSlot DEF PCs
  <2>3. \A v \in Workers : Runs(v, e)' => Runs(v, e)
    BY <2>1, <2>2 DEF Runs, OnlySlot
  <2>4. Startable(e)' => Startable(e)
    BY <2>1, <2>2, StartableFrame
  <2> QED
    BY <1>sr, <2>1, <2>3, <2>4, RunnerFrame
<1>12. ASSUME NEW w \in Workers, External(w)
       PROVE  SingleRunnerOf(e)'
  <2>1. /\ Goto(w, "next") /\ wk[w].pc = "ext"
        /\ UNCHANGED <<kind, tasks, scan, dangling>>
        /\ \E s : Verdict(wk[w].ev, s)
    BY <1>12 DEF External, ExternalSettles, ExternalFails, RecordFailure
  <2>2. Runs(w, wk[w].ev)
    BY <2>1 DEF Runs
  <2>3. OnlySlot(w) /\ Passive(w)
    BY <2>1, GotoSlot DEF PCs, Passive
  <2> QED
    BY <1>sr, <2>1, <2>2, <2>3, SettleStep
<1>13. ASSUME NEW w \in Workers, ConsumeCallsOut(w)
       PROVE  SingleRunnerOf(e)'
  <2>1. PICK d \in Event :
          /\ MayConsume(w, d)
          /\ status' = [status EXCEPT ![d] = "processing"]
          /\ stamp' = [stamp EXCEPT ![d] = Taken]
          /\ Goto(w, "ext") /\ UNCHANGED <<kind, tasks, scan, dangling>>
    BY <1>13 DEF ConsumeCallsOut, Turn, Proceeds
  <2>2. wk[w].ev = d /\ wk[w].pc = "lead"
    BY <2>1 DEF MayConsume, AtLead
  <2>3. OnlySlot(w) /\ wk'[w].pc = "ext" /\ wk'[w].ev = d
    BY <2>1, <2>2, GotoSlot DEF PCs
  <2>4. Runs(w, d) \/ Startable(d)
    BY <2>1, <2>2 DEF MayConsume, Runs, Startable, Open, Completed, Statuses, TypeOK
  <2>5. CASE e = d
    <3>1. ~Startable(e)'
      BY <2>1, <2>5, ConstantsAssumption
      DEF TypeOK, Startable, FreshClaim, Open
    <3> QED
      BY <1>sr, <2>1, <2>3, <2>4, <2>5, <3>1, RunnerActs
  <2>6. CASE e # d
    <3>1. status'[e] = status[e] /\ stamp'[e] = stamp[e]
      BY <2>1, <2>6 DEF TypeOK
    <3>2. Startable(e)' => Startable(e)
      BY <2>1, <2>3, <3>1, StartableFrame
    <3>3. \A v \in Workers : Runs(v, e)' => Runs(v, e)
      BY <2>3, <2>6 DEF Runs, OnlySlot
    <3> QED
      BY <1>sr, <2>1, <3>2, <3>3, RunnerFrame
  <2> QED
    BY <2>5, <2>6
<1>14. ASSUME NEW w \in Workers, Consume(w), ~ConsumeCallsOut(w)
       PROVE  SingleRunnerOf(e)'
  <2>1. Goto(w, "next") /\ UNCHANGED <<kind, tasks, scan, dangling>>
    BY <1>14
    DEF Consume, ConsumeSettled, ConsumeUnauthorized, ConsumeBatchRetry,
        ConsumeQuoteWaits, ConsumeQuoteUnresolved, ConsumeWaits,
        ConsumeAwaitsMedia, ConsumeLocally,
        Release, eventVars, histVars
  <2>2. OnlySlot(w) /\ Passive(w)
    BY <2>1, GotoSlot DEF PCs, Passive
  <2>3. CASE ConsumeSettled(w) \/ ConsumeWaits(w)
    <3>1. \/ UNCHANGED <<status, stamp>>
          \/ \E s : Verdict(wk[w].ev, s) /\ s \notin Open
      <4>1. CASE ConsumeWaits(w)
        BY <4>1 DEF ConsumeWaits, eventVars
      <4>2. CASE ConsumeSettled(w)
        <5>1. \/ UNCHANGED <<status, stamp>>
              \/ Verdict(wk[w].ev, "failed_pending_review")
          BY <4>2 DEF ConsumeSettled, AtLead
        <5>2. "failed_pending_review" \notin Open
          BY DEF Open
        <5> QED
          BY <5>1, <5>2
      <4> QED
        BY <2>3, <4>1, <4>2
    <3> QED
      BY <1>sr, <2>1, <2>2, <3>1, SettleStep
  <2>4. CASE ~ConsumeSettled(w) /\ ~ConsumeWaits(w)
    <3>1. MayConsume(w, wk[w].ev) /\ \E s : Verdict(wk[w].ev, s)
      BY <1>14, <2>4
      DEF Consume, ConsumeUnauthorized, ConsumeBatchRetry, ConsumeQuoteWaits,
          ConsumeQuoteUnresolved,
          ConsumeAwaitsMedia, ConsumeLocally, Release, Turn, Proceeds,
          MayConsume, AtLead
    <3>2. Runs(w, wk[w].ev) \/ Startable(wk[w].ev)
      BY <3>1, <1>ev
      DEF MayConsume, AtLead, Runs, Startable, Open, Completed, Statuses, TypeOK
    <3> QED
      BY <1>sr, <2>1, <2>2, <3>1, <3>2, SettleStep
  <2> QED
    BY <2>3, <2>4
<1>15. ASSUME NEW w \in Workers, ConsumeNext(w)
       PROVE  SingleRunnerOf(e)'
  <2>1. UNCHANGED <<status, stamp, kind, tasks, scan, dangling>>
    BY <1>15 DEF ConsumeNext, eventVars, histVars
  <2>2. OnlySlot(w) /\ Passive(w)
    <3>1. CASE status[wk[w].ev] \in Completed /\ NextOpen(wk[w].ev) # {}
      <4>1. PICK f \in NextOpen(wk[w].ev) :
               wk' = [wk EXCEPT ![w] = [pc |-> "lead", ev |-> f,
                        stamp |-> NoStamp, recover |-> FALSE, claimed |-> FALSE]]
        BY <1>15, <3>1 DEF ConsumeNext
      <4> QED
        BY <4>1 DEF OnlySlot, Passive, TypeOK
    <3>2. CASE ~(status[wk[w].ev] \in Completed /\ NextOpen(wk[w].ev) # {})
      BY <1>15, <3>2, ReturnSlot DEF ConsumeNext, Passive
    <3> QED
      BY <3>1, <3>2
  <2> QED
    BY <1>sr, <2>1, <2>2, SettleStep
<1>16. ASSUME NEW w \in Workers, WorkerCrash(w)
       PROVE  SingleRunnerOf(e)'
  <2>1. Return(w) /\ UNCHANGED <<status, stamp, kind, tasks, scan>>
    BY <1>16 DEF WorkerCrash, eventVars
  <2>2. OnlySlot(w) /\ Passive(w) /\ wk'[w].pc = "idle"
    BY <2>1, ReturnSlot DEF Passive
  <2>3. CASE wk[w].pc = "ext" /\ wk[w].ev = e
    <3>1. Runs(w, e)
      BY <2>3 DEF Runs
    <3>2. Startable(e)' => Startable(e)
      BY <2>1, <2>2, StartableFrame
    <3>3. \A v \in Workers : Runs(v, e)' => v # w /\ Runs(v, e)
      BY <2>2 DEF Runs, OnlySlot
    <3> QED
      BY <1>sr, <2>1, <3>1, <3>2, <3>3 DEF SingleRunnerOf
  <2>4. CASE ~(wk[w].pc = "ext" /\ wk[w].ev = e)
    <3>1. e \in dangling' => e \in dangling
      BY <1>16, <2>4 DEF WorkerCrash
    <3>2. Startable(e)' => Startable(e)
      BY <2>1, <2>2, StartableFrame
    <3>3. \A v \in Workers : Runs(v, e)' => Runs(v, e)
      BY <2>2 DEF Runs, OnlySlot
    <3> QED
      BY <1>sr, <2>1, <3>1, <3>2, <3>3, RunnerFrame
  <2> QED
    BY <2>3, <2>4
<1>17. CASE Intake \/ Dispatcher \/ Faults
  BY <1>1, <1>2, <1>4, <1>5, <1>9, <1>16, <1>17 DEF Intake, Dispatcher, Faults
<1>18. CASE \E w \in Workers : WorkerStep(w)
  BY <1>5, <1>6, <1>7, <1>8, <1>9, <1>10, <1>11, <1>12, <1>13, <1>14, <1>15, <1>18
  DEF WorkerStep, Lookup, Route
<1> QED
  BY <1>0, <1>2, <1>3, <1>17, <1>18 DEF Next

-----------------------------------------------------------------------------
(* A lead message has at most one runner, and none once a run of it was    *)
(* lost: the inductive core of the lease protocol.                         *)
THEOREM RunsAreExclusive == Spec => [](Present /\ SingleRunner)
<1>1. Init => Present /\ SingleRunner
  BY IdleType DEF Init, Present, NoScan, SingleRunner, SingleRunnerOf, Runs
<1>2. ASSUME TypeOK, Present, SingleRunner, [Next]_vars
      PROVE  Present' /\ SingleRunner'
  BY <1>2, PresentStep, SingleRunnerStep DEF SingleRunner
<1> QED
  BY <1>1, <1>2, TypeCorrect, PTL DEF Spec

(* Two workers never run the external phase of one lead message at once,   *)
(* not even when the advisory-lock connection of one of them broke.        *)
THEOREM ExternalRunsExclusive == Spec => []OneExternalRunPerEvent
<1>1. TypeOK /\ SingleRunner => OneExternalRunPerEvent
  BY DEF TypeOK, WorkerState, SingleRunner, SingleRunnerOf, Runs,
         OneExternalRunPerEvent
<1> QED
  BY <1>1, TypeCorrect, RunsAreExclusive, PTL

(* Lost runs are remembered, and no step renames an event's type while a   *)
(* slot moves.                                                             *)
LEMMA LostRunsKept ==
  ASSUME [Next]_vars
  PROVE  dangling \subseteq dangling' /\ (kind' = kind \/ wk' = wk)
<1>1. CASE UNCHANGED vars
  BY <1>1 DEF vars
<1>2. CASE Intake \/ Dispatcher
  BY <1>2 DEF Intake, Receive, Deactivate, Dispatcher, ScanStart, ScanClaim,
              ScanEnd, histVars
<1>3. CASE \E e \in Event : MediaWaitEnds(e) \/ LeaseRunsOut(e) \/ Flush(e)
                               \/ ManualRetry(e)
  BY <1>3 DEF MediaWaitEnds, MediaArrives, LeaseRunsOut, Flush, FlushSettles,
              FlushFails, ManualRetry, histVars
<1>4. CASE \E w \in Workers : Lookup(w) \/ Route(w) \/ Command(w)
  BY <1>4 DEF Lookup, Deliver, AcquireSalesLock, TakeClaim, Route, RouteCommand,
              RouteUnrecognized, RouteAction, RouteRecover, RouteLead, Command,
              FinishCommand, CommandFails, eventVars, histVars
<1>5. CASE \E w \in Workers : Consume(w) \/ External(w) \/ ConsumeNext(w)
  BY <1>5 DEF Consume, ConsumeSettled, ConsumeUnauthorized, ConsumeBatchRetry,
              ConsumeQuoteWaits, ConsumeQuoteUnresolved, ConsumeWaits, ConsumeAwaitsMedia,
              ConsumeLocally, ConsumeCallsOut, Release, External,
              ExternalSettles, ExternalFails, ConsumeNext, eventVars, histVars
<1>6. CASE Faults
  BY <1>6 DEF Faults, ScanCrash, LoseTask, Deliver, CommandPending,
              WorkerCrash, LoseLock, eventVars, histVars
<1> QED
  BY <1>1, <1>2, <1>3, <1>4, <1>5, <1>6 DEF Next, WorkerStep

(* A lead message whose external phase was lost never enters it again: the *)
(* slot that enters it runs it afterwards, and lost runs exclude runners.  *)
THEOREM LostRunsStayLost == Spec => NoReplayAfterLostRun
<1>1. ASSUME TypeOK', SingleRunner', [Next]_vars
      PROVE  SparesLostRuns
  <2> SUFFICES ASSUME NEW w \in Workers, NEW d, d = wk'[w].ev,
                      wk[w].pc # "ext", wk'[w].pc = "ext", kind[d] = "lead"
               PROVE  d \notin dangling
    BY DEF SparesLostRuns
  <2>1. kind'[d] = "lead"
    BY <1>1, LostRunsKept
  <2>2. d \in Event
    BY <1>1 DEF TypeOK, WorkerState
  <2>3. Runs(w, d)'
    BY DEF Runs
  <2>4. SingleRunnerOf(d)'
    BY <1>1, <2>2 DEF SingleRunner
  <2>5. d \notin dangling'
    BY <2>1, <2>3, <2>4 DEF SingleRunnerOf
  <2> QED
    BY <1>1, <2>5, LostRunsKept
<1>2. (TypeOK' /\ SingleRunner' /\ [Next]_vars) => [SparesLostRuns]_vars
  BY <1>1
<1> QED
  BY <1>2, TypeCorrect, RunsAreExclusive, PTL DEF Spec, NoReplayAfterLostRun

-----------------------------------------------------------------------------
(***************************************************************************)
(* The order of a salesperson's messages, the finality of their verdicts   *)
(* and the bound on their retries, for every set of workers, claim times   *)
(* and faults.                                                             *)
(***************************************************************************)

Final == {"settled", "failed_pending_review"}

(* The slot has taken over its event and has not given it a verdict. *)
Owns(w) ==
    \/ wk[w].pc \in {"route", "cmd", "ext"}
    \/ wk[w].pc = "lead" /\ wk[w].claimed

(* While lock connections live, what a slot has taken over is in work. *)
RunsOpen ==
    ~broken => \A w \in Workers : Owns(w) => status[wk[w].ev] = "processing"

(* An event whose failures exceed the limit is in a final state. *)
RetriesCounted ==
    ~broken => \A e \in Event :
      attempts[e] > RetryLimit =>
        attempts[e] = RetryLimit + 1 /\ status[e] \in Final

(* A verdict in the row is a verdict in the history, and only received     *)
(* messages call out.                                                      *)
VerdictsSeen ==
    /\ \A e \in Event : status[e] \in Completed \cup {"retrying"} => e \in reached
    /\ \A e \in started : status[e] # "absent"

-----------------------------------------------------------------------------
(* What one step does to the events *)

(* Every event but d keeps its status and its failure count. *)
Spares(d) ==
    \A f \in Event : f # d => status'[f] = status[f] /\ attempts'[f] = attempts[f]

(* The failure count of d stays, or records a failure. *)
Counts(d) ==
    \/ attempts'[d] = attempts[d]
    \/ /\ attempts'[d] = attempts[d] + 1
       /\ attempts'[d] > RetryLimit => status'[d] = "failed_pending_review"

(* The step leaves d alone. *)
Idles(d) == status'[d] = status[d] /\ attempts'[d] = attempts[d]

LEMMA VerdictSpares ==
  ASSUME TypeOK, NEW d \in Event, NEW s, Verdict(d, s), UNCHANGED attempts
  PROVE  Spares(d) /\ Counts(d) /\ status'[d] = s
BY DEF TypeOK, Verdict, Spares, Counts

LEMMA FailureSpares ==
  ASSUME TypeOK, NEW d \in Event, NEW t \in BOOLEAN, RecordFailure(d, t)
  PROVE  /\ Spares(d) /\ Counts(d)
         /\ status'[d] \in {"retrying", "failed_pending_review"}
<1>1. /\ \A f \in Event : f # d => status'[f] = status[f] /\ attempts'[f] = attempts[f]
      /\ status'[d] = AfterFailure(d, t) /\ attempts'[d] = attempts[d] + 1
      /\ attempts[d] \in Nat
  BY DEF TypeOK, RecordFailure, Verdict
<1> QED
  BY <1>1, ConstantsAssumption DEF Spares, Counts, AfterFailure

(* A step of slot w on its event d. *)
SlotEffect(w, d) ==
    /\ OnlySlot(w) /\ Spares(d) /\ (broken' = broken \/ broken')
    /\ \/ Idles(d)
       \/ /\ Working(w) /\ Counts(d)
          /\ Owns(w) \/ status[d] \notin Final
    /\ Owns(w)' => \/ status'[wk'[w].ev] = "processing"
                   \/ Owns(w) /\ wk'[w].ev = d /\ status'[d] = status[d]

SlotAction(w) ==
    \/ WorkerStep(w) \/ CommandPending(w) \/ WorkerCrash(w) \/ LoseLock(w)
    \/ \E t \in tasks, a \in BOOLEAN : Deliver(w, t, a)

(* A step that writes no event and leaves the slot without one, or with    *)
(* the one it had taken over.                                              *)
LEMMA QuietEffect ==
  ASSUME NEW w \in Workers, OnlySlot(w), UNCHANGED <<status, attempts>>,
         broken' = broken \/ broken',
         Owns(w)' => Owns(w) /\ wk'[w].ev = wk[w].ev
  PROVE  SlotEffect(w, wk[w].ev)
BY DEF SlotEffect, Spares, Idles

(* A write on the event in hand, after which the slot owns nothing. *)
LEMMA WriteEffect ==
  ASSUME NEW w \in Workers, OnlySlot(w), Spares(wk[w].ev), Counts(wk[w].ev),
         UNCHANGED broken, Working(w), Owns(w) \/ status[wk[w].ev] \notin Final,
         ~Owns(w)'
  PROVE  SlotEffect(w, wk[w].ev)
BY DEF SlotEffect

(* Every step of a slot writes at most its own event, and only one that it *)
(* owns or that is not final.                                              *)
LEMMA SlotEffects ==
  ASSUME TypeOK, Present, NEW w \in Workers, SlotAction(w)
  PROVE  SlotEffect(w, wk[w].ev)
<1> DEFINE d == wk[w].ev
<1>ev. d \in Event
  BY DEF TypeOK, WorkerState
<1>1. ASSUME NEW t \in tasks, NEW a \in BOOLEAN, Deliver(w, t, a)
      PROVE  SlotEffect(w, d)
  <2>1. OnlySlot(w) /\ wk'[w].pc = "lock"
    BY <1>1 DEF Deliver, TypeOK, OnlySlot
  <2> QED
    BY <1>1, <2>1, QuietEffect DEF Deliver, Owns, eventVars
<1>2. CASE AcquireSalesLock(w)
  <2>1. OnlySlot(w) /\ wk'[w].pc = "take"
    BY <1>2, GotoSlot DEF AcquireSalesLock, PCs
  <2> QED
    BY <1>2, <2>1, QuietEffect DEF AcquireSalesLock, Owns, eventVars
<1>3. CASE TakeClaim(w)
  <2>1. CASE ClaimMatches(w)
    <3>1. OnlySlot(w) /\ wk'[w].ev = d
      BY <1>3, <2>1 DEF TakeClaim, TypeOK, WorkerState, OnlySlot
    <3>2. UNCHANGED <<status, attempts, broken>> /\ status[d] = "processing"
      BY <1>3, <2>1 DEF TakeClaim, ClaimMatches
    <3> QED
      BY <3>1, <3>2 DEF SlotEffect, Spares, Idles
  <2>2. CASE ~ClaimMatches(w)
    <3>1. OnlySlot(w) /\ wk'[w].pc = "idle"
      BY <1>3, <2>2, ReturnSlot DEF TakeClaim
    <3> QED
      BY <1>3, <3>1, QuietEffect DEF TakeClaim, Owns
  <2> QED
    BY <2>1, <2>2
<1>4. CASE RouteCommand(w) \/ \E m \in Media : RouteLead(w, m)
  <2>1. /\ UNCHANGED <<status, attempts, broken>> /\ Owns(w)
        /\ Goto(w, "cmd") \/ Goto(w, "lead")
    BY <1>4 DEF RouteCommand, RouteLead, Owns, eventVars
  <2>2. OnlySlot(w) /\ wk'[w].ev = d
    BY <2>1, GotoSlot DEF PCs
  <2> QED
    BY <2>1, <2>2, QuietEffect
<1>5. CASE RouteAction(w) \/ WorkerCrash(w)
  <2>1. UNCHANGED <<status, attempts, broken>> /\ Return(w)
    BY <1>5 DEF RouteAction, WorkerCrash, eventVars
  <2>2. OnlySlot(w) /\ wk'[w].pc = "idle"
    BY <2>1, ReturnSlot
  <2> QED
    BY <2>1, <2>2, QuietEffect DEF Owns
<1>6. CASE LoseLock(w)
  BY <1>6, QuietEffect DEF LoseLock, OnlySlot, Owns, eventVars
<1>7. CASE RouteUnrecognized(w) \/ FinishCommand(w) \/ CommandPending(w) \/ CommandFails(w)
  <2>1. /\ UNCHANGED broken /\ Return(w) /\ Owns(w) /\ Working(w)
    BY <1>7 DEF RouteUnrecognized, FinishCommand, CommandPending, CommandFails,
                Owns, Working
  <2>2. OnlySlot(w) /\ wk'[w].pc = "idle"
    BY <2>1, ReturnSlot
  <2>3. Spares(d) /\ Counts(d)
    BY <1>7, <1>ev, VerdictSpares, FailureSpares
    DEF RouteUnrecognized, FinishCommand, CommandPending, CommandFails
  <2> QED
    BY <2>1, <2>2, <2>3, WriteEffect DEF Owns
<1>8. CASE RouteRecover(w) \/ External(w)
  <2>1. UNCHANGED broken /\ Goto(w, "next") /\ Owns(w) /\ Working(w)
    BY <1>8 DEF RouteRecover, External, ExternalSettles, ExternalFails, Owns, Working
  <2>2. OnlySlot(w) /\ wk'[w].pc = "next"
    BY <2>1, GotoSlot DEF PCs
  <2>3. Spares(d) /\ Counts(d)
    <3>1. CASE RouteRecover(w)
      <4>1. UNCHANGED <<status, attempts>> \/ (UNCHANGED attempts /\ Verdict(d, "failed_pending_review"))
        BY <3>1 DEF RouteRecover
      <4> QED
        BY <4>1, <1>ev, VerdictSpares DEF Spares, Counts
    <3>2. CASE External(w)
      BY <3>2, <1>ev, VerdictSpares, FailureSpares
      DEF External, ExternalSettles, ExternalFails
    <3> QED
      BY <1>8, <3>1, <3>2
  <2> QED
    BY <2>1, <2>2, <2>3, WriteEffect DEF Owns
<1>9. CASE ConsumeCallsOut(w)
  <2>1. PICK e \in Event :
          /\ MayConsume(w, e) /\ status' = [status EXCEPT ![e] = "processing"]
          /\ UNCHANGED <<attempts, broken>> /\ Goto(w, "ext")
    BY <1>9 DEF ConsumeCallsOut, Turn, Proceeds
  <2>2. /\ e = d /\ Working(w) /\ wk[w].pc = "lead"
        /\ Owns(w) \/ status[d] \notin Final
    BY <2>1 DEF MayConsume, AtLead, Working, Owns, Completed, Final
  <2>3. OnlySlot(w) /\ wk'[w].ev = d
    BY <2>1, GotoSlot DEF PCs
  <2>4. Spares(d) /\ Counts(d) /\ status'[d] = "processing"
    BY <2>1, <2>2 DEF TypeOK, Spares, Counts
  <2> QED
    BY <2>1, <2>2, <2>3, <2>4 DEF SlotEffect
<1>10. CASE Consume(w) /\ ~ConsumeCallsOut(w)
  <2>1. /\ UNCHANGED <<broken, attempts>> /\ Goto(w, "next") /\ wk[w].pc = "lead"
    BY <1>10
    DEF Consume, ConsumeSettled, ConsumeUnauthorized, ConsumeBatchRetry,
        ConsumeQuoteWaits, ConsumeQuoteUnresolved, ConsumeWaits,
        ConsumeAwaitsMedia, ConsumeLocally, Release, Turn, Proceeds,
        MayConsume, AtLead, eventVars
  <2>2. OnlySlot(w) /\ wk'[w].pc = "next"
    BY <2>1, GotoSlot DEF PCs
  <2>3. CASE UNCHANGED status
    BY <2>1, <2>2, <2>3, QuietEffect DEF Owns
  <2>4. CASE ~UNCHANGED status
    <3>1. CASE ConsumeSettled(w)
      <4>1. PICK e \in Event : /\ e = wk[w].ev /\ LeaseExpired(e)
                               /\ Verdict(e, "failed_pending_review")
        BY <2>4, <3>1 DEF ConsumeSettled, AtLead
      <4>2. status[d] \notin Final
        BY <4>1 DEF LeaseExpired, Final
      <4> QED
        BY <2>1, <2>2, <4>1, <4>2, VerdictSpares, WriteEffect DEF Owns, Working
    <3>2. CASE ~ConsumeSettled(w)
      <4>1. MayConsume(w, d) /\ \E s : Verdict(d, s)
        BY <1>10, <2>4, <3>2
        DEF Consume, ConsumeUnauthorized, ConsumeBatchRetry, ConsumeQuoteWaits,
            ConsumeQuoteUnresolved, ConsumeWaits, ConsumeAwaitsMedia,
            ConsumeLocally, Release, Turn, Proceeds, MayConsume, AtLead,
            eventVars
      <4>2. Owns(w) \/ status[d] \notin Final
        BY <4>1 DEF MayConsume, AtLead, Owns, Completed, Final
      <4> QED
        BY <1>ev, <2>1, <2>2, <4>1, <4>2, VerdictSpares, WriteEffect DEF Owns, Working
    <3> QED
      BY <3>1, <3>2
  <2> QED
    BY <2>3, <2>4
<1>11. CASE ConsumeNext(w)
  <2>1. UNCHANGED <<status, attempts, broken>>
    BY <1>11 DEF ConsumeNext, eventVars
  <2>2. OnlySlot(w) /\ ~Owns(w)'
    <3>1. CASE status[wk[w].ev] \in Completed /\ NextOpen(wk[w].ev) # {}
      <4>1. PICK f \in NextOpen(wk[w].ev) :
               wk' = [wk EXCEPT ![w] = [pc |-> "lead", ev |-> f,
                        stamp |-> NoStamp, recover |-> FALSE, claimed |-> FALSE]]
        BY <1>11, <3>1 DEF ConsumeNext
      <4> QED
        BY <4>1 DEF OnlySlot, Owns, TypeOK
    <3>2. CASE ~(status[wk[w].ev] \in Completed /\ NextOpen(wk[w].ev) # {})
      BY <1>11, <3>2, ReturnSlot DEF ConsumeNext, Owns
    <3> QED
      BY <3>1, <3>2
  <2> QED
    BY <2>1, <2>2, QuietEffect
<1> QED
  BY <1>1, <1>2, <1>3, <1>4, <1>5, <1>6, <1>7, <1>8, <1>9, <1>10, <1>11
  DEF SlotAction, WorkerStep, Lookup, Route, Command

(* A step of intake, the scan, the clock, the flush or a person writes at  *)
(* most one event d, and none that a slot has in work unless it claims it. *)
FreeEffect(d) ==
    /\ UNCHANGED <<wk, broken>> /\ Spares(d)
    /\ \/ Idles(d)
       \/ /\ Counts(d) /\ status[d] \notin Final
          /\ status[d] # "processing" \/ status'[d] = "processing"
       \/ /\ status[d] = "failed_pending_review" /\ status'[d] = "settled"
          /\ attempts'[d] = attempts[d]

LEMMA FreeQuiet ==
  ASSUME UNCHANGED <<wk, broken, status, attempts>>
  PROVE  \E d \in Event : FreeEffect(d)
<1>1. Idle.ev \in Event
  BY IdleType DEF WorkerState
<1> QED
  BY <1>1 DEF FreeEffect, Spares, Idles

LEMMA FreeEffects ==
  ASSUME TypeOK, Present, [Next]_vars
  PROVE  (\E w \in Workers : SlotAction(w)) \/ (\E d \in Event : FreeEffect(d))
<1>0. CASE UNCHANGED vars
  BY <1>0, FreeQuiet DEF vars
<1>1. ASSUME NEW s \in Sales, NEW k \in Kinds, NEW m \in MediaInputs,
             NEW q \in 0..MaxSeq, Receive(s, k, m, q)
      PROVE  \E d \in Event : FreeEffect(d)
  <2> DEFINE d == <<s, nextSeq[s] + 1>>
  <2>1. d \in Event /\ status[d] = "absent"
    BY <1>1 DEF Receive, Present, TypeOK
  <2>2. Spares(d) /\ Counts(d) /\ UNCHANGED <<wk, broken>>
    BY <1>1 DEF Receive, TypeOK, Spares, Counts
  <2> QED
    BY <2>1, <2>2 DEF FreeEffect, Final
<1>2. ASSUME NEW s \in Sales, Deactivate(s)
      PROVE  \E d \in Event : FreeEffect(d)
  BY <1>2, FreeQuiet DEF Deactivate, eventVars
<1>3. CASE ScanStart \/ ScanEnd \/ ScanCrash \/ \E t \in tasks : LoseTask(t)
  BY <1>3, FreeQuiet DEF ScanStart, ScanEnd, ScanCrash, LoseTask, eventVars
<1>4. ASSUME NEW e \in Event, ScanClaim(e)
      PROVE  \E d \in Event : FreeEffect(d)
  <2>1. CASE holder[Owner(e)] = NoWorker /\ Dispatchable(e)
    <3>1. /\ status' = [status EXCEPT ![e] = "processing"]
          /\ UNCHANGED <<attempts, wk, broken>>
      BY <1>4, <2>1 DEF ScanClaim
    <3>2. status[e] \notin Final
      BY <2>1 DEF Dispatchable, LeaseExpired, Final
    <3> QED
      BY <3>1, <3>2 DEF FreeEffect, Spares, Counts, TypeOK
  <2>2. CASE ~(holder[Owner(e)] = NoWorker /\ Dispatchable(e))
    BY <1>4, <2>2, FreeQuiet DEF ScanClaim
  <2> QED
    BY <2>1, <2>2
<1>5. ASSUME NEW e \in Event, MediaWaitEnds(e) \/ LeaseRunsOut(e)
      PROVE  \E d \in Event : FreeEffect(d)
  BY <1>5, FreeQuiet DEF MediaWaitEnds, MediaArrives, LeaseRunsOut
<1>6. ASSUME NEW e \in Event, Flush(e)
      PROVE  \E d \in Event : FreeEffect(d)
  <2>1. UNCHANGED <<wk, broken>> /\ status[e] = "batch_pending"
    BY <1>6 DEF Flush, FlushSettles, FlushFails
  <2>2. Spares(e) /\ Counts(e)
    BY <1>6, VerdictSpares, FailureSpares DEF Flush, FlushSettles, FlushFails
  <2> QED
    BY <2>1, <2>2 DEF FreeEffect, Final
<1>7. ASSUME NEW e \in Event, ManualRetry(e)
      PROVE  \E d \in Event : FreeEffect(d)
  <2>1. /\ UNCHANGED <<wk, broken, attempts>> /\ status[e] = "failed_pending_review"
        /\ Verdict(e, "settled")
    BY <1>7 DEF ManualRetry
  <2> QED
    BY <2>1, VerdictSpares DEF FreeEffect
<1> QED
  BY <1>0, <1>1, <1>2, <1>3, <1>4, <1>5, <1>6, <1>7
  DEF Next, Intake, Dispatcher, Faults, SlotAction

-----------------------------------------------------------------------------
(* Finality and the retry bound *)

(* What a step may do to an event while lock connections live. *)
EventMove(e) ==
    \/ Idles(e)
    \/ Counts(e) /\ status[e] \notin Final
    \/ /\ status[e] = "failed_pending_review" /\ status'[e] = "settled"
       /\ attempts'[e] = attempts[e]

(* A slot only writes events that are not final: what it owns is in work,  *)
(* because the sales lock keeps every other slot away from it.             *)
LEMMA EventMoves ==
  ASSUME TypeOK, Present, RunsOpen, ~broken, [Next]_vars, NEW e \in Event
  PROVE  EventMove(e)
<1>1. ASSUME NEW w \in Workers, SlotAction(w)
      PROVE  EventMove(e)
  <2>1. SlotEffect(w, wk[w].ev)
    BY <1>1, SlotEffects
  <2>2. Owns(w) => status[wk[w].ev] \notin Final
    BY DEF RunsOpen, Final
  <2> QED
    BY <2>1, <2>2 DEF SlotEffect, EventMove, Spares, Idles
<1>2. ASSUME NEW d \in Event, FreeEffect(d)
      PROVE  EventMove(e)
  BY <1>2 DEF FreeEffect, EventMove, Spares, Idles
<1> QED
  BY <1>1, <1>2, FreeEffects

(* An owned event stays in work: other slots of the salesperson are locked *)
(* out, and the rest of the system does not touch an event in work.        *)
LEMMA RunsOpenStep ==
  ASSUME TypeOK, Present, LockInv, RunsOpen, [Next]_vars
  PROVE  RunsOpen'
<1> SUFFICES ASSUME ~broken', NEW v \in Workers, Owns(v)'
             PROVE  status'[wk'[v].ev] = "processing"
  BY DEF RunsOpen
<1>ev. \A w \in Workers : wk[w].ev \in Event
  BY DEF TypeOK, WorkerState
<1>1. ASSUME NEW w \in Workers, SlotAction(w)
      PROVE  status'[wk'[v].ev] = "processing"
  <2>1. SlotEffect(w, wk[w].ev)
    BY <1>1, SlotEffects
  <2>2. ~broken
    BY <2>1 DEF SlotEffect
  <2>3. CASE v = w
    BY <2>1, <2>2, <2>3 DEF SlotEffect, RunsOpen
  <2>4. CASE v # w
    <3>1. wk'[v] = wk[v]
      BY <2>1, <2>4 DEF SlotEffect, OnlySlot
    <3>2. Owns(v) /\ Working(v)
      BY <3>1 DEF Owns, Working
    <3>3. status[wk[v].ev] = "processing"
      BY <2>2, <3>2 DEF RunsOpen
    <3>4. Working(w) => wk[v].ev # wk[w].ev
      BY <2>2, <2>4, <3>2 DEF LockInv
    <3> QED
      BY <1>ev, <2>1, <3>1, <3>3, <3>4 DEF SlotEffect, Spares, Idles
  <2> QED
    BY <2>3, <2>4
<1>2. ASSUME NEW d \in Event, FreeEffect(d)
      PROVE  status'[wk'[v].ev] = "processing"
  <2>1. Owns(v) /\ wk'[v].ev = wk[v].ev /\ ~broken
    BY <1>2 DEF FreeEffect, Owns
  <2>2. status[wk[v].ev] = "processing"
    BY <2>1 DEF RunsOpen
  <2> QED
    BY <1>ev, <1>2, <2>1, <2>2 DEF FreeEffect, Spares, Idles
<1> QED
  BY <1>1, <1>2, FreeEffects

(* A broken lock connection is remembered. *)
LEMMA BrokenStays ==
  ASSUME TypeOK, Present, [Next]_vars, broken
  PROVE  broken'
<1>1. (\E w \in Workers : SlotEffect(w, wk[w].ev)) \/ (\E d \in Event : FreeEffect(d))
  BY FreeEffects, SlotEffects
<1> QED
  BY <1>1 DEF SlotEffect, FreeEffect

LEMMA RetriesStep ==
  ASSUME TypeOK, Present, RunsOpen, RetriesCounted, [Next]_vars
  PROVE  RetriesCounted'
<1> SUFFICES ASSUME ~broken', NEW e \in Event, attempts'[e] > RetryLimit
             PROVE  attempts'[e] = RetryLimit + 1 /\ status'[e] \in Final
  BY DEF RetriesCounted
<1>1. ~broken
  BY BrokenStays
<1>2. EventMove(e)
  BY <1>1, EventMoves
<1>3. attempts[e] \in Nat /\ RetryLimit \in Nat
  BY ConstantsAssumption DEF TypeOK
<1>4. attempts[e] > RetryLimit =>
        attempts[e] = RetryLimit + 1 /\ status[e] \in Final
  BY <1>1 DEF RetriesCounted
<1>5. CASE Idles(e)
  BY <1>4, <1>5 DEF Idles
<1>6. CASE Counts(e) /\ status[e] \notin Final
  BY <1>3, <1>4, <1>6 DEF Counts, Final
<1>7. CASE /\ status[e] = "failed_pending_review" /\ status'[e] = "settled"
           /\ attempts'[e] = attempts[e]
  BY <1>4, <1>7 DEF Final
<1> QED
  BY <1>2, <1>5, <1>6, <1>7 DEF EventMove

(* The lock and the events in work, as one invariant of the pipeline. *)
LEMMA RunsStayOpen == Spec => [](LockInv /\ RunsOpen)
<1>1. Init => LockInv /\ RunsOpen
  BY IdleType DEF Init, LockInv, Working, RunsOpen, Owns
<1> QED
  BY <1>1, TypeCorrect, RunsAreExclusive, LockStep, RunsOpenStep, PTL DEF Spec

(* Over any mixture of worker runs, batch flushes, lease recoveries and    *)
(* faults an event records at most RetryLimit + 1 failures, as long as no  *)
(* lock connection breaks under a live worker.                             *)
THEOREM RetriesAreBounded == Spec => []FailuresBounded
<1>1. Init => RetriesCounted
  BY ConstantsAssumption DEF Init, RetriesCounted
<1>2. TypeOK /\ RetriesCounted => FailuresBounded
  BY ConstantsAssumption DEF TypeOK, RetriesCounted, FailuresBounded
<1> QED
  BY <1>1, <1>2, TypeCorrect, RunsAreExclusive, RunsStayOpen, RetriesStep, PTL
  DEF Spec

(* A settled message stays settled and a failed one is only ever lifted to *)
(* settled, whatever scan, worker, redelivery or flush comes late.         *)
THEOREM VerdictsAreFinal == Spec => SettledIsFinal
<1> DEFINE Keeps ==
      ~broken =>
       \A e \in Event :
         /\ status[e] = "settled" => status'[e] = "settled"
         /\ status[e] = "failed_pending_review" =>
              status'[e] \in {"failed_pending_review", "settled"}
<1>1. ASSUME TypeOK, Present, RunsOpen, [Next]_vars
      PROVE  Keeps
  <2> SUFFICES ASSUME ~broken, NEW e \in Event, status[e] \in Final
               PROVE  /\ status[e] = "settled" => status'[e] = "settled"
                      /\ status[e] = "failed_pending_review" =>
                           status'[e] \in {"failed_pending_review", "settled"}
    BY DEF Final
  <2>1. EventMove(e)
    BY <1>1, EventMoves
  <2> QED
    BY <2>1 DEF EventMove, Idles
<1>2. TypeOK /\ Present /\ RunsOpen /\ [Next]_vars => [Keeps]_vars
  BY <1>1
<1> QED
  BY <1>2, TypeCorrect, RunsAreExclusive, RunsStayOpen, PTL
  DEF Spec, SettledIsFinal

-----------------------------------------------------------------------------
(* The order of first verdicts *)

Verdicts == Completed \cup {"retrying"}

(* Every verdict the step writes enters the history. *)
Marks ==
    /\ reached \subseteq reached'
    /\ \A f \in Event : status'[f] \in Verdicts =>
                          status'[f] = status[f] \/ f \in reached'

(* A step on received events that calls out for nobody. *)
Orderly == Marks /\ KeepsEvents /\ UNCHANGED <<quote, started>>

LEMMA VerdictOrderly ==
  ASSUME TypeOK, NEW e \in Event, status[e] # "absent",
         NEW s \in Statuses \ {"absent"}, Verdict(e, s),
         UNCHANGED <<quote, started>>
  PROVE  Orderly
<1>1. Marks
  BY DEF TypeOK, Verdict, Marks, Verdicts
<1> QED
  BY <1>1, VerdictKeepsEvents DEF Orderly

LEMMA FailureOrderly ==
  ASSUME TypeOK, NEW e \in Event, status[e] # "absent",
         NEW t \in BOOLEAN, RecordFailure(e, t), UNCHANGED <<quote, started>>
  PROVE  Orderly
BY VerdictOrderly DEF RecordFailure, AfterFailure, Statuses

LEMMA QuietOrderly ==
  ASSUME UNCHANGED <<status, reached, quote, started>>
  PROVE  Orderly
BY DEF Orderly, Marks, KeepsEvents

(* Apart from intake and from the call-out itself every step is orderly. *)
LEMMA OrderlyStep ==
  ASSUME TypeOK, Present, [Next]_vars
  PROVE  \/ Orderly
         \/ \E s \in Sales, k \in Kinds, m \in MediaInputs, q \in 0..MaxSeq :
              Receive(s, k, m, q)
         \/ \E w \in Workers : ConsumeCallsOut(w)
<1>ev. \A w \in Workers :
         wk[w].ev \in Event /\ (wk[w].pc # "idle" => status[wk[w].ev] # "absent")
  BY DEF TypeOK, WorkerState, Present
<1>0. CASE UNCHANGED vars
  BY <1>0, QuietOrderly DEF vars
<1>1. CASE \/ \E s \in Sales : Deactivate(s)
           \/ ScanStart \/ ScanEnd \/ ScanCrash
           \/ \E t \in tasks : LoseTask(t)
  BY <1>1, QuietOrderly
  DEF Deactivate, ScanStart, ScanEnd, ScanCrash, LoseTask, eventVars, histVars
<1>2. ASSUME NEW e \in Event, ScanClaim(e)
      PROVE  Orderly
  <2>1. CASE holder[Owner(e)] = NoWorker /\ Dispatchable(e)
    <3>1. /\ status' = [status EXCEPT ![e] = "processing"]
          /\ UNCHANGED <<reached, quote, started>>
      BY <1>2, <2>1 DEF ScanClaim, histVars
    <3>2. status[e] # "absent"
      BY <2>1 DEF Dispatchable, LeaseExpired
    <3> QED
      BY <3>1, <3>2
      DEF Orderly, Marks, KeepsEvents, Verdicts, Completed, TypeOK
  <2>2. CASE ~(holder[Owner(e)] = NoWorker /\ Dispatchable(e))
    BY <1>2, <2>2, QuietOrderly DEF ScanClaim, histVars
  <2> QED
    BY <2>1, <2>2
<1>3. ASSUME NEW e \in Event,
             MediaWaitEnds(e) \/ LeaseRunsOut(e) \/ Flush(e) \/ ManualRetry(e)
      PROVE  Orderly
  <2>1. CASE MediaWaitEnds(e) \/ LeaseRunsOut(e)
    BY <2>1, QuietOrderly DEF MediaWaitEnds, MediaArrives, LeaseRunsOut, histVars
  <2>2. CASE FlushSettles(e) \/ ManualRetry(e)
    BY <2>2, VerdictOrderly DEF FlushSettles, ManualRetry, Statuses
  <2>3. CASE \E t \in BOOLEAN : FlushFails(e, t)
    BY <2>3, FailureOrderly DEF FlushFails
  <2> QED
    BY <1>3, <2>1, <2>2, <2>3 DEF Flush
<1>4. ASSUME NEW w \in Workers, Lookup(w) \/ ConsumeNext(w) \/ WorkerCrash(w)
                 \/ LoseLock(w) \/ \E t \in tasks : Deliver(w, t, TRUE)
      PROVE  Orderly
  BY <1>4, QuietOrderly
  DEF Lookup, Deliver, AcquireSalesLock, TakeClaim, ConsumeNext, WorkerCrash,
      LoseLock, eventVars, histVars
<1>5. ASSUME NEW w \in Workers, Route(w) \/ Command(w) \/ CommandPending(w)
      PROVE  Orderly
  <2>1. CASE RouteCommand(w) \/ RouteAction(w) \/ \E m \in Media : RouteLead(w, m)
    BY <2>1, QuietOrderly DEF RouteCommand, RouteAction, RouteLead, eventVars, histVars
  <2>2. CASE RouteUnrecognized(w) \/ FinishCommand(w) \/ CommandPending(w)
    BY <1>ev, <2>2, VerdictOrderly
    DEF RouteUnrecognized, FinishCommand, CommandPending, Statuses
  <2>3. CASE CommandFails(w)
    BY <1>ev, <2>3, FailureOrderly DEF CommandFails
  <2>4. CASE RouteRecover(w)
    BY <1>ev, <2>4, VerdictOrderly, QuietOrderly DEF RouteRecover, Statuses
  <2> QED
    BY <1>5, <2>1, <2>2, <2>3, <2>4 DEF Route, Command
<1>6. ASSUME NEW w \in Workers, Consume(w), ~ConsumeCallsOut(w)
      PROVE  Orderly
  <2>1. UNCHANGED <<quote, started>> /\ wk[w].pc = "lead"
    BY <1>6
    DEF Consume, ConsumeSettled, ConsumeUnauthorized, ConsumeBatchRetry,
        ConsumeQuoteWaits, ConsumeQuoteUnresolved, ConsumeWaits,
        ConsumeAwaitsMedia, ConsumeLocally, Release, Turn, Proceeds,
        MayConsume, AtLead, eventVars, histVars
  <2>2. \/ UNCHANGED <<status, reached>>
        \/ \E s \in Statuses \ {"absent"} : Verdict(wk[w].ev, s)
    BY <1>6
    DEF Consume, ConsumeSettled, ConsumeUnauthorized, ConsumeBatchRetry,
        ConsumeQuoteWaits, ConsumeQuoteUnresolved, ConsumeWaits,
        ConsumeAwaitsMedia, ConsumeLocally, Release, Turn, Proceeds,
        MayConsume, AtLead, LocalVerdicts, Statuses, eventVars, histVars
  <2> QED
    BY <1>ev, <2>1, <2>2, VerdictOrderly, QuietOrderly
<1>7. ASSUME NEW w \in Workers, External(w)
      PROVE  Orderly
  <2>1. CASE \E v \in {"settled", "batch_pending"} : ExternalSettles(w, v)
    BY <1>ev, <2>1, VerdictOrderly DEF ExternalSettles, Statuses
  <2>2. CASE \E t \in BOOLEAN : ExternalFails(w, t)
    BY <1>ev, <2>2, FailureOrderly DEF ExternalFails
  <2> QED
    BY <1>7, <2>1, <2>2 DEF External
<1> QED
  BY <1>0, <1>1, <1>2, <1>3, <1>4, <1>5, <1>6, <1>7
  DEF Next, Intake, Dispatcher, WorkerStep, Faults

(* Intake appends behind everything received, a call-out waits for every   *)
(* earlier verdict, and an orderly step only adds verdicts.                *)
LEMMA OrderStep ==
  ASSUME TypeOK, Present, VerdictsSeen, FirstVerdictsInOrder, [Next]_vars
  PROVE  VerdictsSeen' /\ FirstVerdictsInOrder'
<1>1. CASE Orderly
  <2>1. \A e \in Event : status'[e] \in Verdicts => e \in reached'
    BY <1>1 DEF Orderly, Marks, VerdictsSeen, Verdicts
  <2>2. \A e \in started' : status'[e] # "absent"
    BY <1>1 DEF Orderly, KeepsEvents, VerdictsSeen, TypeOK
  <2>3. \A e \in Event : Earlier(e)' = Earlier(e)
    BY <1>1 DEF Orderly, KeepsEvents, Earlier
  <2>4. FirstVerdictsInOrder'
    BY <1>1, <2>3 DEF Orderly, Marks, FirstVerdictsInOrder, TypeOK
  <2> QED
    BY <2>1, <2>2, <2>4 DEF VerdictsSeen, Verdicts
<1>2. ASSUME NEW s \in Sales, NEW k \in Kinds, NEW m \in MediaInputs,
             NEW q \in 0..MaxSeq, Receive(s, k, m, q)
      PROVE  VerdictsSeen' /\ FirstVerdictsInOrder'
  <2> DEFINE d == <<s, nextSeq[s] + 1>>
  <2>1. d \in Event /\ status[d] = "absent" /\ nextSeq[s] \in Nat
    BY <1>2 DEF Receive, Present, TypeOK
  <2>2. /\ \A f \in Event : f # d => status'[f] = status[f] /\ quote'[f] = quote[f]
        /\ status'[d] = "pending" /\ UNCHANGED <<reached, started>>
    BY <1>2, <2>1 DEF Receive, TypeOK, histVars
  <2>3. VerdictsSeen'
    BY <2>1, <2>2 DEF VerdictsSeen, Completed, TypeOK
  <2>4. ASSUME NEW e \in started, quote'[e] = 0
        PROVE  Earlier(e)' \subseteq reached'
    <3>1. e \in Event /\ e # d /\ status[e] # "absent"
      BY <2>1 DEF VerdictsSeen, TypeOK
    <3>2. d \notin Earlier(e)'
      <4>1. e[1] = s => e[2] <= nextSeq[s]
        BY <3>1, <2>1, EventParts DEF Present
      <4>2. e[2] \in Nat
        BY <3>1, EventParts, ConstantsAssumption
      <4> QED
        BY <4>1, <4>2, <2>1 DEF Earlier
    <3>3. Earlier(e)' \subseteq Earlier(e)
      BY <2>2, <3>2 DEF Earlier
    <3> QED
      BY <2>2, <2>4, <3>1, <3>3 DEF FirstVerdictsInOrder
  <2> QED
    BY <2>2, <2>3, <2>4 DEF FirstVerdictsInOrder
<1>3. ASSUME NEW w \in Workers, ConsumeCallsOut(w)
      PROVE  VerdictsSeen' /\ FirstVerdictsInOrder'
  <2>1. PICK d \in Event :
          /\ Turn(w, d) /\ status' = [status EXCEPT ![d] = "processing"]
          /\ started' = started \cup {d} /\ UNCHANGED <<quote, reached>>
    BY <1>3 DEF ConsumeCallsOut
  <2>2. status[d] # "absent"
    BY <2>1 DEF Turn, Proceeds, MayConsume, AtLead, Present
  <2>3. KeepsEvents
    BY <2>1, <2>2 DEF KeepsEvents, TypeOK
  <2>4. VerdictsSeen'
    BY <2>1 DEF VerdictsSeen, Completed, TypeOK
  <2>5. \A e \in Event : Earlier(e)' = Earlier(e)
    BY <2>3 DEF KeepsEvents, Earlier
  <2>6. quote[d] = 0 => Earlier(d) \subseteq reached
    <3>1. \A f \in Earlier(d) : f \in Event
      BY DEF Earlier
    <3> QED
      BY <2>1, <3>1 DEF Turn, HasUnfinishedPrevious, VerdictsSeen
  <2> QED
    BY <2>1, <2>4, <2>5, <2>6 DEF FirstVerdictsInOrder, TypeOK
<1> QED
  BY <1>1, <1>2, <1>3, OrderlyStep

(* A message that quotes nothing calls out only after every earlier        *)
(* message of its salesperson has had a first verdict, through crashes,    *)
(* redeliveries and even lost sales locks: consume checks the order itself *)
(* in the transaction that calls out.                                      *)
THEOREM CallsOutInOrder == Spec => []FirstVerdictsInOrder
<1>1. Init => VerdictsSeen /\ FirstVerdictsInOrder
  BY DEF Init, VerdictsSeen, FirstVerdictsInOrder, Completed
<1> QED
  BY <1>1, TypeCorrect, RunsAreExclusive, OrderStep, PTL DEF Spec
=============================================================================
