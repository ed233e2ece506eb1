-------------------------- MODULE CardActionProofs --------------------------
(***************************************************************************)
(* Proofs about CardAction for every set of workers, every set of leads    *)
(* and every bound: the type invariant, that the domain operation of an    *)
(* action is entered at most once, that a refused action has no effect,    *)
(* that a success covers the selection, and that every step of the card is *)
(* a step of OneTimeAction or leaves it alone.                             *)
(*                                                                         *)
(* The properties are not inductive: whether a worker may still write      *)
(* depends on what it was doing when the lease ran out.  CardInv ties      *)
(* the worker's place to ob.started (nobody is inside the operation unless *)
(* the Outbox row says it began), the row's status to the action's, and    *)
(* what a worker has in hand to the leads that were selected.              *)
(***************************************************************************)
EXTENDS CardAction, FiniteSetTheorems, TLAPS

Accepted == act \in {"processing", "succeeded", "pending_recovery"}

\* Before the first valid click there is no row, no task and no work.
NotTakenYet ==
    act \in {"none", "pending"} =>
        /\ ob = Row /\ tasks = 0 /\ sel = {} /\ saved = {}
        /\ wk = [w \in Workers |-> Idle]

RowInv ==
    /\ ob.st \in {"none", "pending"} => ~ob.started
    /\ act = "processing" => ob.st \in {"pending", "processing"}
    /\ act \in {"denied", "expired"} => ~ob.started

RunInv ==
    /\ starts = IF ob.started THEN 1 ELSE 0
    /\ called # {} => ob.started

\* What a worker has in hand: r is its record.
WorkerInv(r) ==
    /\ r.pc \in {"domain", "written", "marked", "drain"} => ob.started
    /\ r.pc \in {"written", "marked"} => kind = "field"
    /\ r.todo \subseteq sel /\ r.done \subseteq sel
    /\ r.pc = "domain" /\ KeepsResults => sel \subseteq saved \cup r.todo \cup r.done
    /\ r.pc = "finish" /\ r.ok /\ KeepsResults => sel \subseteq saved

SelectionInv ==
    KeepsResults =>
        /\ Accepted => sel # {}
        /\ act = "succeeded" => sel \subseteq saved

WorkersInv == \A w \in Workers : WorkerInv(wk[w])

CardInv == NotTakenYet /\ RowInv /\ RunInv /\ SelectionInv /\ WorkersInv

Inv == TypeOK /\ CardInv

Worker == [pc : {"idle", "claimed", "domain", "written", "marked", "drain",
                 "finish"},
           tok : Nat, todo : SUBSET Leads, done : SUBSET Leads, ok : BOOLEAN]

Rows == [st : {"none", "pending", "processing", "succeeded", "failed"},
         tok : Nat, att : Nat, lease : {"none", "live", "expired"},
         disp : {"none", "live", "expired"}, started : BOOLEAN,
         effect : {"none", "unknown", "succeeded"}]

------------------------------------------------------------------------------
(* The initial state and the steps that leave the workers alone *)

LEMMA IdleWorker == Idle \in Worker /\ WorkerInv(Idle)
  BY DEF Idle, Worker, WorkerInv

LEMMA InitInv == Init => Inv
<1> SUFFICES ASSUME Init PROVE Inv
  OBVIOUS
<1>0. ob \in Rows /\ wk \in [Workers -> Worker]
  BY IdleWorker DEF Init, Row, Rows
<1>1. TypeOK
  <2>1. /\ tasks \in 0..MaxTasks /\ starts \in Nat /\ clicks \in 0..MaxClicks
        /\ faults \in 0..MaxFaults
    BY CardAssumption DEF Init
  <2>2. due \in BOOLEAN /\ active \in BOOLEAN /\ cross \in BOOLEAN /\ written \in BOOLEAN
    BY DEF Init
  <2> QED
    BY <1>0, <2>1, <2>2 DEF Init, TypeOK, Rows, Worker, Statuses, Outcomes
<1>2. NotTakenYet /\ RowInv /\ RunInv /\ SelectionInv
  BY DEF Init, NotTakenYet, RowInv, RunInv, SelectionInv, Row, Accepted, KeepsResults
<1>3. WorkersInv
  BY IdleWorker DEF Init, WorkersInv
<1> QED
  BY <1>1, <1>2, <1>3 DEF Inv, CardInv

\* The invariant of the workers depends on four variables beside wk.
LEMMA WorkersKept ==
  ASSUME WorkersInv, UNCHANGED <<wk, kind, sel>>, saved \subseteq saved',
         ob.started => ob'.started
  PROVE  WorkersInv'
  BY DEF WorkersInv, WorkerInv, KeepsResults

LEMMA IssueStep == ASSUME Inv, Issue PROVE Inv'
<1>0. TypeOK /\ CardInv
  BY DEF Inv
<1>1. PICK k \in Kinds, x \in BOOLEAN : \E c \in TargetsOf(k) :
        kind' = k /\ cross' = x /\ cands' = c
  BY DEF Issue
<1>2. PICK c \in TargetsOf(k) : kind' = k /\ cross' = x /\ cands' = c
  BY <1>1
<1>3. c \subseteq Leads /\ k \in AllKinds
  BY <1>2, CardAssumption DEF TargetsOf, BatchPage, DuplicateGroup, CompanyMatches,
     FieldCard, ButtonCard
<1>4. UNCHANGED <<sel, saved, due, ob, reply, told, active, owned, tasks, wk,
                  written, starts, called, clicks, faults>>
      /\ act = "none" /\ act' = "pending"
  BY DEF Issue, dir, hist
<1>5. sel = {} /\ saved = {} /\ wk = [w \in Workers |-> Idle] /\ ob = Row
      /\ tasks = 0
  BY <1>0, <1>4 DEF CardInv, NotTakenYet
<1>6. TypeOK'
  BY <1>0, <1>2, <1>3, <1>4, <1>5 DEF TypeOK, Statuses
<1>7. NotTakenYet' /\ RowInv' /\ RunInv' /\ SelectionInv'
  BY <1>0, <1>4, <1>5 DEF CardInv, NotTakenYet, RowInv, RunInv, SelectionInv,
     Accepted, KeepsResults
<1>8. WorkersInv'
  BY <1>4, <1>5 DEF WorkersInv, WorkerInv, Idle, KeepsResults
<1> QED
  BY <1>6, <1>7, <1>8 DEF Inv, CardInv

LEMMA CloseStep == ASSUME Inv, CloseCard PROVE Inv'
<1>0. TypeOK /\ CardInv
  BY DEF Inv
<1>1. /\ UNCHANGED <<kind, cands, cross, sel, saved, due, ob, told, active, owned,
                     tasks, wk, written, starts, called, faults>>
      /\ act = "pending" /\ act' \in {"denied", "expired"} /\ reply' = "due"
      /\ clicks < MaxClicks /\ clicks' = clicks + 1
  BY DEF CloseCard, Arrives, card, dir, hist
<1>2. TypeOK'
  BY <1>0, <1>1, CardAssumption DEF TypeOK, Statuses
<1>3. NotTakenYet' /\ RowInv' /\ RunInv' /\ SelectionInv'
  BY <1>0, <1>1 DEF CardInv, NotTakenYet, RowInv, RunInv, SelectionInv, Accepted,
     KeepsResults, Row
<1>4. WorkersInv'
  BY <1>0, <1>1, WorkersKept DEF CardInv
<1> QED
  BY <1>2, <1>3, <1>4 DEF Inv, CardInv

\* A click that may claim comes on a pending card and selects something that
\* is among its candidates; a submission selects at least one lead.
LEMMA ClaimSelects ==
  ASSUME TypeOK, NEW c \in Click, Verdict(c) = "claim"
  PROVE  /\ act = "pending"
         /\ KeepsResults => Selection(c.picks) # {}
         /\ kind \in {"batch", "duplicate", "company"} \/ ~Choice
         /\ Selection(c.picks) \subseteq cands
<1>1. act = "pending" /\ PicksValid(c.picks)
  BY DEF Verdict
<1>2. kind \in {"batch", "duplicate", "company"} \/ ~Choice
  BY DEF Choice
<1>3. CASE ~Choice
  <2>1. Selection(c.picks) = cands
    BY <1>3 DEF Selection
  <2>2. KeepsResults => kind = "company" /\ cands = {Target}
    BY <1>3 DEF Choice, KeepsResults
  <2> QED
    BY <1>1, <1>2, <2>1, <2>2
<1>4. CASE Choice
  <2>1. Selection(c.picks) = c.picks
    BY <1>4 DEF Selection
  <2>2. c.picks \subseteq cands
    BY <1>1, <1>4 DEF PicksValid, Choice
  <2>3. kind = "batch" => c.picks # {}
    BY <1>1 DEF PicksValid
  <2>4. kind = "company" => Cardinality(c.picks) = 1
    BY <1>1, <1>4 DEF PicksValid
  <2>5. kind = "company" => c.picks # {}
    BY <2>4, FS_EmptySet
  <2> QED
    BY <1>1, <1>2, <2>1, <2>2, <2>3, <2>5 DEF KeepsResults
<1> QED
  BY <1>3, <1>4

LEMMA ClaimStep == ASSUME Inv, ClaimCallback PROVE Inv'
<1>0. TypeOK /\ CardInv
  BY DEF Inv
<1>1. PICK s \in {Selection(c.picks) : c \in {d \in Click : Verdict(d) = "claim"}} :
        /\ Arrives
        /\ act' = "processing" /\ sel' = s
        /\ ob' = [ob EXCEPT !.st = "pending"] /\ reply' = "due"
        /\ UNCHANGED <<card, saved, due, told, dir, tasks, wk, written, hist,
                       faults>>
  BY DEF ClaimCallback
<1>2. PICK c \in Click : Verdict(c) = "claim" /\ s = Selection(c.picks)
  BY <1>1
<1>3. act = "pending" /\ (KeepsResults => s # {}) /\ s \subseteq cands
  BY <1>0, <1>2, ClaimSelects
<1>4. UNCHANGED <<kind, cands, cross, saved, due, told, active, owned, tasks, wk,
                  written, starts, called, faults>>
      /\ clicks < MaxClicks /\ clicks' = clicks + 1
  BY <1>1 DEF card, dir, hist, Arrives
<1>5. sel = {} /\ saved = {} /\ wk = [w \in Workers |-> Idle] /\ ob = Row
  BY <1>0, <1>3 DEF CardInv, NotTakenYet
<1>6. TypeOK'
  <2>1. ob' \in Rows
    BY <1>1, <1>5 DEF Row, Rows
  <2>2. clicks' \in 0..MaxClicks
    BY <1>0, <1>4, CardAssumption DEF TypeOK
  <2> QED
    BY <1>0, <1>1, <1>3, <1>4, <1>5, <2>1, <2>2 DEF TypeOK, Statuses, Rows
<1>7. NotTakenYet' /\ RowInv' /\ RunInv' /\ SelectionInv'
  BY <1>0, <1>1, <1>3, <1>4, <1>5 DEF CardInv, NotTakenYet, RowInv, RunInv,
     SelectionInv, Accepted, KeepsResults, Row
<1>8. WorkersInv'
  BY <1>4, <1>5 DEF WorkersInv, WorkerInv, Idle, KeepsResults
<1> QED
  BY <1>6, <1>7, <1>8 DEF Inv, CardInv

\* Steps that change neither the action nor its workers: answers and repeated
\* clicks, the queue and the dispatch lease, time and the directory.
Around == OnlyDelivery \/ AnswerCallback \/ Scan \/ LoseTask \/ RepeatTask
          \/ DispatchLeaseExpires \/ LeaseExpires \/ Withdraw
          \/ (\E l \in Leads : LoseLead(l)) \/ CardExpires

LEMMA AroundStep == ASSUME Inv, Around PROVE Inv'
<1>0. TypeOK /\ CardInv
  BY DEF Inv
<1>1. UNCHANGED <<kind, cands, cross, act, sel, saved, told, wk, written,
                  starts, called>>
  BY Zenon DEF Around, OnlyDelivery, AnswerCallback, Scan, LoseTask, RepeatTask,
     DispatchLeaseExpires, LeaseExpires, Withdraw, LoseLead, CardExpires, card,
     dir, hist
<1>2. /\ ob' \in [st : {ob.st}, tok : {ob.tok}, att : {ob.att},
                  lease : {"none", "live", "expired"},
                  disp : {"none", "live", "expired"}, started : {ob.started},
                  effect : {ob.effect}]
      /\ act \in {"none", "pending"} => ob' = ob /\ tasks' = tasks
  BY <1>0 DEF Around, OnlyDelivery, AnswerCallback, Scan, LoseTask, RepeatTask,
     DispatchLeaseExpires, LeaseExpires, Withdraw, LoseLead, CardExpires, TypeOK,
     Dispatchable, CardInv, NotTakenYet, Row
<1>3. TypeOK'
  <2>1. ob' \in Rows
    BY <1>0, <1>2 DEF TypeOK, Rows
  <2>2. tasks' \in 0..MaxTasks /\ clicks' \in 0..MaxClicks /\ faults' \in 0..MaxFaults
    BY <1>0, CardAssumption DEF Around, OnlyDelivery, AnswerCallback, Scan,
       LoseTask, RepeatTask, DispatchLeaseExpires, LeaseExpires, Withdraw, LoseLead,
       CardExpires, TypeOK, Arrives, Fault
  <2>3. active' \in BOOLEAN /\ due' \in BOOLEAN /\ owned' \subseteq Leads
        /\ reply' \in {"none", "due", "succeeded", "failed"}
    BY <1>0 DEF Around, OnlyDelivery, AnswerCallback, Scan, TypeOK, dir,
       LoseTask, RepeatTask, DispatchLeaseExpires, LeaseExpires, Withdraw, LoseLead,
       CardExpires, AnswerSent, AnswerFailed, AnswerLate
  <2> QED
    BY <1>0, <1>1, <2>1, <2>2, <2>3 DEF TypeOK, Rows
<1>4. NotTakenYet' /\ RowInv' /\ RunInv' /\ SelectionInv'
  BY <1>0, <1>1, <1>2 DEF CardInv, NotTakenYet, RowInv, RunInv, SelectionInv,
     Accepted, KeepsResults
<1>5. WorkersInv'
  BY <1>0, <1>1, <1>2, WorkersKept DEF CardInv
<1> QED
  BY <1>3, <1>4, <1>5 DEF Inv, CardInv

------------------------------------------------------------------------------
(* One worker's moves *)

LEMMA Busy ==
  ASSUME Inv, NEW w \in Workers, wk[w].pc # "idle"
  PROVE  act \notin {"none", "pending"}
  BY DEF Inv, CardInv, NotTakenYet, Idle

LEMMA SlotStep ==
  ASSUME Inv, NEW w \in Workers, NEW new \in Worker,
         wk' = [wk EXCEPT ![w] = new], WorkerInv(new)',
         UNCHANGED <<kind, sel>>, saved \subseteq saved',
         ob.started => ob'.started
  PROVE  wk' \in [Workers -> Worker] /\ WorkersInv'
<1>1. wk \in [Workers -> Worker] /\ WorkersInv
  BY DEF Inv, TypeOK, Worker, CardInv
<1>2. wk' \in [Workers -> Worker]
  BY <1>1
<1>3. ASSUME NEW v \in Workers PROVE WorkerInv(wk[v])'
  <2>1. CASE v = w
    BY <1>1, <2>1
  <2>2. CASE v # w
    <3>1. wk'[v] = wk[v] /\ WorkerInv(wk[v])
      BY <1>1, <2>2 DEF WorkersInv
    <3> QED
      BY <3>1 DEF WorkerInv, KeepsResults
  <2> QED
    BY <2>1, <2>2
<1> QED
  BY <1>2, <1>3 DEF WorkersInv

\* A move that touches the worker alone, or with it the history of calls.
LEMMA LocalStep ==
  ASSUME Inv, NEW w \in Workers, wk[w].pc # "idle", NEW new \in Worker,
         wk' = [wk EXCEPT ![w] = new], WorkerInv(new),
         UNCHANGED <<card, act, sel, saved, due, ob, reply, told, dir, tasks,
                     starts, clicks>>,
         written' \in BOOLEAN, faults' \in 0..MaxFaults,
         called' \subseteq Leads, called' = called \/ ob.started
  PROVE  Inv'
<1>0. TypeOK /\ CardInv /\ act \notin {"none", "pending"}
  BY Busy DEF Inv
<1>1. UNCHANGED <<kind, cands, cross, active, owned>>
  BY DEF card, dir
<1>2. WorkerInv(new)'
  BY <1>1 DEF WorkerInv, KeepsResults
<1>3. wk' \in [Workers -> Worker] /\ WorkersInv'
  BY <1>1, <1>2, SlotStep
<1>4. TypeOK'
  BY <1>0, <1>1, <1>3 DEF TypeOK, Worker
<1>5. NotTakenYet' /\ RowInv' /\ RunInv' /\ SelectionInv'
  BY <1>0, <1>1 DEF CardInv, NotTakenYet, RowInv, RunInv, SelectionInv, Accepted,
     KeepsResults
<1> QED
  BY <1>3, <1>4, <1>5 DEF Inv, CardInv

LEMMA WorkerFacts ==
  ASSUME Inv, NEW w \in Workers
  PROVE  /\ wk[w] \in Worker /\ WorkerInv(wk[w])
         /\ written \in BOOLEAN /\ faults \in 0..MaxFaults /\ called \subseteq Leads
         /\ sel \subseteq Leads /\ cands \subseteq Leads
         /\ wk \in [Workers -> Worker]
  BY DEF Inv, TypeOK, CardInv, WorkersInv, Worker

LEMMA FaultTyped == ASSUME Inv, Fault PROVE faults' \in 0..MaxFaults
  BY CardAssumption DEF Inv, TypeOK, Fault

LEMMA StaleStep ==
  ASSUME Inv, NEW w \in Workers, wk[w].pc # "idle", Stale(w),
         UNCHANGED <<card, act, sel, saved, due, ob, reply, told, dir, tasks,
                     written, hist, clicks>>, UNCHANGED faults \/ Fault
  PROVE  Inv'
<1>1. UNCHANGED <<written, starts, called>> /\ faults' \in 0..MaxFaults
  BY FaultTyped, WorkerFacts DEF hist
<1> QED
  BY <1>1, IdleWorker, LocalStep, WorkerFacts DEF Stale

LEMMA FinishStep ==
  ASSUME Inv, NEW w \in Workers, wk[w].pc # "idle", NEW k \in BOOLEAN, Finish(w, k),
         k /\ KeepsResults => sel \subseteq saved,
         UNCHANGED <<card, act, sel, saved, due, ob, reply, told, dir, tasks,
                     starts, clicks>>, UNCHANGED written,
         called' \subseteq Leads, called' = called \/ ob.started,
         UNCHANGED faults \/ Fault
  PROVE  Inv'
<1>1. PICK new : new = [wk[w] EXCEPT !.pc = "finish", !.ok = k]
  OBVIOUS
<1>2. wk' = [wk EXCEPT ![w] = new]
  BY <1>1, WorkerFacts DEF Finish, Worker
<1>3. new \in Worker /\ WorkerInv(new)
  BY <1>1, WorkerFacts DEF Worker, WorkerInv
<1>4. faults' \in 0..MaxFaults /\ written' \in BOOLEAN
  BY FaultTyped, WorkerFacts
<1> QED
  BY <1>2, <1>3, <1>4, LocalStep

LEMMA PrecheckStep == ASSUME Inv, NEW w \in Workers, FieldPrecheck(w) PROVE Inv'
<1>1. ~KeepsResults /\ wk[w].pc # "idle"
  BY DEF FieldPrecheck, KeepsResults
<1>2. called' \subseteq Leads /\ called' = called
  BY WorkerFacts DEF FieldPrecheck, hist
<1>3. UNCHANGED starts
  BY DEF FieldPrecheck, hist
<1> QED
  BY <1>1, <1>2, <1>3, FinishStep DEF FieldPrecheck

LEMMA SubmitStep ==
  ASSUME Inv, NEW w \in Workers, NEW l \in Leads, SubmitLead(w, l) PROVE Inv'
<1>1. PICK new : new = [wk[w] EXCEPT !.todo = @ \ {l}, !.done = @ \cup {l}]
  OBVIOUS
<1>2. wk' = [wk EXCEPT ![w] = new]
  BY <1>1, WorkerFacts DEF SubmitLead, Worker
<1>3. new \in Worker /\ WorkerInv(new)
  <2>1. /\ new.pc = wk[w].pc /\ new.pc \in {"domain", "drain"} /\ new.ok = wk[w].ok
        /\ new.todo = wk[w].todo \ {l} /\ new.done = wk[w].done \cup {l}
        /\ l \in wk[w].todo /\ new \in Worker
    BY <1>1, WorkerFacts DEF Worker, SubmitLead
  <2>2. new.todo \cup new.done = wk[w].todo \cup wk[w].done
    BY <2>1
  <2>3. new.pc # "finish" /\ new.pc \notin {"written", "marked"}
    BY <2>1
  <2> QED
    BY <2>1, <2>2, <2>3, WorkerFacts DEF WorkerInv
<1>4. called' \subseteq Leads /\ ob.started /\ wk[w].pc # "idle"
  BY WorkerFacts DEF SubmitLead, WorkerInv
<1> QED
  BY <1>2, <1>3, <1>4, LocalStep, WorkerFacts DEF SubmitLead

LEMMA SaveEndStep ==
  ASSUME Inv, NEW w \in Workers, SaveStale(w) \/ SaveRefused(w) PROVE Inv'
<1>1. PICK new : new = IF SaveStale(w) THEN [wk[w] EXCEPT !.pc = "drain", !.tok = 0]
                       ELSE [wk[w] EXCEPT !.pc = "drain", !.ok = FALSE]
  OBVIOUS
<1>2. wk' = [wk EXCEPT ![w] = new]
  BY <1>1, WorkerFacts DEF SaveStale, SaveRefused, Worker
<1>3. new \in Worker /\ WorkerInv(new) /\ wk[w].pc # "idle"
  BY <1>1, WorkerFacts DEF Worker, WorkerInv, SaveStale, SaveRefused
<1>4. UNCHANGED <<written, starts, called>>
  BY DEF SaveStale, SaveRefused, hist
<1> QED
  BY <1>2, <1>3, <1>4, LocalStep, WorkerFacts DEF SaveStale, SaveRefused

LEMMA DrainStep == ASSUME Inv, NEW w \in Workers, DrainEnds(w) PROVE Inv'
<1>1. wk[w].pc # "idle" /\ UNCHANGED <<written, starts, called>>
  BY DEF DrainEnds, hist
<1>2. CASE wk[w].tok = 0
  BY <1>1, <1>2, StaleStep DEF DrainEnds
<1>3. CASE wk[w].tok # 0
  BY <1>1, <1>3, FinishStep, WorkerFacts DEF DrainEnds
<1> QED
  BY <1>2, <1>3

LEMMA AllSavedStep == ASSUME Inv, NEW w \in Workers, AllSaved(w) PROVE Inv'
<1>1. wk[w].pc # "idle" /\ UNCHANGED <<written, starts, called>>
  BY DEF AllSaved, hist
<1>2. sel \subseteq saved
  BY WorkerFacts DEF AllSaved, WorkerInv
<1> QED
  BY <1>1, <1>2, FinishStep, WorkerFacts DEF AllSaved

LEMMA CallStep ==
  ASSUME Inv, NEW w \in Workers, FieldSubmit(w) \/ SingleCall(w) PROVE Inv'
<1>1. wk[w].pc # "idle" /\ ob.started /\ ~KeepsResults
  BY WorkerFacts DEF FieldSubmit, SingleCall, WorkerInv, KeepsResults,
     ResolveDuplicates, DiscardLead, ReassignMessage
<1>2. called' \subseteq Leads
  BY WorkerFacts DEF FieldSubmit, SingleCall, ResolveDuplicates, DiscardLead,
     ReassignMessage
<1> QED
  BY <1>1, <1>2, FinishStep DEF FieldSubmit, SingleCall

LEMMA FieldWriteStep == ASSUME Inv, NEW w \in Workers, FieldWrite(w) PROVE Inv'
<1>1. wk[w].pc # "idle" /\ ~KeepsResults /\ UNCHANGED <<starts, called>>
  BY DEF FieldWrite, hist, KeepsResults
<1>2. CASE written' = TRUE /\ Goto(w, "written")
  <2>1. PICK new : new = [wk[w] EXCEPT !.pc = "written"]
    OBVIOUS
  <2>2. wk' = [wk EXCEPT ![w] = new]
    BY <1>2, <2>1, WorkerFacts DEF Goto, Worker
  <2>3. new \in Worker /\ WorkerInv(new)
    BY <2>1, WorkerFacts DEF Worker, WorkerInv, FieldWrite
  <2> QED
    BY <1>1, <1>2, <2>2, <2>3, LocalStep, WorkerFacts DEF FieldWrite
<1>3. CASE UNCHANGED written /\ Finish(w, FALSE)
  BY <1>1, <1>3, FinishStep, WorkerFacts DEF FieldWrite
<1> QED
  BY <1>2, <1>3 DEF FieldWrite

LEMMA FailStep == ASSUME Inv, NEW w \in Workers, DomainFails(w) PROVE Inv'
<1>1. PICK new : new = [wk[w] EXCEPT !.pc = "finish", !.ok = FALSE, !.todo = {},
                                     !.done = {}]
  OBVIOUS
<1>2. wk' = [wk EXCEPT ![w] = new]
  BY <1>1, WorkerFacts DEF DomainFails, Worker
<1>3. new \in Worker /\ WorkerInv(new) /\ wk[w].pc # "idle"
  BY <1>1, WorkerFacts DEF Worker, WorkerInv, DomainFails
<1>4. UNCHANGED <<written, starts, called>> /\ faults' \in 0..MaxFaults
  BY FaultTyped DEF DomainFails, hist
<1> QED
  BY <1>2, <1>3, <1>4, LocalStep, WorkerFacts DEF DomainFails

------------------------------------------------------------------------------
(* Moves of a worker that change the Outbox row or the action *)

LEMMA BeginStep == ASSUME Inv, NEW w \in Workers, BeginDomain(w) PROVE Inv'
<1>0. TypeOK /\ CardInv
  BY DEF Inv
<1>1. PICK new : new = [wk[w] EXCEPT !.pc = "domain", !.todo = sel]
  OBVIOUS
<1>2. wk' = [wk EXCEPT ![w] = new]
  BY <1>1, WorkerFacts DEF BeginDomain, Worker
<1>3. /\ UNCHANGED <<kind, cands, cross, act, sel, saved, due, reply, told, active,
                     owned, tasks, written, called, clicks, faults>>
      /\ act = "processing" /\ ob.st = "processing" /\ ~ob.started
      /\ ob' = [ob EXCEPT !.started = TRUE, !.effect = "unknown"]
      /\ starts' = starts + 1
  BY DEF BeginDomain, ClaimHeld, BeginRow, card, dir
<1>4. ob' \in Rows /\ ob'.started /\ ob'.st = "processing"
  BY <1>0, <1>3 DEF TypeOK, Rows
<1>5. new \in Worker /\ WorkerInv(new)'
  BY <1>1, <1>3, <1>4, WorkerFacts DEF Worker, WorkerInv
<1>6. wk' \in [Workers -> Worker] /\ WorkersInv'
  BY <1>2, <1>3, <1>4, <1>5, SlotStep
<1>7. starts = 0 /\ starts' = 1
  BY <1>0, <1>3 DEF CardInv, RunInv
<1>8. TypeOK'
  BY <1>0, <1>3, <1>4, <1>6, <1>7 DEF TypeOK, Worker, Rows
<1>9. NotTakenYet' /\ RowInv' /\ RunInv' /\ SelectionInv'
  BY <1>0, <1>3, <1>4, <1>7 DEF CardInv, NotTakenYet, RowInv, RunInv,
     SelectionInv, Accepted, KeepsResults
<1> QED
  BY <1>6, <1>8, <1>9 DEF Inv, CardInv

LEMMA SaveStep ==
  ASSUME Inv, NEW w \in Workers, NEW l \in Leads, SaveResult(w, l) PROVE Inv'
<1>0. TypeOK /\ CardInv
  BY DEF Inv
<1>1. PICK new : new = [wk[w] EXCEPT !.done = @ \ {l}]
  OBVIOUS
<1>2. wk' = [wk EXCEPT ![w] = new]
  BY <1>1, WorkerFacts DEF SaveResult, Worker
<1>3. /\ UNCHANGED <<kind, cands, cross, act, sel, due, reply, told, active,
                     owned, tasks, written, starts, called, clicks, faults>>
      /\ act = "processing" /\ wk[w].pc = "domain" /\ l \in wk[w].done
      /\ ob' = [ob EXCEPT !.lease = "live"]
      /\ saved' = saved \cup {l}
  BY DEF SaveResult, ClaimHeld, card, dir, hist
<1>4. ob' \in Rows /\ ob'.started = ob.started /\ ob'.st = ob.st
  BY <1>0, <1>3 DEF TypeOK, Rows
<1>5. new \in Worker /\ WorkerInv(new)'
  <2>1. /\ new.pc = "domain" /\ new.todo = wk[w].todo /\ new \in Worker
        /\ new.done = wk[w].done \ {l}
    BY <1>1, <1>3, WorkerFacts DEF Worker
  <2>2. saved' \cup new.todo \cup new.done = saved \cup wk[w].todo \cup wk[w].done
    BY <1>3, <2>1
  <2>3. /\ new.pc \notin {"written", "marked", "finish"}
        /\ wk[w].todo \subseteq sel /\ wk[w].done \subseteq sel /\ ob.started
        /\ KeepsResults => sel \subseteq saved \cup wk[w].todo \cup wk[w].done
    BY <1>3, <2>1, WorkerFacts DEF WorkerInv
  <2> QED
    BY <1>3, <1>4, <2>1, <2>2, <2>3 DEF WorkerInv, KeepsResults
<1>6. wk' \in [Workers -> Worker] /\ WorkersInv'
  BY <1>2, <1>3, <1>4, <1>5, SlotStep
<1>7. saved' \subseteq sel
  BY <1>0, <1>3, WorkerFacts DEF TypeOK, WorkerInv
<1>8. TypeOK'
  BY <1>0, <1>3, <1>4, <1>6, <1>7 DEF TypeOK, Worker, Rows
<1>9. NotTakenYet' /\ RowInv' /\ RunInv' /\ SelectionInv'
  BY <1>0, <1>3, <1>4 DEF CardInv, NotTakenYet, RowInv, RunInv, SelectionInv,
     Accepted, KeepsResults
<1> QED
  BY <1>6, <1>8, <1>9 DEF Inv, CardInv

LEMMA MarkStep == ASSUME Inv, NEW w \in Workers, FieldMark(w) PROVE Inv'
<1>0. TypeOK /\ CardInv /\ act \notin {"none", "pending"}
  BY Busy DEF Inv, FieldMark
<1>1. CASE ~ClaimHeld(w)
  BY <1>1, StaleStep DEF FieldMark
<1>2. CASE ClaimHeld(w)
  <2>1. PICK new : new = [wk[w] EXCEPT !.pc = "marked"]
    OBVIOUS
  <2>2. wk' = [wk EXCEPT ![w] = new]
    BY <1>2, <2>1, WorkerFacts DEF FieldMark, Goto, Worker
  <2>3. /\ UNCHANGED <<kind, cands, cross, act, sel, saved, due, reply, told, active,
                       owned, tasks, written, starts, called, clicks, faults>>
        /\ ob' = [ob EXCEPT !.effect = "succeeded"] /\ wk[w].pc = "written"
    BY <1>2 DEF FieldMark, card, dir, hist
  <2>4. ob' \in Rows /\ ob'.started = ob.started /\ ob'.st = ob.st
    BY <1>0, <2>3 DEF TypeOK, Rows
  <2>5. new \in Worker /\ WorkerInv(new)'
    BY <2>1, <2>3, <2>4, WorkerFacts DEF Worker, WorkerInv
  <2>6. wk' \in [Workers -> Worker] /\ WorkersInv'
    BY <2>2, <2>3, <2>4, <2>5, SlotStep
  <2>7. TypeOK'
    BY <1>0, <2>3, <2>4, <2>6 DEF TypeOK, Worker, Rows
  <2>8. NotTakenYet' /\ RowInv' /\ RunInv' /\ SelectionInv'
    BY <1>0, <2>3, <2>4 DEF CardInv, NotTakenYet, RowInv, RunInv, SelectionInv,
       Accepted, KeepsResults
  <2> QED
    BY <2>6, <2>7, <2>8 DEF Inv, CardInv
<1> QED
  BY <1>1, <1>2

LEMMA FinishActionStep == ASSUME Inv, NEW w \in Workers, FinishAction(w) PROVE Inv'
<1>0. TypeOK /\ CardInv /\ wk[w].pc = "finish"
  BY DEF Inv, FinishAction
<1>1. CASE UNCHANGED <<act, ob, told>>
  BY <1>0, <1>1, StaleStep DEF FinishAction
<1>2. CASE act = "processing" /\ ob.st = "processing" /\ ob.tok = wk[w].tok
  <2>1. /\ UNCHANGED <<kind, cands, cross, sel, saved, due, reply, active, owned,
                       tasks, written, starts, called, clicks, faults>>
        /\ wk' = [wk EXCEPT ![w] = Idle]
        /\ act' = IF wk[w].ok THEN "succeeded" ELSE "pending_recovery"
        /\ ob' = [ob EXCEPT !.st = IF wk[w].ok THEN "succeeded" ELSE "failed",
                            !.lease = "none"]
        /\ told' \in {told, act'}
    BY <1>2 DEF FinishAction, Stale, TellOnce, card, dir, hist
  <2>2. ob' \in Rows /\ ob'.started = ob.started /\ ob'.st \in {"succeeded", "failed"}
    BY <1>0, <2>1 DEF TypeOK, Rows
  <2>3. WorkerInv(Idle)'
    BY DEF WorkerInv, Idle
  <2>4. wk' \in [Workers -> Worker] /\ WorkersInv'
    BY <2>1, <2>2, <2>3, IdleWorker, SlotStep DEF Idle
  <2>5. told' \in Outcomes /\ act' \in Statuses
    BY <1>0, <2>1 DEF TypeOK, Outcomes, Statuses
  <2>6. TypeOK'
    BY <1>0, <2>1, <2>2, <2>4, <2>5 DEF TypeOK, Worker, Rows
  <2>7. act' = "succeeded" /\ KeepsResults => sel \subseteq saved
    BY <1>0, <2>1, WorkerFacts DEF WorkerInv
  <2>8. NotTakenYet' /\ RowInv' /\ RunInv'
    BY <1>0, <2>1, <2>2 DEF CardInv, NotTakenYet, RowInv, RunInv
  <2>9. SelectionInv'
    BY <1>0, <1>2, <2>1, <2>7 DEF CardInv, SelectionInv, Accepted, KeepsResults
  <2> QED
    BY <2>4, <2>6, <2>8, <2>9 DEF Inv, CardInv
<1> QED
  BY <1>1, <1>2 DEF FinishAction

LEMMA ReconcileStep == ASSUME Inv, ReconcileField PROVE Inv'
<1>0. TypeOK /\ CardInv
  BY DEF Inv
<1>1. /\ UNCHANGED <<kind, cands, cross, sel, saved, due, reply, active, owned,
                     tasks, wk, written, starts, called, clicks, faults>>
      /\ act = "pending_recovery" /\ act' = "succeeded" /\ kind = "field"
      /\ ob' = [ob EXCEPT !.st = "succeeded", !.effect = "succeeded", !.lease = "none"]
      /\ told' \in {told, "succeeded"}
  BY DEF ReconcileField, TellOnce, card, dir, hist
<1>2. ob' \in Rows /\ ob'.started = ob.started /\ ob'.st = "succeeded"
  BY <1>0, <1>1 DEF TypeOK, Rows
<1>3. WorkersInv'
  BY <1>0, <1>1, <1>2, WorkersKept DEF CardInv
<1>4. TypeOK'
  BY <1>0, <1>1, <1>2 DEF TypeOK, Rows, Outcomes, Statuses
<1>5. NotTakenYet' /\ RowInv' /\ RunInv' /\ SelectionInv'
  BY <1>0, <1>1, <1>2 DEF CardInv, NotTakenYet, RowInv, RunInv, SelectionInv,
     Accepted, KeepsResults
<1> QED
  BY <1>3, <1>4, <1>5 DEF Inv, CardInv

------------------------------------------------------------------------------
(* The claiming transaction *)

\* A task is delivered only for an action that was taken.
LEMMA DeliveredFacts ==
  ASSUME Inv, NEW w \in Workers, Delivered(w)
  PROVE  act \notin {"none", "pending"} /\ tasks' \in 0..MaxTasks
  BY CardAssumption DEF Inv, TypeOK, CardInv, NotTakenYet, Delivered

\* An action that is not taken over after a start has not started at all.
LEMMA UnstartedFacts ==
  ASSUME Inv, Unstarted PROVE act = "processing" /\ ~ob.started
  BY DEF Inv, CardInv, RowInv, Unstarted, NotTaken, Taken

LEMMA NothingStep == ASSUME Inv, NEW w \in Workers, ExecuteNothing(w) PROVE Inv'
<1>0. TypeOK /\ CardInv /\ act \notin {"none", "pending"} /\ tasks' \in 0..MaxTasks
  BY DeliveredFacts DEF Inv, ExecuteNothing
<1>1. /\ UNCHANGED <<kind, cands, cross, act, sel, saved, due, reply, told, active,
                     owned, wk, written, starts, called, clicks, faults>>
      /\ ob' = [ob EXCEPT !.disp = "none"]
  BY DEF ExecuteNothing, card, dir, hist
<1>2. ob' \in Rows /\ ob'.started = ob.started /\ ob'.st = ob.st
  BY <1>0, <1>1 DEF TypeOK, Rows
<1>3. WorkersInv'
  BY <1>0, <1>1, <1>2, WorkersKept DEF CardInv
<1>4. TypeOK'
  BY <1>0, <1>1, <1>2 DEF TypeOK, Rows
<1>5. NotTakenYet' /\ RowInv' /\ RunInv' /\ SelectionInv'
  BY <1>0, <1>1, <1>2 DEF CardInv, NotTakenYet, RowInv, RunInv, SelectionInv,
     Accepted, KeepsResults
<1> QED
  BY <1>3, <1>4, <1>5 DEF Inv, CardInv

LEMMA RecoverStep == ASSUME Inv, NEW w \in Workers, ExecuteRecover(w) PROVE Inv'
<1>0. TypeOK /\ CardInv /\ tasks' \in 0..MaxTasks
  BY DeliveredFacts DEF Inv, ExecuteRecover
<1>1. /\ UNCHANGED <<kind, cands, cross, sel, saved, due, reply, active, owned, wk,
                     written, starts, called, clicks, faults>>
      /\ act = "processing" /\ ob.started
      /\ act' = IF RecoveredComplete THEN "succeeded" ELSE "pending_recovery"
      /\ ob' = [ob EXCEPT !.st = IF RecoveredComplete THEN "succeeded" ELSE "failed",
                          !.tok = 0, !.lease = "none", !.disp = "none"]
      /\ told' \in {told, act'}
  BY DEF ExecuteRecover, NotTaken, TellOnce, card, dir, hist
<1>2. ob' \in Rows /\ ob'.started /\ ob'.st \in {"succeeded", "failed"}
  BY <1>0, <1>1 DEF TypeOK, Rows
<1>3. WorkersInv'
  BY <1>0, <1>1, <1>2, WorkersKept DEF CardInv
<1>4. told' \in Outcomes /\ act' \in Statuses
  BY <1>0, <1>1 DEF TypeOK, Outcomes, Statuses
<1>5. TypeOK'
  BY <1>0, <1>1, <1>2, <1>4 DEF TypeOK, Rows
<1>6. act' = "succeeded" => sel \subseteq saved
  BY <1>1 DEF RecoveredComplete
<1>7. NotTakenYet' /\ RowInv' /\ RunInv' /\ SelectionInv'
  BY <1>0, <1>1, <1>2, <1>6 DEF CardInv, NotTakenYet, RowInv, RunInv, SelectionInv,
     Accepted, KeepsResults
<1> QED
  BY <1>3, <1>5, <1>7 DEF Inv, CardInv

LEMMA DenyStep == ASSUME Inv, NEW w \in Workers, ExecuteDeny(w) PROVE Inv'
<1>0. /\ TypeOK /\ CardInv /\ tasks' \in 0..MaxTasks
      /\ act = "processing" /\ ~ob.started
  BY DeliveredFacts, UnstartedFacts DEF Inv, ExecuteDeny
<1>1. /\ UNCHANGED <<kind, cands, cross, sel, saved, due, reply, active, owned, wk,
                     written, starts, called, clicks, faults>>
      /\ act' = "denied" /\ told' \in {told, "denied"}
      /\ ob' = [ob EXCEPT !.st = "failed", !.lease = "none", !.disp = "none"]
  BY DEF ExecuteDeny, TellOnce, card, dir, hist
<1>2. ob' \in Rows /\ ob'.started = ob.started /\ ob'.st = "failed"
  BY <1>0, <1>1 DEF TypeOK, Rows
<1>3. WorkersInv'
  BY <1>0, <1>1, <1>2, WorkersKept DEF CardInv
<1>4. TypeOK'
  BY <1>0, <1>1, <1>2 DEF TypeOK, Rows, Outcomes, Statuses
<1>5. NotTakenYet' /\ RowInv' /\ RunInv' /\ SelectionInv'
  BY <1>0, <1>1, <1>2 DEF CardInv, NotTakenYet, RowInv, RunInv, SelectionInv,
     Accepted, KeepsResults
<1> QED
  BY <1>3, <1>4, <1>5 DEF Inv, CardInv

LEMMA WorkerClaimStep == ASSUME Inv, NEW w \in Workers, ExecuteClaim(w) PROVE Inv'
<1>0. /\ TypeOK /\ CardInv /\ tasks' \in 0..MaxTasks
      /\ act = "processing" /\ ~ob.started
  BY DeliveredFacts, UnstartedFacts DEF Inv, ExecuteClaim
<1>1. PICK new : new = [Idle EXCEPT !.pc = "claimed", !.tok = ob.att + 1]
  OBVIOUS
<1>2. /\ UNCHANGED <<kind, cands, cross, act, sel, saved, due, reply, told, active,
                     owned, written, starts, called, clicks, faults>>
      /\ wk' = [wk EXCEPT ![w] = new]
      /\ ob' = [ob EXCEPT !.st = "processing", !.tok = ob.att + 1,
                          !.att = ob.att + 1, !.lease = "live", !.disp = "none"]
  BY <1>1 DEF ExecuteClaim, card, dir, hist
<1>3. ob' \in Rows /\ ob'.started = ob.started /\ ob'.st = "processing"
  <2>1. ob \in Rows /\ ob.att + 1 \in Nat
    BY <1>0 DEF TypeOK, Rows
  <2> QED
    BY <1>2, <2>1 DEF Rows
<1>4. new \in Worker /\ WorkerInv(new)'
  <2>1. ob.att + 1 \in Nat
    BY <1>0 DEF TypeOK
  <2>2. new = [pc |-> "claimed", tok |-> ob.att + 1, todo |-> {}, done |-> {},
               ok |-> TRUE]
    BY <1>1 DEF Idle
  <2>3. new \in Worker
    BY <2>1, <2>2 DEF Worker
  <2>4. WorkerInv(new)'
    BY <2>2 DEF WorkerInv
  <2> QED
    BY <2>3, <2>4
<1>5. wk' \in [Workers -> Worker] /\ WorkersInv'
  BY <1>2, <1>3, <1>4, SlotStep
<1>6. TypeOK'
  BY <1>0, <1>2, <1>3, <1>5 DEF TypeOK, Rows, Worker
<1>7. NotTakenYet' /\ RowInv' /\ RunInv' /\ SelectionInv'
  BY <1>0, <1>2, <1>3 DEF CardInv, NotTakenYet, RowInv, RunInv, SelectionInv,
     Accepted, KeepsResults
<1> QED
  BY <1>5, <1>6, <1>7 DEF Inv, CardInv

------------------------------------------------------------------------------
(* Every step, and the theorems *)

LEMMA WorkStep == ASSUME Inv, NEW w \in Workers, Work(w) PROVE Inv'
<1>1. CASE BeginStale(w)
  BY <1>1, StaleStep DEF BeginStale
<1>2. CASE \E l \in Leads : SubmitLead(w, l) \/ SaveResult(w, l)
  BY <1>2, SubmitStep, SaveStep
<1>3. CASE FieldPrecheck(w) \/ BeginDomain(w) \/ SaveStale(w) \/ SaveRefused(w)
           \/ DrainEnds(w) \/ AllSaved(w)
  BY <1>3, PrecheckStep, BeginStep, SaveEndStep, DrainStep, AllSavedStep
<1>4. CASE FieldWrite(w) \/ FieldMark(w) \/ FieldSubmit(w) \/ SingleCall(w)
           \/ DomainFails(w) \/ FinishAction(w)
  BY <1>4, FieldWriteStep, MarkStep, CallStep, FailStep, FinishActionStep
<1> QED
  BY <1>1, <1>2, <1>3, <1>4 DEF Work

LEMMA NextInv == ASSUME Inv, [Next]_vars PROVE Inv'
<1>1. CASE UNCHANGED vars
  <2>1. UNCHANGED <<kind, cands, cross, act, sel, saved, due, ob, reply, told, active,
                    owned, tasks, wk, written, starts, called, clicks, faults>>
    BY <1>1 DEF vars
  <2>2. TypeOK'
    BY <2>1 DEF Inv, TypeOK
  <2>3. NotTakenYet' /\ RowInv' /\ RunInv' /\ SelectionInv'
    BY <2>1 DEF Inv, CardInv, NotTakenYet, RowInv, RunInv, SelectionInv, Accepted,
       KeepsResults
  <2>4. WorkersInv'
    BY <2>1, WorkersKept DEF Inv, CardInv
  <2> QED
    BY <2>2, <2>3, <2>4 DEF Inv, CardInv
<1>2. CASE Issue \/ Callback
  BY <1>2, IssueStep, CloseStep, ClaimStep, AroundStep DEF Callback, Around
<1>3. CASE Scan \/ LoseTask \/ RepeatTask \/ DispatchLeaseExpires \/ LeaseExpires
           \/ Withdraw \/ (\E l \in Leads : LoseLead(l)) \/ CardExpires
  BY <1>3, AroundStep DEF Around
<1>4. CASE \E w \in Workers : Execute(w)
  BY <1>4, NothingStep, RecoverStep, DenyStep, WorkerClaimStep DEF Execute
<1>5. CASE \E w \in Workers : Work(w)
  BY <1>5, WorkStep
<1>6. CASE \E w \in Workers : WorkerCrashes(w)
  BY <1>6, StaleStep DEF WorkerCrashes
<1>7. CASE ReconcileField
  BY <1>7, ReconcileStep
<1> QED
  BY <1>1, <1>2, <1>3, <1>4, <1>5, <1>6, <1>7 DEF Next

LEMMA CardInvariant == Spec => []Inv
  BY InitInv, NextInv, PTL DEF Spec

\* Every variable of the card keeps its type; in particular the saved results
\* are always among the selected leads, and these among the frozen candidates.
THEOREM CardTypeCorrect == Spec => []TypeOK
<1>1. Inv => TypeOK
  BY DEF Inv
<1> QED
  BY <1>1, CardInvariant, PTL

\* However tasks are repeated, workers lost and leases taken over, and however
\* many workers there are, begin_domain_operation succeeds at most once.
THEOREM DomainRunsOnce == Spec => []OneDomainRun
<1>1. Inv => OneDomainRun
  BY DEF Inv, CardInv, RunInv, OneDomainRun
<1> QED
  BY <1>1, CardInvariant, PTL

\* A card that was denied or has expired has handed no lead to the domain
\* service and never will (_deny_action, the withdrawal branch of
\* execute_action): its Outbox row never says that the operation began.
THEOREM RefusalIsClean == Spec => []RefusedHasNoEffect
<1>1. Inv => RefusedHasNoEffect
  BY DEF Inv, CardInv, RowInv, RunInv, RefusedHasNoEffect
<1> QED
  BY <1>1, CardInvariant, PTL

\* A submission reported as succeeded has a saved result for every selected
\* lead, of which there is at least one, whether its worker finished it or a
\* later one concluded it from the saved results.
THEOREM SuccessIsComplete == Spec => []SuccessCoversSelection
<1>1. Inv => SuccessCoversSelection
  BY DEF Inv, CardInv, SelectionInv, Accepted, SuccessCoversSelection
<1> QED
  BY <1>1, CardInvariant, PTL

------------------------------------------------------------------------------
(* The card implements OneTimeAction *)

LEMMA PromiseInit == Init => Promise!Init
  BY DEF Init, Promise!Init, Row

\* Steps under which neither the action's status nor the start changes.
LEMMA PromiseStutter ==
  ASSUME UNCHANGED act, ob'.started = ob.started
  PROVE  UNCHANGED Promise!vars
  BY DEF Promise!vars

LEMMA PromiseAround == ASSUME Inv, Around PROVE UNCHANGED Promise!vars
<1>1. UNCHANGED act /\ ob'.started = ob.started
  BY DEF Around, OnlyDelivery, AnswerCallback, Scan, LoseTask, RepeatTask,
     DispatchLeaseExpires, LeaseExpires, Withdraw, LoseLead, CardExpires, Inv, TypeOK
<1> QED
  BY <1>1, PromiseStutter

LEMMA PromiseCallback == ASSUME Inv, Issue \/ Callback PROVE [Promise!Next]_(Promise!vars)
<1>0. TypeOK /\ CardInv
  BY DEF Inv
<1>1. CASE Issue
  <2>1. act = "none" /\ act' = "pending" /\ UNCHANGED ob
    BY <1>1 DEF Issue
  <2> QED
    BY <2>1 DEF Promise!Next, Promise!Offer
<1>2. CASE CloseCard
  <2>1. act = "pending" /\ act' \in {"denied", "expired"} /\ UNCHANGED ob
    BY <1>2 DEF CloseCard
  <2>2. ~ob.started
    BY <1>0, <2>1 DEF CardInv, NotTakenYet, Row
  <2> QED
    BY <2>1, <2>2 DEF Promise!Next, Promise!Refuse
<1>3. CASE ClaimCallback
  <2>1. act = "pending" /\ act' = "processing" /\ ob' = [ob EXCEPT !.st = "pending"]
    BY <1>0, <1>3, ClaimSelects DEF ClaimCallback
  <2>2. ob'.started = ob.started
    BY <1>0, <2>1 DEF TypeOK
  <2> QED
    BY <2>1, <2>2 DEF Promise!Next, Promise!Take
<1>4. CASE OnlyDelivery \/ AnswerCallback
  BY <1>4, PromiseAround DEF Around
<1> QED
  BY <1>1, <1>2, <1>3, <1>4 DEF Callback

LEMMA PromiseExecute ==
  ASSUME Inv, NEW w \in Workers, Execute(w) PROVE [Promise!Next]_(Promise!vars)
<1>0. TypeOK /\ CardInv
  BY DEF Inv
<1>1. CASE ExecuteNothing(w) \/ ExecuteClaim(w)
  <2>1. UNCHANGED act /\ ob'.started = ob.started
    BY <1>0, <1>1 DEF ExecuteNothing, ExecuteClaim, TypeOK
  <2> QED
    BY <2>1, PromiseStutter
<1>2. CASE ExecuteRecover(w)
  <2>1. /\ act = "processing" /\ act' \in {"succeeded", "pending_recovery"}
        /\ ob'.started = ob.started
    BY <1>0, <1>2 DEF ExecuteRecover, NotTaken, TypeOK
  <2> QED
    BY <2>1 DEF Promise!Next, Promise!Decide
<1>3. CASE ExecuteDeny(w)
  <2>1. act = "processing" /\ ~ob.started
    BY <1>3, UnstartedFacts DEF ExecuteDeny
  <2>2. act' = "denied" /\ ob'.started = ob.started
    BY <1>0, <1>3 DEF ExecuteDeny, TypeOK
  <2> QED
    BY <2>1, <2>2 DEF Promise!Next, Promise!Refuse
<1> QED
  BY <1>1, <1>2, <1>3 DEF Execute

LEMMA PromiseWork ==
  ASSUME Inv, NEW w \in Workers, Work(w) \/ WorkerCrashes(w)
  PROVE  [Promise!Next]_(Promise!vars)
<1>0. TypeOK /\ CardInv
  BY DEF Inv
<1>1. CASE BeginDomain(w)
  <2>1. UNCHANGED act /\ act = "processing" /\ ~ob.started /\ ob' = BeginRow
    BY <1>1 DEF BeginDomain, ClaimHeld
  <2>2. ob'.started = TRUE
    BY <1>0, <2>1 DEF BeginRow, TypeOK
  <2> QED
    BY <2>1, <2>2 DEF Promise!Next, Promise!Start
<1>2. CASE FinishAction(w)
  <2>1. CASE UNCHANGED <<act, ob>>
    BY <2>1, PromiseStutter
  <2>2. CASE act = "processing" /\ act' \in {"succeeded", "pending_recovery"}
             /\ ob'.started = ob.started
    BY <2>2 DEF Promise!Next, Promise!Decide
  <2> QED
    BY <1>0, <1>2, <2>1, <2>2 DEF FinishAction, TypeOK
<1>3. CASE ~BeginDomain(w) /\ ~FinishAction(w)
  <2>1. UNCHANGED act /\ ob'.started = ob.started
    BY <1>0, <1>3 DEF Work, WorkerCrashes, FieldPrecheck, BeginStale, SubmitLead,
       SaveResult, SaveStale, SaveRefused, DrainEnds, AllSaved, FieldWrite, FieldMark,
       FieldSubmit, SingleCall, DomainFails, TypeOK
  <2> QED
    BY <2>1, PromiseStutter
<1> QED
  BY <1>1, <1>2, <1>3

LEMMA PromiseStep == ASSUME Inv, [Next]_vars PROVE [Promise!Next]_(Promise!vars)
<1>1. CASE UNCHANGED vars
  BY <1>1, PromiseStutter DEF vars
<1>2. CASE Issue \/ Callback
  BY <1>2, PromiseCallback
<1>3. CASE Scan \/ LoseTask \/ RepeatTask \/ DispatchLeaseExpires \/ LeaseExpires
           \/ Withdraw \/ (\E l \in Leads : LoseLead(l)) \/ CardExpires
  BY <1>3, PromiseAround DEF Around
<1>4. CASE \E w \in Workers : Execute(w)
  BY <1>4, PromiseExecute
<1>5. CASE \E w \in Workers : Work(w) \/ WorkerCrashes(w)
  BY <1>5, PromiseWork
<1>6. CASE ReconcileField
  <2>1. /\ act = "pending_recovery" /\ act' = "succeeded"
        /\ ob'.started = ob.started
    BY <1>6 DEF ReconcileField, Inv, TypeOK
  <2> QED
    BY <2>1 DEF Promise!Next, Promise!Settle
<1> QED
  BY <1>1, <1>2, <1>3, <1>4, <1>5, <1>6 DEF Next

\* The card implements the one-time action (the safety part of KeepsPromise):
\* whatever callbacks, tasks, leases and crashes do, it is offered once, taken
\* or refused once, its operation starts at most once and only while it is
\* taken, and a refusal never follows a start.
THEOREM CardKeepsPromise == Spec => Promise!Spec
  BY PromiseInit, PromiseStep, CardInvariant, PTL DEF Spec, Promise!Spec
=============================================================================
