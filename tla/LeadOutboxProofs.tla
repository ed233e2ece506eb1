-------------------------- MODULE LeadOutboxProofs --------------------------
(***************************************************************************)
(* Machine-checked proofs about LeadOutbox, for every set of salespeople,  *)
(* workers, claim times and every bound.                                   *)
(***************************************************************************)
EXTENDS LeadOutbox, FiniteSetTheorems, TLAPS

(* An event is a salesperson and a positive sequence number. *)
LEMMA EventParts ==
  ASSUME NEW e \in Event
  PROVE  e[1] \in Sales /\ e[2] \in 1..MaxSeq /\ e = <<e[1], e[2]>>
BY DEF Event

(* The idle record of a worker slot is a worker state. *)
LEMMA IdleType == Idle \in WorkerState /\ Idle.pc = "idle"
<1>1. \E e \in Event : TRUE
  <2>1. PICK s \in Sales : TRUE
    BY ConstantsAssumption
  <2>2. <<s, 1>> \in Event
    BY ConstantsAssumption DEF Event
  <2> QED
    BY <2>2
<1>2. (CHOOSE e \in Event : TRUE) \in Event
  BY <1>1
<1> QED
  BY <1>2 DEF Idle, WorkerState, PCs

(* There are finitely many events, so the in-flight count is a number. *)
LEMMA InFlightCount == Cardinality(InFlight) \in Nat
<1>1. IsFiniteSet(Event)
  <2>1. IsFiniteSet(1..MaxSeq)
    BY ConstantsAssumption, FS_Interval
  <2> QED
    BY <2>1, ConstantsAssumption, FS_Product DEF Event
<1>2. IsFiniteSet(InFlight)
  BY <1>1, FS_Subset DEF InFlight
<1> QED
  BY <1>2, FS_CardinalityType

(* A program-counter move and a return keep the worker table typed. *)
LEMMA GotoType ==
  ASSUME TypeOK, NEW w \in Workers, NEW l \in PCs, Goto(w, l)
  PROVE  wk' \in [Workers -> WorkerState]
<1>1. PICK n : n = [wk[w] EXCEPT !.pc = l]
  OBVIOUS
<1>2. wk \in [Workers -> WorkerState] /\ wk[w] \in WorkerState
  BY DEF TypeOK
<1>3. n \in WorkerState
  BY <1>1, <1>2 DEF WorkerState
<1>4. wk' = [wk EXCEPT ![w] = n]
  BY <1>1 DEF Goto
<1> QED
  BY <1>2, <1>3, <1>4

LEMMA ReturnType ==
  ASSUME TypeOK, NEW w \in Workers, Return(w)
  PROVE  /\ wk' \in [Workers -> WorkerState]
         /\ holder' \in [Sales -> Workers \cup {NoWorker}]
<1>1. wk[w].ev \in Event
  BY DEF TypeOK, WorkerState
<1>2. Owner(wk[w].ev) \in Sales
  BY <1>1, EventParts DEF Owner
<1> QED
  BY <1>2, IdleType DEF TypeOK, Return

LEMMA VerdictType ==
  ASSUME TypeOK, NEW e \in Event, NEW s \in Statuses, Verdict(e, s)
  PROVE  /\ status' \in [Event -> Statuses]
         /\ stamp' \in [Event -> Stamps \cup {NoStamp, Taken}]
         /\ expired' \in [Event -> BOOLEAN]
         /\ reached' \subseteq Event
BY DEF TypeOK, Verdict

LEMMA FailureType ==
  ASSUME TypeOK, NEW e \in Event, NEW t \in BOOLEAN, RecordFailure(e, t)
  PROVE  /\ status' \in [Event -> Statuses]
         /\ stamp' \in [Event -> Stamps \cup {NoStamp, Taken}]
         /\ expired' \in [Event -> BOOLEAN]
         /\ reached' \subseteq Event
         /\ attempts' \in [Event -> Nat]
<1>1. AfterFailure(e, t) \in Statuses
  BY DEF AfterFailure, Statuses
<1>2. Verdict(e, AfterFailure(e, t))
  BY DEF RecordFailure
<1> QED
  BY <1>1, <1>2, VerdictType DEF RecordFailure, TypeOK

LEMMA FaultType ==
  ASSUME TypeOK, Fault
  PROVE  faults' \in 0..MaxFaults
BY ConstantsAssumption DEF TypeOK, Fault

(* Every step keeps the types. *)
LEMMA TypeStep ==
  ASSUME TypeOK, [Next]_vars
  PROVE  TypeOK'
<1>0. CASE UNCHANGED vars
  BY <1>0 DEF TypeOK, vars
<1>1. ASSUME NEW s \in Sales, NEW k \in Kinds, NEW m \in MediaInputs,
             NEW q \in 0..MaxSeq, Receive(s, k, m, q)
      PROVE  TypeOK'
  <2>1. nextSeq' \in [Sales -> 0..MaxSeq]
    <3>1. nextSeq[s] + 1 \in 1..MaxSeq
      BY <1>1 DEF Receive, Event
    <3> QED
      BY <1>1, <3>1 DEF Receive, TypeOK
  <2>2. /\ status' \in [Event -> Statuses]
        /\ kind' \in [Event -> AllKinds]
        /\ media' \in [Event -> Media]
        /\ quote' \in [Event -> 0..MaxSeq]
    BY <1>1, ConstantsAssumption DEF Receive, TypeOK, Statuses, Media
  <2> QED
    BY <1>1, <2>1, <2>2 DEF Receive, TypeOK, histVars
<1>2. ASSUME NEW s \in Sales, Deactivate(s)
      PROVE  TypeOK'
  BY <1>2, FaultType
  DEF Deactivate, TypeOK, eventVars, histVars
<1>3. ASSUME NEW e \in Event, NEW m \in {"stored", "late"}, MediaArrives(e, m)
      PROVE  TypeOK'
  BY <1>3
  DEF MediaArrives, Media, TypeOK, eventVars, histVars
<1>4. ASSUME NEW e \in Event, LeaseRunsOut(e)
      PROVE  TypeOK'
  BY <1>4, FaultType
  DEF LeaseRunsOut, TypeOK, eventVars, histVars
<1>5. ASSUME ScanStart
      PROVE  TypeOK'
  <2>1. MaxInFlight - Cardinality(InFlight) \in 0..MaxInFlight
    BY <1>5, InFlightCount, ConstantsAssumption DEF ScanStart
  <2>2. {e \in Event : Dispatchable(e)} \subseteq Event
    OBVIOUS
  <2> QED
    BY <1>5, <2>1, <2>2 DEF ScanStart, TypeOK, eventVars, histVars
<1>6. ASSUME NEW e \in Event, ScanClaim(e)
      PROVE  TypeOK'
  <2> DEFINE t == CHOOSE x \in UnusedStamps(e) : TRUE
             ok == holder[Owner(e)] = NoWorker /\ Dispatchable(e)
             c == [event |-> e, stamp |-> t, recover |-> RecoverFlag(e)]
  <2>1. CASE ok
    <3>1. t \in Stamps
      BY <1>6, <2>1 DEF ScanClaim, UnusedStamps
    <3>2. c \in Claim
      BY <3>1 DEF Claim, RecoverFlag, LeaseExpired, TypeOK
    <3>3. /\ status' \in [Event -> Statuses]
          /\ stamp' \in [Event -> Stamps \cup {NoStamp, Taken}]
          /\ expired' \in [Event -> BOOLEAN]
      <4>1. /\ status' = [status EXCEPT ![e] = "processing"]
            /\ stamp' = [stamp EXCEPT ![e] = t]
            /\ expired' = [expired EXCEPT ![e] = FALSE]
        BY <1>6, <2>1 DEF ScanClaim
      <4> HIDE DEF t
      <4>2. status' \in [Event -> Statuses]
        BY <4>1 DEF TypeOK, Statuses
      <4>3. stamp' \in [Event -> Stamps \cup {NoStamp, Taken}]
        BY <3>1, <4>1 DEF TypeOK
      <4>4. expired' \in [Event -> BOOLEAN]
        BY <4>1 DEF TypeOK
      <4> QED
        BY <4>2, <4>3, <4>4
    <3>4. scan' \in [on : BOOLEAN, slots : 0..MaxInFlight,
                    cands : SUBSET Event, claims : SUBSET Claim]
      <4>1. scan' = [scan EXCEPT !.slots = scan.slots - 1,
                       !.cands = scan.cands \ {e},
                       !.claims = scan.claims \cup {c}]
        BY <1>6, <2>1 DEF ScanClaim
      <4>2. scan.slots - 1 \in 0..MaxInFlight
        BY <1>6, ConstantsAssumption DEF ScanClaim, TypeOK
      <4>3. scan.cands \ {e} \in SUBSET Event /\ scan.claims \cup {c} \in SUBSET Claim
        BY <3>2 DEF TypeOK
      <4> HIDE DEF c
      <4> QED
        BY <4>1, <4>2, <4>3 DEF TypeOK
    <3> QED
      BY <1>6, <3>3, <3>4 DEF ScanClaim, TypeOK, histVars
  <2>2. CASE ~ok
    BY <1>6, <2>2 DEF ScanClaim, TypeOK, histVars
  <2> QED
    BY <2>1, <2>2
<1>7. ASSUME ScanEnd
      PROVE  TypeOK'
  BY <1>7, ConstantsAssumption
  DEF ScanEnd, NoScan, TypeOK, eventVars, histVars
<1>8. ASSUME ScanCrash
      PROVE  TypeOK'
  BY <1>8, ConstantsAssumption, FaultType
  DEF ScanCrash, NoScan, TypeOK, eventVars, histVars
<1>9. ASSUME NEW t \in tasks, LoseTask(t)
      PROVE  TypeOK'
  BY <1>9, FaultType
  DEF LoseTask, TypeOK, eventVars, histVars
<1>10. ASSUME NEW w \in Workers, NEW t \in tasks, NEW a \in BOOLEAN,
             Deliver(w, t, a)
      PROVE  TypeOK'
  BY <1>10, FaultType
  DEF Deliver, Claim, WorkerState, PCs, TypeOK, eventVars, histVars
<1>11. ASSUME NEW w \in Workers, AcquireSalesLock(w)
      PROVE  TypeOK'
  BY <1>11, GotoType, EventParts
  DEF AcquireSalesLock, PCs, WorkerState, Owner, TypeOK, eventVars, histVars
<1>12. ASSUME NEW w \in Workers, TakeClaim(w)
      PROVE  TypeOK'
  <2>1. CASE ClaimMatches(w)
    <3>1. wk' \in [Workers -> WorkerState]
      BY <1>12, <2>1 DEF TakeClaim, WorkerState, PCs, TypeOK
    <3> QED
      BY <1>12, <2>1, <3>1 DEF TakeClaim, TypeOK, histVars
  <2>2. CASE ~ClaimMatches(w)
    BY <1>12, <2>2, ReturnType DEF TakeClaim, TypeOK, histVars
  <2> QED
    BY <2>1, <2>2
<1>13. ASSUME NEW w \in Workers, RouteCommand(w)
      PROVE  TypeOK'
  BY <1>13, GotoType
  DEF RouteCommand, PCs, TypeOK, eventVars, histVars
<1>14. ASSUME NEW w \in Workers, RouteUnrecognized(w)
      PROVE  TypeOK'
  BY <1>14, ReturnType, VerdictType
  DEF RouteUnrecognized, Statuses, WorkerState, TypeOK, eventVars, histVars
<1>15. ASSUME NEW w \in Workers, RouteAction(w)
      PROVE  TypeOK'
  BY <1>15, ReturnType
  DEF RouteAction, TypeOK, eventVars, histVars
<1>16. ASSUME NEW w \in Workers, RouteRecover(w)
      PROVE  TypeOK'
  BY <1>16, GotoType, VerdictType
  DEF RouteRecover, Statuses, WorkerState, PCs, TypeOK, eventVars, histVars
<1>17. ASSUME NEW w \in Workers, NEW m \in Media, RouteLead(w, m)
      PROVE  TypeOK'
  BY <1>17, GotoType
  DEF RouteLead, PCs, WorkerState, TypeOK, eventVars, histVars
<1>18. ASSUME NEW w \in Workers, FinishCommand(w)
      PROVE  TypeOK'
  BY <1>18, ReturnType, VerdictType
  DEF FinishCommand, Statuses, WorkerState, TypeOK, eventVars, histVars
<1>19. ASSUME NEW w \in Workers, CommandPending(w)
      PROVE  TypeOK'
  BY <1>19, ReturnType, VerdictType, FaultType
  DEF CommandPending, Statuses, WorkerState, TypeOK, eventVars, histVars
<1>20. ASSUME NEW w \in Workers, CommandFails(w)
      PROVE  TypeOK'
  BY <1>20, ReturnType, FailureType
  DEF CommandFails, WorkerState, TypeOK, eventVars, histVars
<1>21. ASSUME NEW w \in Workers, ConsumeSettled(w)
      PROVE  TypeOK'
  BY <1>21, GotoType, VerdictType
  DEF ConsumeSettled, Statuses, PCs, TypeOK, eventVars, histVars
<1>22. ASSUME NEW w \in Workers, ConsumeUnauthorized(w)
      PROVE  TypeOK'
  BY <1>22, GotoType, VerdictType
  DEF ConsumeUnauthorized, Statuses, PCs, TypeOK, eventVars, histVars
<1>23. ASSUME NEW w \in Workers, ConsumeBatchRetry(w)
      PROVE  TypeOK'
  BY <1>23, GotoType, VerdictType
  DEF ConsumeBatchRetry, Statuses, PCs, TypeOK, eventVars, histVars
<1>24. ASSUME NEW w \in Workers, ConsumeQuoteWaits(w)
      PROVE  TypeOK'
  BY <1>24, GotoType, VerdictType
  DEF ConsumeQuoteWaits, Release, Statuses, PCs, TypeOK, eventVars, histVars
<1>25. ASSUME NEW w \in Workers, ConsumeWaits(w)
      PROVE  TypeOK'
  BY <1>25, GotoType
  DEF ConsumeWaits, PCs, TypeOK, eventVars, histVars
<1>26. ASSUME NEW w \in Workers, ConsumeAwaitsMedia(w)
      PROVE  TypeOK'
  BY <1>26, GotoType, VerdictType
  DEF ConsumeAwaitsMedia, Release, Statuses, PCs, TypeOK, eventVars, histVars
<1>27. ASSUME NEW w \in Workers, ConsumeLocally(w)
      PROVE  TypeOK'
  BY <1>27, GotoType, VerdictType
  DEF ConsumeLocally, LocalVerdicts, Statuses, PCs, TypeOK, eventVars, histVars
<1>28. ASSUME NEW w \in Workers, ConsumeCallsOut(w)
      PROVE  TypeOK'
  BY <1>28, GotoType
  DEF ConsumeCallsOut, Statuses, PCs, TypeOK, eventVars, histVars
<1>29. ASSUME NEW w \in Workers, NEW v \in {"settled", "batch_pending"},
             ExternalSettles(w, v)
      PROVE  TypeOK'
  BY <1>29, GotoType, VerdictType
  DEF ExternalSettles, Statuses, PCs, WorkerState, TypeOK, eventVars, histVars
<1>30. ASSUME NEW w \in Workers, NEW t \in BOOLEAN, ExternalFails(w, t)
      PROVE  TypeOK'
  BY <1>30, GotoType, FailureType
  DEF ExternalFails, PCs, WorkerState, TypeOK, eventVars, histVars
<1>31. ASSUME NEW w \in Workers, ConsumeNext(w)
      PROVE  TypeOK'
  <2>1. CASE status[wk[w].ev] \in Completed /\ NextOpen(wk[w].ev) # {}
    <3>1. PICK f \in NextOpen(wk[w].ev) :
            wk' = [wk EXCEPT ![w] = [pc |-> "lead", ev |-> f, stamp |-> NoStamp,
                                     recover |-> FALSE, claimed |-> FALSE]]
      BY <1>31, <2>1 DEF ConsumeNext
    <3>2. f \in Event
      BY DEF NextOpen, Later
    <3>3. wk' \in [Workers -> WorkerState]
      BY <3>1, <3>2 DEF WorkerState, PCs, TypeOK
    <3> QED
      BY <1>31, <2>1, <3>3 DEF ConsumeNext, TypeOK, eventVars, histVars
  <2>2. CASE ~(status[wk[w].ev] \in Completed /\ NextOpen(wk[w].ev) # {})
    BY <1>31, <2>2, ReturnType DEF ConsumeNext, TypeOK, eventVars, histVars
  <2> QED
    BY <2>1, <2>2
<1>32. ASSUME NEW w \in Workers, WorkerCrash(w)
      PROVE  TypeOK'
  BY <1>32, ReturnType, FaultType
  DEF WorkerCrash, WorkerState, TypeOK, eventVars, histVars
<1>33. ASSUME NEW w \in Workers, LoseLock(w)
      PROVE  TypeOK'
  BY <1>33, EventParts, FaultType
  DEF LoseLock, WorkerState, Owner, TypeOK, eventVars, histVars
<1>34. ASSUME NEW e \in Event, FlushSettles(e)
      PROVE  TypeOK'
  BY <1>34, VerdictType
  DEF FlushSettles, Statuses, TypeOK, eventVars, histVars
<1>35. ASSUME NEW e \in Event, NEW t \in BOOLEAN, FlushFails(e, t)
      PROVE  TypeOK'
  BY <1>35, FailureType
  DEF FlushFails, TypeOK, eventVars, histVars
<1>36. ASSUME NEW e \in Event, ManualRetry(e)
      PROVE  TypeOK'
  BY <1>36, VerdictType
  DEF ManualRetry, Statuses, TypeOK, eventVars, histVars
<1>37. ASSUME NEW w \in Workers, ConsumeQuoteUnresolved(w)
      PROVE  TypeOK'
  BY <1>37, GotoType, VerdictType
  DEF ConsumeQuoteUnresolved, Statuses, PCs, TypeOK, eventVars, histVars
<1> QED
  BY <1>0, <1>1, <1>2, <1>3, <1>4, <1>5, <1>6, <1>7, <1>8, <1>9, <1>10,
     <1>11, <1>12, <1>13, <1>14, <1>15, <1>16, <1>17, <1>18, <1>19,
     <1>20, <1>21, <1>22, <1>23, <1>24, <1>25, <1>26, <1>27, <1>28,
     <1>29, <1>30, <1>31, <1>32, <1>33, <1>34, <1>35, <1>36, <1>37
  DEF Next, Intake, Dispatcher, MediaWaitEnds, Flush, WorkerStep, Lookup,
      Route, Command, Consume, External, Faults

(* The initial state is typed. *)
LEMMA TypeInit == Init => TypeOK
<1> SUFFICES ASSUME Init
             PROVE  TypeOK
  OBVIOUS
<1>1. broken \in BOOLEAN
  BY DEF Init
<1> QED
  BY <1>1, ConstantsAssumption, IdleType
  DEF Init, TypeOK, Statuses, AllKinds, Media, NoScan

(* Every state of every behaviour is well typed. *)
THEOREM TypeCorrect == Spec => []TypeOK
BY TypeInit, TypeStep, PTL DEF Spec

-----------------------------------------------------------------------------
(* Mutual exclusion on a salesperson's stream *)

(* A working slot owns its salesperson's lock unless a connection broke. *)
LockInv ==
    ~broken => \A w \in Workers : Working(w) => holder[Owner(wk[w].ev)] = w

(* A step that touches neither the slots nor the locks. *)
LEMMA LockFrame ==
  ASSUME LockInv, UNCHANGED <<wk, holder, broken>>
  PROVE  LockInv'
BY DEF LockInv, Working, Owner

(* A working slot that moves on keeps its lock. *)
LEMMA LockGoto ==
  ASSUME TypeOK, LockInv, NEW w \in Workers, Working(w), NEW l \in PCs,
         Goto(w, l), UNCHANGED <<holder, broken>>
  PROVE  LockInv'
BY DEF LockInv, Working, Owner, Goto, TypeOK, WorkerState

(* A slot that returns frees only a lock it owns. *)
LEMMA LockReturn ==
  ASSUME TypeOK, LockInv, NEW w \in Workers, Return(w), UNCHANGED broken
  PROVE  LockInv'
<1>1. \A v \in Workers : v # w => wk'[v] = wk[v]
  BY DEF Return, TypeOK
<1>2. wk'[w].pc = "idle"
  BY IdleType DEF Return, TypeOK
<1>3. ASSUME NEW v \in Workers, Working(v), ~broken, v # w
      PROVE  holder'[Owner(wk[v].ev)] = v
  BY <1>3, ConstantsAssumption DEF LockInv, Return, TypeOK
<1> QED
  BY <1>1, <1>2, <1>3 DEF LockInv, Working, Owner

(* Every step keeps the lock with the working slot. *)
LEMMA LockStep ==
  ASSUME TypeOK, LockInv, [Next]_vars
  PROVE  LockInv'
<1>0. CASE UNCHANGED vars
  BY <1>0, LockFrame DEF vars
<1>1. CASE Intake
  BY <1>1, LockFrame DEF Intake, Receive, Deactivate
<1>2. CASE Dispatcher
  BY <1>2, LockFrame DEF Dispatcher, ScanStart, ScanClaim, ScanEnd
<1>3. ASSUME NEW e \in Event,
             MediaWaitEnds(e) \/ LeaseRunsOut(e) \/ Flush(e) \/ ManualRetry(e)
      PROVE  LockInv'
  BY <1>3, LockFrame
  DEF MediaWaitEnds, MediaArrives, LeaseRunsOut, Flush, FlushSettles,
      FlushFails, ManualRetry
<1>4. ASSUME NEW w \in Workers, NEW t \in tasks, NEW a \in BOOLEAN,
             Deliver(w, t, a)
      PROVE  LockInv'
  BY <1>4 DEF Deliver, LockInv, Working, Owner, TypeOK
<1>5. ASSUME NEW w \in Workers, AcquireSalesLock(w)
      PROVE  LockInv'
  <2>1. Owner(wk[w].ev) \in Sales
    BY EventParts DEF TypeOK, WorkerState, Owner
  <2>2. /\ wk'[w].ev = wk[w].ev
        /\ \A v \in Workers : v # w => wk'[v] = wk[v]
    BY <1>5 DEF AcquireSalesLock, Goto, TypeOK, WorkerState
  <2>3. holder'[Owner(wk[w].ev)] = w
    BY <1>5, <2>1 DEF AcquireSalesLock, TypeOK
  <2>4. ASSUME NEW v \in Workers, v # w, Working(v), ~broken
        PROVE  holder'[Owner(wk[v].ev)] = v
    <3>1. holder[Owner(wk[v].ev)] = v
      BY <2>4 DEF LockInv
    <3>2. holder[Owner(wk[w].ev)] = NoWorker
      BY <1>5 DEF AcquireSalesLock, SalesLockFree
    <3> QED
      BY <1>5, <3>1, <3>2, <2>1, ConstantsAssumption
      DEF AcquireSalesLock, TypeOK
  <2>5. broken' = broken
    BY <1>5 DEF AcquireSalesLock
  <2> QED
    BY <2>2, <2>3, <2>4, <2>5 DEF LockInv, Working, Owner
<1>6. ASSUME NEW w \in Workers, TakeClaim(w)
      PROVE  LockInv'
  <2>1. CASE ClaimMatches(w)
    <3>1. /\ wk'[w].ev = wk[w].ev /\ Working(w)
          /\ \A v \in Workers : v # w => wk'[v] = wk[v]
      BY <1>6, <2>1 DEF TakeClaim, TypeOK, WorkerState, Working
    <3>2. UNCHANGED <<holder, broken>>
      BY <1>6, <2>1 DEF TakeClaim
    <3> QED
      BY <3>1, <3>2 DEF LockInv, Working, Owner
  <2>2. CASE ~ClaimMatches(w)
    BY <1>6, <2>2, LockReturn DEF TakeClaim
  <2> QED
    BY <2>1, <2>2
<1>7. ASSUME NEW w \in Workers, Route(w)
      PROVE  LockInv'
  <2>1. CASE RouteCommand(w) \/ RouteRecover(w) \/ \E m \in Media : RouteLead(w, m)
    BY <2>1, LockGoto
    DEF RouteCommand, RouteRecover, RouteLead, Working, PCs
  <2>2. CASE RouteUnrecognized(w) \/ RouteAction(w)
    BY <2>2, LockReturn DEF RouteUnrecognized, RouteAction
  <2> QED
    BY <1>7, <2>1, <2>2 DEF Route
<1>8. ASSUME NEW w \in Workers, Command(w) \/ CommandPending(w)
      PROVE  LockInv'
  BY <1>8, LockReturn DEF Command, FinishCommand, CommandFails, CommandPending
<1>9. ASSUME NEW w \in Workers, Consume(w)
      PROVE  LockInv'
  <2>1. PICK l \in PCs : Goto(w, l) /\ Working(w) /\ UNCHANGED <<holder, broken>>
    BY <1>9
    DEF Consume, ConsumeSettled, ConsumeUnauthorized, ConsumeBatchRetry,
      ConsumeQuoteWaits, ConsumeQuoteUnresolved, ConsumeWaits,
      ConsumeAwaitsMedia, ConsumeLocally, ConsumeCallsOut, Release,
      Turn, Proceeds, MayConsume, AtLead, Working, PCs
  <2> QED
    BY <2>1, LockGoto
<1>10. ASSUME NEW w \in Workers, External(w)
       PROVE  LockInv'
  BY <1>10, LockGoto
  DEF External, ExternalSettles, ExternalFails, Working, PCs
<1>11. ASSUME NEW w \in Workers, ConsumeNext(w)
       PROVE  LockInv'
  <2>1. CASE status[wk[w].ev] \in Completed /\ NextOpen(wk[w].ev) # {}
    <3>1. PICK f \in NextOpen(wk[w].ev) :
             wk' = [wk EXCEPT ![w] = [pc |-> "lead", ev |-> f,
                      stamp |-> NoStamp, recover |-> FALSE, claimed |-> FALSE]]
      BY <1>11, <2>1 DEF ConsumeNext
    <3>2. Owner(f) = Owner(wk[w].ev)
      BY DEF NextOpen, Later, Owner
    <3>3. /\ wk'[w].ev = f /\ Working(w)
          /\ \A v \in Workers : v # w => wk'[v] = wk[v]
      BY <1>11, <3>1 DEF ConsumeNext, TypeOK, Working
    <3>4. UNCHANGED <<holder, broken>>
      BY <1>11, <2>1 DEF ConsumeNext
    <3> QED
      BY <3>2, <3>3, <3>4 DEF LockInv, Working, Owner
  <2>2. CASE ~(status[wk[w].ev] \in Completed /\ NextOpen(wk[w].ev) # {})
    BY <1>11, <2>2, LockReturn DEF ConsumeNext
  <2> QED
    BY <2>1, <2>2
<1>12. ASSUME NEW w \in Workers, WorkerCrash(w) \/ LoseLock(w)
       PROVE  LockInv'
  BY <1>12, LockReturn DEF WorkerCrash, LoseLock, LockInv
<1>13. CASE ScanCrash \/ \E t \in tasks : LoseTask(t)
  BY <1>13, LockFrame DEF ScanCrash, LoseTask
<1>14. CASE Faults
  BY <1>4, <1>8, <1>12, <1>13, <1>14 DEF Faults
<1>15. CASE \E w \in Workers : WorkerStep(w)
  BY <1>4, <1>5, <1>6, <1>7, <1>8, <1>9, <1>10, <1>11, <1>15
  DEF WorkerStep, Lookup
<1> QED
  BY <1>0, <1>1, <1>2, <1>3, <1>14, <1>15 DEF Next

(* While lock connections live, one worker at a time works for a           *)
(* salesperson: the advisory lock held across the whole task.              *)
THEOREM MutualExclusion == Spec => []OneWorkerPerSales
<1>1. Init => LockInv
  BY IdleType DEF Init, LockInv, Working
<1>2. LockInv => OneWorkerPerSales
  BY DEF LockInv, OneWorkerPerSales
<1> QED
  BY <1>1, <1>2, TypeCorrect, LockStep, PTL DEF Spec
=============================================================================
