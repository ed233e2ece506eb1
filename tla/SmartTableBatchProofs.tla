------------------------ MODULE SmartTableBatchProofs ------------------------
(****************************************************************************)
(* Machine-checked proofs about SmartTableBatch, for every set of messages, *)
(* leads and flushing tasks, every batch size and every number of faults:   *)
(* a flush makes no second row of a lead, and no queued field is lost       *)
(* outside the leads in crossed.                                            *)
(*                                                                          *)
(* For the rows the invariant says what the look has established until the  *)
(* call.  For the fields it follows the requests of a lead from the queue   *)
(* into the flush and into the row.  Most steps neither queue nor complete  *)
(* anything (Mild) and keep it by frame lemmas; the rest have one each.     *)
(****************************************************************************)
EXTENDS SmartTableBatch, FiniteSetTheorems, TLAPS

Events == {"new", "processing", "batch_pending", "retrying",
           "failed_pending_review", "succeeded"}
Syncs == {"none", "pending", "processing", "batch_pending", "retrying",
          "failed_pending_review", "succeeded"}
FlushPcs == {"idle", "reject", "look", "find", "keep", "repair", "create",
             "settle", "unread", "recover", "giveup", "apply", "write", "applied"}
Queues == [Leads -> SUBSET Messages]
Flushes ==
    [pc : FlushPcs, batch : SUBSET Leads, all : Queues, work : Queues,
     open : SUBSET Leads, found : SUBSET Leads, again : BOOLEAN, perm : BOOLEAN]

Types ==
    /\ ev \in [Messages -> Events] /\ sync \in [Leads -> Syncs]
    /\ queue \in Queues /\ written \in Queues
    /\ bound \in [Leads -> Nat] /\ rows \in [Leads -> Nat]
    /\ fl \in [Flushers -> Flushes]
    /\ pipe \in [pc : {"idle", "enqueue", "ensure", "patch"}, msg : Nat]
    /\ pipe.pc # "idle" => pipe.msg \in Messages
    /\ \A f \in Flushers : fl[f].pc \in {"write", "applied"} => Todo(f) # {}

(* A task that flushes holds the lock of the batch. *)
LockInv == \A f \in Flushers : ~FlushAt(f, "idle") => lock = {f}

(* Between the look and the call, no row is made for a lead that the call   *)
(* would make one for, except blindly.                                      *)
LookInv ==
    \A f \in Flushers : \A l \in fl[f].open \ blind :
      \/ FlushAt(f, "keep") /\ ~fl[f].again /\ l \notin fl[f].found
      \/ FlushAt(f, "repair") /\ ~fl[f].again
      \/ FlushAt(f, "create")
      => rows[l] = 0

RowInv == Types /\ LockInv /\ LookInv /\ OneRowPerLead

(* The fields of message m are on their way into the row of lead l. *)
Held(m, l) == m \in queue[l] \cup written[l]

(* They are for all leads that m made and that nobody crossed. *)
Queued(m) == \A l \in Leads \ crossed : Creator(l) = m => Held(m, l)

(* What the pipeline queues for a lead is about it, comes after the message *)
(* that made it, and is not taken for done.                                 *)
QueueInv ==
    \A l \in Leads :
      /\ \A m \in queue[l] : l \in About[m]
      /\ queue[l] # {} => Queued(Creator(l)) /\ sync[l] \notin {"none", "succeeded"}

(* The pipeline goes to the row for a message about one lead only, and adds *)
(* to the queue behind the message that made the lead.                      *)
PipeInv ==
    /\ pipe.pc \in {"ensure", "patch"} => Cardinality(About[pipe.msg]) = 1
    /\ pipe.pc = "enqueue" =>
         \A l \in About[pipe.msg] : Creator(l) # pipe.msg => Queued(Creator(l))

(* A lead of the batch, as flush f has read its requests: none is lost, and *)
(* those the flush has done with are in the row unless the lead failed.     *)
BatchOK(f) ==
    \A l \in fl[f].batch \ crossed :
      /\ Creator(l) \in fl[f].all[l] /\ queue[l] \subseteq fl[f].all[l]
      /\ \A m \in fl[f].all[l] : Held(m, l)
      /\ sync[l] # "none"
      /\ sync[l] = "succeeded" => fl[f].all[l] \subseteq written[l]
      /\ sync[l] = "batch_pending" => fl[f].all[l] \ fl[f].work[l] \subseteq written[l]

(* All that the flush works on belongs to its batch, whose messages are in  *)
(* the rows of the leads they made outside of it, too.                      *)
WorkOK(f) ==
    /\ \A l \in Leads : /\ fl[f].work[l] \subseteq fl[f].all[l]
                        /\ fl[f].all[l] # {} => l \in fl[f].batch
                        /\ \A m \in fl[f].all[l] : l \in About[m]
    /\ fl[f].open \subseteq fl[f].batch
    /\ FlushAt(f, "idle") => fl[f].batch = {}
    /\ \A l \in Leads \ (fl[f].batch \cup crossed) :
         About[Creator(l)] \cap fl[f].batch # {} => Creator(l) \in written[l]

(* The request in hand. *)
HandOK(f) ==
    /\ fl[f].pc \in {"write", "applied"} =>
         /\ bound[NextLead(f)] # 0
         /\ NextLead(f) \notin crossed =>
              fl[f].all[NextLead(f)] \ fl[f].work[NextLead(f)] \subseteq written[NextLead(f)]
    /\ FlushAt(f, "applied") => NextMessage(f) \in written[NextLead(f)]

(* Before the writing starts every lead of the batch has its row, or has    *)
(* failed.                                                                  *)
BoundOK(f) ==
    /\ fl[f].pc \in {"find", "keep", "repair", "create", "settle", "unread",
                     "recover", "giveup"} =>
         \A l \in fl[f].batch \ fl[f].open : bound[l] # 0
    /\ FlushAt(f, "keep") => \A l \in fl[f].found : rows[l] # 0
    /\ fl[f].pc \in {"settle", "unread"} => \A l \in fl[f].open : rows[l] # 0
    /\ fl[f].pc \in {"apply", "write", "applied"} =>
         \A l \in fl[f].batch \ crossed : sync[l] = "batch_pending" => bound[l] # 0

FlushOK(f) == BatchOK(f) /\ WorkOK(f) /\ HandOK(f) /\ BoundOK(f)
FlushInv == \A f \in Flushers : FlushOK(f)

PatchInv == Types /\ LockInv /\ QueueInv /\ PipeInv /\ FlushInv /\ PatchesKept

-----------------------------------------------------------------------------
(* Types *)

(* A nonempty set of numbers has a least element. *)
LEMMA MinOf ==
  ASSUME NEW S \in SUBSET Nat, S # {}
  PROVE  Min(S) \in S
<1>1. IsWellFoundedOn({ss \in Nat \X Nat : ss[1] < ss[2]}, Nat)
  BY NatLessThanWellFounded DEF OpToRel
<1>2. PICK x \in S : \A y \in S : ~(<<y, x>> \in {ss \in Nat \X Nat : ss[1] < ss[2]})
  BY <1>1, WFMin
<1>3. ASSUME NEW y \in S, y < x PROVE FALSE
  <2>1. /\ <<y, x>> \in Nat \X Nat
        /\ <<y, x>>[1] = y /\ <<y, x>>[2] = x
    OBVIOUS
  <2> QED
    BY <1>2, <1>3, <2>1
<1>4. \A y \in S : x =< y
  BY <1>3
<1> QED
  BY <1>4 DEF Min

LEMMA CreatorOf ==
  ASSUME NEW l \in Leads
  PROVE  Creator(l) \in Messages /\ l \in About[Creator(l)]
<1> DEFINE S == {m \in Messages : l \in About[m]}
<1>1. S \in SUBSET Nat /\ S # {}
  BY BatchAssumption
<1>2. Min(S) \in S
  BY <1>1, MinOf
<1> QED
  BY <1>2 DEF Creator

(* A flush goes on with a new record. *)
LEMMA FlushBecomes ==
  ASSUME Types, NEW f \in Flushers, NEW w \in Flushes, fl' = [fl EXCEPT ![f] = w]
  PROVE  /\ fl' \in [Flushers -> Flushes] /\ fl'[f] = w
         /\ \A g \in Flushers \ {f} : fl'[g] = fl[g]
BY DEF Types

LEMMA FailTypes ==
  ASSUME Types, NEW ls, NEW of, NEW perm, Fail(ls, of, perm)
  PROVE  /\ ev' \in [Messages -> Events] /\ sync' \in [Leads -> Syncs]
BY DEF Types, Fail, Verdict, Events, Syncs

LEMMA BindTypes ==
  ASSUME Types, NEW ls, Bind(ls)
  PROVE  bound' \in [Leads -> Nat] /\ sync' \in [Leads -> Syncs]
BY DEF Types, Bind, Syncs

FlushTyped == fl' \in [Flushers -> Flushes]

(* Only the place of flush f, and what it does next, change. *)
LEMMA FlushGoes ==
  ASSUME Types, NEW f \in Flushers, NEW l \in FlushPcs, fl' = [fl EXCEPT ![f].pc = l]
  PROVE  FlushTyped
<1>1. PICK w : w = [fl[f] EXCEPT !.pc = l]
  OBVIOUS
<1>2. fl[f] \in Flushes
  BY DEF Types
<1>3. w \in Flushes
  BY <1>1, <1>2 DEF Flushes
<1>4. fl' = [fl EXCEPT ![f] = w]
  BY <1>1
<1> QED
  BY <1>3, <1>4, FlushBecomes DEF FlushTyped

LEMMA IdleFlush == FlushIdle \in Flushes
BY DEF FlushIdle, Flushes, FlushPcs, Queues, NoWork

LEMMA DroppedTypes ==
  ASSUME Types, NEW f \in Flushers, fl' = Dropped(f)
  PROVE  FlushTyped
<1>1. PICK n, k : n = NextLead(f) /\ k = NextMessage(f)
  OBVIOUS
<1>5. fl[f] \in Flushes /\ fl[f].work \in [Leads -> SUBSET Messages]
  BY DEF Types, Flushes, Queues
<1>2. PICK q : q = [fl[f].work EXCEPT ![n] = fl[f].work[n] \ {k}]
  OBVIOUS
<1>3. q \in Queues
  BY <1>2, <1>5 DEF Queues
<1>4. fl' = [fl EXCEPT ![f] = [fl[f] EXCEPT !.pc = "apply", !.work = q]]
  <2>1. fl' = [fl EXCEPT ![f] = [fl[f] EXCEPT !.pc = "apply",
                                   !.work = [fl[f].work EXCEPT ![n] = fl[f].work[n] \ {k}]]]
    BY <1>1, <1>5 DEF Dropped, Types, Flushes
  <2> QED
    BY <1>2, <2>1
<1>6. [fl[f] EXCEPT !.pc = "apply", !.work = q] \in Flushes
  BY <1>3, <1>5 DEF Flushes, FlushPcs
<1> QED
  BY <1>4, <1>6, FlushBecomes DEF FlushTyped

LEMMA FlushRecordTypes ==
  ASSUME Types, NEW f \in Flushers, FlushStep(f) \/ FlusherDies(f)
  PROVE  FlushTyped
<1>0. fl[f] \in Flushes
  BY DEF Types
<1>1. CASE FlushStarts(f)
  <2> DEFINE good == {l \in Oldest : ~Broken(l)}
             work == [l \in Leads |-> IF l \in good THEN queue[l] ELSE {}]
  <2>1. good \subseteq Leads /\ Oldest \subseteq Leads
    BY DEF Oldest, Pending
  <2>2. work \in Queues
    BY DEF Types, Queues
  <2>3. fl' = [fl EXCEPT ![f] = [FlushIdle EXCEPT
                !.pc = IF good = Oldest THEN "look" ELSE "reject",
                !.batch = good, !.all = work, !.work = work,
                !.found = Oldest \ good]]
    BY <1>1 DEF FlushStarts
  <2> HIDE DEF good, work
  <2>4. [FlushIdle EXCEPT
                !.pc = IF good = Oldest THEN "look" ELSE "reject",
                !.batch = good, !.all = work, !.work = work,
                !.found = Oldest \ good] \in Flushes
    BY <2>1, <2>2, IdleFlush DEF Flushes, FlushPcs
  <2> QED
    BY <2>3, <2>4, FlushBecomes DEF FlushTyped
<1>2. CASE FlushRejects(f)
  <2>1. CASE fl[f].batch = {}
    BY <1>2, <2>1, IdleFlush, FlushBecomes DEF FlushRejects, FlushTyped
  <2>2. CASE fl[f].batch # {}
    <3>1. fl' = [fl EXCEPT ![f] = [fl[f] EXCEPT !.pc = "look", !.found = {}]]
      BY <1>2, <2>2 DEF FlushRejects
    <3>2. [fl[f] EXCEPT !.pc = "look", !.found = {}] \in Flushes
      BY <1>0 DEF Flushes, FlushPcs
    <3> QED
      BY <3>1, <3>2, FlushBecomes DEF FlushTyped
  <2> QED
    BY <2>1, <2>2
<1>3. CASE FlushLooks(f)
  <2>1. PICK u \in SUBSET Leads :
          fl' = [fl EXCEPT ![f] = [fl[f] EXCEPT !.pc = "find", !.open = u]]
    BY <1>0, <1>3 DEF FlushLooks, Flushes
  <2>2. [fl[f] EXCEPT !.pc = "find", !.open = u] \in Flushes
    BY <1>0 DEF Flushes, FlushPcs
  <2> QED
    BY <2>1, <2>2, FlushBecomes DEF FlushTyped
<1>4. CASE FlushFinds(f)
  <2>1. CASE fl' = [fl EXCEPT ![f].pc = "apply"]
    BY <2>1, FlushGoes DEF FlushPcs
  <2>2. CASE fl' = [fl EXCEPT ![f] = [@ EXCEPT !.pc = "keep", !.found = Seen(fl[f].open)]]
    <3>1. [fl[f] EXCEPT !.pc = "keep", !.found = Seen(fl[f].open)] \in Flushes
      BY <1>0 DEF Flushes, FlushPcs, Seen
    <3> QED
      BY <2>2, <3>1, FlushBecomes DEF FlushTyped
  <2> QED
    BY <1>4, <2>1, <2>2 DEF FlushFinds
<1>5. CASE FlushKeeps(f)
  <2>1. PICK u \in SUBSET Leads, v \in SUBSET Leads :
          fl' = [fl EXCEPT ![f] = [fl[f] EXCEPT !.pc = "repair", !.open = u, !.found = v]]
    <3>1. /\ fl[f].open \ fl[f].found \in SUBSET Leads
          /\ (IF fl[f].again THEN fl[f].found
              ELSE fl[f].batch \ (fl[f].open \ fl[f].found)) \in SUBSET Leads
      BY <1>0 DEF Flushes
    <3> QED
      BY <1>5, <3>1 DEF FlushKeeps
  <2>2. [fl[f] EXCEPT !.pc = "repair", !.open = u, !.found = v] \in Flushes
    BY <1>0 DEF Flushes, FlushPcs
  <2> QED
    BY <2>1, <2>2, FlushBecomes DEF FlushTyped
<1>6. CASE FlushRepairs(f)
  BY <1>6, FlushGoes DEF FlushRepairs, FlushPcs
<1>7. CASE FlushCreates(f)
  <2>1. PICK o \in AddOutcomes(fl[f].open) :
          fl' = [fl EXCEPT ![f].pc = o.pc, ![f].perm = o.perm]
    BY <1>7 DEF FlushCreates
  <2>2. o.pc \in FlushPcs /\ o.perm \in BOOLEAN
    BY DEF AddOutcomes, AddFailed, FlushPcs
  <2> QED
    BY <1>0, <2>1, <2>2 DEF Types, FlushTyped, Flushes
<1>8. CASE FlushSettles(f) \/ FlushUnread(f) \/ FlushGivesUp(f)
  BY <1>8, FlushGoes DEF FlushSettles, FlushUnread, FlushGivesUp, FlushPcs
<1>9. CASE FlushRecovers(f)
  <2>1. PICK v \in SUBSET Leads, perm \in BOOLEAN :
          fl' = [fl EXCEPT ![f] = [fl[f] EXCEPT !.pc = "keep", !.again = TRUE,
                                                !.found = v, !.perm = perm]]
    <3>1. CASE \E seen \in SUBSET {l \in fl[f].open : rows[l] = 1} :
                 fl' = [fl EXCEPT ![f] = [fl[f] EXCEPT
                          !.pc = "keep", !.again = TRUE, !.found = seen]]
      <4>1. PICK seen \in SUBSET {l \in fl[f].open : rows[l] = 1} :
                 fl' = [fl EXCEPT ![f] = [fl[f] EXCEPT
                          !.pc = "keep", !.again = TRUE, !.found = seen]]
        BY <3>1
      <4>2. seen \in SUBSET Leads /\ fl[f].perm \in BOOLEAN
        BY <1>0 DEF Flushes
      <4>3. [fl[f] EXCEPT !.pc = "keep", !.again = TRUE, !.found = seen]
              = [fl[f] EXCEPT !.pc = "keep", !.again = TRUE, !.found = seen,
                              !.perm = fl[f].perm]
        BY <1>0 DEF Flushes
      <4> QED
        BY <4>1, <4>2, <4>3
    <3>2. CASE \E perm \in BOOLEAN :
                 fl' = [fl EXCEPT ![f] = [fl[f] EXCEPT
                          !.pc = "keep", !.again = TRUE, !.found = {}, !.perm = perm]]
      BY <3>2
    <3> QED
      BY <1>9, <3>1, <3>2 DEF FlushRecovers
  <2>2. [fl[f] EXCEPT !.pc = "keep", !.again = TRUE, !.found = v, !.perm = perm] \in Flushes
    BY <1>0 DEF Flushes, FlushPcs
  <2> QED
    BY <2>1, <2>2, FlushBecomes DEF FlushTyped
<1>10. CASE FlushApplies(f) \/ FlushWrites(f) \/ FlushApplied(f)
  BY <1>10, FlushGoes, DroppedTypes
  DEF FlushApplies, FlushWrites, FlushApplied, FlushPcs
<1>11. CASE FlushReconciles(f) \/ FlusherDies(f)
  BY <1>11, IdleFlush, FlushBecomes
  DEF FlushReconciles, FlusherDies, FlushEnds, FlushTyped
<1> QED
  BY <1>1, <1>2, <1>3, <1>4, <1>5, <1>6, <1>7, <1>8, <1>9, <1>10, <1>11 DEF FlushStep

(* A flush that has something left to do has a next request. *)
LEMMA NextOf ==
  ASSUME Types, NEW f \in Flushers, Todo(f) # {}
  PROVE  /\ NextLead(f) \in Leads /\ NextMessage(f) \in fl[f].work[NextLead(f)]
         /\ NextMessage(f) \in Messages
<1>1. Todo(f) \in SUBSET Nat /\ Todo(f) \subseteq Leads
  BY BatchAssumption DEF Todo
<1>2. NextLead(f) \in Todo(f)
  BY <1>1, MinOf DEF NextLead
<1>3. /\ fl[f].work[NextLead(f)] \in SUBSET Messages /\ fl[f].work[NextLead(f)] # {}
  BY <1>1, <1>2 DEF Todo, Types, Flushes, Queues
<1>4. fl[f].work[NextLead(f)] \in SUBSET Nat
  BY <1>3, BatchAssumption
<1>5. NextMessage(f) \in fl[f].work[NextLead(f)]
  BY <1>3, <1>4, MinOf DEF NextMessage
<1> QED
  BY <1>1, <1>2, <1>3, <1>5

(* The flush goes on to write only with a request in hand. *)
LEMMA HandTypes ==
  ASSUME Types, NEW f \in Flushers, FlushStep(f) \/ FlusherDies(f),
         fl' \in [Flushers -> Flushes], NEW g \in Flushers,
         fl'[g].pc \in {"write", "applied"}
  PROVE  Todo(g)' # {}
<1>0. Todo(g)' # {} \/ fl'[g].work # fl[g].work \/ Todo(g) = {}
  BY DEF Todo
<1>1. CASE g # f
  <2>1. fl'[g] = fl[g]
    BY <1>1 DEF FlushStep, FlushStarts, FlushRejects, FlushLooks, FlushFinds, FlushKeeps,
       FlushRepairs, FlushCreates, FlushSettles, FlushUnread, FlushRecovers, FlushGivesUp,
       FlushApplies, FlushWrites, FlushApplied, FlushReconciles, FlusherDies, FlushEnds,
       Dropped, Types
  <2> QED
    BY <1>0, <2>1 DEF Types
<1>2. CASE g = f
  <2>0. fl[f] \in Flushes
    BY DEF Types
  <2>1. CASE FlushApplies(f) \/ FlushWrites(f) \/ FlushApplied(f)
    <3>1. CASE fl' = Dropped(f)
      <4>1. fl'[f].pc = "apply"
        BY <2>0, <3>1 DEF Dropped, Types, Flushes
      <4> QED
        BY <1>2, <4>1
    <3>2. CASE fl' # Dropped(f)
      <4>1. Todo(f) # {}
        BY <2>1, <3>2 DEF FlushApplies, FlushWrites, FlushApplied, Types, FlushAt
      <4>2. PICK l : fl' = [fl EXCEPT ![f].pc = l]
        BY <2>1, <3>2 DEF FlushApplies, FlushWrites, FlushApplied
      <4>3. fl'[f].work = fl[f].work
        BY <2>0, <4>2 DEF Types, Flushes
      <4> QED
        BY <1>0, <1>2, <4>1, <4>3
    <3> QED
      BY <3>1, <3>2
  <2>2. CASE FlushReconciles(f) \/ FlusherDies(f)
    BY <1>2, <2>2 DEF FlushReconciles, FlusherDies, FlushEnds, FlushIdle, Types
  <2>3. CASE FlushRejects(f)
    <3>1. CASE fl' = [fl EXCEPT ![f] = FlushIdle]
      BY <1>2, <3>1 DEF FlushIdle, Types
    <3>2. CASE fl' = [fl EXCEPT ![f] = [fl[f] EXCEPT !.pc = "look", !.found = {}]]
      BY <1>2, <2>0, <3>2 DEF Types, Flushes
    <3> QED
      BY <2>3, <3>1, <3>2 DEF FlushRejects
  <2>4. CASE FlushStarts(f)
    <3>1. fl'[f].pc \in {"look", "reject"}
      BY <2>4 DEF FlushStarts, FlushIdle, Types
    <3> QED
      BY <1>2, <3>1
  <2>5. CASE FlushLooks(f)
    BY <1>2, <2>0, <2>5 DEF FlushLooks, Types, Flushes
  <2>7. CASE FlushFinds(f)
    <3>1. CASE fl' = [fl EXCEPT ![f].pc = "apply"]
      BY <1>2, <2>0, <3>1 DEF Types, Flushes
    <3>2. CASE fl' = [fl EXCEPT ![f] = [fl[f] EXCEPT !.pc = "keep",
                                                     !.found = Seen(fl[f].open)]]
      BY <1>2, <2>0, <3>2 DEF Types, Flushes
    <3> QED
      BY <2>7, <3>1, <3>2 DEF FlushFinds
  <2>8. CASE FlushKeeps(f)
    BY <1>2, <2>0, <2>8 DEF FlushKeeps, Types, Flushes
  <2>9. CASE FlushRepairs(f) \/ FlushSettles(f) \/ FlushUnread(f) \/ FlushGivesUp(f)
    <3>1. PICK l \in {"apply", "giveup", "create", "recover"} : fl' = [fl EXCEPT ![f].pc = l]
      BY <2>9 DEF FlushRepairs, FlushSettles, FlushUnread, FlushGivesUp
    <3> QED
      BY <1>2, <2>0, <3>1 DEF Types, Flushes
  <2>10. CASE FlushRecovers(f)
    <3>1. CASE \E seen : fl' = [fl EXCEPT ![f] = [fl[f] EXCEPT
                              !.pc = "keep", !.again = TRUE, !.found = seen]]
      BY <1>2, <2>0, <3>1 DEF Types, Flushes
    <3>2. CASE \E perm : fl' = [fl EXCEPT ![f] = [fl[f] EXCEPT
                              !.pc = "keep", !.again = TRUE, !.found = {}, !.perm = perm]]
      BY <1>2, <2>0, <3>2 DEF Types, Flushes
    <3> QED
      BY <2>10, <3>1, <3>2 DEF FlushRecovers
  <2>6. CASE FlushCreates(f)
    <3>1. PICK o \in AddOutcomes(fl[f].open) :
            fl' = [fl EXCEPT ![f].pc = o.pc, ![f].perm = o.perm]
      BY <2>6 DEF FlushCreates
    <3>2. o.pc \in {"settle", "unread", "recover"}
      BY DEF AddOutcomes, AddFailed
    <3>3. fl'[f].pc = o.pc
      BY <2>0, <3>1 DEF Types, Flushes
    <3> QED
      BY <1>2, <3>2, <3>3
  <2> QED
    BY <2>1, <2>2, <2>3, <2>4, <2>5, <2>6, <2>7, <2>8, <2>9, <2>10 DEF FlushStep
<1> QED
  BY <1>1, <1>2

LEMMA FlushTypes ==
  ASSUME Types, NEW f \in Flushers, FlushStep(f) \/ FlusherDies(f)
  PROVE  Types'
<1>1. fl' \in [Flushers -> Flushes]
  BY FlushRecordTypes DEF FlushTyped
<1>a. \A g \in Flushers : fl'[g].pc \in {"write", "applied"} => Todo(g)' # {}
  BY <1>1, HandTypes
<1>2. pipe' = pipe
  BY DEF FlushStep, FlushStarts, FlushRejects, FlushLooks, FlushFinds, FlushKeeps,
     FlushRepairs, FlushCreates, FlushSettles, FlushUnread, FlushRecovers, FlushGivesUp,
     FlushApplies, FlushWrites, FlushApplied, FlushReconciles, FlusherDies
<1>3. SUFFICES /\ ev' \in [Messages -> Events] /\ sync' \in [Leads -> Syncs]
               /\ queue' \in Queues /\ written' \in Queues
               /\ bound' \in [Leads -> Nat] /\ rows' \in [Leads -> Nat]
  BY <1>1, <1>a, <1>2 DEF Types
<1>4. CASE FlushStarts(f) \/ FlushLooks(f) \/ FlushRecovers(f) \/ FlusherDies(f)
  BY <1>4 DEF FlushStarts, FlushLooks, FlushRecovers, FlusherDies, Types
<1>5. CASE FlushRejects(f) \/ FlushGivesUp(f) \/ FlushFinds(f) \/ FlushRepairs(f)
  <2>1. UNCHANGED <<queue, written, bound, rows>>
    BY <1>5 DEF FlushRejects, FlushGivesUp, FlushFinds, FlushRepairs
  <2>2. \/ UNCHANGED <<ev, sync>>
        \/ \E ls, perm : Fail(ls, ByCreator, perm)
    BY <1>5 DEF FlushRejects, FlushGivesUp, FlushFinds, FlushRepairs
  <2> QED
    BY <2>1, <2>2, FailTypes DEF Types
<1>6. CASE FlushKeeps(f) \/ FlushSettles(f)
  BY <1>6, BindTypes DEF FlushKeeps, FlushSettles, Types
<1>7. CASE FlushCreates(f)
  <2>1. PICK o : rows' = MoreRows(o.made)
    BY <1>7 DEF FlushCreates
  <2>2. rows' \in [Leads -> Nat]
    BY <2>1 DEF MoreRows, Types
  <2> QED
    BY <1>7, <2>2 DEF FlushCreates, Types
<1>8. CASE FlushUnread(f)
  <2>1. bound' \in [Leads -> Nat]
    BY <1>8 DEF FlushUnread, Types
  <2> QED
    BY <1>8, <2>1, FailTypes DEF FlushUnread, Types
<1>9. CASE FlushApplies(f)
  BY <1>9 DEF FlushApplies, Types, Syncs
<1>10. CASE FlushWrites(f)
  <2>1. CASE UNCHANGED <<ev, tries, sync, faults>>
    <3>1. NextMessage(f) \in Messages
      BY <1>10, NextOf DEF FlushWrites, FlushAt, Types
    <3>2. written' \in Queues
      <4>1. \/ UNCHANGED written
            \/ written' = [written EXCEPT ![NextLead(f)] = @ \cup {NextMessage(f)}]
        BY <1>10 DEF FlushWrites
      <4> QED
        BY <3>1, <4>1 DEF Types, Queues
    <3> QED
      BY <1>10, <2>1, <3>2 DEF FlushWrites, Types
  <2>2. CASE /\ \E perm \in BOOLEAN : Fail({NextLead(f)}, By(NextMessage(f)), perm)
             /\ UNCHANGED written
    BY <1>10, <2>2, FailTypes DEF FlushWrites, Types
  <2> QED
    BY <1>10, <2>1, <2>2 DEF FlushWrites
<1>11. CASE FlushApplied(f)
  <2>1. queue' \in Queues
    BY <1>11 DEF FlushApplied, Types, Queues
  <2>2. ev' \in [Messages -> Events] /\ sync' \in [Leads -> Syncs]
    BY <1>11 DEF FlushApplied, Types, Events, Syncs
  <2> QED
    BY <1>11, <2>1, <2>2 DEF FlushApplied, Types
<1>12. CASE FlushReconciles(f)
  <2>1. ev' \in [Messages -> Events]
    BY <1>12 DEF FlushReconciles, Reconciled, Types, Events
  <2> QED
    BY <1>12, <2>1 DEF FlushReconciles, Types
<1> QED
  BY <1>4, <1>5, <1>6, <1>7, <1>8, <1>9, <1>10, <1>11, <1>12 DEF FlushStep

LEMMA FlushStays ==
  ASSUME Types, UNCHANGED fl
  PROVE  \A f \in Flushers : fl'[f].pc \in {"write", "applied"} => Todo(f)' # {}
BY DEF Types, Todo

LEMMA MoreOneRow ==
  ASSUME Types, NEW l, NEW n \in {0, 1}
  PROVE  [rows EXCEPT ![l] = Min({@ + n, MaxRows})] \in [Leads -> Nat]
<1>1. CASE l \in Leads
  <2>1. {rows[l] + n, MaxRows} \in SUBSET Nat
    BY <1>1 DEF Types, MaxRows
  <2>2. Min({rows[l] + n, MaxRows}) \in Nat
    BY <2>1, MinOf
  <2> QED
    BY <2>2 DEF Types
<1>2. CASE l \notin Leads
  BY <1>2 DEF Types
<1> QED
  BY <1>1, <1>2

LEMMA PipeTypes ==
  ASSUME Types, PipeStep \/ PipelineDies \/ (\E m \in Messages : Lapse(m))
  PROVE  Types'
<1>0. /\ PipeIdle \in [pc : {"idle", "enqueue", "ensure", "patch"}, msg : Nat]
      /\ PipeIdle.pc = "idle"
  BY DEF PipeIdle
<1>a. \A m \in Messages : m \in Nat
  BY BatchAssumption
<1>1. ASSUME NEW m \in Messages, TakeNew(m) \/ Take(m) PROVE Types'
  BY <1>1, <1>a, FlushStays DEF TakeNew, Take, Types, Events, Syncs
<1>2. ASSUME NEW m \in Messages, Resume(m) \/ Lapse(m) PROVE Types'
  BY <1>2, FlushStays DEF Resume, Lapse, Types, Events, Syncs
<1>3. CASE Enqueue
  <2>1. pipe.msg \in Messages
    BY <1>3 DEF Enqueue, Types
  <2>2. queue' \in Queues
    BY <1>3, <2>1 DEF Enqueue, Types, Queues
  <2>3. ev' \in [Messages -> Events] /\ sync' \in [Leads -> Syncs]
    BY <1>3 DEF Enqueue, Types, Events, Syncs
  <2>4. UNCHANGED <<written, bound, rows, fl>> /\ pipe' = PipeIdle
    BY <1>3 DEF Enqueue
  <2> QED
    BY <1>0, <2>2, <2>3, <2>4, FlushStays DEF Types
<1>4. CASE Ensure
  <2>1. UNCHANGED <<queue, written, fl>>
    BY <1>4 DEF Ensure
  <2>2. /\ pipe' \in [pc : {"idle", "enqueue", "ensure", "patch"}, msg : Nat]
        /\ pipe'.pc # "idle" => pipe'.msg \in Messages
    BY <1>0, <1>4 DEF Ensure, Types
  <2>3. PICK l : l = Target(pipe.msg)
    OBVIOUS
  <2>4. rows' \in [Leads -> Nat]
    <3>1. \/ rows' = rows
          \/ rows' = [rows EXCEPT ![l] = @ + 1]
          \/ \E n \in {0, 1} : rows' = [rows EXCEPT ![l] = Min({@ + n, MaxRows})]
      BY <1>4, <2>3 DEF Ensure
    <3>2. CASE rows' = rows \/ rows' = [rows EXCEPT ![l] = @ + 1]
      BY <3>2 DEF Types
    <3>3. CASE \E n \in {0, 1} : rows' = [rows EXCEPT ![l] = Min({@ + n, MaxRows})]
      <4>1. PICK n \in {0, 1} : rows' = [rows EXCEPT ![l] = Min({@ + n, MaxRows})]
        BY <3>3
      <4>2. [rows EXCEPT ![l] = Min({@ + n, MaxRows})] \in [Leads -> Nat]
        BY MoreOneRow
      <4> QED
        BY <4>1, <4>2
    <3> QED
      BY <3>1, <3>2, <3>3
  <2>5. bound' \in [Leads -> Nat]
    <3>1. \/ bound' = bound
          \/ bound' = [bound EXCEPT ![l] = rows[l] + 1]
      BY <1>4, <2>3 DEF Ensure
    <3> QED
      BY <3>1 DEF Types
  <2>6. ev' \in [Messages -> Events] /\ sync' \in [Leads -> Syncs]
    BY <1>4, FailTypes DEF Ensure, Types, Syncs
  <2> QED
    BY <2>1, <2>2, <2>4, <2>5, <2>6, FlushStays DEF Types
<1>5. CASE Patch
  <2>1. UNCHANGED <<bound, rows, fl>> /\ pipe' = PipeIdle /\ pipe.msg \in Messages
    BY <1>5 DEF Patch, Types
  <2>2. CASE /\ \E perm \in BOOLEAN : Fail({Target(pipe.msg)}, By(pipe.msg), perm)
             /\ UNCHANGED <<written, queue>>
    BY <1>0, <2>1, <2>2, FailTypes, FlushStays DEF Types
  <2>3. CASE /\ written' = [written EXCEPT ![Target(pipe.msg)] = @ \cup {pipe.msg}]
             /\ sync' = [sync EXCEPT ![Target(pipe.msg)] = "succeeded"]
             /\ queue' = [queue EXCEPT ![Target(pipe.msg)] = {}]
             /\ ev' = [ev EXCEPT ![pipe.msg] = IF queue[Target(pipe.msg)] = {}
                                               THEN "succeeded" ELSE "processing"]
    <3>1. written' \in Queues /\ queue' \in Queues
      <4>1. PICK l : l = Target(pipe.msg)
        OBVIOUS
      <4>2. /\ written' = [written EXCEPT ![l] = written[l] \cup {pipe.msg}]
            /\ queue' = [queue EXCEPT ![l] = {}]
        BY <2>3, <4>1
      <4>3. written \in [Leads -> SUBSET Messages] /\ queue \in [Leads -> SUBSET Messages]
        BY DEF Types, Queues
      <4>4. CASE l \in Leads
        <5>1. written[l] \cup {pipe.msg} \in SUBSET Messages
          BY <2>1, <4>3, <4>4
        <5> QED
          BY <4>2, <4>3, <5>1 DEF Queues
      <4>5. CASE l \notin Leads
        BY <4>2, <4>3, <4>5 DEF Queues
      <4> QED
        BY <4>4, <4>5
    <3>2. ev' \in [Messages -> Events] /\ sync' \in [Leads -> Syncs]
      BY <2>3 DEF Types, Events, Syncs
    <3> QED
      BY <1>0, <2>1, <3>1, <3>2, FlushStays DEF Types
  <2> QED
    BY <1>5, <2>2, <2>3 DEF Patch
<1>6. CASE PipelineDies
  <2>1. rows' \in [Leads -> Nat]
    <3>1. \/ rows' = rows
          \/ \E l \in Leads : rows' = [rows EXCEPT ![l] = Min({@ + 1, MaxRows})]
      BY <1>6 DEF PipelineDies
    <3> QED
      BY <3>1, MoreOneRow DEF Types
  <2> QED
    BY <1>0, <1>6, <2>1, FlushStays DEF PipelineDies, Types
<1> QED
  BY <1>1, <1>2, <1>3, <1>4, <1>5, <1>6 DEF PipeStep

LEMMA TypesInit == Init => Types
<1> SUFFICES ASSUME Init PROVE Types
  OBVIOUS
<1>1. /\ fl = [f \in Flushers |-> FlushIdle] /\ pipe = PipeIdle
      /\ ev = [m \in Messages |-> "new"] /\ sync = [l \in Leads |-> "none"]
      /\ queue = NoWork /\ written = NoWork
      /\ bound = [l \in Leads |-> 0] /\ rows = [l \in Leads |-> 0]
  BY DEF Init
<1>2. fl \in [Flushers -> Flushes] /\ \A f \in Flushers : fl[f].pc = "idle"
  BY <1>1, IdleFlush DEF FlushIdle
<1>3. queue \in Queues /\ written \in Queues
  BY <1>1 DEF NoWork, Queues
<1>4. /\ pipe \in [pc : {"idle", "enqueue", "ensure", "patch"}, msg : Nat]
      /\ pipe.pc = "idle"
  BY <1>1 DEF PipeIdle
<1>5. ev \in [Messages -> Events] /\ sync \in [Leads -> Syncs]
  BY <1>1 DEF Events, Syncs
<1> QED
  BY <1>1, <1>2, <1>3, <1>4, <1>5 DEF Types

LEMMA TypesStep == Types /\ [Next]_vars => Types'
<1> SUFFICES ASSUME Types, [Next]_vars PROVE Types'
  OBVIOUS
<1>1. CASE UNCHANGED vars
  BY <1>1, FlushStays DEF Types, vars
<1> QED
  BY <1>1, PipeTypes, FlushTypes DEF Next

-----------------------------------------------------------------------------
(* The lock of the batch *)

LEMMA OthersStay ==
  ASSUME Types, NEW f \in Flushers, FlushStep(f) \/ FlusherDies(f)
  PROVE  \A g \in Flushers \ {f} : fl'[g] = fl[g]
BY DEF FlushStep, FlushStarts, FlushRejects, FlushLooks, FlushFinds, FlushKeeps,
   FlushRepairs, FlushCreates, FlushSettles, FlushUnread, FlushRecovers, FlushGivesUp,
   FlushApplies, FlushWrites, FlushApplied, FlushReconciles, FlusherDies, FlushEnds,
   Dropped, Types

(* While one task flushes, the others are idle. *)
LEMMA AloneAtWork ==
  ASSUME LockInv, NEW f \in Flushers, ~FlushAt(f, "idle")
  PROVE  \A g \in Flushers \ {f} : FlushAt(g, "idle")
BY DEF LockInv

(* Task f ends. *)
Ended(f) == fl'[f] = FlushIdle /\ lock' = {}

LEMMA EndsShape ==
  ASSUME Types, NEW f \in Flushers, FlushEnds(f)
  PROVE  Ended(f)
BY DEF FlushEnds, Types, Ended

LEMMA FlushLock ==
  ASSUME Types, LockInv, NEW f \in Flushers, FlushStep(f) \/ FlusherDies(f)
  PROVE  LockInv'
<1>1. \A g \in Flushers \ {f} : fl'[g] = fl[g]
  BY OthersStay
<1>2. CASE FlushStarts(f)
  BY <1>1, <1>2 DEF FlushStarts, LockInv, FlushAt
<1>3. CASE FlushReconciles(f) \/ FlusherDies(f)
  <2>1. Ended(f) /\ ~FlushAt(f, "idle")
    BY <1>3, EndsShape DEF FlushReconciles, FlusherDies, FlushAt
  <2> QED
    BY <1>1, <2>1, AloneAtWork DEF Ended, FlushIdle, LockInv, FlushAt
<1>4. CASE FlushRejects(f)
  <2>1. CASE fl[f].batch = {}
    <3>1. fl'[f] = FlushIdle /\ lock' = {} /\ ~FlushAt(f, "idle")
      BY <1>4, <2>1 DEF FlushRejects, FlushAt, Types
    <3> QED
      BY <1>1, <3>1, AloneAtWork DEF FlushIdle, LockInv, FlushAt
  <2>2. CASE fl[f].batch # {}
    <3>1. lock' = lock /\ ~FlushAt(f, "idle")
      BY <1>4, <2>2 DEF FlushRejects, FlushAt
    <3> QED
      BY <1>1, <3>1 DEF LockInv, FlushAt
  <2> QED
    BY <2>1, <2>2
<1>5. CASE ~(FlushStarts(f) \/ FlushRejects(f) \/ FlushReconciles(f) \/ FlusherDies(f))
  <2>1. lock' = lock /\ ~FlushAt(f, "idle")
    BY <1>5 DEF FlushStep, FlushLooks, FlushFinds, FlushKeeps, FlushRepairs, FlushCreates,
       FlushSettles, FlushUnread, FlushRecovers, FlushGivesUp, FlushApplies, FlushWrites,
       FlushApplied, FlushAt
  <2> QED
    BY <1>1, <2>1 DEF LockInv, FlushAt
<1> QED
  BY <1>2, <1>3, <1>4, <1>5

LEMMA PipeKeepsFlushes ==
  ASSUME PipeStep \/ PipelineDies \/ (\E m \in Messages : Lapse(m)) \/ UNCHANGED vars
  PROVE  UNCHANGED <<fl, lock>>
BY DEF PipeStep, TakeNew, Take, Resume, Enqueue, Ensure, Patch, PipelineDies, Lapse, vars

LEMMA LockStep == Types /\ LockInv /\ [Next]_vars => LockInv'
<1> SUFFICES ASSUME Types, LockInv, [Next]_vars PROVE LockInv'
  OBVIOUS
<1>1. CASE PipeStep \/ PipelineDies \/ (\E m \in Messages : Lapse(m)) \/ UNCHANGED vars
  BY <1>1, PipeKeepsFlushes DEF LockInv, FlushAt
<1> QED
  BY <1>1, FlushLock DEF Next

-----------------------------------------------------------------------------
(* What a step of a flush does to its record *)

SameWork(f) ==
    /\ fl'[f].batch = fl[f].batch /\ fl'[f].all = fl[f].all
    /\ fl'[f].work = fl[f].work

Moved(f, l, open, found, again) ==
    /\ SameWork(f) /\ fl'[f].pc = l /\ fl'[f].open = open
    /\ fl'[f].found = found /\ fl'[f].again = again

LEMMA PcMoves ==
  ASSUME Types, NEW f \in Flushers, NEW l, fl' = [fl EXCEPT ![f].pc = l]
  PROVE  Moved(f, l, fl[f].open, fl[f].found, fl[f].again)
BY DEF Types, Flushes, Moved, SameWork

LEMMA LooksShape ==
  ASSUME Types, NEW f \in Flushers, FlushLooks(f)
  PROVE  Moved(f, "find", {l \in fl[f].batch : bound[l] = 0}, fl[f].found, fl[f].again)
BY DEF FlushLooks, Types, Flushes, Moved, SameWork

LEMMA FindsShape ==
  ASSUME Types, NEW f \in Flushers, FlushFinds(f)
  PROVE  \/ /\ Moved(f, "keep", fl[f].open, Seen(fl[f].open), fl[f].again)
            /\ \A l \in fl[f].open : rows[l] < 2
            /\ UNCHANGED <<ev, sync>>
         \/ /\ Moved(f, "apply", fl[f].open, fl[f].found, fl[f].again)
            /\ \E perm \in BOOLEAN : Fail(fl[f].open, ByCreator, perm)
<1>1. CASE /\ \A l \in fl[f].open : rows[l] < 2
           /\ fl' = [fl EXCEPT ![f] = [@ EXCEPT !.pc = "keep", !.found = Seen(fl[f].open)]]
           /\ UNCHANGED <<ev, tries, sync, faults>>
  BY <1>1 DEF Types, Flushes, Moved, SameWork
<1>2. CASE /\ \E perm \in BOOLEAN : Fail(fl[f].open, ByCreator, perm)
           /\ fl' = [fl EXCEPT ![f].pc = "apply"]
  BY <1>2, PcMoves
<1> QED
  BY <1>1, <1>2 DEF FlushFinds

LEMMA KeepsShape ==
  ASSUME Types, NEW f \in Flushers, FlushKeeps(f)
  PROVE  Moved(f, "repair", fl[f].open \ fl[f].found,
               IF fl[f].again THEN fl[f].found
               ELSE fl[f].batch \ (fl[f].open \ fl[f].found), fl[f].again)
BY DEF FlushKeeps, Types, Flushes, Moved, SameWork

LEMMA RepairsShape ==
  ASSUME Types, NEW f \in Flushers, FlushRepairs(f)
  PROVE  Moved(f, IF fl[f].open = {} THEN "apply"
                  ELSE IF fl[f].again THEN "giveup" ELSE "create",
               fl[f].open, fl[f].found, fl[f].again)
BY PcMoves DEF FlushRepairs

LEMMA CreatesShape ==
  ASSUME Types, NEW f \in Flushers, FlushCreates(f)
  PROVE  \E o \in AddOutcomes(fl[f].open) :
           /\ o.pc \in {"settle", "unread", "recover"} /\ o.made \subseteq fl[f].open
           /\ o.pc # "recover" => o.made = fl[f].open
           /\ rows' = MoreRows(o.made)
           /\ Moved(f, o.pc, fl[f].open, fl[f].found, fl[f].again)
<1>1. PICK o \in AddOutcomes(fl[f].open) :
        /\ fl' = [fl EXCEPT ![f].pc = o.pc, ![f].perm = o.perm]
        /\ rows' = MoreRows(o.made)
  BY DEF FlushCreates
<1>2. /\ o.pc \in {"settle", "unread", "recover"} /\ o.made \subseteq fl[f].open
      /\ o.pc # "recover" => o.made = fl[f].open
  BY DEF AddOutcomes, AddFailed
<1>3. Moved(f, o.pc, fl[f].open, fl[f].found, fl[f].again)
  BY <1>1 DEF Types, Flushes, Moved, SameWork
<1> QED
  BY <1>1, <1>2, <1>3

LEMMA RecoversShape ==
  ASSUME Types, NEW f \in Flushers, FlushRecovers(f)
  PROVE  \E v \in SUBSET {l \in fl[f].open : rows[l] = 1} :
           Moved(f, "keep", fl[f].open, v, TRUE)
<1>1. CASE \E v \in SUBSET {l \in fl[f].open : rows[l] = 1} :
             fl' = [fl EXCEPT ![f] = [fl[f] EXCEPT
                      !.pc = "keep", !.again = TRUE, !.found = v]]
  BY <1>1 DEF Types, Flushes, Moved, SameWork
<1>2. CASE \E perm \in BOOLEAN :
             fl' = [fl EXCEPT ![f] = [fl[f] EXCEPT
                      !.pc = "keep", !.again = TRUE, !.found = {}, !.perm = perm]]
  <2>1. Moved(f, "keep", fl[f].open, {}, TRUE)
    BY <1>2 DEF Types, Flushes, Moved, SameWork
  <2> QED
    BY <2>1
<1> QED
  BY <1>1, <1>2 DEF FlushRecovers

-----------------------------------------------------------------------------
(* One row per lead *)

LookOK(f) ==
    \A l \in fl[f].open \ blind :
      \/ FlushAt(f, "keep") /\ ~fl[f].again /\ l \notin fl[f].found
      \/ FlushAt(f, "repair") /\ ~fl[f].again
      \/ FlushAt(f, "create")
      => rows[l] = 0

(* Rows are only made blindly, or by nobody. *)
LEMMA RowFrame ==
  ASSUME RowInv, Types', LockInv', blind \subseteq blind',
         \A l \in Leads \ blind' : rows'[l] = rows[l],
         \A f \in Flushers : fl'[f] = fl[f] \/ LookOK(f)'
  PROVE  RowInv'
<1>1. OneRowPerLead'
  BY DEF RowInv, OneRowPerLead
<1>2. LookInv'
  <2>1. SUFFICES ASSUME NEW f \in Flushers, fl'[f] = fl[f] PROVE LookOK(f)'
    BY DEF LookInv, LookOK
  <2>2. LookOK(f) /\ fl[f].open \subseteq Leads
    BY DEF RowInv, LookInv, LookOK, Types, Flushes
  <2> QED
    BY <2>1, <2>2 DEF LookOK, FlushAt
<1> QED
  BY <1>1, <1>2 DEF RowInv

LEMMA PipeRows ==
  ASSUME RowInv, Types', LockInv',
         PipeStep \/ PipelineDies \/ (\E m \in Messages : Lapse(m)) \/ UNCHANGED vars
  PROVE  RowInv'
<1>0. UNCHANGED fl
  BY PipeKeepsFlushes
<1>1. CASE Ensure
  <2>1. PICK l : l = Target(pipe.msg)
    OBVIOUS
  <2>2. /\ blind' = IF bound[l] = 0 THEN blind \cup {l} ELSE blind
        /\ bound[l] # 0 => rows' = rows
    BY <1>1, <2>1 DEF Ensure
  <2>3. \/ rows' = rows
        \/ rows' = [rows EXCEPT ![l] = @ + 1]
        \/ \E n \in {0, 1} : rows' = [rows EXCEPT ![l] = Min({@ + n, MaxRows})]
    BY <1>1, <2>1 DEF Ensure
  <2>4. \A k \in Leads : k # l => rows'[k] = rows[k]
    BY <2>3 DEF RowInv, Types
  <2> QED
    BY <1>0, <2>2, <2>4, RowFrame
<1>2. CASE PipelineDies
  <2> DEFINE made == {l \in Leads : /\ pipe.pc = "ensure" /\ bound[l] = 0
                                    /\ l \in About[pipe.msg]}
  <2>1. /\ blind' = blind \cup made
        /\ \/ rows' = rows
           \/ \E l \in made : rows' = [rows EXCEPT ![l] = Min({@ + 1, MaxRows})]
    BY <1>2 DEF PipelineDies
  <2>2. \A k \in Leads : k \notin made => rows'[k] = rows[k]
    <3> HIDE DEF made
    <3> QED
      BY <2>1 DEF RowInv, Types
  <2> QED
    BY <1>0, <2>1, <2>2, RowFrame
<1>3. CASE ~(Ensure \/ PipelineDies)
  <2>1. UNCHANGED <<rows, blind>>
    BY <1>3 DEF PipeStep, TakeNew, Take, Resume, Enqueue, Patch, Lapse, vars
  <2> QED
    BY <1>0, <2>1, RowFrame
<1> QED
  BY <1>1, <1>2, <1>3

LEMMA FlushRows ==
  ASSUME RowInv, Types', LockInv', NEW f \in Flushers, FlushStep(f) \/ FlusherDies(f)
  PROVE  RowInv'
<1>0. /\ Types /\ LockInv /\ LookOK(f) /\ fl[f].open \subseteq Leads
      /\ rows \in [Leads -> Nat]
  BY DEF RowInv, LookInv, LookOK, Types, Flushes
<1>1. \A g \in Flushers \ {f} : fl'[g] = fl[g]
  BY <1>0, OthersStay
<1>2. ASSUME UNCHANGED <<rows, blind>>, LookOK(f)' PROVE RowInv'
  BY <1>1, <1>2, RowFrame
<1>3. ASSUME fl'[f].pc \notin {"keep", "repair", "create"} PROVE LookOK(f)'
  BY <1>3 DEF LookOK, FlushAt
<1>4. CASE FlushCreates(f)
  <2>1. PICK o \in AddOutcomes(fl[f].open) :
           /\ o.pc \in {"settle", "unread", "recover"} /\ o.made \subseteq fl[f].open
           /\ rows' = MoreRows(o.made)
           /\ Moved(f, o.pc, fl[f].open, fl[f].found, fl[f].again)
    BY <1>0, <1>4, CreatesShape
  <2>2. FlushAt(f, "create") /\ UNCHANGED blind
    BY <1>4 DEF FlushCreates
  <2>3. \A l \in fl[f].open \ blind : rows[l] = 0
    BY <1>0, <2>2 DEF LookOK
  <2>4. OneRowPerLead'
    <3>1. SUFFICES ASSUME NEW l \in Leads, l \notin blind PROVE rows'[l] <= 1
      BY <2>2 DEF OneRowPerLead
    <3>2. CASE l \in o.made
      <4>1. rows[l] = 0 /\ rows'[l] = rows[l] + 1
        BY <2>1, <2>3, <3>1, <3>2 DEF MoreRows
      <4> QED
        BY <4>1
    <3>3. CASE l \notin o.made
      <4>1. rows'[l] = rows[l]
        BY <2>1, <3>1, <3>3 DEF MoreRows
      <4> QED
        BY <3>1, <4>1 DEF RowInv, OneRowPerLead
    <3> QED
      BY <3>2, <3>3
  <2>5. LookOK(f)'
    BY <1>3, <2>1 DEF Moved
  <2>6. \A g \in Flushers \ {f} : LookOK(g)'
    <3>1. \A g \in Flushers \ {f} : fl'[g].pc = "idle"
      BY <1>0, <1>1, <2>2, AloneAtWork DEF FlushAt
    <3> QED
      BY <3>1 DEF LookOK, FlushAt
  <2>7. LookInv'
    BY <2>5, <2>6 DEF LookInv, LookOK
  <2> QED
    BY <2>4, <2>7 DEF RowInv
<1>5. CASE FlushFinds(f)
  <2>1. LookOK(f)'
    <3>1. CASE /\ Moved(f, "keep", fl[f].open, Seen(fl[f].open), fl[f].again)
               /\ \A l \in fl[f].open : rows[l] < 2
      BY <1>0, <1>5, <3>1 DEF FlushFinds, LookOK, Moved, FlushAt, Seen
    <3>2. CASE Moved(f, "apply", fl[f].open, fl[f].found, fl[f].again)
      BY <1>3, <3>2 DEF Moved
    <3> QED
      BY <1>0, <1>5, <3>1, <3>2, FindsShape
  <2> QED
    BY <1>2, <1>5, <2>1 DEF FlushFinds
<1>6. CASE FlushKeeps(f)
  <2>1. Moved(f, "repair", fl[f].open \ fl[f].found,
               IF fl[f].again THEN fl[f].found
               ELSE fl[f].batch \ (fl[f].open \ fl[f].found), fl[f].again)
    BY <1>0, <1>6, KeepsShape
  <2>2. LookOK(f)'
    BY <1>0, <1>6, <2>1 DEF FlushKeeps, LookOK, Moved, FlushAt
  <2> QED
    BY <1>2, <1>6, <2>2 DEF FlushKeeps
<1>7. CASE FlushRepairs(f)
  <2>1. Moved(f, IF fl[f].open = {} THEN "apply"
                 ELSE IF fl[f].again THEN "giveup" ELSE "create",
              fl[f].open, fl[f].found, fl[f].again)
    BY <1>0, <1>7, RepairsShape
  <2>2. LookOK(f)'
    BY <1>0, <1>7, <2>1 DEF FlushRepairs, LookOK, Moved, FlushAt
  <2> QED
    BY <1>2, <1>7, <2>2 DEF FlushRepairs
<1>8. CASE FlushRecovers(f)
  <2>1. PICK v : Moved(f, "keep", fl[f].open, v, TRUE)
    BY <1>0, <1>8, RecoversShape
  <2>2. LookOK(f)'
    BY <2>1 DEF LookOK, Moved, FlushAt
  <2> QED
    BY <1>2, <1>8, <2>2 DEF FlushRecovers
<1>9. CASE FlushSettles(f) \/ FlushUnread(f) \/ FlushGivesUp(f) \/ FlushLooks(f)
  <2>1. PICK l \in {"apply", "recover", "find"} : fl'[f].pc = l
    BY <1>0, <1>9, PcMoves, LooksShape DEF FlushSettles, FlushUnread, FlushGivesUp, Moved
  <2>2. LookOK(f)'
    BY <1>3, <2>1
  <2> QED
    BY <1>2, <1>9, <2>2 DEF FlushSettles, FlushUnread, FlushGivesUp, FlushLooks
<1>10. CASE FlushApplies(f) \/ FlushWrites(f) \/ FlushApplied(f)
  <2>1. fl'[f].pc \in {"apply", "write", "applied"}
    <3>1. CASE fl' = Dropped(f)
      BY <1>0, <3>1 DEF Dropped, Types, Flushes
    <3>2. CASE \E l \in {"write", "applied"} : fl' = [fl EXCEPT ![f].pc = l]
      BY <1>0, <3>2, PcMoves DEF Moved
    <3> QED
      BY <1>10, <3>1, <3>2 DEF FlushApplies, FlushWrites, FlushApplied
  <2>2. LookOK(f)'
    BY <1>3, <2>1
  <2> QED
    BY <1>2, <1>10, <2>2 DEF FlushApplies, FlushWrites, FlushApplied
<1>11. CASE FlushReconciles(f) \/ FlusherDies(f)
  <2>1. fl'[f] = FlushIdle
    BY <1>0, <1>11, EndsShape DEF FlushReconciles, FlusherDies, Ended
  <2>2. LookOK(f)'
    BY <1>3, <2>1 DEF FlushIdle
  <2> QED
    BY <1>2, <1>11, <2>2 DEF FlushReconciles, FlusherDies
<1>12. CASE FlushStarts(f) \/ FlushRejects(f)
  <2>1. fl'[f].pc \in {"idle", "look", "reject"}
    <3>1. CASE FlushStarts(f)
      BY <1>0, <3>1 DEF FlushStarts, FlushIdle, Types
    <3>2. CASE fl' = [fl EXCEPT ![f] = FlushIdle]
      BY <1>0, <3>2 DEF FlushIdle, Types
    <3>3. CASE fl' = [fl EXCEPT ![f] = [fl[f] EXCEPT !.pc = "look", !.found = {}]]
      BY <1>0, <3>3 DEF Types, Flushes
    <3> QED
      BY <1>12, <3>1, <3>2, <3>3 DEF FlushRejects
  <2>2. LookOK(f)'
    BY <1>3, <2>1
  <2> QED
    BY <1>2, <1>12, <2>2 DEF FlushStarts, FlushRejects
<1> QED
  BY <1>4, <1>5, <1>6, <1>7, <1>8, <1>9, <1>10, <1>11, <1>12 DEF FlushStep

LEMMA RowInit == Init => RowInv
<1> SUFFICES ASSUME Init PROVE RowInv
  OBVIOUS
<1>1. /\ \A f \in Flushers : fl[f].pc = "idle"
      /\ \A l \in Leads : rows[l] = 0
  BY DEF Init, FlushIdle
<1> QED
  BY <1>1, TypesInit DEF RowInv, LockInv, LookInv, OneRowPerLead, FlushAt

LEMMA RowStep == RowInv /\ [Next]_vars => RowInv'
<1> SUFFICES ASSUME RowInv, [Next]_vars PROVE RowInv'
  OBVIOUS
<1>1. Types' /\ LockInv'
  BY TypesStep, LockStep DEF RowInv
<1> QED
  BY <1>1, PipeRows, FlushRows DEF Next

(* However often a call that makes rows fails, is not answered or loses its  *)
(* task, no flush makes a second row of a lead: the lock keeps others away    *)
(* between the look and the call, and after a call without an answer the     *)
(* flush only looks.                                                         *)
THEOREM RowsAreMadeOnce == Spec => []OneRowPerLead
<1>1. RowInv => OneRowPerLead
  BY DEF RowInv
<1> QED
  BY <1>1, RowInit, RowStep, PTL DEF Spec

-----------------------------------------------------------------------------
(* What steps keep *)

WrittenKept == \A l \in Leads : written[l] \subseteq written'[l]

RowsKept ==
    \A l \in Leads : /\ bound[l] # 0 => bound'[l] # 0
                     /\ rows[l] # 0 => rows'[l] # 0

HeldKept ==
    /\ crossed \subseteq crossed'
    /\ \A l \in Leads : l \notin crossed' =>
         \A m \in Messages : Held(m, l) => Held(m, l)'

(* Most steps neither queue nor complete anything. *)
Calm == {"pending", "processing", "retrying", "failed_pending_review"}
Mild ==
    /\ crossed \subseteq crossed' /\ UNCHANGED queue /\ WrittenKept /\ RowsKept
    /\ \A l \in Leads : sync'[l] = sync[l] \/ sync'[l] \in Calm
    /\ \A m \in Messages : ev'[m] = ev[m] \/ ev'[m] \in Calm

LEMMA LeadsOf ==
  ASSUME NEW m \in Messages
  PROVE  About[m] \subseteq Leads
BY BatchAssumption

(* A message about one lead, and one that made several. *)
LEMMA OneLead ==
  ASSUME NEW m \in Messages, Cardinality(About[m]) = 1
  PROVE  About[m] = {Target(m)}
<1>1. IsFiniteSet(About[m])
  BY LeadsOf, BatchAssumption, FS_Subset
<1>2. PICK x : About[m] = {x}
  BY <1>1, FS_Singleton
<1> QED
  BY <1>2 DEF Target

LEMMA MadeAll ==
  ASSUME NEW m \in Messages, NEW k \in About[m], NEW l \in About[m], k # l
  PROVE  Makes(m)
<1>1. Cardinality(About[m]) # 1
  BY OneLead
<1> QED
  BY <1>1, BatchAssumption DEF Makes

LEMMA MildHeld ==
  ASSUME Mild
  PROVE  HeldKept
BY DEF Mild, WrittenKept, HeldKept, Held

LEMMA QueuedKept ==
  ASSUME HeldKept, NEW m \in Messages, Queued(m)
  PROVE  Queued(m)'
BY DEF HeldKept, Queued

LEMMA PipeStays ==
  ASSUME PatchInv, HeldKept, UNCHANGED pipe
  PROVE  PipeInv'
<1>1. ASSUME pipe.pc = "enqueue", NEW l \in About[pipe.msg], Creator(l) # pipe.msg
      PROVE  Queued(Creator(l))'
  <2>1. l \in Leads
    BY <1>1, LeadsOf DEF PatchInv, Types
  <2>2. Creator(l) \in Messages /\ Queued(Creator(l))
    BY <1>1, <2>1, CreatorOf DEF PatchInv, PipeInv
  <2> QED
    BY <2>2, QueuedKept
<1> QED
  BY <1>1 DEF PatchInv, PipeInv

LEMMA MildQueue ==
  ASSUME PatchInv, Mild
  PROVE  QueueInv' /\ PatchesKept'
<1>1. HeldKept
  BY MildHeld
<1>2. QueueInv'
  <2>1. SUFFICES ASSUME NEW l \in Leads
                 PROVE  /\ \A m \in queue'[l] : l \in About[m]
                        /\ queue'[l] # {} => Queued(Creator(l))'
                                             /\ sync'[l] \notin {"none", "succeeded"}
    BY DEF QueueInv
  <2>2. queue'[l] = queue[l] /\ Creator(l) \in Messages
    BY CreatorOf DEF Mild
  <2> QED
    BY <1>1, <2>2, QueuedKept DEF PatchInv, QueueInv, Mild, Calm
<1>3. PatchesKept'
  <2>1. SUFFICES ASSUME NEW m \in Messages, NEW l \in About[m], l \notin crossed'
                 PROVE  /\ ev'[m] = "batch_pending" => Held(m, l)'
                        /\ ev'[m] = "succeeded" => m \in written'[l]
    BY DEF PatchesKept, Held
  <2>2. l \in Leads /\ l \notin crossed
    BY <2>1, LeadsOf DEF Mild
  <2>3. /\ ev[m] = "batch_pending" => Held(m, l)
        /\ ev[m] = "succeeded" => m \in written[l]
    BY <2>2 DEF PatchInv, PatchesKept, Held
  <2> QED
    BY <1>1, <2>1, <2>2, <2>3 DEF HeldKept, Mild, Calm, WrittenKept
<1> QED
  BY <1>2, <1>3

(* A flush that does not move stays right if the leads of its batch are not *)
(* queued again and are completed only with all their messages in the row.  *)
LEMMA FlushFrame ==
  ASSUME PatchInv, HeldKept, WrittenKept, RowsKept,
         NEW g \in Flushers, fl'[g] = fl[g],
         \A l \in fl[g].batch \ crossed' :
           /\ queue'[l] \subseteq queue[l]
           /\ \/ sync'[l] = sync[l] \/ sync'[l] \in Calm
              \/ sync'[l] = "succeeded" /\ fl[g].all[l] \subseteq written'[l]
  PROVE  FlushOK(g)'
<1>0. /\ FlushOK(g) /\ fl[g] \in Flushes /\ crossed \subseteq crossed'
  BY DEF PatchInv, FlushInv, Types, HeldKept
<1>1. BatchOK(g)'
  <2>1. SUFFICES ASSUME NEW l \in fl[g].batch, l \notin crossed'
        PROVE /\ Creator(l) \in fl[g].all[l] /\ queue'[l] \subseteq fl[g].all[l]
              /\ \A m \in fl[g].all[l] : Held(m, l)'
              /\ sync'[l] # "none"
              /\ sync'[l] = "succeeded" => fl[g].all[l] \subseteq written'[l]
              /\ sync'[l] = "batch_pending" =>
                   fl[g].all[l] \ fl[g].work[l] \subseteq written'[l]
    BY DEF BatchOK
  <2>2. l \in Leads /\ l \notin crossed /\ fl[g].all[l] \subseteq Messages
    BY <1>0, <2>1 DEF Flushes, Queues
  <2>3. written[l] \subseteq written'[l]
    BY <2>2 DEF WrittenKept
  <2>4. \A m \in fl[g].all[l] : Held(m, l)'
    BY <1>0, <2>1, <2>2 DEF FlushOK, BatchOK, HeldKept
  <2> QED
    BY <1>0, <2>1, <2>2, <2>3, <2>4 DEF FlushOK, BatchOK, Calm
<1>2. WorkOK(g)'
  BY <1>0 DEF FlushOK, WorkOK, FlushAt, WrittenKept
<1>3. HandOK(g)'
  <2>1. SUFFICES ASSUME fl[g].pc \in {"write", "applied"} PROVE HandOK(g)'
    BY DEF HandOK, FlushAt
  <2>2. PICK n, k : /\ n \in Leads /\ n = NextLead(g) /\ n = NextLead(g)'
                    /\ k = NextMessage(g) /\ k = NextMessage(g)'
    <3>1. NextLead(g) \in Leads
      BY <2>1, NextOf DEF PatchInv, Types
    <3>2. NextLead(g)' = NextLead(g) /\ NextMessage(g)' = NextMessage(g)
      BY DEF NextLead, NextMessage, Todo
    <3> QED
      BY <3>1, <3>2
  <2> QED
    BY <1>0, <2>2 DEF FlushOK, HandOK, FlushAt, WrittenKept, RowsKept
<1>4. BoundOK(g)'
  <2>1. fl[g].batch \subseteq Leads /\ fl[g].found \subseteq Leads
        /\ fl[g].open \subseteq Leads
    BY <1>0 DEF Flushes
  <2> QED
    BY <1>0, <2>1 DEF FlushOK, BoundOK, FlushAt, RowsKept, Calm
<1> QED
  BY <1>1, <1>2, <1>3, <1>4 DEF FlushOK

LEMMA MildFrame ==
  ASSUME PatchInv, Mild, NEW g \in Flushers, fl'[g] = fl[g]
  PROVE  FlushOK(g)'
<1>1. fl[g].batch \subseteq Leads
  BY DEF PatchInv, Types, Flushes
<1> QED
  BY <1>1, MildHeld, FlushFrame DEF Mild

(* A flush that only moves on, before or after the writing. *)
LEMMA MildMoves ==
  ASSUME PatchInv, Mild, NEW f \in Flushers, SameWork(f),
         fl'[f].open \subseteq fl[f].batch,
         fl'[f].pc \notin {"idle", "write", "applied"}, BoundOK(f)'
  PROVE  FlushOK(f)'
<1>0. /\ FlushOK(f) /\ fl[f] \in Flushes /\ crossed \subseteq crossed' /\ HeldKept
  BY MildHeld DEF PatchInv, FlushInv, Types, Mild
<1>1. BatchOK(f)'
  <2>1. SUFFICES ASSUME NEW l \in fl[f].batch, l \notin crossed'
        PROVE /\ Creator(l) \in fl[f].all[l] /\ queue'[l] \subseteq fl[f].all[l]
              /\ \A m \in fl[f].all[l] : Held(m, l)'
              /\ sync'[l] # "none"
              /\ sync'[l] = "succeeded" => fl[f].all[l] \subseteq written'[l]
              /\ sync'[l] = "batch_pending" =>
                   fl[f].all[l] \ fl[f].work[l] \subseteq written'[l]
    BY DEF BatchOK, SameWork
  <2>2. /\ l \in Leads /\ l \notin crossed /\ fl[f].all[l] \subseteq Messages
    BY <1>0, <2>1 DEF Flushes, Queues
  <2>3. /\ written[l] \subseteq written'[l] /\ queue'[l] = queue[l]
        /\ sync'[l] = sync[l] \/ sync'[l] \in Calm
    BY <2>2 DEF Mild, WrittenKept
  <2>4. \A m \in fl[f].all[l] : Held(m, l)'
    BY <1>0, <2>1, <2>2 DEF FlushOK, BatchOK, HeldKept
  <2> QED
    BY <1>0, <2>1, <2>2, <2>3, <2>4 DEF FlushOK, BatchOK, Calm
<1>2. WorkOK(f)'
  BY <1>0 DEF FlushOK, WorkOK, FlushAt, SameWork, Mild, WrittenKept
<1>3. HandOK(f)'
  BY DEF HandOK, FlushAt
<1> QED
  BY <1>1, <1>2, <1>3 DEF FlushOK

(* The end of a flush leaves nothing to show. *)
LEMMA EndedOK ==
  ASSUME NEW f \in Flushers, fl'[f] = FlushIdle
  PROVE  FlushOK(f)'
BY DEF FlushOK, BatchOK, WorkOK, HandOK, BoundOK, FlushAt, FlushIdle, NoWork

(* A step of a flush that is mild. *)
LEMMA MildFlush ==
  ASSUME PatchInv, Types', LockInv', Mild, NEW f \in Flushers,
         FlushStep(f) \/ FlusherDies(f), FlushOK(f)', UNCHANGED pipe
  PROVE  PatchInv'
<1>1. \A g \in Flushers \ {f} : fl'[g] = fl[g]
  BY OthersStay DEF PatchInv
<1>2. FlushInv'
  BY <1>1, MildFrame DEF FlushInv
<1> QED
  BY <1>2, MildQueue, MildHeld, PipeStays DEF PatchInv

LEMMA FailMild ==
  ASSUME Types, NEW ls, NEW of, NEW perm, Fail(ls, of, perm)
  PROVE  /\ \A l \in Leads : sync'[l] = sync[l] \/ sync'[l] \in Calm
         /\ \A l \in Leads : l \in ls => sync'[l] # "batch_pending"
         /\ \A m \in Messages : ev'[m] = ev[m] \/ ev'[m] \in Calm
BY DEF Fail, Verdict, Calm

-----------------------------------------------------------------------------
(* The flush up to the writing *)

LEMMA SameRows ==
  ASSUME UNCHANGED <<bound, rows>>
  PROVE  RowsKept
BY DEF RowsKept

LEMMA BindKeeps ==
  ASSUME Types, NEW ls \in SUBSET Leads, Bind(ls), \A l \in ls : rows[l] # 0
  PROVE  /\ \A l \in Leads : bound[l] # 0 => bound'[l] # 0
         /\ \A l \in ls : bound'[l] # 0
         /\ \A l \in Leads : sync'[l] = sync[l] \/ sync'[l] \in Calm
BY DEF Bind, Calm

LEMMA RejectsStep ==
  ASSUME PatchInv, Types', LockInv', NEW f \in Flushers, FlushRejects(f)
  PROVE  PatchInv'
<1>1. Types /\ FlushOK(f) /\ fl[f] \in Flushes
  BY DEF PatchInv, FlushInv, Types
<1>2. /\ UNCHANGED <<queue, bound, rows, written, pipe, crossed>>
      /\ Fail(fl[f].found, ByCreator, TRUE)
  BY DEF FlushRejects
<1>3. Mild
  BY <1>1, <1>2, FailMild, SameRows DEF Mild, WrittenKept
<1>4. FlushOK(f)'
  <2>1. CASE fl[f].batch = {}
    <3>1. fl'[f] = FlushIdle
      BY <1>1, <2>1 DEF FlushRejects, Types
    <3> QED
      BY <3>1, EndedOK
  <2>2. CASE fl[f].batch # {}
    <3>1. fl' = [fl EXCEPT ![f] = [fl[f] EXCEPT !.pc = "look", !.found = {}]]
      BY <2>2 DEF FlushRejects
    <3>2. SameWork(f) /\ fl'[f].pc = "look" /\ fl'[f].open = fl[f].open
      BY <1>1, <3>1 DEF Types, Flushes, SameWork
    <3>3. BoundOK(f)'
      BY <3>2 DEF BoundOK, FlushAt
    <3> QED
      BY <1>1, <1>3, <3>2, <3>3, MildMoves DEF FlushOK, WorkOK
  <2> QED
    BY <2>1, <2>2
<1> QED
  BY <1>2, <1>3, <1>4, MildFlush DEF FlushStep

LEMMA LookStep ==
  ASSUME PatchInv, Types', LockInv', NEW f \in Flushers, FlushLooks(f) \/ FlushFinds(f)
  PROVE  PatchInv'
<1>1. Types /\ FlushOK(f) /\ fl[f] \in Flushes
  BY DEF PatchInv, FlushInv, Types
<1>2. UNCHANGED <<queue, bound, rows, written, pipe, crossed>>
  BY DEF FlushLooks, FlushFinds
<1>3. CASE FlushLooks(f)
  <2>1. Moved(f, "find", {l \in fl[f].batch : bound[l] = 0}, fl[f].found, fl[f].again)
    BY <1>1, <1>3, LooksShape
  <2>2. Mild
    BY <1>2, <1>3, SameRows DEF FlushLooks, Mild, WrittenKept
  <2>3. BoundOK(f)'
    BY <1>2, <2>1 DEF BoundOK, FlushAt, Moved, SameWork
  <2>4. FlushOK(f)'
    BY <2>1, <2>2, <2>3, MildMoves DEF Moved
  <2> QED
    BY <1>2, <1>3, <2>2, <2>4, MildFlush DEF FlushStep
<1>4. CASE FlushFinds(f)
  <2>1. CASE /\ Moved(f, "keep", fl[f].open, Seen(fl[f].open), fl[f].again)
             /\ UNCHANGED <<ev, sync>>
    <3>1. Mild
      BY <1>2, <2>1, SameRows DEF Mild, WrittenKept
    <3>2. BoundOK(f)'
      BY <1>1, <1>2, <1>4, <2>1
      DEF FlushFinds, FlushOK, BoundOK, FlushAt, Moved, SameWork, Seen
    <3>3. FlushOK(f)'
      BY <1>1, <2>1, <3>1, <3>2, MildMoves DEF Moved, FlushOK, WorkOK
    <3> QED
      BY <1>2, <1>4, <3>1, <3>3, MildFlush DEF FlushStep
  <2>2. CASE /\ Moved(f, "apply", fl[f].open, fl[f].found, fl[f].again)
             /\ \E perm \in BOOLEAN : Fail(fl[f].open, ByCreator, perm)
    <3>1. Mild
      BY <1>1, <1>2, <2>2, FailMild, SameRows DEF Mild, WrittenKept
    <3>2. \A l \in Leads : l \in fl[f].open => sync'[l] # "batch_pending"
      BY <1>1, <2>2, FailMild
    <3>3. BoundOK(f)'
      <4>1. fl[f].batch \subseteq Leads
        BY <1>1 DEF Flushes
      <4> QED
        BY <1>1, <1>2, <1>4, <2>2, <3>2, <4>1
        DEF FlushFinds, FlushOK, BoundOK, FlushAt, Moved, SameWork
    <3>4. FlushOK(f)'
      BY <1>1, <2>2, <3>1, <3>3, MildMoves DEF Moved, FlushOK, WorkOK
    <3> QED
      BY <1>2, <1>4, <3>1, <3>4, MildFlush DEF FlushStep
  <2> QED
    BY <1>1, <1>4, <2>1, <2>2, FindsShape
<1> QED
  BY <1>3, <1>4

LEMMA KeepStep ==
  ASSUME PatchInv, Types', LockInv', NEW f \in Flushers, FlushKeeps(f)
  PROVE  PatchInv'
<1>1. Types /\ FlushOK(f) /\ fl[f] \in Flushes
  BY DEF PatchInv, FlushInv, Types
<1>2. UNCHANGED <<ev, queue, rows, written, pipe, crossed>> /\ Bind(fl[f].found)
  BY DEF FlushKeeps
<1>3. /\ fl[f].found \in SUBSET Leads /\ \A l \in fl[f].found : rows[l] # 0
      /\ \A l \in fl[f].batch \ fl[f].open : bound[l] # 0
      /\ fl[f].batch \subseteq Leads
  BY <1>1 DEF FlushKeeps, FlushOK, BoundOK, FlushAt, Flushes
<1>4. /\ \A l \in Leads : bound[l] # 0 => bound'[l] # 0
      /\ \A l \in fl[f].found : bound'[l] # 0
      /\ \A l \in Leads : sync'[l] = sync[l] \/ sync'[l] \in Calm
  BY <1>1, <1>2, <1>3, BindKeeps
<1>5. Mild
  BY <1>2, <1>4 DEF Mild, WrittenKept, RowsKept
<1>6. Moved(f, "repair", fl[f].open \ fl[f].found,
             IF fl[f].again THEN fl[f].found
             ELSE fl[f].batch \ (fl[f].open \ fl[f].found), fl[f].again)
  BY <1>1, KeepsShape
<1>7. BoundOK(f)'
  BY <1>3, <1>4, <1>6 DEF BoundOK, FlushAt, Moved, SameWork
<1>8. FlushOK(f)'
  BY <1>1, <1>5, <1>6, <1>7, MildMoves DEF Moved, FlushOK, WorkOK
<1> QED
  BY <1>2, <1>5, <1>8, MildFlush DEF FlushStep

LEMMA RepairStep ==
  ASSUME PatchInv, Types', LockInv', NEW f \in Flushers, FlushRepairs(f)
  PROVE  PatchInv'
<1>1. Types /\ FlushOK(f) /\ fl[f] \in Flushes
  BY DEF PatchInv, FlushInv, Types
<1>2. /\ UNCHANGED <<queue, bound, rows, written, pipe, crossed>>
      /\ \/ UNCHANGED <<ev, sync>>
         \/ \E perm \in BOOLEAN : Fail(fl[f].found, ByCreator, perm)
  BY DEF FlushRepairs
<1>3. Mild
  BY <1>1, <1>2, FailMild, SameRows DEF Mild, WrittenKept
<1>4. Moved(f, IF fl[f].open = {} THEN "apply"
               ELSE IF fl[f].again THEN "giveup" ELSE "create",
            fl[f].open, fl[f].found, fl[f].again)
  BY <1>1, RepairsShape
<1>5. BoundOK(f)'
  BY <1>1, <1>2, <1>4 DEF FlushRepairs, FlushOK, BoundOK, FlushAt, Moved, SameWork
<1>6. FlushOK(f)'
  BY <1>1, <1>3, <1>4, <1>5, MildMoves DEF Moved, FlushOK, WorkOK
<1> QED
  BY <1>2, <1>3, <1>6, MildFlush DEF FlushStep

LEMMA CreateStep ==
  ASSUME PatchInv, Types', LockInv', NEW f \in Flushers, FlushCreates(f)
  PROVE  PatchInv'
<1>1. Types /\ FlushOK(f) /\ fl[f] \in Flushes
  BY DEF PatchInv, FlushInv, Types
<1>2. UNCHANGED <<ev, sync, queue, bound, written, pipe, crossed>>
  BY DEF FlushCreates
<1>3. PICK o \in AddOutcomes(fl[f].open) :
           /\ o.pc \in {"settle", "unread", "recover"} /\ o.made \subseteq fl[f].open
           /\ o.pc # "recover" => o.made = fl[f].open
           /\ rows' = MoreRows(o.made)
           /\ Moved(f, o.pc, fl[f].open, fl[f].found, fl[f].again)
  BY <1>1, CreatesShape
<1>4. /\ \A l \in Leads : rows[l] # 0 => rows'[l] # 0
      /\ \A l \in Leads : l \in o.made => rows'[l] # 0
  BY <1>1, <1>3 DEF MoreRows, Types
<1>5. Mild
  BY <1>2, <1>4 DEF Mild, WrittenKept, RowsKept
<1>6. BoundOK(f)'
  <2>1. fl[f].open \subseteq Leads
    BY <1>1 DEF Flushes
  <2> QED
    BY <1>1, <1>2, <1>3, <1>4, <2>1
    DEF FlushCreates, FlushOK, BoundOK, FlushAt, Moved, SameWork
<1>7. FlushOK(f)'
  BY <1>1, <1>3, <1>5, <1>6, MildMoves DEF Moved, FlushOK, WorkOK
<1> QED
  BY <1>2, <1>5, <1>7, MildFlush DEF FlushStep

LEMMA SettleStep ==
  ASSUME PatchInv, Types', LockInv', NEW f \in Flushers, FlushSettles(f) \/ FlushUnread(f)
  PROVE  PatchInv'
<1>1. Types /\ FlushOK(f) /\ fl[f] \in Flushes
  BY DEF PatchInv, FlushInv, Types
<1>2. /\ UNCHANGED <<queue, rows, written, pipe, crossed>>
      /\ fl[f].pc \in {"settle", "unread"}
  BY DEF FlushSettles, FlushUnread, FlushAt
<1>3. /\ fl[f].open \in SUBSET Leads /\ \A l \in fl[f].open : rows[l] # 0
      /\ \A l \in fl[f].batch \ fl[f].open : bound[l] # 0
      /\ fl[f].batch \subseteq Leads
  BY <1>1, <1>2 DEF FlushOK, BoundOK, Flushes
<1>4. \/ /\ \A l \in Leads : bound[l] # 0 => bound'[l] # 0
         /\ \A l \in fl[f].open : bound'[l] # 0
         /\ \A l \in Leads : sync'[l] = sync[l] \/ sync'[l] \in Calm
         /\ \A m \in Messages : ev'[m] = ev[m] \/ ev'[m] \in Calm
         /\ Moved(f, "apply", fl[f].open, fl[f].found, fl[f].again)
      \/ /\ UNCHANGED <<ev, sync, bound>>
         /\ Moved(f, "recover", fl[f].open, fl[f].found, fl[f].again)
  <2>1. CASE FlushSettles(f)
    BY <1>1, <1>3, <2>1, BindKeeps, PcMoves DEF FlushSettles
  <2>2. CASE FlushUnread(f)
    <3>1. CASE /\ Fail(fl[f].open, ByCreator, FALSE)
               /\ bound' = [l \in Leads |-> IF l \in fl[f].open THEN rows[l] ELSE bound[l]]
               /\ fl' = [fl EXCEPT ![f].pc = "apply"]
      BY <1>1, <1>3, <3>1, FailMild, PcMoves
    <3>2. CASE /\ fl' = [fl EXCEPT ![f].pc = "recover"]
               /\ UNCHANGED <<ev, tries, sync, bound>>
      BY <1>1, <3>2, PcMoves
    <3> QED
      BY <2>2, <3>1, <3>2 DEF FlushUnread
  <2> QED
    BY <2>1, <2>2
<1>5. Mild
  BY <1>2, <1>4 DEF Mild, WrittenKept, RowsKept
<1>6. BoundOK(f)'
  BY <1>3, <1>4 DEF BoundOK, FlushAt, Moved, SameWork
<1>7. FlushOK(f)'
  BY <1>1, <1>4, <1>5, <1>6, MildMoves DEF Moved, FlushOK, WorkOK
<1> QED
  BY <1>2, <1>5, <1>7, MildFlush DEF FlushStep

LEMMA RecoverStep ==
  ASSUME PatchInv, Types', LockInv', NEW f \in Flushers,
         FlushRecovers(f) \/ FlushGivesUp(f)
  PROVE  PatchInv'
<1>1. Types /\ FlushOK(f) /\ fl[f] \in Flushes
  BY DEF PatchInv, FlushInv, Types
<1>2. UNCHANGED <<queue, bound, rows, written, pipe, crossed>>
  BY DEF FlushRecovers, FlushGivesUp
<1>3. CASE FlushRecovers(f)
  <2>1. PICK v \in SUBSET {l \in fl[f].open : rows[l] = 1} :
          Moved(f, "keep", fl[f].open, v, TRUE)
    BY <1>1, <1>3, RecoversShape
  <2>2. Mild
    BY <1>2, <1>3, SameRows DEF FlushRecovers, Mild, WrittenKept
  <2>3. BoundOK(f)'
    <3>1. \A l \in fl[f].batch \ fl[f].open : bound[l] # 0
      BY <1>1, <1>3 DEF FlushRecovers, FlushOK, BoundOK, FlushAt
    <3>2. /\ fl'[f].pc = "keep" /\ fl'[f].found = v
          /\ fl'[f].batch = fl[f].batch /\ fl'[f].open = fl[f].open
      BY <2>1 DEF Moved, SameWork
    <3>3. \A l \in v : rows[l] # 0
      OBVIOUS
    <3> QED
      BY <1>2, <3>1, <3>2, <3>3 DEF BoundOK, FlushAt
  <2>4. FlushOK(f)'
    BY <1>1, <2>1, <2>2, <2>3, MildMoves DEF Moved, FlushOK, WorkOK
  <2> QED
    BY <1>2, <1>3, <2>2, <2>4, MildFlush DEF FlushStep
<1>4. CASE FlushGivesUp(f)
  <2>1. /\ Moved(f, "apply", fl[f].open, fl[f].found, fl[f].again)
        /\ Fail(fl[f].open, ByCreator, fl[f].perm)
    BY <1>1, <1>4, PcMoves DEF FlushGivesUp
  <2>2. Mild
    BY <1>1, <1>2, <2>1, FailMild, SameRows DEF Mild, WrittenKept
  <2>3. \A l \in Leads : l \in fl[f].open => sync'[l] # "batch_pending"
    BY <1>1, <2>1, FailMild
  <2>4. BoundOK(f)'
    <3>1. fl[f].batch \subseteq Leads
      BY <1>1 DEF Flushes
    <3> QED
      BY <1>1, <1>2, <1>4, <2>1, <2>3, <3>1
      DEF FlushGivesUp, FlushOK, BoundOK, FlushAt, Moved, SameWork
  <2>5. FlushOK(f)'
    BY <1>1, <2>1, <2>2, <2>4, MildMoves DEF Moved, FlushOK, WorkOK
  <2> QED
    BY <1>2, <1>4, <2>2, <2>5, MildFlush DEF FlushStep
<1> QED
  BY <1>3, <1>4

LEMMA DiesStep ==
  ASSUME PatchInv, Types', LockInv', NEW f \in Flushers, FlusherDies(f)
  PROVE  PatchInv'
<1>1. /\ UNCHANGED <<ev, sync, queue, bound, rows, written, pipe, crossed>>
      /\ fl'[f] = FlushIdle
  BY EndsShape DEF FlusherDies, PatchInv, Ended
<1>2. Mild
  BY <1>1, SameRows DEF Mild, WrittenKept
<1> QED
  BY <1>1, <1>2, EndedOK, MildFlush

-----------------------------------------------------------------------------
(* Writing *)

(* The request in hand is dropped from the flush's work. *)
DroppedTo(f, n, k) ==
    /\ fl'[f].pc = "apply" /\ fl'[f].batch = fl[f].batch /\ fl'[f].all = fl[f].all
    /\ fl'[f].open = fl[f].open /\ fl'[f].work[n] = fl[f].work[n] \ {k}
    /\ \A l \in Leads : l # n => fl'[f].work[l] = fl[f].work[l]

LEMMA DroppedShape ==
  ASSUME Types, NEW f \in Flushers, fl' = Dropped(f), NextLead(f) \in Leads
  PROVE  DroppedTo(f, NextLead(f), NextMessage(f))
<1>1. PICK n, k : n \in Leads /\ n = NextLead(f) /\ k = NextMessage(f)
  OBVIOUS
<1>2. fl[f] \in Flushes /\ fl[f].work \in [Leads -> SUBSET Messages]
  BY DEF Types, Flushes, Queues
<1>3. fl' = [fl EXCEPT ![f].pc = "apply", ![f].work[n] = fl[f].work[n] \ {k}]
  BY <1>1 DEF Dropped
<1>4. DroppedTo(f, n, k)
  BY <1>1, <1>2, <1>3 DEF DroppedTo, Types, Flushes
<1> QED
  BY <1>1, <1>4

LEMMA HandShape ==
  ASSUME PatchInv, NEW f \in Flushers, Todo(f) # {}
  PROVE  /\ NextLead(f) \in fl[f].batch /\ NextLead(f) \in Leads
         /\ NextMessage(f) \in fl[f].work[NextLead(f)]
         /\ NextMessage(f) \in fl[f].all[NextLead(f)] /\ NextMessage(f) \in Messages
<1>1. /\ NextLead(f) \in Leads /\ NextMessage(f) \in fl[f].work[NextLead(f)]
      /\ NextMessage(f) \in Messages
  BY NextOf DEF PatchInv
<1>2. WorkOK(f)
  BY DEF PatchInv, FlushInv, FlushOK
<1> QED
  BY <1>1, <1>2 DEF WorkOK

(* Dropping the request of a lead that is not queued any more. *)
LEMMA MildDrop ==
  ASSUME PatchInv, Mild, NEW f \in Flushers, fl[f].pc \in {"apply", "write"},
         NEW n \in Leads, NEW k, DroppedTo(f, n, k),
         n \notin crossed' => sync'[n] # "batch_pending"
  PROVE  FlushOK(f)'
<1>0. /\ FlushOK(f) /\ fl[f] \in Flushes /\ crossed \subseteq crossed' /\ HeldKept
  BY MildHeld DEF PatchInv, FlushInv, Types, Mild
<1>1. BatchOK(f)'
  <2>1. SUFFICES ASSUME NEW l \in fl[f].batch, l \notin crossed'
        PROVE /\ Creator(l) \in fl[f].all[l] /\ queue'[l] \subseteq fl[f].all[l]
              /\ \A m \in fl[f].all[l] : Held(m, l)'
              /\ sync'[l] # "none"
              /\ sync'[l] = "succeeded" => fl[f].all[l] \subseteq written'[l]
              /\ sync'[l] = "batch_pending" =>
                   fl[f].all[l] \ fl'[f].work[l] \subseteq written'[l]
    BY DEF BatchOK, DroppedTo
  <2>2. /\ l \in Leads /\ l \notin crossed /\ fl[f].all[l] \subseteq Messages
    BY <1>0, <2>1 DEF Flushes, Queues
  <2>3. /\ written[l] \subseteq written'[l] /\ queue'[l] = queue[l]
        /\ sync'[l] = sync[l] \/ sync'[l] \in Calm
    BY <2>2 DEF Mild, WrittenKept
  <2>4. \A m \in fl[f].all[l] : Held(m, l)'
    BY <1>0, <2>1, <2>2 DEF FlushOK, BatchOK, HeldKept
  <2>5. sync'[l] = "batch_pending" => fl'[f].work[l] = fl[f].work[l]
    BY <2>1, <2>2 DEF DroppedTo
  <2> QED
    BY <1>0, <2>1, <2>2, <2>3, <2>4, <2>5 DEF FlushOK, BatchOK, Calm
<1>2. WorkOK(f)'
  <2>1. \A l \in Leads : fl'[f].work[l] \subseteq fl[f].work[l]
    BY DEF DroppedTo
  <2> QED
    BY <1>0, <2>1 DEF FlushOK, WorkOK, FlushAt, DroppedTo, Mild, WrittenKept
<1>3. HandOK(f)'
  BY DEF HandOK, FlushAt, DroppedTo
<1>4. BoundOK(f)'
  <2>1. fl[f].batch \subseteq Leads
    BY <1>0 DEF Flushes
  <2> QED
    BY <1>0, <2>1 DEF FlushOK, BoundOK, FlushAt, DroppedTo, Mild, RowsKept, Calm
<1> QED
  BY <1>1, <1>2, <1>3, <1>4 DEF FlushOK

(* Going on to the next step with the request in hand. *)
LEMMA HandMoves ==
  ASSUME PatchInv, Mild, UNCHANGED crossed, NEW f \in Flushers,
         fl[f].pc \in {"apply", "write"}, Todo(f) # {},
         NEW p \in {"write", "applied"}, fl' = [fl EXCEPT ![f].pc = p],
         bound[NextLead(f)] # 0,
         NextLead(f) \notin crossed =>
           fl[f].all[NextLead(f)] \ fl[f].work[NextLead(f)] \subseteq written[NextLead(f)],
         p = "applied" => NextMessage(f) \in written'[NextLead(f)]
  PROVE  FlushOK(f)'
<1>0. /\ FlushOK(f) /\ fl[f] \in Flushes /\ HeldKept /\ Types
  BY MildHeld DEF PatchInv, FlushInv, Types
<1>1. /\ SameWork(f) /\ fl'[f].pc = p /\ fl'[f].open = fl[f].open
  BY <1>0, PcMoves DEF Moved
<1>2. NextLead(f) \in Leads
  BY HandShape
<1>3. NextLead(f)' = NextLead(f) /\ NextMessage(f)' = NextMessage(f)
  BY <1>1 DEF NextLead, NextMessage, Todo, SameWork
<1>4. HandOK(f)'
  <2>1. PICK n, k : n \in Leads /\ n = NextLead(f) /\ k = NextMessage(f)
    BY <1>2
  <2>2. /\ bound'[n] # 0 /\ written[n] \subseteq written'[n]
        /\ n \notin crossed' => fl[f].all[n] \ fl[f].work[n] \subseteq written[n]
        /\ p = "applied" => k \in written'[n]
    BY <2>1 DEF Mild, RowsKept, WrittenKept
  <2> QED
    BY <1>1, <1>3, <2>1, <2>2 DEF HandOK, FlushAt, SameWork
<1>5. BatchOK(f)'
  <2>1. SUFFICES ASSUME NEW l \in fl[f].batch, l \notin crossed'
        PROVE /\ Creator(l) \in fl[f].all[l] /\ queue'[l] \subseteq fl[f].all[l]
              /\ \A m \in fl[f].all[l] : Held(m, l)'
              /\ sync'[l] # "none"
              /\ sync'[l] = "succeeded" => fl[f].all[l] \subseteq written'[l]
              /\ sync'[l] = "batch_pending" =>
                   fl[f].all[l] \ fl[f].work[l] \subseteq written'[l]
    BY <1>1 DEF BatchOK, SameWork
  <2>2. /\ l \in Leads /\ l \notin crossed /\ fl[f].all[l] \subseteq Messages
    BY <1>0, <2>1 DEF Flushes, Queues
  <2>3. /\ written[l] \subseteq written'[l] /\ queue'[l] = queue[l]
        /\ sync'[l] = sync[l] \/ sync'[l] \in Calm
    BY <2>2 DEF Mild, WrittenKept
  <2>4. \A m \in fl[f].all[l] : Held(m, l)'
    BY <1>0, <2>1, <2>2 DEF FlushOK, BatchOK, HeldKept
  <2> QED
    BY <1>0, <2>1, <2>2, <2>3, <2>4 DEF FlushOK, BatchOK, Calm
<1>6. WorkOK(f)'
  BY <1>0, <1>1 DEF FlushOK, WorkOK, FlushAt, SameWork, Mild, WrittenKept
<1>7. BoundOK(f)'
  <2>1. fl[f].batch \subseteq Leads
    BY <1>0 DEF Flushes
  <2> QED
    BY <1>0, <1>1, <2>1 DEF FlushOK, BoundOK, FlushAt, SameWork, Mild, RowsKept, Calm
<1> QED
  BY <1>4, <1>5, <1>6, <1>7 DEF FlushOK

LEMMA AppliesStep ==
  ASSUME PatchInv, Types', LockInv', NEW f \in Flushers, FlushApplies(f)
  PROVE  PatchInv'
<1>1. /\ Types /\ FlushOK(f) /\ fl[f].pc = "apply" /\ Todo(f) # {}
  BY DEF PatchInv, FlushInv, FlushApplies, FlushAt
<1>2. /\ NextLead(f) \in fl[f].batch /\ NextLead(f) \in Leads
  BY <1>1, HandShape
<1>3. UNCHANGED <<ev, queue, bound, rows, written, pipe, crossed>>
  BY DEF FlushApplies
<1>4. NextLead(f) \notin crossed =>
        (sync[NextLead(f)] = "batch_pending" => bound[NextLead(f)] # 0)
  BY <1>1, <1>2 DEF FlushOK, BoundOK
<1>5. CASE ~StillQueued(NextLead(f)) /\ fl' = Dropped(f) /\ UNCHANGED sync
  <2>1. Mild
    BY <1>3, <1>5, SameRows DEF Mild, WrittenKept
  <2>2. DroppedTo(f, NextLead(f), NextMessage(f))
    BY <1>1, <1>2, <1>5, DroppedShape
  <2>3. NextLead(f) \notin crossed' => sync'[NextLead(f)] # "batch_pending"
    BY <1>3, <1>4, <1>5 DEF StillQueued
  <2>4. FlushOK(f)'
    BY <1>1, <1>2, <2>1, <2>2, <2>3, MildDrop
  <2> QED
    BY <1>3, <2>1, <2>4, MildFlush DEF FlushStep
<1>6. CASE /\ StillQueued(NextLead(f)) /\ fl' = [fl EXCEPT ![f].pc = "write"]
           /\ sync' = IF NextMessage(f) \in Plain
                      THEN [sync EXCEPT ![NextLead(f)] = "processing"] ELSE sync
  <2>1. \A l \in Leads : sync'[l] = sync[l] \/ sync'[l] \in Calm
    BY <1>1, <1>2, <1>6 DEF Types, Calm
  <2>2. Mild
    BY <1>3, <2>1, SameRows DEF Mild, WrittenKept
  <2>3. /\ bound[NextLead(f)] # 0
        /\ NextLead(f) \notin crossed =>
             fl[f].all[NextLead(f)] \ fl[f].work[NextLead(f)] \subseteq written[NextLead(f)]
    BY <1>1, <1>2, <1>6 DEF StillQueued, FlushOK, BatchOK
  <2>4. FlushOK(f)'
    BY <1>1, <1>3, <1>6, <2>2, <2>3, HandMoves
  <2> QED
    BY <1>3, <2>2, <2>4, MildFlush DEF FlushStep
<1> QED
  BY <1>5, <1>6 DEF FlushApplies

LEMMA WritesStep ==
  ASSUME PatchInv, Types', LockInv', NEW f \in Flushers, FlushWrites(f)
  PROVE  PatchInv'
<1>1. /\ Types /\ FlushOK(f) /\ fl[f].pc = "write" /\ Todo(f) # {}
  BY DEF PatchInv, FlushInv, FlushWrites, FlushAt, Types
<1>2. NextLead(f) \in fl[f].batch /\ NextLead(f) \in Leads
  BY <1>1, HandShape
<1>3. UNCHANGED <<queue, bound, rows, pipe, crossed>>
  BY DEF FlushWrites
<1>4. CASE /\ written' = [written EXCEPT ![NextLead(f)] = @ \cup {NextMessage(f)}]
           /\ fl' = [fl EXCEPT ![f].pc = "applied"]
           /\ UNCHANGED <<ev, tries, sync, faults>>
  <2>1. PICK n, k : n \in Leads /\ n = NextLead(f) /\ k = NextMessage(f)
    BY <1>2
  <2>2. WrittenKept /\ k \in written'[n]
    BY <1>1, <1>4, <2>1 DEF WrittenKept, Types, Queues
  <2>3. Mild
    BY <1>3, <1>4, <2>2, SameRows DEF Mild
  <2>4. /\ bound[NextLead(f)] # 0
        /\ NextLead(f) \notin crossed =>
             fl[f].all[NextLead(f)] \ fl[f].work[NextLead(f)] \subseteq written[NextLead(f)]
    BY <1>1 DEF FlushOK, HandOK
  <2>5. FlushOK(f)'
    BY <1>1, <1>3, <1>4, <2>1, <2>2, <2>3, <2>4, HandMoves
  <2> QED
    BY <1>3, <2>3, <2>5, MildFlush DEF FlushStep
<1>5. CASE /\ fl' = Dropped(f) /\ UNCHANGED written
           /\ \E perm \in BOOLEAN : Fail({NextLead(f)}, By(NextMessage(f)), perm)
  <2>1. /\ \A l \in Leads : sync'[l] = sync[l] \/ sync'[l] \in Calm
        /\ \A l \in Leads : l \in {NextLead(f)} => sync'[l] # "batch_pending"
        /\ \A m \in Messages : ev'[m] = ev[m] \/ ev'[m] \in Calm
    BY <1>1, <1>5, FailMild
  <2>2. Mild
    BY <1>3, <1>5, <2>1, SameRows DEF Mild, WrittenKept
  <2>3. DroppedTo(f, NextLead(f), NextMessage(f))
    BY <1>1, <1>2, <1>5, DroppedShape
  <2>4. FlushOK(f)'
    BY <1>1, <1>2, <2>1, <2>2, <2>3, MildDrop
  <2> QED
    BY <1>3, <2>2, <2>4, MildFlush DEF FlushStep
<1> QED
  BY <1>4, <1>5 DEF FlushWrites

LEMMA AppliedStep ==
  ASSUME PatchInv, Types', LockInv', NEW f \in Flushers, FlushApplied(f)
  PROVE  PatchInv'
<1>1. /\ Types /\ FlushOK(f) /\ fl[f].pc = "applied" /\ Todo(f) # {} /\ fl[f] \in Flushes
  BY DEF PatchInv, FlushInv, FlushApplied, FlushAt, Types
<1>2. PICK n \in Leads, k \in Messages :
        /\ n = NextLead(f) /\ k = NextMessage(f) /\ n \in fl[f].batch
        /\ k \in fl[f].work[n] /\ k \in fl[f].all[n]
  BY <1>1, HandShape
<1>3. /\ UNCHANGED <<bound, rows, written, pipe, crossed>> /\ ev' = [ev EXCEPT ![k] = "processing"]
      /\ sync' = [sync EXCEPT ![n] = IF IsLast(f, n) THEN "succeeded" ELSE "batch_pending"]
      /\ queue' = IF IsLast(f, n) THEN [queue EXCEPT ![n] = {}] ELSE queue
      /\ DroppedTo(f, n, k)
  BY <1>1, <1>2, DroppedShape DEF FlushApplied
<1>4. /\ bound[n] # 0 /\ k \in written[n]
      /\ n \notin crossed => fl[f].all[n] \ fl[f].work[n] \subseteq written[n]
  BY <1>1, <1>2 DEF FlushOK, HandOK, FlushAt
<1>5. IsLast(f, n) => fl[f].work[n] = {k}
  <2>1. fl[f].work[n] \subseteq Messages
    BY <1>1 DEF Flushes, Queues
  <2>2. IsFiniteSet(fl[f].work[n])
    BY <2>1, BatchAssumption, FS_Subset
  <2>3. IsLast(f, n) => \E x : fl[f].work[n] = {x}
    BY <2>2, FS_Singleton DEF IsLast
  <2> QED
    BY <1>2, <2>3
<1>6. /\ n \notin crossed /\ IsLast(f, n) => fl[f].all[n] \subseteq written[n]
      /\ n \notin crossed => queue[n] \subseteq fl[f].all[n]
  BY <1>1, <1>2, <1>4, <1>5 DEF FlushOK, BatchOK
<1>7. /\ \A l \in Leads : l # n => queue'[l] = queue[l] /\ sync'[l] = sync[l]
      /\ queue'[n] = (IF IsLast(f, n) THEN {} ELSE queue[n])
      /\ sync'[n] = (IF IsLast(f, n) THEN "succeeded" ELSE "batch_pending")
  BY <1>1, <1>3 DEF Types, Queues
<1>8. HeldKept
  <2>1. SUFFICES ASSUME NEW l \in Leads, l \notin crossed, NEW m \in Messages, Held(m, l)
                 PROVE  Held(m, l)'
    BY <1>3 DEF HeldKept
  <2>2. CASE l # n
    BY <1>3, <1>7, <2>1, <2>2 DEF Held
  <2>3. CASE l = n
    BY <1>3, <1>6, <1>7, <2>1, <2>3 DEF Held
  <2> QED
    BY <2>2, <2>3
<1>9. QueueInv'
  <2>1. SUFFICES ASSUME NEW l \in Leads
                 PROVE  /\ \A m \in queue'[l] : l \in About[m]
                        /\ queue'[l] # {} => Queued(Creator(l))'
                                             /\ sync'[l] \notin {"none", "succeeded"}
    BY DEF QueueInv
  <2>2. /\ Creator(l) \in Messages
        /\ \A m \in queue[l] : l \in About[m]
        /\ queue[l] # {} => Queued(Creator(l)) /\ sync[l] \notin {"none", "succeeded"}
    BY CreatorOf DEF PatchInv, QueueInv
  <2>3. queue[l] # {} => Queued(Creator(l))'
    BY <1>8, <2>2, QueuedKept
  <2>4. CASE l # n
    BY <1>7, <2>2, <2>3, <2>4
  <2>5. CASE l = n
    BY <1>7, <2>2, <2>3, <2>5
  <2> QED
    BY <2>4, <2>5
<1>10. PatchesKept'
  <2>1. SUFFICES ASSUME NEW m \in Messages, NEW l \in About[m], l \notin crossed
                 PROVE  /\ ev'[m] = "batch_pending" => Held(m, l)'
                        /\ ev'[m] = "succeeded" => m \in written[l]
    BY <1>3 DEF PatchesKept, Held
  <2>2. l \in Leads
    BY <2>1, LeadsOf
  <2>3. /\ ev[m] = "batch_pending" => Held(m, l)
        /\ ev[m] = "succeeded" => m \in written[l]
    BY <2>1 DEF PatchInv, PatchesKept, Held
  <2>4. ev'[m] = ev[m] \/ ev'[m] = "processing"
    BY <1>1, <1>3 DEF Types
  <2> QED
    BY <1>3, <1>8, <2>1, <2>2, <2>3, <2>4 DEF HeldKept
<1>11. FlushOK(f)'
  <2>1. BatchOK(f)'
    <3>1. SUFFICES ASSUME NEW l \in fl[f].batch, l \notin crossed
        PROVE /\ Creator(l) \in fl[f].all[l] /\ queue'[l] \subseteq fl[f].all[l]
              /\ \A m \in fl[f].all[l] : Held(m, l)'
              /\ sync'[l] # "none"
              /\ sync'[l] = "succeeded" => fl[f].all[l] \subseteq written[l]
              /\ sync'[l] = "batch_pending" =>
                   fl[f].all[l] \ fl'[f].work[l] \subseteq written[l]
      BY <1>3 DEF BatchOK, DroppedTo
    <3>2. /\ l \in Leads /\ fl[f].all[l] \subseteq Messages
      BY <1>1, <3>1 DEF Flushes, Queues
    <3>3. /\ Creator(l) \in fl[f].all[l] /\ queue[l] \subseteq fl[f].all[l]
          /\ \A m \in fl[f].all[l] : Held(m, l)
          /\ sync[l] # "none"
          /\ sync[l] = "succeeded" => fl[f].all[l] \subseteq written[l]
          /\ sync[l] = "batch_pending" => fl[f].all[l] \ fl[f].work[l] \subseteq written[l]
      BY <1>1, <3>1 DEF FlushOK, BatchOK
    <3>4. \A m \in fl[f].all[l] : Held(m, l)'
      BY <1>3, <1>8, <3>1, <3>2, <3>3 DEF HeldKept
    <3>5. CASE l # n
      <4>1. fl'[f].work[l] = fl[f].work[l]
        BY <1>3, <3>2, <3>5 DEF DroppedTo
      <4> QED
        BY <1>7, <3>2, <3>3, <3>4, <3>5, <4>1
    <3>6. CASE l = n
      <4>1. fl'[f].work[n] = fl[f].work[n] \ {k}
        BY <1>3 DEF DroppedTo
      <4> QED
        BY <1>4, <1>6, <1>7, <3>1, <3>3, <3>4, <3>6, <4>1
    <3> QED
      BY <3>5, <3>6
  <2>2. WorkOK(f)'
    <3>1. \A l \in Leads : fl'[f].work[l] \subseteq fl[f].work[l]
      BY <1>3 DEF DroppedTo
    <3> QED
      BY <1>1, <1>3, <3>1 DEF FlushOK, WorkOK, FlushAt, DroppedTo
  <2>3. HandOK(f)'
    BY <1>3 DEF HandOK, FlushAt, DroppedTo
  <2>4. BoundOK(f)'
    <3>1. fl[f].batch \subseteq Leads
      BY <1>1 DEF Flushes
    <3> QED
      BY <1>1, <1>3, <1>4, <1>7, <3>1 DEF FlushOK, BoundOK, FlushAt, DroppedTo
  <2> QED
    BY <2>1, <2>2, <2>3, <2>4 DEF FlushOK
<1>12. FlushInv'
  <2>1. SUFFICES ASSUME NEW g \in Flushers \ {f} PROVE FlushOK(g)'
    BY <1>11 DEF FlushInv
  <2>2. fl'[g] = fl[g]
    BY <1>1, OthersStay DEF FlushStep
  <2>3. fl[g].batch = {}
    <3>1. FlushAt(g, "idle")
      BY <1>1, AloneAtWork DEF FlushAt, PatchInv
    <3> QED
      BY <3>1 DEF PatchInv, FlushInv, FlushOK, WorkOK
  <2>4. WrittenKept /\ RowsKept
    BY <1>3 DEF WrittenKept, RowsKept
  <2> QED
    BY <1>8, <2>2, <2>3, <2>4, FlushFrame
<1> QED
  BY <1>3, <1>8, <1>9, <1>10, <1>12, PipeStays DEF PatchInv

-----------------------------------------------------------------------------
(* The ends of a flush *)

LEMMA AllSucceeded ==
  ASSUME NEW S \in SUBSET Syncs, Reconciled(S) = "succeeded"
  PROVE  S \subseteq {"none", "succeeded"}
BY DEF Reconciled, Syncs

(* A step that leaves the queue and the leads alone keeps what holds of them. *)
LEMMA SameQueue ==
  ASSUME PatchInv, HeldKept, UNCHANGED <<queue, sync>>
  PROVE  QueueInv'
<1>1. SUFFICES ASSUME NEW l \in Leads
               PROVE  /\ \A m \in queue[l] : l \in About[m]
                      /\ queue[l] # {} => Queued(Creator(l))'
                                          /\ sync[l] \notin {"none", "succeeded"}
  BY DEF QueueInv
<1>2. Creator(l) \in Messages
  BY CreatorOf
<1> QED
  BY <1>2, QueuedKept DEF PatchInv, QueueInv

LEMMA ReconcilesStep ==
  ASSUME PatchInv, Types', LockInv', NEW f \in Flushers, FlushReconciles(f)
  PROVE  PatchInv'
<1> DEFINE of(m) == {l \in Leads : m \in fl[f].all[l]}
<1>1. /\ Types /\ FlushOK(f) /\ fl[f] \in Flushes
  BY DEF PatchInv, FlushInv, Types
<1>2. /\ UNCHANGED <<sync, queue, bound, rows, written, pipe, crossed>>
      /\ fl'[f] = FlushIdle
  BY <1>1, EndsShape DEF FlushReconciles, Ended
<1>3. \A m \in Messages : ev'[m] = IF of(m) = {} THEN ev[m]
                                   ELSE Reconciled({sync[l] : l \in of(m)})
  BY DEF FlushReconciles
<1>4. HeldKept /\ WrittenKept /\ RowsKept
  BY <1>2 DEF HeldKept, Held, WrittenKept, RowsKept
<1>5. PatchesKept'
  <2>1. SUFFICES ASSUME NEW m \in Messages, NEW l \in About[m], l \notin crossed
                 PROVE  /\ ev'[m] = "batch_pending" => Held(m, l)
                        /\ ev'[m] = "succeeded" => m \in written[l]
    BY <1>2 DEF PatchesKept, Held
  <2>2. l \in Leads
    BY <2>1, LeadsOf
  <2>3. CASE of(m) = {}
    BY <1>3, <2>1, <2>3 DEF PatchInv, PatchesKept, Held
  <2>4. CASE l \in of(m)
    <3>1. m \in fl[f].all[l] /\ l \in fl[f].batch
      BY <1>1, <2>4 DEF FlushOK, WorkOK
    <3>2. /\ Held(m, l) /\ sync[l] # "none"
          /\ sync[l] = "succeeded" => m \in written[l]
      BY <1>1, <2>1, <3>1 DEF FlushOK, BatchOK
    <3>3. ev'[m] = "succeeded" => sync[l] \in {"none", "succeeded"}
      <4>1. {sync[i] : i \in of(m)} \in SUBSET Syncs
        BY <1>1 DEF Types
      <4>2. sync[l] \in {sync[i] : i \in of(m)}
        BY <2>4
      <4>3. ev'[m] = Reconciled({sync[i] : i \in of(m)})
        BY <1>3, <2>4
      <4> QED
        BY <4>1, <4>2, <4>3, AllSucceeded
    <3> QED
      BY <3>2, <3>3
  <2>5. CASE of(m) # {} /\ l \notin of(m)
    <3>1. PICK i \in Leads : m \in fl[f].all[i]
      BY <2>5
    <3>2. i \in fl[f].batch /\ i \in About[m] /\ i # l
      BY <1>1, <2>5, <3>1 DEF FlushOK, WorkOK
    <3>3. Creator(l) = m
      BY <2>1, <3>2, MadeAll DEF Makes
    <3>4. l \notin fl[f].batch
      BY <1>1, <2>1, <2>2, <2>5, <3>3 DEF FlushOK, BatchOK
    <3>5. m \in written[l]
      BY <1>1, <2>1, <2>2, <3>2, <3>3, <3>4 DEF FlushOK, WorkOK
    <3> QED
      BY <3>5 DEF Held
  <2> QED
    BY <2>3, <2>4, <2>5
<1>6. FlushInv'
  <2>1. SUFFICES ASSUME NEW g \in Flushers \ {f} PROVE FlushOK(g)'
    BY <1>2, EndedOK DEF FlushInv
  <2>2. fl'[g] = fl[g]
    BY <1>1, OthersStay DEF FlushStep
  <2> QED
    BY <1>2, <1>4, <2>2, FlushFrame
<1> QED
  BY <1>2, <1>4, <1>5, <1>6, SameQueue, PipeStays DEF PatchInv

LEMMA StartsStep ==
  ASSUME PatchInv, Types', LockInv', NEW f \in Flushers, FlushStarts(f)
  PROVE  PatchInv'
<1> DEFINE good == {l \in Oldest : ~Broken(l)}
           work == [l \in Leads |-> IF l \in good THEN queue[l] ELSE {}]
<1>1. /\ Types /\ FlushOK(f) /\ fl[f] \in Flushes
  BY DEF PatchInv, FlushInv, Types
<1>2. /\ UNCHANGED <<ev, sync, queue, bound, rows, written, pipe>>
      /\ crossed' = crossed \cup {l \in Leads : Split(Creator(l), good)}
  BY DEF FlushStarts, Crosses
<1>3. /\ fl'[f].pc \in {"look", "reject"} /\ fl'[f].batch = good
      /\ fl'[f].all = work /\ fl'[f].work = work /\ fl'[f].open = {}
  <2>1. fl' = [fl EXCEPT ![f] = [FlushIdle EXCEPT
                !.pc = IF good = Oldest THEN "look" ELSE "reject",
                !.batch = good, !.all = work, !.work = work,
                !.found = Oldest \ good]]
    BY DEF FlushStarts
  <2> HIDE DEF good, work
  <2> QED
    BY <1>1, <2>1 DEF Types, FlushIdle
<1>4. \A l \in good : l \in Leads /\ sync[l] = "batch_pending" /\ Creator(l) \in queue[l]
  BY DEF Oldest, Pending, Broken
<1>5. \A l \in Leads : work[l] = IF l \in good THEN queue[l] ELSE {}
  OBVIOUS
<1> HIDE DEF good, work
<1>6. HeldKept /\ WrittenKept /\ RowsKept /\ crossed \subseteq crossed'
  BY <1>2 DEF HeldKept, Held, WrittenKept, RowsKept
<1>7. BatchOK(f)'
  BY <1>2, <1>3, <1>4, <1>5 DEF BatchOK, Held
<1>8. WorkOK(f)'
  <2>1. \A l \in Leads : \A m \in queue[l] : l \in About[m]
    BY DEF PatchInv, QueueInv
  <2>2. ASSUME NEW l \in Leads, l \notin good, l \notin crossed',
               About[Creator(l)] \cap good # {}
        PROVE  Creator(l) \in written[l]
    <3>1. Creator(l) \in Messages /\ l \in About[Creator(l)] /\ l \notin crossed
      BY <1>6, <2>2, CreatorOf
    <3>2. ~Split(Creator(l), good)
      BY <1>2, <2>2
    <3>3. sync[l] = "succeeded"
      BY <2>2, <3>1, <3>2 DEF Split
    <3>4. queue[l] = {}
      BY <3>3 DEF PatchInv, QueueInv
    <3>5. PICK i \in good : i \in About[Creator(l)] /\ i # l
      BY <2>2
    <3>6. Creator(i) = Creator(l)
      BY <3>1, <3>5, MadeAll DEF Makes
    <3>7. Queued(Creator(l))
      <4>1. i \in Leads /\ queue[i] # {}
        BY <1>4
      <4> QED
        BY <3>6, <4>1 DEF PatchInv, QueueInv
    <3> QED
      BY <2>2, <3>1, <3>4, <3>7 DEF Queued, Held
  <2> QED
    BY <1>2, <1>3, <1>4, <1>5, <2>1, <2>2 DEF WorkOK, FlushAt
<1>9. HandOK(f)' /\ BoundOK(f)'
  BY <1>3 DEF HandOK, BoundOK, FlushAt
<1>10. FlushInv'
  <2>1. SUFFICES ASSUME NEW g \in Flushers \ {f} PROVE FlushOK(g)'
    BY <1>7, <1>8, <1>9 DEF FlushInv, FlushOK
  <2>2. fl'[g] = fl[g]
    BY <1>1, OthersStay DEF FlushStep
  <2> QED
    BY <1>2, <1>6, <2>2, FlushFrame
<1>11. PatchesKept'
  BY <1>2, <1>6 DEF PatchInv, PatchesKept
<1> QED
  BY <1>2, <1>6, <1>10, <1>11, SameQueue, PipeStays DEF PatchInv

-----------------------------------------------------------------------------
(* The pipeline *)

(* A step of the pipeline that is mild. *)
LEMMA MildPipe ==
  ASSUME PatchInv, Types', LockInv', Mild, UNCHANGED fl, PipeInv'
  PROVE  PatchInv'
<1>1. FlushInv'
  BY MildFrame DEF FlushInv
<1> QED
  BY <1>1, MildQueue DEF PatchInv

LEMMA PipeFree ==
  ASSUME pipe' = PipeIdle
  PROVE  PipeInv'
BY DEF PipeInv, PipeIdle

LEMMA TakeStep ==
  ASSUME PatchInv, Types', LockInv', NEW m \in Messages, TakeNew(m) \/ Take(m)
  PROVE  PatchInv'
<1>1. /\ Types /\ UNCHANGED <<queue, bound, rows, written, fl, crossed>>
      /\ ev' = [ev EXCEPT ![m] = "processing"]
  BY DEF PatchInv, TakeNew, Take
<1>2. \A l \in Leads : sync'[l] = sync[l] \/ sync'[l] \in Calm
  BY DEF TakeNew, Take, Calm
<1>3. \A k \in Messages : ev'[k] = ev[k] \/ ev'[k] \in Calm
  BY <1>1 DEF Types, Calm
<1>4. Mild
  BY <1>1, <1>2, <1>3, SameRows DEF Mild, WrittenKept
<1>5. PipeInv'
  <2>1. CASE TakeNew(m)
    BY <2>1 DEF TakeNew, Makes, PipeInv
  <2>2. CASE Take(m)
    <3>1. Cardinality(About[m]) = 1
      BY <2>2, BatchAssumption DEF Take, Makes
    <3>2. About[m] = {Target(m)}
      BY <3>1, OneLead
    <3>3. PICK l \in Leads : l = Target(m) /\ About[m] = {l}
      BY <3>2, LeadsOf
    <3>4. /\ pipe'.msg = m
          /\ pipe'.pc = "enqueue" => ShouldDefer(m, l)
      BY <2>2, <3>3 DEF Take
    <3>5. ShouldDefer(m, l) /\ Creator(l) # m => Queued(Creator(l))
      BY DEF ShouldDefer, PatchInv, QueueInv
    <3>6. ShouldDefer(m, l) /\ Creator(l) # m => Queued(Creator(l))'
      BY <1>4, <3>5, CreatorOf, MildHeld, QueuedKept
    <3> QED
      BY <3>1, <3>3, <3>4, <3>6 DEF PipeInv
  <2> QED
    BY <2>1, <2>2
<1> QED
  BY <1>1, <1>4, <1>5, MildPipe

LEMMA RowsGrow ==
  ASSUME Types, NEW l,
         \/ rows' = rows
         \/ rows' = [rows EXCEPT ![l] = @ + 1]
         \/ \E n \in {0, 1} : rows' = [rows EXCEPT ![l] = Min({@ + n, MaxRows})]
  PROVE  \A k \in Leads : rows[k] # 0 => rows'[k] # 0
<1>1. CASE rows' = rows \/ rows' = [rows EXCEPT ![l] = @ + 1]
  BY <1>1 DEF Types
<1>2. ASSUME NEW n \in {0, 1}, rows' = [rows EXCEPT ![l] = Min({@ + n, MaxRows})],
             NEW k \in Leads, rows[k] # 0
      PROVE  rows'[k] # 0
  <2>1. CASE k # l
    BY <1>2, <2>1 DEF Types
  <2>2. CASE k = l
    <3>1. rows[l] \in Nat /\ rows[l] # 0 /\ {rows[l] + n, MaxRows} \in SUBSET Nat
      BY <1>2, <2>2 DEF Types, MaxRows
    <3>2. Min({rows[l] + n, MaxRows}) \in {rows[l] + n, MaxRows}
      BY <3>1, MinOf
    <3>3. Min({rows[l] + n, MaxRows}) # 0
      BY <3>1, <3>2 DEF MaxRows
    <3>4. rows'[k] = Min({rows[l] + n, MaxRows})
      BY <1>2, <2>2 DEF Types
    <3> QED
      BY <3>3, <3>4
  <2> QED
    BY <2>1, <2>2
<1> QED
  BY <1>1, <1>2

LEMMA EnsureStep ==
  ASSUME PatchInv, Types', LockInv', Ensure
  PROVE  PatchInv'
<1>1. Types /\ UNCHANGED <<queue, written, fl, crossed>>
  BY DEF PatchInv, Ensure
<1>2. PICK l : l = Target(pipe.msg)
  OBVIOUS
<1>3. \A k \in Leads : rows[k] # 0 => rows'[k] # 0
  <2>1. \/ rows' = rows
        \/ rows' = [rows EXCEPT ![l] = @ + 1]
        \/ \E n \in {0, 1} : rows' = [rows EXCEPT ![l] = Min({@ + n, MaxRows})]
    BY <1>2 DEF Ensure
  <2> QED
    BY <1>1, <2>1, RowsGrow
<1>4. \A k \in Leads : bound[k] # 0 => bound'[k] # 0
  <2>1. bound' = bound \/ bound' = [bound EXCEPT ![l] = rows[l] + 1]
    BY <1>2 DEF Ensure
  <2>2. \A k \in Leads : rows[k] + 1 # 0
    BY <1>1 DEF Types
  <2> QED
    BY <1>1, <2>1, <2>2 DEF Types
<1>5. /\ \A k \in Leads : sync'[k] = sync[k] \/ sync'[k] \in Calm
      /\ \A m \in Messages : ev'[m] = ev[m] \/ ev'[m] \in Calm
  <2>1. \/ UNCHANGED <<ev, sync>>
        \/ UNCHANGED ev /\ sync' = [sync EXCEPT ![l] = "processing"]
        \/ \E perm \in BOOLEAN : Fail({l}, By(pipe.msg), perm)
    BY <1>2 DEF Ensure
  <2> QED
    BY <1>1, <2>1, FailMild DEF Types, Calm
<1>6. Mild
  BY <1>1, <1>3, <1>4, <1>5 DEF Mild, WrittenKept, RowsKept
<1>7. PipeInv'
  <2>1. pipe' = [pipe EXCEPT !.pc = "patch"] \/ pipe' = PipeIdle
    BY DEF Ensure
  <2>2. Cardinality(About[pipe.msg]) = 1
    BY DEF Ensure, PatchInv, PipeInv
  <2> QED
    BY <1>1, <2>1, <2>2, PipeFree DEF PipeInv, Types
<1> QED
  BY <1>1, <1>6, <1>7, MildPipe

LEMMA PipelineDiesStep ==
  ASSUME PatchInv, Types', LockInv', PipelineDies
  PROVE  PatchInv'
<1>1. /\ Types /\ UNCHANGED <<ev, sync, queue, bound, written, fl, crossed>>
      /\ pipe' = PipeIdle
  BY DEF PatchInv, PipelineDies
<1>2. \A k \in Leads : rows[k] # 0 => rows'[k] # 0
  <2>1. \/ rows' = rows
        \/ \E l \in Leads : rows' = [rows EXCEPT ![l] = Min({@ + 1, MaxRows})]
    BY DEF PipelineDies
  <2> QED
    BY <1>1, <2>1, RowsGrow
<1>3. Mild
  BY <1>1, <1>2 DEF Mild, WrittenKept, RowsKept
<1> QED
  BY <1>1, <1>3, MildPipe, PipeFree

LEMMA LapseStep ==
  ASSUME PatchInv, Types', LockInv', (\E m \in Messages : Lapse(m)) \/ UNCHANGED vars
  PROVE  PatchInv'
<1>1. /\ UNCHANGED <<sync, queue, bound, rows, written, pipe, fl, crossed>>
      /\ \A m \in Messages : ev'[m] = ev[m] \/ ev'[m] \in Calm
  BY DEF PatchInv, Lapse, vars, Types, Calm
<1>2. Mild
  BY <1>1, SameRows DEF Mild, WrittenKept
<1> QED
  BY <1>1, <1>2, MildPipe, MildHeld, PipeStays

(* A step of the pipeline that queues or completes the fields of a message. *)
LEMMA BoldPipe ==
  ASSUME PatchInv, Types', LockInv', HeldKept, WrittenKept, UNCHANGED <<bound, rows, fl>>,
         QueueInv', PipeInv', PatchesKept',
         \A g \in Flushers : \A l \in fl[g].batch \ crossed' :
           /\ queue'[l] \subseteq queue[l]
           /\ \/ sync'[l] = sync[l] \/ sync'[l] \in Calm
              \/ sync'[l] = "succeeded" /\ fl[g].all[l] \subseteq written'[l]
  PROVE  PatchInv'
<1>1. RowsKept
  BY DEF RowsKept
<1>2. FlushInv'
  BY <1>1, FlushFrame DEF FlushInv
<1> QED
  BY <1>2 DEF PatchInv

(* What a message waits for or has done before the step still holds. *)
LEMMA OthersKept ==
  ASSUME PatchInv, HeldKept, WrittenKept, NEW m \in Messages, NEW l \in About[m],
         l \notin crossed', ev'[m] = ev[m]
  PROVE  /\ ev'[m] = "batch_pending" => Held(m, l)'
         /\ ev'[m] = "succeeded" => m \in written'[l]
<1>1. l \in Leads /\ l \notin crossed
  BY LeadsOf DEF HeldKept
<1>2. /\ ev[m] = "batch_pending" => Held(m, l)
      /\ ev[m] = "succeeded" => m \in written[l]
  BY <1>1 DEF PatchInv, PatchesKept, Held
<1> QED
  BY <1>1, <1>2 DEF HeldKept, WrittenKept

LEMMA ResumeStep ==
  ASSUME PatchInv, Types', LockInv', NEW m \in Messages, Resume(m)
  PROVE  PatchInv'
<1> DEFINE rs == Resumable(m)
<1>1. /\ Types /\ UNCHANGED <<queue, bound, rows, written, pipe, fl>>
      /\ Makes(m) /\ rs # {}
      /\ crossed' = crossed \cup {l \in rs : InFlush(l)}
  BY DEF PatchInv, Resume, Crosses
<1>2. \A l \in rs : l \in Leads /\ Creator(l) = m /\ queue[l] # {}
  BY DEF Resumable
<1>3. /\ \A l \in Leads : sync'[l] = IF l \in rs THEN "batch_pending" ELSE sync[l]
      /\ \A k \in Messages :
           ev'[k] = IF k = m \/ (ev[k] = "retrying" /\ \E l \in rs : k \in queue[l])
                    THEN "batch_pending" ELSE ev[k]
  BY DEF Resume
<1> HIDE DEF rs
<1>4. HeldKept /\ WrittenKept
  BY <1>1 DEF HeldKept, Held, WrittenKept
<1>5. QueueInv'
  <2>1. SUFFICES ASSUME NEW l \in Leads
                 PROVE  /\ \A k \in queue[l] : l \in About[k]
                        /\ queue[l] # {} => Queued(Creator(l))'
                                            /\ sync'[l] \notin {"none", "succeeded"}
    BY <1>1 DEF QueueInv
  <2>2. Creator(l) \in Messages
    BY CreatorOf
  <2> QED
    BY <1>3, <1>4, <2>2, QueuedKept DEF PatchInv, QueueInv
<1>6. PatchesKept'
  <2>1. SUFFICES ASSUME NEW k \in Messages, NEW l \in About[k], l \notin crossed'
                 PROVE  /\ ev'[k] = "batch_pending" => Held(k, l)'
                        /\ ev'[k] = "succeeded" => k \in written'[l]
    BY DEF PatchesKept, Held
  <2>2. l \in Leads /\ l \notin crossed
    BY <1>1, <2>1, LeadsOf
  <2>3. CASE ev'[k] = ev[k]
    BY <1>4, <2>1, <2>3, OthersKept
  <2>4. CASE k = m
    <3>1. Creator(l) = m
      BY <1>1, <2>1, <2>4 DEF Makes
    <3>2. Queued(m)
      BY <1>1, <1>2 DEF PatchInv, QueueInv
    <3>3. Held(m, l)
      BY <2>2, <3>1, <3>2 DEF Queued
    <3> QED
      BY <1>3, <1>4, <2>1, <2>2, <2>4, <3>3 DEF HeldKept
  <2>5. CASE k # m /\ ev'[k] # ev[k]
    <3>1. PICK r \in rs : k \in queue[r]
      BY <1>3, <2>5
    <3>2. r \in About[k]
      BY <1>2, <3>1 DEF PatchInv, QueueInv
    <3>3. l = r
      BY <1>2, <2>5, <3>2, MadeAll DEF Makes
    <3>4. Held(k, l)
      BY <3>1, <3>3 DEF Held
    <3> QED
      BY <1>3, <1>4, <2>1, <2>2, <2>5, <3>4 DEF HeldKept
  <2> QED
    BY <2>3, <2>4, <2>5
<1>7. ASSUME NEW g \in Flushers, NEW l \in fl[g].batch, l \notin crossed'
      PROVE  sync'[l] = sync[l]
  <2>1. l \in Leads /\ l \notin rs
    BY <1>1, <1>7 DEF InFlush, Types, Flushes
  <2> QED
    BY <1>3, <2>1
<1> QED
  BY <1>1, <1>4, <1>5, <1>6, <1>7, PipeStays, BoldPipe

LEMMA EnqueueStep ==
  ASSUME PatchInv, Types', LockInv', Enqueue
  PROVE  PatchInv'
<1>1. PICK m \in Messages : m = pipe.msg
  BY DEF PatchInv, Types, Enqueue
<1>2. /\ Types /\ UNCHANGED <<bound, rows, written, fl>> /\ pipe' = PipeIdle
      /\ crossed' = crossed \cup {l \in About[m] : InFlush(l) \/ sync[l] = "succeeded"}
      /\ ev' = [ev EXCEPT ![m] = "batch_pending"]
  BY <1>1 DEF PatchInv, Enqueue, Crosses
<1>3. \A l \in Leads :
        /\ queue'[l] = IF l \in About[m] THEN queue[l] \cup {m} ELSE queue[l]
        /\ sync'[l] = IF l \in About[m] THEN "batch_pending" ELSE sync[l]
  BY <1>1 DEF Enqueue
<1>4. HeldKept /\ WrittenKept
  BY <1>2, <1>3 DEF HeldKept, Held, WrittenKept
<1>5. Queued(m)'
  <2>1. SUFFICES ASSUME NEW l \in Leads, Creator(l) = m PROVE m \in queue'[l]
    BY DEF Queued, Held
  <2>2. l \in About[m]
    BY <2>1, CreatorOf
  <2> QED
    BY <1>3, <2>2
<1>6. QueueInv'
  <2>1. SUFFICES ASSUME NEW l \in Leads
                 PROVE  /\ \A k \in queue'[l] : l \in About[k]
                        /\ queue'[l] # {} => Queued(Creator(l))'
                                             /\ sync'[l] \notin {"none", "succeeded"}
    BY DEF QueueInv
  <2>2. /\ Creator(l) \in Messages /\ \A k \in queue[l] : l \in About[k]
        /\ queue[l] # {} => Queued(Creator(l)) /\ sync[l] \notin {"none", "succeeded"}
    BY CreatorOf DEF PatchInv, QueueInv
  <2>3. CASE l \in About[m]
    <3>1. Queued(Creator(l))'
      <4>1. CASE Creator(l) = m
        BY <1>5, <4>1
      <4>2. CASE Creator(l) # m
        BY <1>1, <1>4, <2>2, <2>3, <4>2, QueuedKept DEF PatchInv, PipeInv, Enqueue
      <4> QED
        BY <4>1, <4>2
    <3> QED
      BY <1>3, <2>2, <2>3, <3>1
  <2>4. CASE l \notin About[m]
    BY <1>3, <1>4, <2>2, <2>4, QueuedKept
  <2> QED
    BY <2>3, <2>4
<1>7. PatchesKept'
  <2>1. SUFFICES ASSUME NEW k \in Messages, NEW l \in About[k], l \notin crossed'
                 PROVE  /\ ev'[k] = "batch_pending" => Held(k, l)'
                        /\ ev'[k] = "succeeded" => k \in written'[l]
    BY DEF PatchesKept, Held
  <2>2. CASE k # m
    BY <1>2, <1>4, <2>1, <2>2, OthersKept DEF Types
  <2>3. CASE k = m
    <3>1. l \in Leads
      BY LeadsOf
    <3>2. ev'[m] = "batch_pending"
      BY <1>2 DEF Types
    <3> QED
      BY <1>3, <2>1, <2>3, <3>1, <3>2 DEF Held
  <2> QED
    BY <2>2, <2>3
<1>8. ASSUME NEW g \in Flushers, NEW l \in fl[g].batch, l \notin crossed'
      PROVE  queue'[l] = queue[l] /\ sync'[l] = sync[l]
  <2>1. l \in Leads /\ l \notin About[m]
    BY <1>2, <1>8 DEF InFlush, Types, Flushes
  <2> QED
    BY <1>3, <2>1
<1> QED
  BY <1>2, <1>4, <1>6, <1>7, <1>8, PipeFree, BoldPipe

LEMMA PatchStep ==
  ASSUME PatchInv, Types', LockInv', Patch
  PROVE  PatchInv'
<1>1. PICK m \in Messages : m = pipe.msg /\ Cardinality(About[m]) = 1
  BY DEF PatchInv, Types, Patch, PipeInv
<1>2. PICK l \in Leads : l = Target(m) /\ About[m] = {l}
  BY <1>1, OneLead, LeadsOf
<1>3. /\ Types /\ UNCHANGED <<bound, rows, fl>> /\ pipe' = PipeIdle
      /\ crossed' = crossed \cup {k \in {l} : queue[k] # {}}
  BY <1>1, <1>2 DEF PatchInv, Patch, Crosses
<1>4. CASE /\ \E perm \in BOOLEAN : Fail({l}, By(m), perm)
           /\ UNCHANGED <<written, queue>>
  <2>1. Mild
    BY <1>3, <1>4, SameRows, FailMild DEF Mild, WrittenKept
  <2> QED
    BY <1>3, <2>1, MildPipe, PipeFree
<1>5. CASE /\ written' = [written EXCEPT ![l] = @ \cup {m}]
           /\ sync' = [sync EXCEPT ![l] = "succeeded"]
           /\ queue' = [queue EXCEPT ![l] = {}]
           /\ ev' = [ev EXCEPT ![m] = IF queue[l] = {} THEN "succeeded" ELSE "processing"]
  <2>1. /\ written'[l] = written[l] \cup {m} /\ queue'[l] = {} /\ sync'[l] = "succeeded"
        /\ \A k \in Leads : k # l => /\ written'[k] = written[k] /\ queue'[k] = queue[k]
                                     /\ sync'[k] = sync[k]
        /\ l \notin crossed' => queue[l] = {}
    BY <1>3, <1>5 DEF Types, Queues
  <2>2. WrittenKept
    BY <2>1 DEF WrittenKept
  <2>3. HeldKept
    <3>1. SUFFICES ASSUME NEW i \in Leads, i \notin crossed', NEW k \in Messages, Held(k, i)
                   PROVE  Held(k, i)'
      BY <1>3 DEF HeldKept
    <3>2. CASE i # l
      BY <2>1, <3>1, <3>2 DEF Held
    <3>3. CASE i = l
      BY <2>1, <3>1, <3>3 DEF Held
    <3> QED
      BY <3>2, <3>3
  <2>4. QueueInv'
    <3>1. SUFFICES ASSUME NEW i \in Leads, i # l
                   PROVE  /\ \A k \in queue[i] : i \in About[k]
                          /\ queue[i] # {} => Queued(Creator(i))'
                                              /\ sync[i] \notin {"none", "succeeded"}
      BY <2>1 DEF QueueInv
    <3>2. Creator(i) \in Messages
      BY CreatorOf
    <3> QED
      BY <2>3, <3>2, QueuedKept DEF PatchInv, QueueInv
  <2>5. PatchesKept'
    <3>1. SUFFICES ASSUME NEW k \in Messages, NEW i \in About[k], i \notin crossed'
                   PROVE  /\ ev'[k] = "batch_pending" => Held(k, i)'
                          /\ ev'[k] = "succeeded" => k \in written'[i]
      BY DEF PatchesKept, Held
    <3>2. CASE k # m
      BY <1>3, <1>5, <2>2, <2>3, <3>1, <3>2, OthersKept DEF Types
    <3>3. CASE k = m
      BY <1>2, <2>1, <3>3 DEF Held
    <3> QED
      BY <3>2, <3>3
  <2>6. ASSUME NEW g \in Flushers, NEW i \in fl[g].batch, i \notin crossed'
        PROVE  /\ queue'[i] \subseteq queue[i]
               /\ \/ sync'[i] = sync[i]
                  \/ sync'[i] = "succeeded" /\ fl[g].all[i] \subseteq written'[i]
    <3>1. i \in Leads /\ i \notin crossed
      BY <1>3, <2>6 DEF Types, Flushes
    <3>2. \A k \in fl[g].all[i] : Held(k, i)
      BY <2>6, <3>1 DEF PatchInv, FlushInv, FlushOK, BatchOK
    <3>3. CASE i # l
      BY <2>1, <3>1, <3>3
    <3>4. CASE i = l
      BY <2>1, <2>6, <3>2, <3>4 DEF Held
    <3> QED
      BY <3>3, <3>4
  <2> QED
    BY <1>3, <2>2, <2>3, <2>4, <2>5, <2>6, PipeFree, BoldPipe
<1> QED
  BY <1>1, <1>2, <1>4, <1>5 DEF Patch

LEMMA FieldsInit == Init => PatchInv
<1> SUFFICES ASSUME Init PROVE PatchInv
  OBVIOUS
<1>1. /\ \A f \in Flushers : fl[f] = FlushIdle
      /\ \A l \in Leads : queue[l] = {}
      /\ \A m \in Messages : ev[m] = "new"
      /\ pipe = PipeIdle
  BY DEF Init, NoWork
<1>2. FlushInv
  BY <1>1 DEF FlushInv, FlushOK, BatchOK, WorkOK, HandOK, BoundOK, FlushAt, FlushIdle, NoWork
<1>3. QueueInv /\ PipeInv /\ PatchesKept
  BY <1>1 DEF QueueInv, PipeInv, PatchesKept, PipeIdle
<1>4. LockInv
  BY <1>1 DEF LockInv, FlushAt, FlushIdle
<1> QED
  BY <1>2, <1>3, <1>4, TypesInit DEF PatchInv

LEMMA FieldsStep == PatchInv /\ [Next]_vars => PatchInv'
<1> SUFFICES ASSUME PatchInv, [Next]_vars PROVE PatchInv'
  OBVIOUS
<1>1. Types' /\ LockInv'
  BY TypesStep, LockStep DEF PatchInv
<1>2. CASE PipeStep
  BY <1>1, <1>2, TakeStep, ResumeStep, EnqueueStep, EnsureStep, PatchStep DEF PipeStep
<1>3. CASE PipelineDies \/ (\E m \in Messages : Lapse(m)) \/ UNCHANGED vars
  BY <1>1, <1>3, PipelineDiesStep, LapseStep
<1>4. ASSUME NEW f \in Flushers, FlushStep(f) PROVE PatchInv'
  BY <1>1, <1>4, StartsStep, RejectsStep, LookStep, KeepStep, RepairStep, CreateStep,
     SettleStep, RecoverStep, AppliesStep, WritesStep, AppliedStep, ReconcilesStep
  DEF FlushStep
<1>5. ASSUME NEW f \in Flushers, FlusherDies(f) PROVE PatchInv'
  BY <1>1, <1>5, DiesStep
<1> QED
  BY <1>2, <1>3, <1>4, <1>5 DEF Next

(* Between the queueing of a message and the settling of its event no field  *)
(* is lost: while the event waits for the batch its fields are queued or in   *)
(* the row, and once it is done they are in the row of each of its leads      *)
(* (_enqueue_smart_table_batch_items, flush_smart_table_batch,                *)
(* _reconcile_smart_table_batch_events), through failures, crashes,           *)
(* resumptions and any number of tasks.  What makes it inductive is that a    *)
(* flush has read all that is queued for its leads, that what it has done     *)
(* with is written unless the lead failed, and that a lead which the          *)
(* message made outside of the batch is complete.                             *)
THEOREM FieldsAreKept == Spec => []PatchesKept
<1>1. PatchInv => PatchesKept
  BY DEF PatchInv
<1> QED
  BY <1>1, FieldsInit, FieldsStep, PTL DEF Spec
=============================================================================
