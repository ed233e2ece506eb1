--------------------------- MODULE SmartTableBatch ---------------------------
(****************************************************************************)
(* New leads reach the Smart Table in batches (app/leads/service.py). The   *)
(* pipeline of a salesperson queues the fields of a message with the        *)
(* synchronisation of each lead it is about and goes on; a task of Beat     *)
(* (workers/tasks.py) takes the oldest queued leads, looks each row up by   *)
(* its key, makes the missing ones in one call of the CLI                   *)
(* (app/smart_table/wecom_cli.py), writes the queued fields message by      *)
(* message, and settles the events. Making a row cannot be repeated safely: *)
(* after a call without an answer the rows are only looked up.              *)
(*                                                                          *)
(* One salesperson. Messages are numbered in their order, leads in the      *)
(* order of their synchronisations. A message makes all its leads or adds   *)
(* to one. A row carries the id of its lead; without that column the        *)
(* company and the owner are the key. A row that a call has made is seen by *)
(* every later flush, not always by the look that follows in the same       *)
(* flush.                                                                   *)
(****************************************************************************)
EXTENDS Integers, FiniteSets, FiniteSetsExt

CONSTANTS
    Leads,          \* leads, by the time of their synchronisation
    Messages,       \* messages in the order of the salesperson
    About,          \* the leads of each message
    Plain,          \* messages read without the model
    BatchSize,      \* smart_table_lead_batch_size
    RetryCount,     \* lead_message_retry_count
    Flushers,       \* tasks that may flush at the same time
    MaxFaults       \* bound: failed or unanswered calls and crashes

Creator(l) == Min({m \in Messages : l \in About[m]})

ASSUME BatchAssumption ==
    /\ Leads \subseteq Nat /\ Messages \subseteq Nat
    /\ IsFiniteSet(Leads) /\ IsFiniteSet(Messages)
    /\ About \in [Messages -> SUBSET Leads]
    /\ \A l \in Leads : \E m \in Messages : l \in About[m]
    /\ \A m \in Messages :
         \/ \A l \in About[m] : Creator(l) = m
         \/ Cardinality(About[m]) = 1
    /\ BatchSize \in Nat /\ BatchSize >= 2 /\ RetryCount \in Nat
    /\ MaxFaults \in Nat

VARIABLES
    ev,             \* OutboxEvent.status
    tries,          \* OutboxEvent.attempts
    sync,           \* SmartTableSync.status
    queue,          \* SmartTableSync.batch_payload: messages queued
    bound,          \* Lead.smart_table_record_id: number of the row, 0 none
    rows,           \* rows of each lead in the table
    written,        \* messages whose fields are in the row of the lead
    pipe,           \* the pipeline of the salesperson
    fl,             \* flushes in work
    lock,           \* advisory lock of the batch: its holder, or a set of none
    faults,         \* faults left
    crossed,        \* history: leads that two were at work on (see Crosses)
    blind           \* history: leads whose row was made without a look

vars == <<ev, tries, sync, queue, bound, rows, written, pipe, fl, lock, faults,
          crossed, blind>>

NoWork == [l \in Leads |-> {}]

FlushIdle == [pc |-> "idle", batch |-> {}, all |-> NoWork, work |-> NoWork,
              open |-> {}, found |-> {}, again |-> FALSE, perm |-> FALSE]

PipeIdle == [pc |-> "idle", msg |-> 0]

Init ==
    /\ ev = [m \in Messages |-> "new"] /\ tries = [m \in Messages |-> 0]
    /\ sync = [l \in Leads |-> "none"] /\ queue = NoWork
    /\ bound = [l \in Leads |-> 0] /\ rows = [l \in Leads |-> 0]
    /\ written = NoWork /\ pipe = PipeIdle
    /\ fl = [f \in Flushers |-> FlushIdle] /\ lock = {}
    /\ faults = MaxFaults /\ crossed = {} /\ blind = {}

Fault == faults > 0 /\ faults' = faults - 1

------------------------------------------------------------------------------
(* Failures *)

\* _record_sync_failure: only a transient failure leaves the event to be
\* tried again, and only so often.
Verdict(m, perm) ==
    IF perm \/ tries[m] + 1 > RetryCount THEN "failed_pending_review" ELSE "retrying"

\* Requests that are charged to the messages that made their leads, or to m.
ByCreator == [l \in Leads |-> Creator(l)]
By(m) == [l \in Leads |-> m]

\* The requests of the leads ls fail, each charged to the message of[l]: one
\* attempt of each event, and the verdict for its leads.
Fail(ls, of, perm) ==
    /\ ev' = [m \in Messages |->
                IF \E l \in ls : of[l] = m THEN Verdict(m, perm) ELSE ev[m]]
    /\ tries' = [m \in Messages |->
                IF \E l \in ls : of[l] = m THEN tries[m] + 1 ELSE tries[m]]
    /\ sync' = [l \in Leads |->
                IF l \in ls /\ sync[l] # "succeeded" THEN Verdict(of[l], perm)
                ELSE sync[l]]

------------------------------------------------------------------------------
(* The pipeline *)

Checkpoint == {"succeeded", "failed_pending_review", "batch_pending"}

Makes(m) == \A l \in About[m] : Creator(l) = m

Target(m) == CHOOSE l \in About[m] : TRUE

\* History: the leads that the pipeline queues again, resumes or patches while a
\* flush has them in work or in its queue, and those of a message of which a flush
\* has only a part.  The code loses work there; see the hazards.
Crosses(ls) == crossed' = crossed \cup ls

InFlush(l) == \E f \in Flushers : l \in fl[f].batch

\* The row is yet to come and the queue is open.
ShouldDefer(m, l) ==
    /\ bound[l] = 0
    /\ \/ Creator(l) = m /\ sync[l] \in {"pending", "batch_pending"}
       \/ sync[l] \in {"batch_pending", "retrying"} /\ queue[l] # {}

Turn(m, st) ==
    /\ pipe = PipeIdle /\ ev[m] = st
    /\ \A k \in Messages : k < m => ev[k] \in Checkpoint

\* A message makes leads; their fields are to be queued.
TakeNew(m) ==
    /\ Turn(m, "new") /\ Makes(m)
    /\ ev' = [ev EXCEPT ![m] = "processing"]
    /\ sync' = [l \in Leads |-> IF l \in About[m] THEN "pending" ELSE sync[l]]
    /\ pipe' = [pc |-> "enqueue", msg |-> m]
    /\ UNCHANGED <<tries, queue, bound, rows, written, fl, lock, faults, crossed, blind>>

\* Leads of the message whose batch failed for the time being.
Resumable(m) ==
    {l \in Leads : Creator(l) = m /\ sync[l] = "retrying" /\ queue[l] # {}}

\* A message about one known lead: _sync_ai_review queues its fields as well, or
\* goes to the row.  A message that made the lead gets here when an addition has
\* queued the lead again in between.
Take(m) ==
    /\ \/ Turn(m, "new") /\ ~Makes(m)
       \/ Turn(m, "retrying") /\ Resumable(m) = {} /\ Cardinality(About[m]) = 1
    /\ ev' = [ev EXCEPT ![m] = "processing"]
    /\ pipe' = [pc |-> IF ShouldDefer(m, Target(m)) THEN "enqueue" ELSE "ensure",
                msg |-> m]
    /\ UNCHANGED <<tries, sync, queue, bound, rows, written, fl, lock, faults, crossed, blind>>

\* The queued requests are taken up again as they were.
Resume(m) ==
    LET rs == Resumable(m) IN
    /\ Turn(m, "retrying") /\ Makes(m) /\ rs # {}
    /\ sync' = [l \in Leads |-> IF l \in rs THEN "batch_pending" ELSE sync[l]]
    /\ ev' = [k \in Messages |->
                IF k = m \/ (ev[k] = "retrying" /\ \E l \in rs : k \in queue[l])
                THEN "batch_pending" ELSE ev[k]]
    /\ Crosses({l \in rs : InFlush(l)})
    /\ UNCHANGED <<tries, queue, bound, rows, written, pipe, fl, lock, faults, blind>>

\* _enqueue_smart_table_batch_items, whatever has become of the lead since.
Enqueue ==
    LET m == pipe.msg IN
    /\ pipe.pc = "enqueue"
    /\ queue' = [l \in Leads |-> IF l \in About[m] THEN queue[l] \cup {m}
                                 ELSE queue[l]]
    /\ sync' = [l \in Leads |-> IF l \in About[m] THEN "batch_pending" ELSE sync[l]]
    /\ ev' = [ev EXCEPT ![m] = "batch_pending"]
    /\ pipe' = PipeIdle
    /\ Crosses({l \in About[m] : InFlush(l) \/ sync[l] = "succeeded"})
    /\ UNCHANGED <<tries, bound, rows, written, fl, lock, faults, blind>>

\* Bound: rows of one lead that the model tells apart.
MaxRows == 2

\* _ensure_ai_review_record: a lead without a row gets one, unseen whether an
\* earlier call has made it.  An error before the call may be tried again; one
\* that leaves the outcome open is left to a person.
Ensure ==
    LET m == pipe.msg  l == Target(m) IN
    /\ pipe.pc = "ensure"
    /\ blind' = IF bound[l] = 0 THEN blind \cup {l} ELSE blind
    /\ \/ /\ bound[l] # 0 /\ pipe' = [pipe EXCEPT !.pc = "patch"]
          /\ UNCHANGED <<ev, tries, sync, bound, rows, faults>>
       \/ /\ bound[l] = 0 /\ rows[l] < MaxRows
          /\ rows' = [rows EXCEPT ![l] = @ + 1]
          /\ bound' = [bound EXCEPT ![l] = rows[l] + 1]
          /\ \/ /\ sync' = [sync EXCEPT ![l] = "processing"]
                /\ pipe' = [pipe EXCEPT !.pc = "patch"]
                /\ UNCHANGED <<ev, tries, faults>>
             \/ Fault /\ Fail({l}, By(m), FALSE) /\ pipe' = PipeIdle
       \/ /\ bound[l] = 0 /\ Fault
          /\ \/ UNCHANGED rows /\ Fail({l}, By(m), FALSE)
             \/ /\ \E n \in {0, 1} : rows' = [rows EXCEPT ![l] = Min({@ + n, MaxRows})]
                /\ Fail({l}, By(m), TRUE)
          /\ pipe' = PipeIdle /\ UNCHANGED bound
    /\ UNCHANGED <<queue, written, fl, lock, crossed>>

\* The fields go into the row at once.  An event that a batch still counts on
\* stays open.
Patch ==
    LET m == pipe.msg  l == Target(m) IN
    /\ pipe.pc = "patch" /\ pipe' = PipeIdle
    /\ \/ /\ written' = [written EXCEPT ![l] = @ \cup {m}]
          /\ sync' = [sync EXCEPT ![l] = "succeeded"]
          /\ queue' = [queue EXCEPT ![l] = {}]
          /\ ev' = [ev EXCEPT ![m] =
                      IF queue[l] = {} THEN "succeeded" ELSE "processing"]
          /\ UNCHANGED <<tries, faults>>
       \/ /\ Fault /\ \E perm \in BOOLEAN : Fail({l}, By(m), perm)
          /\ UNCHANGED <<written, queue>>
    /\ Crosses({k \in {l} : queue[k] # {}})
    /\ UNCHANGED <<bound, rows, fl, lock, blind>>

\* The worker dies, perhaps after the call that made a row.
PipelineDies ==
    LET made == {l \in Leads : /\ pipe.pc = "ensure" /\ bound[l] = 0
                               /\ l \in About[pipe.msg]}
    IN
    /\ pipe # PipeIdle /\ Fault /\ pipe' = PipeIdle
    /\ rows' \in {rows} \cup {[rows EXCEPT ![l] = Min({@ + 1, MaxRows})] : l \in made}
    /\ blind' = blind \cup made
    /\ UNCHANGED <<ev, tries, sync, queue, bound, written, fl, lock, crossed>>

\* The lease of an event that nobody works on runs out.
Lapse(m) ==
    /\ ev[m] = "processing" /\ pipe.msg # m
    /\ ev' = [ev EXCEPT ![m] = "failed_pending_review"]
    /\ UNCHANGED <<tries, sync, queue, bound, rows, written, pipe, fl, lock,
                   faults, crossed, blind>>

------------------------------------------------------------------------------
(* The flush *)

FlushAt(f, pc) == fl[f].pc = pc

Pending == {l \in Leads : sync[l] = "batch_pending"}

\* The oldest queued leads, as many as one batch takes.
Oldest == {l \in Pending : Cardinality({k \in Pending : k < l}) < BatchSize}

\* Requests that hold no message that makes the lead cannot be restored.
Broken(l) == Creator(l) \notin queue[l]

\* Some leads of the message are in the batch, others are left in the queue.
Split(m, batch) ==
    /\ About[m] \cap batch # {}
    /\ \E l \in About[m] \ batch : sync[l] # "succeeded"

\* The batch is full or has waited long enough, and no other task has the lock.
FlushStarts(f) ==
    LET good == {l \in Oldest : ~Broken(l)}
        work == [l \in Leads |-> IF l \in good THEN queue[l] ELSE {}]
    IN
    /\ FlushAt(f, "idle") /\ lock = {} /\ Pending # {}
    /\ lock' = {f}
    /\ Crosses({l \in Leads : Split(Creator(l), good)})
    /\ fl' = [fl EXCEPT ![f] = [FlushIdle EXCEPT
                !.pc = IF good = Oldest THEN "look" ELSE "reject",
                !.batch = good, !.all = work, !.work = work,
                !.found = Oldest \ good]]
    /\ UNCHANGED <<ev, tries, sync, queue, bound, rows, written, pipe, faults,
                   blind>>

\* They fail for good, with the event of the message that made the lead.
FlushRejects(f) ==
    LET bad == fl[f].found  none == fl[f].batch = {} IN
    /\ FlushAt(f, "reject")
    /\ Fail(bad, ByCreator, TRUE)
    /\ fl' = [fl EXCEPT ![f] = IF none THEN FlushIdle
                               ELSE [@ EXCEPT !.pc = "look", !.found = {}]]
    /\ lock' = IF none THEN {} ELSE lock
    /\ UNCHANGED <<queue, bound, rows, written, pipe, faults, crossed, blind>>

\* Leads whose row is known need no search.
FlushLooks(f) ==
    /\ FlushAt(f, "look")
    /\ fl' = [fl EXCEPT ![f] = [@ EXCEPT
                !.pc = "find", !.open = {l \in fl[f].batch : bound[l] = 0}]]
    /\ UNCHANGED <<ev, tries, sync, queue, bound, rows, written, pipe, lock,
                   faults, crossed, blind>>

(* Mutant of Seen: only the look after a failed call counts.                *)
NothingSeen(ls) == {}

Seen(ls) == {l \in ls : rows[l] = 1}

\* _find_multi_smart_table_records before anything is made; two rows of a lead
\* are refused.
FlushFinds(f) ==
    LET open == fl[f].open IN
    /\ FlushAt(f, "find")
    /\ \/ /\ \A l \in open : rows[l] < 2
          /\ fl' = [fl EXCEPT ![f] = [@ EXCEPT
                      !.pc = "keep", !.found = Seen(open)]]
          /\ UNCHANGED <<ev, tries, sync, faults>>
       \/ /\ open # {}
          /\ \/ Fault /\ \E perm \in BOOLEAN : Fail(open, ByCreator, perm)
             \/ /\ \E l \in open : rows[l] > 1
                /\ Fail(open, ByCreator, TRUE) /\ UNCHANGED faults
          /\ fl' = [fl EXCEPT ![f].pc = "apply"]
    /\ UNCHANGED <<queue, bound, rows, written, pipe, lock, crossed, blind>>

\* _persist_multi_smart_table_record_ids; nothing else gives a row to a lead that a
\* flush still looks for, so its test for a different row is never met.
Bind(ls) ==
    /\ bound' = [l \in Leads |-> IF l \in ls THEN rows[l] ELSE bound[l]]
    /\ sync' = [l \in Leads |->
                  IF l \in ls /\ sync[l] \notin {"succeeded", "batch_pending"}
                  THEN "processing" ELSE sync[l]]

\* The exception ends the task.
FlushEnds(f) == fl' = [fl EXCEPT ![f] = FlushIdle] /\ lock' = {}

FlushKeeps(f) ==
    LET w == fl[f] IN
    /\ FlushAt(f, "keep") /\ Bind(w.found)
    /\ fl' = [fl EXCEPT ![f] = [w EXCEPT
                !.pc = "repair", !.open = w.open \ w.found,
                !.found = IF w.again THEN @ ELSE w.batch \ (w.open \ w.found)]]
    /\ UNCHANGED <<ev, tries, queue, rows, written, pipe, lock, faults, crossed, blind>>

\* _repair_multi_smart_table_members fills an empty owner, or fails.
FlushRepairs(f) ==
    LET w == fl[f]
        go == [fl EXCEPT ![f].pc = IF w.open = {} THEN "apply"
                                   ELSE IF w.again THEN "giveup" ELSE "create"]
    IN
    /\ FlushAt(f, "repair") /\ fl' = go
    /\ \/ UNCHANGED <<ev, tries, sync, faults>>
       \/ /\ w.found # {} /\ Fault
          /\ \E perm \in BOOLEAN : Fail(w.found, ByCreator, perm)
    /\ UNCHANGED <<queue, bound, rows, written, pipe, lock, crossed, blind>>

MoreRows(ls) == [l \in Leads |-> IF l \in ls THEN rows[l] + 1 ELSE rows[l]]

\* _call: an add that ends in an error is not sent again, and any of the rows
\* may be there; only an answer that cannot be read is permanent.
AddFailed(ls) == [pc : {"recover"}, made : SUBSET ls, perm : BOOLEAN]

\* create_records: rows made and read back, or made and acknowledged but read
\* back without the fields, or an error.
AddOutcomes(ls) ==
    [pc : {"settle", "unread"}, made : {ls}, perm : {FALSE}] \cup AddFailed(ls)

\* One call for all rows that are not there.
FlushCreates(f) ==
    LET open == fl[f].open IN
    /\ FlushAt(f, "create") /\ \A l \in open : rows[l] < MaxRows
    /\ \E o \in AddOutcomes(open) :
         /\ rows' = MoreRows(o.made)
         /\ fl' = [fl EXCEPT ![f].pc = o.pc, ![f].perm = o.perm]
         /\ IF o.pc = "settle" THEN UNCHANGED faults ELSE Fault
    /\ UNCHANGED <<ev, tries, sync, queue, bound, written, pipe, lock, crossed, blind>>

\* Rows that were made and read back are kept.
FlushSettles(f) ==
    /\ FlushAt(f, "settle") /\ Bind(fl[f].open)
    /\ fl' = [fl EXCEPT ![f].pc = "apply"]
    /\ UNCHANGED <<ev, tries, queue, rows, written, pipe, lock, faults, crossed, blind>>

\* A single row that was acknowledged and seen is kept with the failure, if the
\* model read its message; others are looked up.
FlushUnread(f) ==
    LET w == fl[f]
        single == Cardinality(w.open) = 1
                  /\ \A l \in w.open : Creator(l) \notin Plain
    IN
    /\ FlushAt(f, "unread")
    /\ \/ /\ single /\ Fail(w.open, ByCreator, FALSE)
          /\ bound' = [l \in Leads |-> IF l \in w.open THEN rows[l] ELSE bound[l]]
          /\ fl' = [fl EXCEPT ![f].pc = "apply"]
       \/ /\ fl' = [fl EXCEPT ![f].pc = "recover"]
          /\ UNCHANGED <<ev, tries, sync, bound>>
    /\ UNCHANGED <<queue, rows, written, pipe, lock, faults, crossed, blind>>

\* The look after a failed call; it may itself fail, or come too early.
FlushRecovers(f) ==
    LET w == fl[f] IN
    /\ FlushAt(f, "recover")
    /\ \/ /\ \E seen \in SUBSET {l \in w.open : rows[l] = 1} :
               fl' = [fl EXCEPT ![f] = [w EXCEPT
                        !.pc = "keep", !.again = TRUE, !.found = seen]]
          /\ UNCHANGED faults
       \/ /\ Fault
          /\ \E perm \in BOOLEAN :
               fl' = [fl EXCEPT ![f] = [w EXCEPT
                        !.pc = "keep", !.again = TRUE, !.found = {}, !.perm = perm]]
    /\ UNCHANGED <<ev, tries, sync, queue, bound, rows, written, pipe, lock, crossed, blind>>

FlushGivesUp(f) ==
    /\ FlushAt(f, "giveup")
    /\ Fail(fl[f].open, ByCreator, fl[f].perm)
    /\ fl' = [fl EXCEPT ![f].pc = "apply"]
    /\ UNCHANGED <<queue, bound, rows, written, pipe, lock, faults, crossed, blind>>

Todo(f) == {l \in Leads : fl[f].work[l] # {}}

\* The next request: leads by age, messages in their order.
NextLead(f) == Min(Todo(f))
NextMessage(f) == Min(fl[f].work[NextLead(f)])

Dropped(f) ==
    LET rest == fl[f].work[NextLead(f)] \ {NextMessage(f)}
    IN [fl EXCEPT ![f].pc = "apply", ![f].work[NextLead(f)] = rest]

\* A lead that failed, or that is no longer queued, is passed over.
StillQueued(l) == sync[l] = "batch_pending" /\ bound[l] # 0

\* A lead without the model is marked as in work before its fields are written.
FlushApplies(f) ==
    LET l == NextLead(f)  m == NextMessage(f) IN
    /\ FlushAt(f, "apply") /\ Todo(f) # {}
    /\ \/ ~StillQueued(l) /\ fl' = Dropped(f) /\ UNCHANGED sync
       \/ /\ StillQueued(l) /\ fl' = [fl EXCEPT ![f].pc = "write"]
          /\ sync' = IF m \in Plain THEN [sync EXCEPT ![l] = "processing"] ELSE sync
    /\ UNCHANGED <<ev, tries, queue, bound, rows, written, pipe, lock, faults,
                   crossed, blind>>

\* The fields of one message are written, or fail.
FlushWrites(f) ==
    LET l == NextLead(f)  m == NextMessage(f) IN
    /\ FlushAt(f, "write")
    /\ \/ /\ written' = [written EXCEPT ![l] = @ \cup {m}]
          /\ fl' = [fl EXCEPT ![f].pc = "applied"]
          /\ UNCHANGED <<ev, tries, sync, faults>>
       \/ /\ Fault /\ fl' = Dropped(f)
          /\ \E perm \in BOOLEAN : Fail({l}, By(m), perm)
          /\ UNCHANGED written
    /\ UNCHANGED <<queue, bound, rows, pipe, lock, crossed, blind>>

(* Mutant of IsLast: the first message of a lead completes it.              *)
AnyIsLast(f, l) == TRUE

IsLast(f, l) == Cardinality(fl[f].work[l]) = 1

\* The last request of the lead, as the flush has read them, completes its
\* synchronisation and empties the queue.
FlushApplied(f) ==
    LET l == NextLead(f)  m == NextMessage(f) IN
    /\ FlushAt(f, "applied")
    /\ sync' = [sync EXCEPT ![l] =
                  IF IsLast(f, l) THEN "succeeded" ELSE "batch_pending"]
    /\ queue' = IF IsLast(f, l) THEN [queue EXCEPT ![l] = {}] ELSE queue
    /\ ev' = [ev EXCEPT ![m] = "processing"]
    /\ fl' = Dropped(f)
    /\ UNCHANGED <<tries, bound, rows, written, pipe, lock, faults, crossed, blind>>

(* Mutant of Reconciled: a lead that is to be retried is taken for queued.  *)
ReconciledAsQueued(states) ==
    CASE states \cap {"pending", "processing"} # {} -> "processing"
      [] "failed_pending_review" \in states -> "failed_pending_review"
      [] states \cap {"batch_pending", "retrying"} # {} -> "batch_pending"
      [] OTHER -> "succeeded"

\* What the states of its leads in this flush make of an event.
Reconciled(states) ==
    CASE states \cap {"pending", "processing"} # {} -> "processing"
      [] "retrying" \in states -> "retrying"
      [] "failed_pending_review" \in states -> "failed_pending_review"
      [] "batch_pending" \in states -> "batch_pending"
      [] OTHER -> "succeeded"

\* _reconcile_smart_table_batch_events; the task ends.
FlushReconciles(f) ==
    LET of(m) == {l \in Leads : m \in fl[f].all[l]} IN
    /\ FlushAt(f, "apply") /\ Todo(f) = {}
    /\ ev' = [m \in Messages |->
                IF of(m) = {} THEN ev[m]
                ELSE Reconciled({sync[l] : l \in of(m)})]
    /\ FlushEnds(f)
    /\ UNCHANGED <<tries, sync, queue, bound, rows, written, pipe, faults, crossed, blind>>

FlusherDies(f) ==
    /\ ~FlushAt(f, "idle") /\ Fault /\ FlushEnds(f)
    /\ UNCHANGED <<ev, tries, sync, queue, bound, rows, written, pipe, crossed, blind>>

FlushStep(f) ==
    \/ FlushStarts(f) \/ FlushRejects(f) \/ FlushLooks(f) \/ FlushFinds(f)
    \/ FlushKeeps(f) \/ FlushRepairs(f) \/ FlushCreates(f) \/ FlushSettles(f)
    \/ FlushUnread(f) \/ FlushRecovers(f) \/ FlushGivesUp(f)
    \/ FlushApplies(f) \/ FlushWrites(f) \/ FlushApplied(f) \/ FlushReconciles(f)

PipeStep ==
    \/ \E m \in Messages : TakeNew(m) \/ Take(m) \/ Resume(m)
    \/ Enqueue \/ Ensure \/ Patch

Next ==
    \/ PipeStep \/ PipelineDies
    \/ \E m \in Messages : Lapse(m)
    \/ \E f \in Flushers : FlushStep(f) \/ FlusherDies(f)

Spec == Init /\ [][Next]_vars

(* Beat starts a flush again and again, a started one goes on, and so does  *)
(* the pipeline; leases run out.                                            *)
Fairness ==
    /\ WF_vars(PipeStep) /\ WF_vars(\E m \in Messages : Lapse(m))
    /\ WF_vars(\E f \in Flushers : FlushStep(f))

FairSpec == Spec /\ Fairness

------------------------------------------------------------------------------
(* Properties *)

(* A lead never has two rows, however often a call that made rows failed,   *)
(* was not answered or lost its worker: every later flush looks before it   *)
(* makes (_find_multi_smart_table_records). Only the row that               *)
(* _ensure_ai_review_record makes without a look is left out.               *)
OneRowPerLead == \A l \in Leads : l \notin blind => rows[l] <= 1

(* The fields of a message that waits for the batch are queued or in the    *)
(* row, and those of a message that is done are in the row of each of its   *)
(* leads, through failures, crashes and resumptions between the queueing    *)
(* and the last write (_enqueue_smart_table_batch_items,                    *)
(* flush_smart_table_batch, _reconcile_smart_table_batch_events); leads in  *)
(* crossed are left out.                                                    *)
PatchesKept ==
    \A m \in Messages : \A l \in About[m] \ crossed :
      /\ ev[m] = "batch_pending" => m \in queue[l] \cup written[l]
      /\ ev[m] = "succeeded" => m \in written[l]

(* In the end no lead waits for its row unless the event that made it is    *)
(* left to a person: a batch that failed is taken up again, as often as the *)
(* retries allow, and the oldest leads come first (consume_outbox_event,    *)
(* flush_smart_table_batch); leads in crossed are left out.                 *)
NoLeadForgotten ==
    \A l \in Leads :
      <>[](l \notin crossed /\ sync[l] \in {"pending", "batch_pending", "retrying"}
             => ev[Creator(l)] = "failed_pending_review")
=============================================================================
