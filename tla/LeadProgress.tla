---------------------------- MODULE LeadProgress ----------------------------
(***************************************************************************)
(* The progress reports of one salesperson (app/leads/progress.py).  Demand *)
(* messages are attached to the active session when they are received, or  *)
(* later when a submission-like text turns out to be demand; a scheduler    *)
(* reports the messages of each half-open window of Interval ticks once,    *)
(* skips windows that are long past, and closes a session after an empty    *)
(* one.  A tick stands for the clock's resolution.                          *)
(***************************************************************************)
EXTENDS Outbound

CONSTANTS
    NMsg,           \* number of messages
    Interval,       \* lead_progress_interval_minutes
    Schedulers,     \* Celery workers that may run the schedule task
    MaxTime         \* bound: the clock stops there

VARIABLES
    conf,           \* the settings of the deployment
    now,            \* the clock
    active,         \* SalesAuthorization.is_active
    msg,            \* IncomingMessage and its OutboxEvent
    p,              \* LeadProgressMessage and LeadProgressSession rows
    sched           \* schedule_due_reports in progress

Messages == 1..NMsg

ASSUME ProgressAssumption ==
    NMsg \in Nat /\ Interval \in Nat \ {0} /\ MaxTime \in Nat

NoSession == 0
Session(at) == [st |-> "active", start |-> at, next |-> at + Interval]
IdleSched == [pc |-> "idle", at |-> 0, ses |-> NoSession]

\* The summary notices of session s.
Summaries(s) == {k \in DOMAIN note : k.type = "summary" /\ k.of = s}

ActiveSession(q) ==
    IF \E s \in DOMAIN q.ses : q.ses[s].st = "active"
    THEN CHOOSE s \in DOMAIN q.ses : q.ses[s].st = "active" ELSE NoSession

AlwaysReanchor(s) == TRUE

\* A session keeps its windows once it has reported.
MayReanchor(s) == Summaries(s) = {}

------------------------------------------------------------------------------
(* Message candidates *)

\* _attach_progress_message: the active session or a new one; an earlier
\* message moves the start of a session that has not reported.
Attach(q, m, at) ==
    LET s  == ActiveSession(q)
        n  == Len(q.ses) + 1
        ses == IF s = NoSession THEN Append(q.ses, Session(at))
               ELSE IF at < q.ses[s].start /\ MayReanchor(s)
               THEN [q.ses EXCEPT ![s].start = at, ![s].next = at + Interval]
               ELSE q.ses
    IN [st  |-> [q.st EXCEPT ![m] = "processing"],
        sof |-> [q.sof EXCEPT ![m] = IF s = NoSession THEN n ELSE s],
        ses |-> ses]

\* register_progress_message, in the transaction that receives the message.
RegisterDemand(m) == p' = IF conf.progress THEN Attach(p, m, now) ELSE p

\* register_progress_intent_candidate: no session before the text is known to
\* be demand.
RegisterCandidate(m) == p' = IF conf.progress THEN [p EXCEPT !.st[m] = "awaiting"] ELSE p

\* activate_progress_intent_candidate.
Activate(m) ==
    /\ p.st[m] = "awaiting" /\ msg[m].ev = "open" /\ active
    /\ p' = Attach(p, m, msg[m].at)
    /\ UNCHANGED <<note, bot, faults, conf, now, active, msg, sched>>

Remaining(q, s) == {m \in Messages : q.sof[m] = s /\ q.st[m] # "ignored"}

First(q, M) == CHOOSE t \in {msg[m].at : m \in M} : \A m \in M : t <= msg[m].at

\* _reanchor_or_close_empty_session, after a message of s was ignored.
Reanchor(q, s) ==
    LET M == Remaining(q, s)
    IN IF s = NoSession THEN q
       ELSE IF q.ses[s].st # "active" \/ ~MayReanchor(s) THEN q
       ELSE IF M = {} THEN [q EXCEPT !.ses[s].st = "closed"]
       ELSE [q EXCEPT !.ses[s].start = First(q, M),
                      !.ses[s].next = First(q, M) + Interval]

Include(q, m) == [q EXCEPT !.st[m] = "included"]
Ignore(q, m)  == Reanchor([q EXCEPT !.st[m] = "ignored"], q.sof[m])

\* record_resolved_message, which the pipeline calls after the verdict of a
\* message; a worker lost in between leaves it to the scheduler.
RecordResolved(m) ==
    /\ p.st[m] \in {"awaiting", "processing"} /\ active
    /\ msg[m].ev \in {"resolved", "ignored"}
    /\ p' = IF msg[m].ev = "ignored" THEN Ignore(p, m)
            ELSE IF p.st[m] = "awaiting" THEN Include(Attach(p, m, msg[m].at), m)
            ELSE Include(p, m)
    /\ UNCHANGED <<note, bot, faults, conf, now, active, msg, sched>>

\* One candidate of recover_pending_messages, decided by its Outbox event.
RecoverOne(q, m) ==
    IF q.st[m] = "awaiting" /\ msg[m].ev # "open" THEN
        IF msg[m].ev = "resolved" /\ active
        THEN Include(Attach(q, m, msg[m].at), m) ELSE [q EXCEPT !.st[m] = "ignored"]
    ELSE IF q.st[m] = "processing" /\ msg[m].ev # "open" THEN
        IF msg[m].ev \in {"ignored", "plain"} THEN Ignore(q, m) ELSE Include(q, m)
    ELSE q

\* recover_pending_messages: every candidate in the order of its creation.
Recovery[i \in 0..NMsg] == IF i = 0 THEN p ELSE RecoverOne(Recovery[i - 1], i)
Recovered == Recovery[NMsg]

------------------------------------------------------------------------------
(* schedule_due_reports *)

\* The sessions a scan takes up.  Idle sessions are taken up too, but left
\* alone unless they are due.
DueSession(q, s) == q.ses[s].st = "active" /\ (q.ses[s].next <= now \/ ~active)

\* Recovery, then the scan; the time and the session are used later, in a
\* transaction of their own, after the Smart Table was read.
ScheduleScan(w) ==
    /\ sched[w].pc = "idle" /\ conf.progress
    /\ LET q == Recovered
           due == {s \in DOMAIN q.ses : DueSession(q, s)}
       IN /\ p' = q
          /\ IF due = {} THEN q # p /\ UNCHANGED sched
             ELSE sched' = [sched EXCEPT ![w] = [pc |-> "report", at |-> now,
                                ses |-> CHOOSE s \in due : TRUE]]
    /\ UNCHANGED <<note, bot, faults, conf, now, active, msg>>

\* _calculate_stats: the messages of the half-open window before its end.
InWindow(s) ==
    {m \in Messages : /\ p.sof[m] = s /\ p.st[m] \notin {"ignored", "awaiting"}
                      /\ p.ses[s].next - Interval <= msg[m].at
                      /\ msg[m].at < p.ses[s].next}

Later(s) == {m \in Messages : /\ p.sof[m] = s /\ p.st[m] \notin {"ignored", "awaiting"}
                              /\ msg[m].at >= p.ses[s].next}

\* Windows that ended more than one interval ago are skipped.
SkippedTo(end, at) == end + ((at - end - 1) \div Interval) * Interval

Set(s, field, value) == p' = [p EXCEPT !.ses[s][field] = value]

Withdrawn(s) == ~active /\ Set(s, "st", "disabled") /\ UNCHANGED note

NotDue(s, at) == active /\ p.ses[s].next > at /\ UNCHANGED <<p, note>>

SkipWindows(s, at) ==
    /\ active /\ at > p.ses[s].next + Interval
    /\ Set(s, "next", SkippedTo(p.ses[s].next, at))
    /\ UNCHANGED note

Current(s, at) == active /\ p.ses[s].next \in (at - Interval)..at

MoveOn(s) == [p EXCEPT !.ses[s].next = @ + Interval]

\* An empty window waits for the next message or closes the session.
AfterEmptyWindow(s) ==
    IF Later(s) # {} THEN [p EXCEPT !.ses[s].next = First(p, Later(s)) + Interval]
    ELSE [p EXCEPT !.ses[s].st = "closed"]

EmptyWindow(s, at) ==
    /\ Current(s, at) /\ InWindow(s) = {}
    /\ p' = AfterEmptyWindow(s) /\ UNCHANGED note

ReportWindow(s, at) ==
    /\ Current(s, at) /\ InWindow(s) # {}
    /\ AddNotes(One(Key("summary", s, p.ses[s].next), NewNote(InWindow(s))))
    /\ p' = MoveOn(s)

\* The transaction of one session, under the locks of the salesperson and of
\* the session.
ScheduleReport(w) ==
    LET s == sched[w].ses
        at == sched[w].at
    IN /\ sched[w].pc = "report"
       /\ sched' = [sched EXCEPT ![w] = IdleSched]
       /\ \/ p.ses[s].st # "active" /\ UNCHANGED <<p, note>>
          \/ /\ p.ses[s].st = "active"
             /\ \/ Withdrawn(s) \/ NotDue(s, at) \/ SkipWindows(s, at)
                \/ EmptyWindow(s, at) \/ ReportWindow(s, at)
       /\ UNCHANGED <<bot, faults, conf, now, active, msg>>

SchedulerCrashes(w) ==
    /\ sched[w].pc = "report" /\ Fault
    /\ sched' = [sched EXCEPT ![w] = IdleSched]
    /\ UNCHANGED <<note, bot, conf, now, active, msg, p>>
==============================================================================
