--------------------------- MODULE Notifications ----------------------------
(***************************************************************************)
(* What one salesperson is told, and in which order: the receipts of their  *)
(* messages (app/messaging/service.py), the progress reports               *)
(* (LeadProgress), the daily reminder (app/leads/reminders.py), and the     *)
(* previews, cards and table link that answer a submission command          *)
(* (app/crm/commands.py), all delivered by the sender loop of Outbound.     *)
(***************************************************************************)
EXTENDS LeadProgress

CONSTANTS
    Scenarios,      \* settings, kinds of the messages, and faults
    Coalesce,       \* lead_receipt_coalesce_seconds
    DayLength, Evening, \* a day in ticks and when its reminders begin
    Pages,          \* candidate cards of a submission command
    LastArrival     \* bound: messages arrive until then

ASSUME NotificationsAssumption ==
    IsFiniteSet(Bots) /\ Coalesce \in Nat /\ Pages \in Nat \ {0}

VARIABLES
    submitted,      \* every lead of the salesperson has reached the CRM
    table,          \* contents of the Smart Table that a command reads
    cmd             \* consume_submission_command in progress

vars == <<note, bot, faults, conf, now, active, msg, p, sched, submitted, table, cmd>>

IdleCmd == [pc |-> "idle", of |-> 0, page |-> 0, ver |-> 0]

Verdicts == {"resolved", "plain", "ignored", "failed"}

TypeOK ==
    /\ \A k \in DOMAIN note :
        /\ note[k].st \in Settled \cup {"pending", "retrying", "processing"}
        /\ note[k].ids \subseteq Messages /\ note[k].told \subseteq note[k].ids
        /\ note[k].deps \subseteq DOMAIN note
        /\ (note[k].st = "processing") = (note[k].tok # 0)
    /\ \A m \in Messages : p.sof[m] \in 0..Len(p.ses)
    /\ Cardinality({s \in DOMAIN p.ses : p.ses[s].st = "active"}) <= 1

Init ==
    /\ note = [k \in {} |-> NewNote({})] /\ bot = [b \in Bots |-> IdleBot]
    /\ conf \in Scenarios /\ faults = conf.faults /\ now = 0 /\ active = TRUE
    /\ msg = [m \in Messages |-> [kind |-> "none", at |-> 0, ev |-> "none"]]
    /\ p = [st |-> [m \in Messages |-> "none"],
            sof |-> [m \in Messages |-> NoSession], ses |-> <<>>]
    /\ sched = [w \in Schedulers |-> IdleSched]
    /\ submitted = FALSE /\ table = 1 /\ cmd = IdleCmd

------------------------------------------------------------------------------
(* Intake *)

Receipts == {k \in DOMAIN note : k.type = "receipt"}

\* The receipt that still takes messages.
OpenReceipt == {k \in Receipts : note[k].st = "pending" /\ note[k].due > now}

\* _record_lead_receipt: the message joins the open receipt or gets one.
RecordReceipt(m) ==
    IF ~conf.receipts THEN UNCHANGED note
    ELSE IF OpenReceipt # {}
    THEN note' = [k \in DOMAIN note |->
                    IF k \in OpenReceipt THEN [note[k] EXCEPT !.ids = @ \cup {m}]
                    ELSE note[k]]
    ELSE AddNotes(One(Key("receipt", m, 0), [NewNote({m}) EXCEPT !.due = now + Coalesce]))

\* The m-th message of the salesperson.
Arrives(m, kind, ev) ==
    /\ msg[m].kind = "none" /\ now <= LastArrival
    /\ m <= Len(conf.kinds) /\ kind \in {conf.kinds[m], "refused"}
    /\ \A i \in 1..(m - 1) : msg[i].kind # "none"
    /\ msg' = [msg EXCEPT ![m] = [kind |-> kind, at |-> now, ev |-> ev]]

\* receive, for each event type.
ReceiveLead(m) ==
    /\ active /\ Arrives(m, "lead", "open")
    /\ RegisterDemand(m) /\ RecordReceipt(m)
    /\ UNCHANGED <<bot, faults, conf, now, active, sched, submitted, table, cmd>>

ReceiveIntent(m) ==
    /\ active /\ Arrives(m, "intent", "open")
    /\ RegisterCandidate(m)
    /\ UNCHANGED <<note, bot, faults, conf, now, active, sched, submitted, table, cmd>>

ReceiveCommand(m) ==
    /\ active /\ Arrives(m, "command", "open")
    /\ UNCHANGED <<note, bot, faults, conf, now, active, p, sched, submitted, table, cmd>>

\* _record_actor_inactive_notification: a notice and no message.
ReceiveInactive(m) ==
    /\ ~active /\ Arrives(m, "refused", "none")
    /\ AddNotes(One(Key("inactive", m, 0), NewNote({})))
    /\ UNCHANGED <<bot, faults, conf, now, active, p, sched, submitted, table, cmd>>

\* The pipeline (LeadOutbox) decides a message; most failures add a notice of
\* their own.
Settle(m) ==
    /\ msg[m].ev = "open" /\ msg[m].kind \in {"lead", "intent"}
    /\ \E v \in Verdicts, told \in BOOLEAN :
        /\ v = "plain" => msg[m].kind = "intent" /\ p.st[m] = "awaiting"
        /\ told => v \in {"failed", "plain"}
        /\ v = "plain" => told
        /\ msg' = [msg EXCEPT ![m].ev = v]
        /\ IF told THEN AddNotes(One(Key(v, m, 0), NewNote({m}))) ELSE UNCHANGED note
    /\ UNCHANGED <<bot, faults, conf, now, active, p, sched, submitted, table, cmd>>

------------------------------------------------------------------------------
(* The answer to a submission command *)

\* Previews and cards of command m, in the order in which they were created.
Chain(m) == {k \in DOMAIN note : k.type \in {"preview", "card"} /\ k.of = m}
Before(j, k) ==
    \/ j.type = k.type /\ j.no < k.no
    \/ j.type = "preview" /\ k.type \in {"card", "link"}
    \/ j.type = "card" /\ k.type = "link"

NeverPrepared(m) == FALSE

\* _submission_delivery_was_prepared: some card has its dependencies.
Prepared(m) == \E k \in Chain(m) : k.type = "card" /\ ~note[k].held

CommandStarts(m) ==
    /\ msg[m].kind = "command" /\ msg[m].ev = "open" /\ cmd.pc = "idle"
    /\ cmd' = [pc |-> IF Prepared(m) THEN "link" ELSE "issue",
               of |-> m, page |-> 1, ver |-> table]
    /\ UNCHANGED <<note, bot, faults, conf, now, active, msg, p, sched, submitted, table>>

\* issue_batch_submission_action of one page, withheld from delivery.  Its key
\* depends on the candidates read.
IssuePage ==
    LET no == (cmd.ver - 1) * Pages + cmd.page
        ks == {Key("preview", cmd.of, no), Key("card", cmd.of, no)}
    IN /\ cmd.pc = "issue"
       /\ AddNotes([k \in ks |-> [NewNote({}) EXCEPT !.held = TRUE]])
       /\ cmd' = IF cmd.page < Pages THEN [cmd EXCEPT !.page = @ + 1]
                 ELSE [cmd EXCEPT !.pc = "link"]
       /\ UNCHANGED <<bot, faults, conf, now, active, msg, p, sched, submitted, table>>

\* The one just before k.
Previous(k, C) ==
    {j \in C : Before(j, k) /\ ~\E i \in C : Before(j, i) /\ Before(i, k)}

\* _queue_submission_table_link: everything issued becomes deliverable, each
\* after the one before it, and the link after the last.
QueueTableLink ==
    LET C    == Chain(cmd.of)
        link == Key("link", cmd.of, 0)
        chained == [k \in DOMAIN note |->
                       IF k \in C THEN [note[k] EXCEPT !.held = FALSE,
                                                       !.deps = Previous(k, C)]
                       ELSE note[k]]
    IN /\ cmd.pc = "link"
       /\ note' = IF link \in DOMAIN note THEN chained
                  ELSE [k \in DOMAIN note \cup {link} |->
                          IF k = link
                          THEN [NewNote({}) EXCEPT !.deps = Previous(link, C)]
                          ELSE chained[k]]
       /\ cmd' = [cmd EXCEPT !.pc = "reply"]
       /\ UNCHANGED <<bot, faults, conf, now, active, msg, p, sched, submitted, table>>

\* The event is settled and the reply queued in one transaction.
CommandEnds ==
    /\ cmd.pc = "reply" /\ cmd' = IdleCmd
    /\ msg' = [msg EXCEPT ![cmd.of].ev = "plain"]
    /\ AddNotes(One(Key("reply", cmd.of, 0), NewNote({})))
    /\ UNCHANGED <<bot, faults, conf, now, active, p, sched, submitted, table>>

\* The worker is lost or the command fails: it runs again from its start.
CommandLost ==
    /\ cmd.pc # "idle" /\ Fault /\ cmd' = IdleCmd
    /\ UNCHANGED <<note, bot, conf, now, active, msg, p, sched, submitted, table>>

\* _record_command_failure after the last attempt.
CommandFails ==
    /\ cmd.pc = "issue" /\ Fault /\ cmd' = IdleCmd
    /\ msg' = [msg EXCEPT ![cmd.of].ev = "failed"]
    /\ AddNotes(One(Key("terminal", cmd.of, 0), NewNote({})))
    /\ UNCHANGED <<bot, conf, now, active, p, sched, submitted, table>>

------------------------------------------------------------------------------
(* Reminders *)

Today == now \div DayLength

\* _unsubmitted_lead_count.
Owing(day) == ~submitted /\ \E m \in Messages : msg[m].ev = "resolved"
                                              /\ msg[m].at \div DayLength = day

\* daily_reminder_is_current.
ReminderIsCurrent(k) == k.of = Today /\ active /\ Owing(Today)

\* schedule_due_reminders: one row a day, from the evening on.
Remind ==
    LET k == Key("reminder", Today, 0)
    IN /\ now % DayLength >= Evening /\ active /\ Owing(Today)
       /\ k \notin DOMAIN note
       /\ AddNotes(One(k, NewNote({})))
       /\ UNCHANGED <<bot, faults, conf, now, active, msg, p, sched, submitted, table, cmd>>

------------------------------------------------------------------------------
(* Sending *)

world == <<conf, now, active, msg, p, sched, submitted, table, cmd>>

Outdated(k) == \/ k.type = "summary" /\ ~active
               \/ k.type = "reminder" /\ ~ReminderIsCurrent(k)

TryNote(b) ==
    /\ bot[b].pc = "idle" /\ b \in conf.bots
    /\ \E k \in DOMAIN note :
        /\ Claimable(k, now)
        /\ IF Outdated(k) THEN Suppress(k) ELSE Claim(b, k)
    /\ UNCHANGED world

AllFailed(b) == \A m \in bot[b].ids : msg[m].ev = "failed"

\* _receipt_content: every message of the receipt has failed and has a notice
\* of its own that is not lost.
ToldOtherwise(b) ==
    \A m \in bot[b].ids :
        /\ msg[m].ev = "failed"
        /\ Key("failed", m, 0) \in DOMAIN note
        /\ note[Key("failed", m, 0)].st \notin {"failed", "suppressed"}

SendReceiptOrSuppress(b) ==
    /\ bot[b].pc = "claimed"
    /\ IF InHand(b).type = "receipt" /\ ToldOtherwise(b)
       THEN SuppressClaimed(b) ELSE SendSucceeds(b)
    /\ UNCHANGED world

Send(b) == \/ TryNote(b)
           \/ SendReceiptOrSuppress(b)
           \/ SendFails(b) /\ UNCHANGED world
           \/ RecordSent(b) /\ UNCHANGED world

ExpireLease == (\E k \in DOMAIN note : NoteLeaseExpires(k)) /\ UNCHANGED world

Crash == (\E b \in Bots : BotCrashes(b)) /\ UNCHANGED world

------------------------------------------------------------------------------
(* Environment *)

Tick ==
    /\ now < MaxTime /\ now' = now + 1
    /\ UNCHANGED <<note, bot, faults, conf, active, msg, p, sched, submitted, table, cmd>>

\* Counted with the faults.
Withdraw ==
    /\ active /\ active' = FALSE /\ Fault
    /\ UNCHANGED <<note, bot, conf, now, msg, p, sched, submitted, table, cmd>>

\* It makes a difference to reminders only.
Submit ==
    /\ ~submitted /\ submitted' = TRUE
    /\ \E k \in DOMAIN note : k.type = "reminder"
    /\ UNCHANGED <<note, bot, faults, conf, now, active, msg, p, sched, table, cmd>>

TableChanges ==
    /\ table = 1 /\ table' = 2
    /\ \E m \in Messages : msg[m].kind = "command" /\ msg[m].ev = "open"
    /\ UNCHANGED <<note, bot, faults, conf, now, active, msg, p, sched, submitted, cmd>>

Besides == UNCHANGED <<submitted, table, cmd>>

Receive(m) == ReceiveLead(m) \/ ReceiveIntent(m) \/ ReceiveCommand(m) \/ ReceiveInactive(m)

Decide(m) == Settle(m) \/ (Activate(m) /\ Besides) \/ (RecordResolved(m) /\ Besides)

Schedule(w) == (ScheduleScan(w) \/ ScheduleReport(w)) /\ Besides

Command == IssuePage \/ QueueTableLink \/ CommandEnds
           \/ \E m \in Messages : CommandStarts(m)

Next ==
    \/ \E m \in Messages : Receive(m) \/ Decide(m)
    \/ \E w \in Schedulers : Schedule(w) \/ (SchedulerCrashes(w) /\ Besides)
    \/ Command \/ CommandLost \/ CommandFails \/ Remind
    \/ \E b \in Bots : Send(b)
    \/ ExpireLease \/ Crash
    \/ Tick \/ Withdraw \/ Submit \/ TableChanges

Spec == Init /\ [][Next]_vars

\* The clock goes on, Beat schedules for ever, the pipeline decides every
\* message, a lost command is run again, the loop of the bot never ends and a
\* lease runs out.
FairSpec ==
    /\ Spec
    /\ WF_vars(Tick) /\ WF_vars(ExpireLease) /\ WF_vars(Command)
    /\ WF_vars(\E m \in Messages : Settle(m))
    /\ \A w \in Schedulers : WF_vars(Schedule(w))
    /\ \A b \in Bots : WF_vars(Send(b))

------------------------------------------------------------------------------
(* Properties *)

\* No message is counted in two progress reports, whatever is recovered,
\* re-anchored, skipped or scheduled twice (schedule_due_reports).
OneReportPerMessage ==
    \A j, k \in {x \in DOMAIN note : x.type = "summary"} :
        j # k => note[j].ids \cap note[k].ids = {}

\* A card is delivered after every preview of its command, the link after
\* every card, across pages, replays, retries and bots (depends_on).
DeliveredInOrder ==
    \A j, k \in DOMAIN note :
        j.of = k.of /\ k.type \in {"preview", "card", "link"} /\ Before(j, k)
        /\ note[k].sent => note[j].sent

\* Once a command's cards may be delivered, no replay of it adds another
\* ("不能因表格快照改变而再发行卡片或追加", prepare_batch_submission_selection).
ChainIsFrozen ==
    [][\A m \in Messages :
        (\E k \in Chain(m) : k.type = "card" /\ ~note[k].held) => Chain(m)' = Chain(m)]_vars

\* Behind a notice that the provider refused for good.
Blocked(k) == \E j \in DOMAIN note : j.of = k.of /\ note[j].st = "failed" /\ Before(j, k)

\* In the end every notice is settled, except those of a type the sender does
\* not know, those never released by a command that failed for good, and those
\* behind a refused one; and every session is closed.
EverythingEnds ==
    <>[](/\ \A k \in DOMAIN note : \/ note[k].st \in Settled \/ ~Supported(k)
                                   \/ Blocked(k)
                                   \/ note[k].held /\ msg[k.of].ev = "failed"
         /\ ActiveSession(p) = NoSession)

\* With receipts enabled, every accepted lead message is acknowledged by a receipt or by a notice of
\* its failure, unless the provider refuses that notice for good.
EveryMessageAcknowledged ==
    conf.receipts => <>[](\A m \in Messages : msg[m].kind = "lead" =>
            \E k \in DOMAIN note : /\ k.type \in {"receipt", "failed"}
                                   /\ \/ m \in note[k].told
                                      \/ m \in note[k].ids /\ note[k].st = "failed")
==============================================================================
