------------------------ MODULE NotificationsProofs --------------------------
(****************************************************************************)
(* Machine-checked proofs about Notifications, for every number of          *)
(* messages, of pages and of sender loops, every length of the reporting    *)
(* interval and every set of schedulers: the previews, cards and table      *)
(* link of a command are delivered in their order and are not added to once *)
(* they may be delivered, and no message is counted in two reports.         *)
(*                                                                          *)
(* For the order, the rows of a command are withheld or chained as a whole, *)
(* and a row that a bot has touched has everything before it behind it.     *)
(* For the reports, the windows of a session do not overlap, and a message  *)
(* that was counted stays with its session.                                 *)
(****************************************************************************)
EXTENDS Notifications, FiniteSetTheorems, TLAPS

States == Settled \cup {"pending", "retrying", "processing"}

(* A row, whose dependencies are among the rows of K. *)
NoteState(K) ==
    [st : States, tok : Nat, lease : {"none", "live", "expired"}, held : BOOLEAN,
     deps : SUBSET K, ids : SUBSET Messages, due : Nat, sent : BOOLEAN,
     told : SUBSET Messages]

BotState(K) ==
    [pc : {"idle", "claimed", "sent"}, key : K \cup {NoKey}, tok : Nat,
     ids : SUBSET Messages]

CmdState ==
    [pc : {"idle", "issue", "link", "reply"}, of : Messages \cup {0},
     page : 0..Pages, ver : {0, 1, 2}]

NotesTyped == note \in [DOMAIN note -> NoteState(DOMAIN note)]
BotsTyped == bot \in [Bots -> BotState(DOMAIN note)]
CmdTyped ==
    /\ table \in {1, 2} /\ cmd \in CmdState
    /\ cmd.pc # "idle" => cmd.of \in Messages
    /\ cmd.pc = "issue" => cmd.page > 0 /\ cmd.ver > 0

(* A bot that is not idle has a row and a token in hand. *)
HandsFull == \A b \in Bots : bot[b].pc # "idle" => bot[b].key \in DOMAIN note /\ bot[b].tok # 0

Typed == NotesTyped /\ BotsTyped /\ CmdTyped /\ HandsFull /\ now \in Nat

-----------------------------------------------------------------------------
(* Types of the rows *)

LEMMA NewNoteTyped ==
  ASSUME NEW ids \in SUBSET Messages
  PROVE  NewNote(ids) \in NoteState({})
BY DEF NewNote, NoteState, States

LEMMA NoteStateGrows ==
  ASSUME NEW K, NEW L, K \subseteq L
  PROVE  NoteState(K) \subseteq NoteState(L)
BY DEF NoteState

LEMMA BotStateGrows ==
  ASSUME NEW K, NEW L, K \subseteq L
  PROVE  BotState(K) \subseteq BotState(L)
BY DEF BotState

(* What neither claims, sends nor records anything, and releases no row:    *)
(* rows keep their place in the chain and new ones are of other kinds.      *)
InChain(k) == k.type \in {"preview", "card", "link"}

Quiet ==
    /\ DOMAIN note \subseteq DOMAIN note'
    /\ \A k \in DOMAIN note :
         /\ note'[k].st = note[k].st /\ note'[k].tok = note[k].tok
         /\ note'[k].held = note[k].held /\ note'[k].deps = note[k].deps
         /\ note'[k].sent = note[k].sent /\ note'[k].told = note[k].told
         /\ note[k].ids \subseteq note'[k].ids
    /\ \A k \in DOMAIN note' \ DOMAIN note :
         /\ ~InChain(k) /\ note'[k].st = "pending" /\ note'[k].tok = 0
         /\ note'[k].sent = FALSE /\ note'[k].told = {}

LEMMA AddKeepsTypes ==
  ASSUME NotesTyped, NEW new, AddNotes(new),
         \A k \in DOMAIN new : new[k] \in NoteState(DOMAIN note')
  PROVE  NotesTyped' /\ DOMAIN note' = DOMAIN note \cup DOMAIN new
<1> DEFINE K == DOMAIN note \cup DOMAIN new
<1>1. note' = [k \in K |-> IF k \in DOMAIN note THEN note[k] ELSE new[k]]
  BY DEF AddNotes
<1>2. DOMAIN note' = K
  BY <1>1
<1>3. \A k \in DOMAIN note : note[k] \in NoteState(K)
  <2>1. NoteState(DOMAIN note) \subseteq NoteState(K)
    BY NoteStateGrows
  <2> QED
    BY <2>1 DEF NotesTyped
<1>4. \A k \in DOMAIN new : new[k] \in NoteState(K)
  BY <1>2
<1>5. note' \in [K -> NoteState(K)]
  BY <1>1, <1>3, <1>4
<1> QED
  BY <1>2, <1>5 DEF NotesTyped

LEMMA AddOne ==
  ASSUME NotesTyped, NEW k, NEW n \in NoteState({}), AddNotes(One(k, n))
  PROVE  /\ NotesTyped' /\ DOMAIN note' = DOMAIN note \cup {k}
         /\ \A j \in DOMAIN note : note'[j] = note[j]
         /\ k \notin DOMAIN note => note'[k] = n
<1>1. DOMAIN One(k, n) = {k} /\ One(k, n)[k] = n
  BY DEF One
<1>2. NoteState({}) \subseteq NoteState(DOMAIN note')
  BY NoteStateGrows
<1>3. NotesTyped' /\ DOMAIN note' = DOMAIN note \cup {k}
  BY <1>1, <1>2, AddKeepsTypes
<1>4. note' = [x \in DOMAIN note \cup {k} |-> IF x \in DOMAIN note THEN note[x] ELSE One(k, n)[x]]
  BY <1>1 DEF AddNotes
<1> QED
  BY <1>1, <1>3, <1>4

(* Any new row but those of a chain. *)
LEMMA AddQuietly ==
  ASSUME NotesTyped, NEW k, NEW n \in NoteState({}), AddNotes(One(k, n)),
         ~InChain(k), n.st = "pending", n.tok = 0, n.sent = FALSE, n.told = {}
  PROVE  NotesTyped' /\ Quiet
BY AddOne DEF Quiet

LEMMA AddNewQuietly ==
  ASSUME NotesTyped, NEW k, NEW ids \in SUBSET Messages, AddNotes(One(k, NewNote(ids))),
         ~InChain(k)
  PROVE  NotesTyped' /\ Quiet
<1>1. NewNote(ids) \in NoteState({})
  BY NewNoteTyped
<1>2. NewNote(ids).st = "pending" /\ NewNote(ids).tok = 0 /\ NewNote(ids).sent = FALSE
      /\ NewNote(ids).told = {}
  BY DEF NewNote
<1> QED
  BY <1>1, <1>2, AddQuietly

LEMMA SameNotes ==
  ASSUME NotesTyped, note' = note
  PROVE  NotesTyped' /\ Quiet
BY DEF NotesTyped, Quiet

LEMMA ReceiptQuiet ==
  ASSUME NotesTyped, NEW m \in Messages, RecordReceipt(m), now \in Nat
  PROVE  NotesTyped' /\ Quiet
<1>1. CASE ~conf.receipts
  BY <1>1, SameNotes DEF RecordReceipt
<1>2. CASE conf.receipts /\ OpenReceipt # {}
  <2>1. note' = [k \in DOMAIN note |->
                    IF k \in OpenReceipt THEN [note[k] EXCEPT !.ids = @ \cup {m}]
                    ELSE note[k]]
    BY <1>2 DEF RecordReceipt
  <2>2. DOMAIN note' = DOMAIN note
    BY <2>1
  <2>3. ASSUME NEW k \in DOMAIN note
        PROVE  /\ note'[k] \in NoteState(DOMAIN note)
               /\ note'[k].st = note[k].st /\ note'[k].tok = note[k].tok
               /\ note'[k].held = note[k].held /\ note'[k].deps = note[k].deps
               /\ note'[k].sent = note[k].sent /\ note'[k].told = note[k].told
               /\ note[k].ids \subseteq note'[k].ids
    <3>1. note[k] \in NoteState(DOMAIN note)
      BY DEF NotesTyped
    <3>2. note'[k] = [note[k] EXCEPT !.ids = @ \cup {m}] \/ note'[k] = note[k]
      BY <2>1
    <3> QED
      BY <3>1, <3>2 DEF NoteState
  <2>4. note' \in [DOMAIN note -> NoteState(DOMAIN note)]
    BY <2>1, <2>2, <2>3
  <2>5. NotesTyped'
    BY <2>2, <2>4 DEF NotesTyped
  <2>6. DOMAIN note' \ DOMAIN note = {}
    BY <2>2
  <2> QED
    BY <2>2, <2>3, <2>5, <2>6 DEF Quiet
<1>3. CASE conf.receipts /\ OpenReceipt = {}
  <2> DEFINE n == [NewNote({m}) EXCEPT !.due = now + Coalesce]
             k == Key("receipt", m, 0)
  <2>1. AddNotes(One(k, n))
    BY <1>3 DEF RecordReceipt
  <2>2. NewNote({m}) \in NoteState({})
    BY NewNoteTyped
  <2>3. n \in NoteState({})
    <3>1. now + Coalesce \in Nat
      BY NotificationsAssumption
    <3> QED
      BY <2>2, <3>1 DEF NoteState, NewNote, States
  <2>4. n.st = "pending" /\ n.tok = 0 /\ n.sent = FALSE /\ n.told = {}
    BY DEF NewNote
  <2>5. ~InChain(k)
    BY DEF InChain, Key
  <2> QED
    BY <2>1, <2>3, <2>4, <2>5, AddQuietly
<1> QED
  BY <1>1, <1>2, <1>3


(* One row is rewritten. *)
LEMMA RowBecomes ==
  ASSUME NotesTyped, NEW k \in DOMAIN note, NEW n \in NoteState(DOMAIN note),
         note' = [note EXCEPT ![k] = n]
  PROVE  /\ NotesTyped' /\ DOMAIN note' = DOMAIN note /\ note'[k] = n
         /\ \A j \in DOMAIN note : j # k => note'[j] = note[j]
<1>1. DOMAIN note' = DOMAIN note
  OBVIOUS
<1>2. note' \in [DOMAIN note -> NoteState(DOMAIN note)]
  BY DEF NotesTyped
<1>3. NotesTyped'
  BY <1>1, <1>2 DEF NotesTyped
<1> QED
  BY <1>1, <1>3 DEF NotesTyped

(* The state, token and lease of a row change. *)
LEMMA RowSettles ==
  ASSUME NotesTyped, NEW k \in DOMAIN note, NEW s \in States, NEW t \in Nat,
         NEW l \in {"none", "live", "expired"},
         note' = [note EXCEPT ![k].st = s, ![k].tok = t, ![k].lease = l]
  PROVE  /\ NotesTyped' /\ DOMAIN note' = DOMAIN note
         /\ note'[k].st = s /\ note'[k].tok = t
         /\ note'[k].held = note[k].held /\ note'[k].deps = note[k].deps
         /\ note'[k].sent = note[k].sent /\ note'[k].ids = note[k].ids
         /\ note'[k].told = note[k].told
         /\ \A j \in DOMAIN note : j # k => note'[j] = note[j]
<1> DEFINE n == [note[k] EXCEPT !.st = s, !.tok = t, !.lease = l]
<1>1. note[k] \in NoteState(DOMAIN note)
  BY DEF NotesTyped
<1>2. n \in NoteState(DOMAIN note) /\ n.st = s /\ n.tok = t
      /\ n.held = note[k].held /\ n.deps = note[k].deps /\ n.sent = note[k].sent
      /\ n.ids = note[k].ids /\ n.told = note[k].told
  BY <1>1 DEF NoteState
<1>3. note' = [note EXCEPT ![k] = n]
  OBVIOUS
<1> HIDE DEF n
<1> QED
  BY <1>2, <1>3, RowBecomes

LEMMA RowSent ==
  ASSUME NotesTyped, NEW k \in DOMAIN note, NEW ids \in SUBSET Messages,
         note' = [note EXCEPT ![k].sent = TRUE, ![k].told = ids]
  PROVE  /\ NotesTyped' /\ DOMAIN note' = DOMAIN note
         /\ note'[k].st = note[k].st /\ note'[k].tok = note[k].tok
         /\ note'[k].held = note[k].held /\ note'[k].deps = note[k].deps
         /\ note'[k].sent = TRUE /\ note'[k].ids = note[k].ids /\ note'[k].told = ids
         /\ \A j \in DOMAIN note : j # k => note'[j] = note[j]
<1> DEFINE n == [note[k] EXCEPT !.sent = TRUE, !.told = ids]
<1>1. note[k] \in NoteState(DOMAIN note)
  BY DEF NotesTyped
<1>2. n \in NoteState(DOMAIN note) /\ n.st = note[k].st /\ n.tok = note[k].tok
      /\ n.held = note[k].held /\ n.deps = note[k].deps /\ n.sent = TRUE
      /\ n.ids = note[k].ids /\ n.told = ids
  BY <1>1 DEF NoteState
<1>3. note' = [note EXCEPT ![k] = n]
  OBVIOUS
<1> HIDE DEF n
<1> QED
  BY <1>2, <1>3, RowBecomes

LEMMA ExpiryQuiet ==
  ASSUME NotesTyped, NEW k \in DOMAIN note, NoteLeaseExpires(k)
  PROVE  NotesTyped' /\ Quiet
<1> DEFINE n == [note[k] EXCEPT !.lease = "expired"]
<1>1. note[k] \in NoteState(DOMAIN note)
  BY DEF NotesTyped
<1>2. n \in NoteState(DOMAIN note) /\ n.st = note[k].st /\ n.tok = note[k].tok
      /\ n.held = note[k].held /\ n.deps = note[k].deps /\ n.sent = note[k].sent
      /\ n.ids = note[k].ids /\ n.told = note[k].told
  BY <1>1 DEF NoteState
<1>3. note' = [note EXCEPT ![k] = n]
  BY DEF NoteLeaseExpires
<1> HIDE DEF n
<1> QED
  BY <1>2, <1>3, RowBecomes DEF Quiet

(* No bot takes anything up. *)
Calm ==
    /\ NotesTyped' /\ Quiet /\ BotsTyped' /\ now' \in Nat
    /\ \A b \in Bots : bot'[b] \in {bot[b], IdleBot}

LEMMA BotsRest ==
  ASSUME BotsTyped, DOMAIN note \subseteq DOMAIN note', bot' = bot
  PROVE  BotsTyped' /\ \A b \in Bots : bot'[b] \in {bot[b], IdleBot}
<1>1. BotState(DOMAIN note) \subseteq BotState(DOMAIN note')
  BY BotStateGrows
<1> QED
  BY <1>1 DEF BotsTyped

LEMMA IdleBotTyped == ASSUME NEW K PROVE IdleBot \in BotState(K)
BY DEF IdleBot, BotState

LEMMA BotRests ==
  ASSUME BotsTyped, DOMAIN note \subseteq DOMAIN note', NEW b \in Bots, Rest(b)
  PROVE  /\ BotsTyped' /\ \A c \in Bots : bot'[c] \in {bot[c], IdleBot}
         /\ bot'[b] = IdleBot /\ \A c \in Bots : c # b => bot'[c] = bot[c]
<1>1. BotState(DOMAIN note) \subseteq BotState(DOMAIN note')
  BY BotStateGrows
<1>2. IdleBot \in BotState(DOMAIN note')
  BY IdleBotTyped
<1> QED
  BY <1>1, <1>2 DEF BotsTyped, Rest

(* A step of the producers. *)
LEMMA CalmBots ==
  ASSUME Typed, NotesTyped' /\ Quiet, bot' = bot, now' = now
  PROVE  Calm
<1>1. DOMAIN note \subseteq DOMAIN note'
  BY DEF Quiet
<1> QED
  BY <1>1, BotsRest DEF Calm, Typed

LEMMA ReceiveCalm ==
  ASSUME Typed, NEW m \in Messages, Receive(m)
  PROVE  Calm /\ cmd' = cmd /\ table' = table
<1>0. NotesTyped /\ now \in Nat
  BY DEF Typed
<1>1. CASE ReceiveLead(m)
  <2>1. NotesTyped' /\ Quiet
    BY <1>0, <1>1, ReceiptQuiet DEF ReceiveLead
  <2> QED
    BY <1>1, <2>1, CalmBots DEF ReceiveLead
<1>2. CASE ReceiveIntent(m)
  BY <1>0, <1>2, SameNotes, CalmBots DEF ReceiveIntent
<1>3. CASE ReceiveCommand(m)
  BY <1>0, <1>3, SameNotes, CalmBots DEF ReceiveCommand
<1>4. CASE ReceiveInactive(m)
  <2>1. ~InChain(Key("inactive", m, 0))
    BY DEF InChain, Key
  <2>2. AddNotes(One(Key("inactive", m, 0), NewNote({})))
    BY <1>4 DEF ReceiveInactive
  <2>3. NotesTyped' /\ Quiet
    BY <1>0, <2>1, <2>2, AddNewQuietly
  <2> QED
    BY <1>4, <2>3, CalmBots DEF ReceiveInactive
<1> QED
  BY <1>1, <1>2, <1>3, <1>4 DEF Receive

LEMMA DecideCalm ==
  ASSUME Typed, NEW m \in Messages, Decide(m)
  PROVE  Calm /\ cmd' = cmd /\ table' = table
<1>0. NotesTyped /\ now \in Nat
  BY DEF Typed
<1>1. CASE Settle(m)
  <2>1. PICK v \in Verdicts, told \in BOOLEAN :
          /\ told => v \in {"failed", "plain"}
          /\ IF told THEN AddNotes(One(Key(v, m, 0), NewNote({m}))) ELSE UNCHANGED note
    BY <1>1 DEF Settle
  <2>2. NotesTyped' /\ Quiet
    <3>1. CASE told
      <4>1. ~InChain(Key(v, m, 0))
        BY <2>1, <3>1 DEF InChain, Key
      <4>2. AddNotes(One(Key(v, m, 0), NewNote({m})))
        BY <2>1, <3>1
      <4> QED
        BY <1>0, <4>1, <4>2, AddNewQuietly
    <3>2. CASE ~told
      BY <1>0, <2>1, <3>2, SameNotes
    <3> QED
      BY <3>1, <3>2
  <2> QED
    BY <1>1, <2>2, CalmBots DEF Settle
<1>2. CASE Activate(m) /\ Besides
  BY <1>0, <1>2, SameNotes, CalmBots DEF Activate, Besides
<1>3. CASE RecordResolved(m) /\ Besides
  BY <1>0, <1>3, SameNotes, CalmBots DEF RecordResolved, Besides
<1> QED
  BY <1>1, <1>2, <1>3 DEF Decide

LEMMA ScheduleCalm ==
  ASSUME Typed, NEW w \in Schedulers, Schedule(w) \/ (SchedulerCrashes(w) /\ Besides)
  PROVE  Calm /\ cmd' = cmd /\ table' = table
<1>0. NotesTyped /\ now \in Nat
  BY DEF Typed
<1>1. CASE ScheduleScan(w) /\ Besides
  BY <1>0, <1>1, SameNotes, CalmBots DEF ScheduleScan, Besides
<1>2. CASE ScheduleReport(w) /\ Besides
  <2>1. note' = note \/ ReportWindow(sched[w].ses, sched[w].at)
    BY <1>2 DEF ScheduleReport, Withdrawn, NotDue, SkipWindows, EmptyWindow
  <2>2. NotesTyped' /\ Quiet
    <3>1. CASE note' = note
      BY <1>0, <3>1, SameNotes
    <3>2. CASE ReportWindow(sched[w].ses, sched[w].at)
      <4> DEFINE s == sched[w].ses
                 k == Key("summary", s, p.ses[s].next)
      <4>1. ~InChain(k)
        BY DEF InChain, Key
      <4>2. InWindow(s) \in SUBSET Messages
        BY DEF InWindow
      <4>3. AddNotes(One(k, NewNote(InWindow(s))))
        BY <3>2 DEF ReportWindow
      <4> QED
        BY <1>0, <4>1, <4>2, <4>3, AddNewQuietly
    <3> QED
      BY <2>1, <3>1, <3>2
  <2>3. bot' = bot /\ now' = now /\ cmd' = cmd /\ table' = table
    BY <1>2 DEF ScheduleReport, Besides
  <2> QED
    BY <2>2, <2>3, CalmBots
<1>3. CASE SchedulerCrashes(w) /\ Besides
  BY <1>0, <1>3, SameNotes, CalmBots DEF SchedulerCrashes, Besides
<1> QED
  BY <1>1, <1>2, <1>3 DEF Schedule

LEMMA RemindCalm ==
  ASSUME Typed, Remind
  PROVE  Calm /\ cmd' = cmd /\ table' = table
<1> DEFINE k == Key("reminder", Today, 0)
<1>1. ~InChain(k)
  BY DEF InChain, Key
<1>2. AddNotes(One(k, NewNote({})))
  BY DEF Remind
<1>3. NotesTyped' /\ Quiet
  BY <1>1, <1>2, AddNewQuietly DEF Typed
<1> QED
  BY <1>3, CalmBots DEF Remind

LEMMA EnvironmentCalm ==
  ASSUME Typed, Tick \/ Withdraw \/ Submit
  PROVE  Calm /\ cmd' = cmd /\ table' = table
<1>1. note' = note /\ bot' = bot /\ cmd' = cmd /\ table' = table
  BY DEF Tick, Withdraw, Submit
<1>2. NotesTyped' /\ Quiet
  BY <1>1, SameNotes DEF Typed
<1>3. now' \in Nat
  BY DEF Tick, Withdraw, Submit, Typed
<1>4. BotsTyped' /\ \A b \in Bots : bot'[b] \in {bot[b], IdleBot}
  BY <1>1, BotsRest DEF Typed
<1> QED
  BY <1>1, <1>2, <1>3, <1>4 DEF Calm

LEMMA TableCalm ==
  ASSUME Typed, TableChanges
  PROVE  Calm /\ cmd' = cmd /\ table' = 2
<1>1. NotesTyped' /\ Quiet
  BY SameNotes DEF Typed, TableChanges
<1> QED
  BY <1>1, CalmBots DEF TableChanges

LEMMA SenderCalm ==
  ASSUME Typed, ExpireLease \/ Crash
  PROVE  Calm /\ cmd' = cmd /\ table' = table
<1>0. NotesTyped /\ BotsTyped /\ now \in Nat
  BY DEF Typed
<1>1. CASE ExpireLease
  <2>1. PICK k \in DOMAIN note : NoteLeaseExpires(k)
    BY <1>1 DEF ExpireLease
  <2>2. NotesTyped' /\ Quiet
    BY <1>0, <2>1, ExpiryQuiet
  <2>3. bot' = bot /\ now' = now /\ cmd' = cmd /\ table' = table
    BY <1>1, <2>1 DEF ExpireLease, NoteLeaseExpires, world
  <2> QED
    BY <2>2, <2>3, CalmBots
<1>2. CASE Crash
  <2>1. PICK b \in Bots : BotCrashes(b)
    BY <1>2 DEF Crash
  <2>2. note' = note /\ now' = now /\ cmd' = cmd /\ table' = table
    BY <1>2, <2>1 DEF Crash, BotCrashes, world
  <2>3. Rest(b)
    BY <2>1 DEF BotCrashes, Rest
  <2>4. NotesTyped' /\ Quiet
    BY <1>0, <2>2, SameNotes
  <2>5. BotsTyped' /\ \A c \in Bots : bot'[c] \in {bot[c], IdleBot}
    BY <1>0, <2>2, <2>3, BotRests
  <2> QED
    BY <1>0, <2>2, <2>4, <2>5 DEF Calm
<1> QED
  BY <1>1, <1>2

(* The ends of a command. *)
LEMMA CommandEndCalm ==
  ASSUME Typed, CommandEnds \/ CommandLost \/ CommandFails
  PROVE  Calm /\ cmd' = IdleCmd /\ table' = table
<1>0. NotesTyped
  BY DEF Typed
<1>1. CASE CommandEnds
  <2>1. ~InChain(Key("reply", cmd.of, 0))
    BY DEF InChain, Key
  <2>2. NotesTyped' /\ Quiet
    BY <1>0, <1>1, <2>1, AddNewQuietly DEF CommandEnds
  <2> QED
    BY <1>1, <2>2, CalmBots DEF CommandEnds
<1>2. CASE CommandLost
  BY <1>0, <1>2, SameNotes, CalmBots DEF CommandLost
<1>3. CASE CommandFails
  <2>1. ~InChain(Key("terminal", cmd.of, 0))
    BY DEF InChain, Key
  <2>2. NotesTyped' /\ Quiet
    BY <1>0, <1>3, <2>1, AddNewQuietly DEF CommandFails
  <2> QED
    BY <1>3, <2>2, CalmBots DEF CommandFails
<1> QED
  BY <1>1, <1>2, <1>3

LEMMA CommandStartCalm ==
  ASSUME Typed, NEW m \in Messages, CommandStarts(m)
  PROVE  /\ Calm /\ table' = table
         /\ cmd' = [pc |-> IF Prepared(m) THEN "link" ELSE "issue",
                    of |-> m, page |-> 1, ver |-> table]
<1>1. NotesTyped' /\ Quiet
  BY SameNotes DEF Typed, CommandStarts
<1> QED
  BY <1>1, CalmBots DEF CommandStarts

-----------------------------------------------------------------------------
(* The steps of a bot *)

(* There is always a token that no claim of the row has. *)
LEMMA FreshToken ==
  ASSUME BotsTyped, NEW k
  PROVE  LET held == {bot[c].tok : c \in {d \in Bots : bot[d].key = k}}
         IN  \E x \in 1..(Cardinality(Bots) + 1) : x \notin held
<1> DEFINE D == {d \in Bots : bot[d].key = k}
           held == {bot[c].tok : c \in D}
           n == Cardinality(Bots)
<1>1. IsFiniteSet(Bots) /\ n \in Nat
  BY NotificationsAssumption, FS_CardinalityType
<1>2. IsFiniteSet(D) /\ Cardinality(D) <= n
  BY <1>1, FS_Subset
<1>3. IsFiniteSet(held) /\ Cardinality(held) <= Cardinality(D)
  <2> DEFINE f == [c \in D |-> bot[c].tok]
  <2>1. f \in Surjection(D, held)
    BY DEF Surjection
  <2>2. D = D
    OBVIOUS
  <2> HIDE DEF f, held, D
  <2> QED
    BY <1>2, <2>1, FS_Surjection
<1>4. SUFFICES ASSUME \A x \in 1..(n + 1) : x \in held PROVE FALSE
  OBVIOUS
<1>5. 1..(n + 1) \subseteq held
  BY <1>4
<1>6. Cardinality(1..(n + 1)) = n + 1
  BY <1>1, FS_Interval
<1>7. Cardinality(1..(n + 1)) <= Cardinality(held)
  <2> HIDE DEF held
  <2> QED
    BY <1>3, <1>5, FS_Subset
<1>8. Cardinality(held) \in Nat /\ Cardinality(D) \in Nat
  BY <1>2, <1>3, FS_CardinalityType
<1> HIDE DEF held, D, n
<1> QED
  BY <1>1, <1>2, <1>3, <1>6, <1>7, <1>8

(* A row keeps its place in its chain, and all others are as they were. *)
Rewrites(k) ==
    /\ DOMAIN note' = DOMAIN note
    /\ note'[k].held = note[k].held /\ note'[k].deps = note[k].deps
    /\ note'[k].ids = note[k].ids
    /\ \A j \in DOMAIN note : j # k => note'[j] = note[j]

LEMMA ClaimStep ==
  ASSUME Typed, NEW b \in Bots, NEW k \in DOMAIN note, Claim(b, k)
  PROVE  /\ NotesTyped' /\ BotsTyped' /\ Rewrites(k)
         /\ note'[k].st = "processing" /\ note'[k].tok # 0
         /\ note'[k].sent = note[k].sent /\ note'[k].told = note[k].told
         /\ bot'[b].pc = "claimed" /\ bot'[b].key = k /\ bot'[b].tok # 0
         /\ bot'[b].ids = note[k].ids
         /\ \A c \in Bots : c # b => bot'[c] = bot[c]
<1> DEFINE held == {bot[c].tok : c \in {d \in Bots : bot[d].key = k}}
           N == Cardinality(Bots) + 1
           t == CHOOSE x \in 1..N : x \notin held
<1>1. t \in 1..N
  <2>1. BotsTyped
    BY DEF Typed
  <2>2. \E x \in 1..N : x \notin held
    BY <2>1, FreshToken
  <2> HIDE DEF held, N
  <2> QED
    BY <2>2
<1>2. N \in Nat
  BY NotificationsAssumption, FS_CardinalityType
<1>3. t \in Nat /\ t # 0
  <2> HIDE DEF t, N
  <2> QED
    BY <1>1, <1>2
<1>4. /\ note' = [note EXCEPT ![k].st = "processing", ![k].tok = t, ![k].lease = "live"]
      /\ bot' = [bot EXCEPT ![b] = [pc |-> "claimed", key |-> k, tok |-> t, ids |-> note[k].ids]]
  BY DEF Claim
<1> HIDE DEF t
<1>5. NotesTyped /\ "processing" \in States /\ "live" \in {"none", "live", "expired"}
  BY DEF Typed, States
<1>6. /\ NotesTyped' /\ DOMAIN note' = DOMAIN note
      /\ note'[k].st = "processing" /\ note'[k].tok = t
      /\ note'[k].held = note[k].held /\ note'[k].deps = note[k].deps
      /\ note'[k].sent = note[k].sent /\ note'[k].ids = note[k].ids
      /\ note'[k].told = note[k].told
      /\ \A j \in DOMAIN note : j # k => note'[j] = note[j]
  BY <1>3, <1>4, <1>5, RowSettles
<1>7. note[k].ids \in SUBSET Messages
  BY <1>5 DEF NotesTyped, NoteState
<1>8. [pc |-> "claimed", key |-> k, tok |-> t, ids |-> note[k].ids] \in BotState(DOMAIN note)
  BY <1>3, <1>7 DEF BotState
<1>9. /\ bot' \in [Bots -> BotState(DOMAIN note)]
      /\ bot'[b] = [pc |-> "claimed", key |-> k, tok |-> t, ids |-> note[k].ids]
      /\ \A c \in Bots : c # b => bot'[c] = bot[c]
  BY <1>4, <1>8 DEF Typed, BotsTyped
<1>10. BotsTyped'
  BY <1>6, <1>9 DEF BotsTyped
<1> QED
  BY <1>3, <1>6, <1>9, <1>10 DEF Rewrites

LEMMA SuppressStep ==
  ASSUME Typed, NEW k \in DOMAIN note, Suppress(k)
  PROVE  /\ NotesTyped' /\ BotsTyped' /\ Rewrites(k) /\ bot' = bot
         /\ note'[k].st = "suppressed" /\ note'[k].tok = 0 /\ note'[k].sent = note[k].sent
         /\ note'[k].told = note[k].told
<1>1. note' = [note EXCEPT ![k].st = "suppressed", ![k].tok = 0, ![k].lease = "none"]
      /\ bot' = bot
  BY DEF Suppress
<1>2. NotesTyped /\ "suppressed" \in States /\ "none" \in {"none", "live", "expired"} /\ 0 \in Nat
  BY DEF Typed, States, Settled
<1>3. /\ NotesTyped' /\ DOMAIN note' = DOMAIN note
      /\ note'[k].st = "suppressed" /\ note'[k].tok = 0
      /\ note'[k].held = note[k].held /\ note'[k].deps = note[k].deps
      /\ note'[k].sent = note[k].sent /\ note'[k].ids = note[k].ids
      /\ note'[k].told = note[k].told
      /\ \A j \in DOMAIN note : j # k => note'[j] = note[j]
  BY <1>1, <1>2, RowSettles
<1>4. BotsTyped'
  BY <1>1, <1>3, BotsRest DEF Typed
<1> QED
  BY <1>1, <1>3, <1>4 DEF Rewrites

(* The outcome is recorded, or the token no longer fits. *)
LEMMA CloseStep ==
  ASSUME Typed, NEW b \in Bots, bot[b].pc # "idle",
         NEW s \in {"suppressed", "retrying", "failed", "succeeded"}, Close(b, s), Rest(b)
  PROVE  /\ NotesTyped' /\ BotsTyped' /\ Rewrites(bot[b].key)
         /\ note'[bot[b].key].sent = note[bot[b].key].sent
         /\ note'[bot[b].key].told = note[bot[b].key].told
         /\ bot[b].key \in DOMAIN note
         /\ \/ note' = note
            \/ /\ note[bot[b].key].tok = bot[b].tok
               /\ note'[bot[b].key].st = s /\ note'[bot[b].key].tok = 0
         /\ bot'[b] = IdleBot /\ \A c \in Bots : c # b => bot'[c] = bot[c]
<1>1. PICK k \in DOMAIN note : k = bot[b].key
  BY DEF Typed, HandsFull
<1>2. NotesTyped /\ BotsTyped /\ s \in States /\ "none" \in {"none", "live", "expired"} /\ 0 \in Nat
  BY DEF Typed, States, Settled
<1>3. CASE TokenMatches(b)
  <2>1. note' = [note EXCEPT ![k].st = s, ![k].tok = 0, ![k].lease = "none"]
    BY <1>1, <1>3 DEF Close, InHand
  <2>2. /\ NotesTyped' /\ DOMAIN note' = DOMAIN note
        /\ note'[k].st = s /\ note'[k].tok = 0
        /\ note'[k].held = note[k].held /\ note'[k].deps = note[k].deps
        /\ note'[k].sent = note[k].sent /\ note'[k].ids = note[k].ids
        /\ note'[k].told = note[k].told
        /\ \A j \in DOMAIN note : j # k => note'[j] = note[j]
    BY <1>2, <2>1, RowSettles
  <2>3. /\ BotsTyped' /\ bot'[b] = IdleBot /\ \A c \in Bots : c # b => bot'[c] = bot[c]
    BY <1>2, <2>2, BotRests
  <2>4. note[k].tok = bot[b].tok
    BY <1>1, <1>3 DEF TokenMatches, InHand
  <2> QED
    BY <1>1, <2>2, <2>3, <2>4 DEF Rewrites
<1>4. CASE ~TokenMatches(b)
  <2>1. note' = note
    BY <1>4 DEF Close
  <2>2. NotesTyped'
    BY <1>2, <2>1, SameNotes
  <2>3. /\ BotsTyped' /\ bot'[b] = IdleBot /\ \A c \in Bots : c # b => bot'[c] = bot[c]
    BY <1>2, <2>1, BotRests
  <2> QED
    BY <1>1, <2>1, <2>2, <2>3 DEF Rewrites
<1> QED
  BY <1>3, <1>4

LEMMA SendStep ==
  ASSUME Typed, NEW b \in Bots, SendSucceeds(b)
  PROVE  /\ NotesTyped' /\ BotsTyped' /\ Rewrites(bot[b].key)
         /\ bot[b].pc = "claimed" /\ bot[b].key \in DOMAIN note
         /\ note'[bot[b].key].st = note[bot[b].key].st
         /\ note'[bot[b].key].tok = note[bot[b].key].tok
         /\ note'[bot[b].key].sent = TRUE /\ note'[bot[b].key].told = bot[b].ids
         /\ bot'[b].pc = "sent" /\ bot'[b].key = bot[b].key /\ bot'[b].tok = bot[b].tok
         /\ bot'[b].ids = bot[b].ids
         /\ \A c \in Bots : c # b => bot'[c] = bot[c]
<1>1. /\ bot[b].pc = "claimed"
      /\ note' = [note EXCEPT ![bot[b].key].sent = TRUE, ![bot[b].key].told = bot[b].ids]
      /\ bot' = [bot EXCEPT ![b].pc = "sent"]
  BY DEF SendSucceeds, InHand
<1>2. PICK k \in DOMAIN note : k = bot[b].key
  BY <1>1 DEF Typed, HandsFull
<1>3. bot[b] \in BotState(DOMAIN note)
  BY DEF Typed, BotsTyped
<1>4. bot[b].ids \in SUBSET Messages
  BY <1>3 DEF BotState
<1>5. note' = [note EXCEPT ![k].sent = TRUE, ![k].told = bot[b].ids]
  BY <1>1, <1>2
<1>6. NotesTyped
  BY DEF Typed
<1>7. /\ NotesTyped' /\ DOMAIN note' = DOMAIN note
      /\ note'[k].st = note[k].st /\ note'[k].tok = note[k].tok
      /\ note'[k].held = note[k].held /\ note'[k].deps = note[k].deps
      /\ note'[k].sent = TRUE /\ note'[k].ids = note[k].ids /\ note'[k].told = bot[b].ids
      /\ \A j \in DOMAIN note : j # k => note'[j] = note[j]
  BY <1>4, <1>5, <1>6, RowSent
<1>8. [bot[b] EXCEPT !.pc = "sent"] \in BotState(DOMAIN note)
      /\ [bot[b] EXCEPT !.pc = "sent"].pc = "sent"
      /\ [bot[b] EXCEPT !.pc = "sent"].key = bot[b].key
      /\ [bot[b] EXCEPT !.pc = "sent"].tok = bot[b].tok
      /\ [bot[b] EXCEPT !.pc = "sent"].ids = bot[b].ids
  BY <1>3 DEF BotState
<1>9. /\ bot' \in [Bots -> BotState(DOMAIN note)]
      /\ bot'[b] = [bot[b] EXCEPT !.pc = "sent"]
      /\ \A c \in Bots : c # b => bot'[c] = bot[c]
  BY <1>1, <1>8 DEF Typed, BotsTyped
<1>10. BotsTyped'
  BY <1>7, <1>9 DEF BotsTyped
<1> QED
  BY <1>1, <1>2, <1>7, <1>8, <1>9, <1>10 DEF Rewrites

(* What a bot may do. *)
LEMMA SendSplits ==
  ASSUME NEW b \in Bots, Send(b)
  PROVE  /\ UNCHANGED world
         /\ \/ \E k \in DOMAIN note : ~InChain(k) /\ Candidate(k) /\ Suppress(k)
            \/ \E k \in DOMAIN note : Claimable(k, now) /\ Claim(b, k)
            \/ SendSucceeds(b)
            \/ /\ bot[b].pc = "claimed" /\ Rest(b)
               /\ \E s \in {"suppressed", "retrying", "failed"} : Close(b, s)
            \/ bot[b].pc = "sent" /\ Rest(b) /\ Close(b, "succeeded")
<1>1. CASE TryNote(b)
  <2>1. PICK k \in DOMAIN note : /\ Claimable(k, now)
                                 /\ IF Outdated(k) THEN Suppress(k) ELSE Claim(b, k)
    BY <1>1 DEF TryNote
  <2>2. Outdated(k) => ~InChain(k)
    BY DEF Outdated, InChain
  <2>3. Candidate(k)
    BY <2>1 DEF Claimable
  <2> QED
    BY <1>1, <2>1, <2>2, <2>3 DEF TryNote
<1>2. CASE SendReceiptOrSuppress(b)
  BY <1>2 DEF SendReceiptOrSuppress, SuppressClaimed
<1>3. CASE SendFails(b) /\ UNCHANGED world
  BY <1>3 DEF SendFails
<1>4. CASE RecordSent(b) /\ UNCHANGED world
  BY <1>4 DEF RecordSent
<1> QED
  BY <1>1, <1>2, <1>3, <1>4 DEF Send

-----------------------------------------------------------------------------
(* The steps of a command *)

HeldNote == [NewNote({}) EXCEPT !.held = TRUE]

(* A page adds two rows, withheld. *)
LEMMA IssueStep ==
  ASSUME Typed, IssuePage
  PROVE  \E no \in 0..(2 * Pages) :
           /\ NotesTyped' /\ BotsTyped' /\ bot' = bot
           /\ DOMAIN note' = DOMAIN note \cup {Key("preview", cmd.of, no), Key("card", cmd.of, no)}
           /\ \A k \in DOMAIN note : note'[k] = note[k]
           /\ \A k \in DOMAIN note' \ DOMAIN note : note'[k] = HeldNote
<1> DEFINE no == (cmd.ver - 1) * Pages + cmd.page
           ks == {Key("preview", cmd.of, no), Key("card", cmd.of, no)}
           new == [k \in ks |-> HeldNote]
<1>1. cmd.pc = "issue" /\ AddNotes(new) /\ bot' = bot
  BY DEF IssuePage, HeldNote
<1>2. no \in 0..(2 * Pages)
  <2>1. cmd.page \in 0..Pages /\ cmd.ver \in {1, 2}
    BY <1>1 DEF Typed, CmdTyped, CmdState
  <2>2. CASE cmd.ver = 1
    BY <2>1, <2>2, NotificationsAssumption
  <2>3. CASE cmd.ver = 2
    <3>1. no = Pages + cmd.page
      BY <2>1, <2>3, NotificationsAssumption
    <3> QED
      BY <2>1, <3>1, NotificationsAssumption
  <2> QED
    BY <2>1, <2>2, <2>3
<1> HIDE DEF no
<1>3. NewNote({}) \in NoteState({})
  BY NewNoteTyped
<1>4. HeldNote \in NoteState({})
  BY <1>3 DEF HeldNote, NoteState
<1>5. NoteState({}) \subseteq NoteState(DOMAIN note')
  BY NoteStateGrows
<1>6. DOMAIN new = ks /\ \A k \in DOMAIN new : new[k] = HeldNote
  OBVIOUS
<1>7. \A k \in DOMAIN new : new[k] \in NoteState(DOMAIN note')
  BY <1>4, <1>5, <1>6
<1>8. NotesTyped' /\ DOMAIN note' = DOMAIN note \cup ks
  <2> HIDE DEF new
  <2> QED
    BY <1>1, <1>6, <1>7, AddKeepsTypes DEF Typed
<1>9. note' = [k \in DOMAIN note \cup ks |-> IF k \in DOMAIN note THEN note[k] ELSE new[k]]
  BY <1>1, <1>6 DEF AddNotes
<1>10. /\ \A k \in DOMAIN note : note'[k] = note[k]
       /\ \A k \in DOMAIN note' \ DOMAIN note : note'[k] = HeldNote
  <2> HIDE DEF ks
  <2> QED
    BY <1>8, <1>9, <1>6
<1>11. BotsTyped'
  BY <1>1, <1>8, BotsRest DEF Typed
<1> QED
  BY <1>1, <1>2, <1>8, <1>10, <1>11

(* The rows of the command are released and chained, and the link is there. *)
LEMMA LinkStep ==
  ASSUME Typed, QueueTableLink
  PROVE  LET C == Chain(cmd.of)
             link == Key("link", cmd.of, 0)
         IN  /\ NotesTyped' /\ BotsTyped' /\ bot' = bot
             /\ DOMAIN note' = DOMAIN note \cup {link}
             /\ \A k \in DOMAIN note \ C : note'[k] = note[k]
             /\ \A k \in C : /\ note'[k].held = FALSE /\ note'[k].deps = Previous(k, C)
                             /\ note'[k].st = note[k].st /\ note'[k].tok = note[k].tok
                             /\ note'[k].sent = note[k].sent /\ note'[k].ids = note[k].ids
                             /\ note'[k].told = note[k].told
             /\ link \notin DOMAIN note =>
                  note'[link] = [NewNote({}) EXCEPT !.deps = Previous(link, C)]
<1> DEFINE C == Chain(cmd.of)
           link == Key("link", cmd.of, 0)
           rel(k) == [note[k] EXCEPT !.held = FALSE, !.deps = Previous(k, C)]
           new == [NewNote({}) EXCEPT !.deps = Previous(link, C)]
           K == DOMAIN note \cup {link}
<1>1. bot' = bot
  BY DEF QueueTableLink
<1>2. \A k : Previous(k, C) \in SUBSET DOMAIN note
  BY DEF Previous, Chain
<1>3. \A k \in C : k \in DOMAIN note /\ k # link
  BY DEF Chain, Key
<1>4. \A k \in DOMAIN note : note[k] \in NoteState(DOMAIN note)
  BY DEF Typed, NotesTyped
<1>5. \A k \in C : /\ rel(k) \in NoteState(DOMAIN note)
                   /\ rel(k).held = FALSE /\ rel(k).deps = Previous(k, C)
                   /\ rel(k).st = note[k].st /\ rel(k).tok = note[k].tok
                   /\ rel(k).sent = note[k].sent /\ rel(k).ids = note[k].ids
                   /\ rel(k).told = note[k].told
  <2> SUFFICES ASSUME NEW k \in C
               PROVE  /\ rel(k) \in NoteState(DOMAIN note)
                      /\ rel(k).held = FALSE /\ rel(k).deps = Previous(k, C)
                      /\ rel(k).st = note[k].st /\ rel(k).tok = note[k].tok
                      /\ rel(k).sent = note[k].sent /\ rel(k).ids = note[k].ids
                      /\ rel(k).told = note[k].told
    OBVIOUS
  <2>1. note[k] \in NoteState(DOMAIN note)
    BY <1>3, <1>4
  <2>2. PICK D \in SUBSET DOMAIN note : D = Previous(k, C)
    BY <1>2
  <2>3. rel(k) = [note[k] EXCEPT !.held = FALSE, !.deps = D]
    BY <2>2
  <2> HIDE DEF rel
  <2>4. /\ rel(k) \in NoteState(DOMAIN note)
        /\ rel(k).held = FALSE /\ rel(k).deps = D
        /\ rel(k).st = note[k].st /\ rel(k).tok = note[k].tok
        /\ rel(k).sent = note[k].sent /\ rel(k).ids = note[k].ids
        /\ rel(k).told = note[k].told
    BY <2>1, <2>3 DEF NoteState
  <2> QED
    BY <2>2, <2>4
<1>6. new \in NoteState(DOMAIN note)
  <2>1. PICK D \in SUBSET DOMAIN note : D = Previous(link, C)
    BY <1>2
  <2>2. new = [NewNote({}) EXCEPT !.deps = D]
    BY <2>1
  <2> HIDE DEF new
  <2> QED
    BY <2>2 DEF NewNote, NoteState, States
<1>7. NoteState(DOMAIN note) \subseteq NoteState(K)
  BY NoteStateGrows
<1> DEFINE chained == [k \in DOMAIN note |-> IF k \in C THEN rel(k) ELSE note[k]]
<1>8. note' = IF link \in DOMAIN note THEN chained
              ELSE [k \in K |-> IF k = link THEN new ELSE chained[k]]
  BY DEF QueueTableLink
<1> HIDE DEF rel, new, C, link
<1>9. note' = [k \in K |-> IF k \in DOMAIN note THEN chained[k] ELSE new]
  <2>1. CASE link \in DOMAIN note
    <3>1. K = DOMAIN note
      BY <2>1
    <3> QED
      BY <1>8, <2>1, <3>1
  <2>2. CASE link \notin DOMAIN note
    BY <1>8, <2>2
  <2> QED
    BY <2>1, <2>2
<1>10. DOMAIN note' = K
  BY <1>9
<1>11. \A k \in C : note'[k] = rel(k)
  BY <1>3, <1>9
<1>12. \A k \in DOMAIN note \ C : note'[k] = note[k]
  BY <1>9
<1>13. link \notin DOMAIN note => note'[link] = new
  BY <1>9
<1>14. note' \in [K -> NoteState(K)]
  BY <1>4, <1>5, <1>6, <1>7, <1>9
<1>15. NotesTyped'
  BY <1>10, <1>14 DEF NotesTyped
<1>16. BotsTyped'
  BY <1>1, <1>10, BotsRest DEF Typed
<1>17. \A k \in C : /\ note'[k].held = FALSE /\ note'[k].deps = Previous(k, C)
                    /\ note'[k].st = note[k].st /\ note'[k].tok = note[k].tok
                    /\ note'[k].sent = note[k].sent /\ note'[k].ids = note[k].ids
                    /\ note'[k].told = note[k].told
  BY <1>5, <1>11
<1>18. link \notin DOMAIN note => note'[link] = [NewNote({}) EXCEPT !.deps = Previous(link, C)]
  BY <1>13 DEF new
<1> QED
  BY <1>1, <1>10, <1>12, <1>15, <1>16, <1>17, <1>18 DEF C, link

-----------------------------------------------------------------------------
(* All steps *)

(* Most steps are calm; the others are those of a command and of a bot. *)
CalmStep == Calm /\ cmd' \in {cmd, IdleCmd} /\ table' \in {table, 2}

LEMMA StepSplits ==
  ASSUME Typed, [Next]_vars
  PROVE  \/ CalmStep
         \/ \E m \in Messages : CommandStarts(m)
         \/ IssuePage
         \/ QueueTableLink
         \/ \E b \in Bots : Send(b)
<1>1. CASE \E m \in Messages : Receive(m)
  BY <1>1, ReceiveCalm DEF CalmStep
<1>2. CASE \E m \in Messages : Decide(m)
  BY <1>2, DecideCalm DEF CalmStep
<1>3. CASE \E w \in Schedulers : Schedule(w) \/ (SchedulerCrashes(w) /\ Besides)
  BY <1>3, ScheduleCalm DEF CalmStep
<1>4. CASE CommandEnds \/ CommandLost \/ CommandFails
  BY <1>4, CommandEndCalm DEF CalmStep
<1>5. CASE Remind
  BY <1>5, RemindCalm DEF CalmStep
<1>6. CASE ExpireLease \/ Crash
  BY <1>6, SenderCalm DEF CalmStep
<1>7. CASE Tick \/ Withdraw \/ Submit
  BY <1>7, EnvironmentCalm DEF CalmStep
<1>8. CASE TableChanges
  BY <1>8, TableCalm DEF CalmStep
<1>9. CASE UNCHANGED vars
  <2>1. note' = note /\ bot' = bot /\ now' = now /\ cmd' = cmd /\ table' = table
    BY <1>9 DEF vars
  <2> QED
    BY <2>1, SameNotes, CalmBots DEF Typed, CalmStep
<1>10. CASE Next
  BY <1>1, <1>2, <1>3, <1>4, <1>5, <1>6, <1>7, <1>8, <1>10 DEF Next, Command
<1> QED
  BY <1>9, <1>10

LEMMA IdleCmdTyped == IdleCmd \in CmdState /\ IdleCmd.pc = "idle"
BY NotificationsAssumption DEF IdleCmd, CmdState

LEMMA CmdTypedNext ==
  ASSUME Typed, [Next]_vars
  PROVE  CmdTyped'
<1>0. CmdTyped
  BY DEF Typed
<1>1. CASE CalmStep
  <2>1. table' \in {1, 2}
    BY <1>0, <1>1 DEF CalmStep, CmdTyped
  <2> QED
    BY <1>0, <1>1, <2>1, IdleCmdTyped DEF CalmStep, CmdTyped
<1>2. CASE \E m \in Messages : CommandStarts(m)
  <2>1. PICK m \in Messages : CommandStarts(m)
    BY <1>2
  <2>2. table' = table /\ cmd' = [pc |-> IF Prepared(m) THEN "link" ELSE "issue",
                                  of |-> m, page |-> 1, ver |-> table]
    BY <2>1 DEF CommandStarts
  <2>3. PICK l \in {"link", "issue"} : l = IF Prepared(m) THEN "link" ELSE "issue"
    OBVIOUS
  <2>4. table \in {1, 2}
    BY <1>0 DEF CmdTyped
  <2>5. cmd' \in CmdState
    BY <2>2, <2>3, <2>4, NotificationsAssumption DEF CmdState
  <2> QED
    BY <2>2, <2>3, <2>4, <2>5 DEF CmdTyped
<1>3. CASE IssuePage
  <2>1. cmd.pc = "issue" /\ cmd \in CmdState
    BY <1>0, <1>3 DEF IssuePage, CmdTyped
  <2>2. table' = table
    BY <1>3 DEF IssuePage
  <2>3. CASE cmd.page < Pages
    <3>1. cmd' = [cmd EXCEPT !.page = @ + 1]
      BY <1>3, <2>3 DEF IssuePage
    <3>2. cmd.page + 1 \in 0..Pages /\ cmd.page + 1 > 0
      BY <2>1, <2>3, NotificationsAssumption DEF CmdState
    <3>3. cmd' \in CmdState /\ cmd'.pc = cmd.pc /\ cmd'.of = cmd.of
          /\ cmd'.page = cmd.page + 1 /\ cmd'.ver = cmd.ver
      BY <2>1, <3>1, <3>2 DEF CmdState
    <3> QED
      BY <1>0, <2>1, <2>2, <3>2, <3>3 DEF CmdTyped
  <2>4. CASE ~(cmd.page < Pages)
    <3>1. cmd' = [cmd EXCEPT !.pc = "link"]
      BY <1>3, <2>4 DEF IssuePage
    <3>2. cmd' \in CmdState /\ cmd'.pc = "link" /\ cmd'.of = cmd.of
      BY <2>1, <3>1 DEF CmdState
    <3> QED
      BY <1>0, <2>1, <2>2, <3>2 DEF CmdTyped
  <2> QED
    BY <2>3, <2>4
<1>4. CASE QueueTableLink
  <2>1. cmd.pc = "link" /\ cmd' = [cmd EXCEPT !.pc = "reply"] /\ table' = table
    BY <1>4 DEF QueueTableLink
  <2>2. cmd' \in CmdState /\ cmd'.pc = "reply" /\ cmd'.of = cmd.of
    BY <1>0, <2>1 DEF CmdTyped, CmdState
  <2> QED
    BY <1>0, <2>1, <2>2 DEF CmdTyped
<1>5. CASE \E b \in Bots : Send(b)
  <2>1. UNCHANGED world
    BY <1>5, SendSplits
  <2>2. cmd' = cmd /\ table' = table
    BY <2>1 DEF world
  <2> QED
    BY <1>0, <2>2 DEF CmdTyped
<1> QED
  BY <1>1, <1>2, <1>3, <1>4, <1>5, StepSplits

(* The bots keep their hands on rows that are there. *)
LEMMA HandsRest ==
  ASSUME Typed, DOMAIN note \subseteq DOMAIN note',
         \A b \in Bots : bot'[b] \in {bot[b], IdleBot}
  PROVE  HandsFull'
BY DEF Typed, HandsFull, IdleBot

LEMMA SendTyped ==
  ASSUME Typed, NEW b \in Bots, Send(b)
  PROVE  NotesTyped' /\ BotsTyped' /\ HandsFull' /\ now' = now
<1>1. UNCHANGED world
  BY SendSplits
<1>2. now' = now
  BY <1>1 DEF world
<1>3. CASE \E k \in DOMAIN note : Suppress(k)
  <2>1. NotesTyped' /\ BotsTyped' /\ bot' = bot /\ DOMAIN note' = DOMAIN note
    BY <1>3, SuppressStep DEF Rewrites
  <2> QED
    BY <1>2, <2>1 DEF HandsFull, Typed
<1>4. CASE \E k \in DOMAIN note : Claim(b, k)
  <2>1. PICK k \in DOMAIN note : Claim(b, k)
    BY <1>4
  <2> QED
    BY <1>2, <2>1, ClaimStep DEF HandsFull, Typed, Rewrites
<1>5. CASE SendSucceeds(b)
  <2>1. /\ NotesTyped' /\ BotsTyped' /\ DOMAIN note' = DOMAIN note
        /\ bot[b].pc # "idle" /\ bot'[b].key = bot[b].key /\ bot'[b].tok = bot[b].tok
        /\ \A c \in Bots : c # b => bot'[c] = bot[c]
    BY <1>5, SendStep DEF Rewrites
  <2> QED
    BY <1>2, <2>1 DEF HandsFull, Typed
<1>6. CASE /\ bot[b].pc # "idle" /\ Rest(b)
           /\ \E s \in {"suppressed", "retrying", "failed", "succeeded"} : Close(b, s)
  <2>1. NotesTyped' /\ BotsTyped' /\ Rewrites(bot[b].key)
        /\ bot'[b] = IdleBot /\ \A c \in Bots : c # b => bot'[c] = bot[c]
    BY <1>6, CloseStep
  <2>2. IdleBot.pc = "idle"
    BY DEF IdleBot
  <2> QED
    BY <1>2, <2>1, <2>2 DEF HandsFull, Typed, Rewrites
<1> QED
  BY <1>3, <1>4, <1>5, <1>6, SendSplits

LEMMA TypedNext ==
  ASSUME Typed, [Next]_vars
  PROVE  Typed'
<1>0. CmdTyped'
  BY CmdTypedNext
<1>1. CASE CalmStep
  BY <1>0, <1>1, HandsRest DEF CalmStep, Calm, Quiet, Typed
<1>2. CASE \E m \in Messages : CommandStarts(m)
  <2>1. Calm
    BY <1>2, CommandStartCalm
  <2> QED
    BY <1>0, <2>1, HandsRest DEF Calm, Quiet, Typed
<1>3. CASE IssuePage
  <2>1. NotesTyped' /\ BotsTyped' /\ bot' = bot /\ DOMAIN note \subseteq DOMAIN note'
    BY <1>3, IssueStep
  <2>2. now' = now
    BY <1>3 DEF IssuePage
  <2>3. HandsFull'
    BY <2>1, HandsRest
  <2> QED
    BY <1>0, <2>1, <2>2, <2>3 DEF Typed
<1>4. CASE QueueTableLink
  <2>1. NotesTyped' /\ BotsTyped' /\ bot' = bot /\ DOMAIN note \subseteq DOMAIN note'
    BY <1>4, LinkStep
  <2>2. now' = now
    BY <1>4 DEF QueueTableLink
  <2>3. HandsFull'
    BY <2>1, HandsRest
  <2> QED
    BY <1>0, <2>1, <2>2, <2>3 DEF Typed
<1>5. CASE \E b \in Bots : Send(b)
  BY <1>0, <1>5, SendTyped DEF Typed
<1> QED
  BY <1>1, <1>2, <1>3, <1>4, <1>5, StepSplits

LEMMA TypedInit ==
  ASSUME Init
  PROVE  Typed
<1>1. DOMAIN note = {} /\ note \in [{} -> NoteState({})]
  BY DEF Init
<1>2. NotesTyped
  BY <1>1 DEF NotesTyped
<1>3. IdleBot \in BotState(DOMAIN note) /\ IdleBot.pc = "idle"
  BY DEF IdleBot, BotState
<1>4. BotsTyped /\ HandsFull
  BY <1>3 DEF Init, BotsTyped, HandsFull
<1>5. CmdTyped
  BY IdleCmdTyped DEF Init, CmdTyped
<1> QED
  BY <1>2, <1>4, <1>5 DEF Init, Typed

LEMMA TypedAlways == Spec => []Typed
<1>1. Init => Typed
  BY TypedInit
<1>2. Typed /\ [Next]_vars => Typed'
  BY TypedNext
<1> QED
  BY <1>1, <1>2, PTL DEF Spec

-----------------------------------------------------------------------------
(* The chain of a command *)

Links(m) == {k \in DOMAIN note : k.type = "link" /\ k.of = m}

(* Nothing of the answer to command m may be delivered yet. *)
Withheld(m) == Links(m) = {} /\ \A k \in Chain(m) : note[k].held = TRUE

(* All of it may, one after the other. *)
Released(m) ==
    /\ \E k \in Chain(m) : k.type = "card"
    /\ Key("link", m, 0) \in DOMAIN note
    /\ \A k \in Chain(m) \cup Links(m) :
         note[k].held = FALSE /\ note[k].deps = Previous(k, Chain(m))

(* A bot has, or had, the row in hand. *)
Touched(k) ==
    \/ note[k].sent = TRUE \/ note[k].st # "pending"
    \/ \E b \in Bots : bot[b].pc # "idle" /\ bot[b].key = k

(* Everything before the row has been delivered. *)
Ready(k) ==
    /\ note[k].held = FALSE
    /\ \A j \in Chain(k.of) : Before(j, k) => note[j].st = "succeeded"

KeysFit ==
    \A k \in DOMAIN note :
      /\ k.type \in {"preview", "card"} => k.of \in Messages /\ k.no \in 0..(2 * Pages)
      /\ k.type = "link" => k.of \in Messages /\ k.no = 0
StatesFit ==
    \A k \in DOMAIN note : /\ note[k].st = "succeeded" => note[k].sent = TRUE
                           /\ note[k].st = "processing" <=> note[k].tok # 0
SentFit == \A b \in Bots : bot[b].pc = "sent" => note[bot[b].key].sent = TRUE
ChainsFit == \A m \in Messages : Withheld(m) \/ Released(m)
CmdFits ==
    /\ cmd.pc = "issue" => Withheld(cmd.of)
    /\ cmd.pc = "link" => \E k \in Chain(cmd.of) : k.type = "card"
OrderFits == \A k \in DOMAIN note : InChain(k) /\ Touched(k) => Ready(k)

ChainInv == KeysFit /\ StatesFit /\ SentFit /\ ChainsFit /\ CmdFits /\ OrderFits

(* The order of a chain *)

LEMMA BeforeTransitive ==
  ASSUME NEW i, NEW j, NEW k, i.no \in Int, j.no \in Int, k.no \in Int,
         Before(i, j), Before(j, k)
  PROVE  Before(i, k)
BY DEF Before

Rank(k) == IF k.type = "preview" THEN k.no ELSE 2 * Pages + 1 + k.no

LEMMA RankFits ==
  ASSUME KeysFit, NEW m, NEW i \in Chain(m)
  PROVE  /\ Rank(i) \in Nat /\ 4 * Pages + 1 - Rank(i) \in Nat /\ i.no \in Int
         /\ \A j \in Chain(m) : Before(i, j) => Rank(i) < Rank(j)
BY NotificationsAssumption DEF KeysFit, Chain, Rank, Before

(* A nonempty set of numbers has a least element. *)
LEMMA LeastOf ==
  ASSUME NEW S \in SUBSET Nat, S # {}
  PROVE  \E x \in S : \A y \in S : x <= y
<1>1. IsWellFoundedOn({ss \in Nat \X Nat : ss[1] < ss[2]}, Nat)
  BY NatLessThanWellFounded DEF OpToRel
<1>2. PICK x \in S : \A y \in S : ~(<<y, x>> \in {ss \in Nat \X Nat : ss[1] < ss[2]})
  BY <1>1, WFMin
<1>3. ASSUME NEW y \in S, y < x PROVE FALSE
  <2>1. /\ <<y, x>> \in Nat \X Nat
        /\ <<y, x>>[1] = y /\ <<y, x>>[2] = x
    OBVIOUS
  <2> QED
    BY <1>2, <1>3, <2>1
<1>4. \A y \in S : x <= y
  BY <1>3
<1> QED
  BY <1>4

(* Between a row and a later one there is one just before the later one.   *)
LEMMA PreviousExists ==
  ASSUME KeysFit, NEW k, k.no \in Int, NEW m, NEW j \in Chain(m), Before(j, k)
  PROVE  \E i \in Previous(k, Chain(m)) : i = j \/ Before(j, i)
<1> DEFINE C == Chain(m)
           S == {i \in C : Before(i, k) /\ (i = j \/ Before(j, i))}
           R == {4 * Pages + 1 - Rank(i) : i \in S}
<1>1. R \in SUBSET Nat
  BY RankFits
<1>2. R # {}
  OBVIOUS
<1>3. PICK x \in R : \A y \in R : x <= y
  <2> HIDE DEF R
  <2> QED
    BY <1>1, <1>2, LeastOf
<1>4. PICK i \in S : x = 4 * Pages + 1 - Rank(i)
  OBVIOUS
<1>5. ASSUME NEW l \in C, Before(i, l), Before(l, k) PROVE FALSE
  <2>1. i \in C /\ i.no \in Int /\ l.no \in Int /\ j.no \in Int
    BY RankFits
  <2>2. Before(j, l)
    BY <1>5, <2>1, <1>4, BeforeTransitive
  <2>3. l \in S
    BY <1>5, <2>2
  <2>4. x <= 4 * Pages + 1 - Rank(l)
    BY <1>3, <2>3
  <2>5. Rank(i) < Rank(l) /\ Rank(i) \in Nat /\ Rank(l) \in Nat
    BY <1>5, <2>1, RankFits
  <2> QED
    BY <1>4, <2>4, <2>5, NotificationsAssumption
<1>6. i \in Previous(k, C)
  BY <1>5 DEF Previous
<1> QED
  BY <1>6

(* A row that a bot may claim has everything before it delivered. *)
LEMMA ClaimableReady ==
  ASSUME Typed, ChainInv, NEW k \in DOMAIN note, InChain(k), Claimable(k, now)
  PROVE  Ready(k)
<1>1. note[k].held = FALSE
  BY DEF Claimable, Typed, NotesTyped, NoteState
<1>2. PICK m \in Messages : m = k.of /\ k.no \in Int
  BY NotificationsAssumption DEF ChainInv, KeysFit, InChain
<1>3. k \in Chain(m) \cup Links(m)
  BY <1>2 DEF InChain, Chain, Links
<1>4. Released(m)
  BY <1>1, <1>3 DEF ChainInv, ChainsFit, Withheld
<1>5. note[k].deps = Previous(k, Chain(m))
  BY <1>3, <1>4 DEF Released
<1>6. ASSUME NEW j \in Chain(m), Before(j, k) PROVE note[j].st = "succeeded"
  <2>1. PICK i \in Previous(k, Chain(m)) : i = j \/ Before(j, i)
    BY <1>2, <1>6, PreviousExists DEF ChainInv
  <2>2. note[i].st = "succeeded"
    BY <1>5 DEF Claimable, DependenciesSent
  <2>3. i \in DOMAIN note /\ InChain(i) /\ i.of = m
    BY DEF Previous, Chain, InChain
  <2>4. Ready(i)
    BY <2>2, <2>3 DEF ChainInv, OrderFits, Touched
  <2> QED
    BY <2>1, <2>2, <2>3, <2>4 DEF Ready
<1> QED
  BY <1>1, <1>2, <1>6 DEF Ready

(* Steps that leave the chains as they are *)

Framed ==
    /\ DOMAIN note \subseteq DOMAIN note'
    /\ \A k \in DOMAIN note : note'[k].held = note[k].held /\ note'[k].deps = note[k].deps
    /\ \A k \in DOMAIN note' \ DOMAIN note : ~InChain(k)

LEMMA QuietFramed == ASSUME Quiet PROVE Framed
BY DEF Quiet, Framed

LEMMA RewriteFramed ==
  ASSUME NEW k \in DOMAIN note, Rewrites(k)
  PROVE  Framed
BY DEF Rewrites, Framed

LEMMA FramedChain ==
  ASSUME Framed, NEW m
  PROVE  Chain(m)' = Chain(m) /\ Links(m)' = Links(m)
BY DEF Framed, Chain, Links, InChain

LEMMA FramedPlaces ==
  ASSUME Framed, NEW m
  PROVE  (Withheld(m) => Withheld(m)') /\ (Released(m) => Released(m)')
<1>1. Chain(m)' = Chain(m) /\ Links(m)' = Links(m)
  BY FramedChain
<1>2. \A k \in Chain(m) \cup Links(m) :
        k \in DOMAIN note /\ note'[k].held = note[k].held /\ note'[k].deps = note[k].deps
  BY DEF Framed, Chain, Links
<1>3. DOMAIN note \subseteq DOMAIN note'
  BY DEF Framed
<1>4. Withheld(m) => Withheld(m)'
  BY <1>1, <1>2 DEF Withheld
<1>5. ASSUME Released(m) PROVE Released(m)'
  <2>1. (\E k \in Chain(m) : k.type = "card") /\ Key("link", m, 0) \in DOMAIN note'
    BY <1>3, <1>5 DEF Released
  <2>2. \A k \in Chain(m) \cup Links(m) :
          note'[k].held = FALSE /\ note'[k].deps = Previous(k, Chain(m))
    BY <1>2, <1>5 DEF Released
  <2>3. \A k \in Chain(m)' \cup Links(m)' :
          note'[k].held = FALSE /\ note'[k].deps = Previous(k, Chain(m)')
    BY <1>1, <2>2
  <2>4. \E k \in Chain(m)' : k.type = "card"
    BY <1>1, <2>1
  <2> QED
    BY <2>1, <2>3, <2>4 DEF Released
<1> QED
  BY <1>4, <1>5

LEMMA FramedKeeps ==
  ASSUME ChainInv, Framed
  PROVE  KeysFit' /\ ChainsFit' /\ (cmd' \in {cmd, IdleCmd} => CmdFits')
<1>1. KeysFit'
  BY DEF ChainInv, KeysFit, Framed, InChain
<1>2. ChainsFit'
  BY FramedPlaces DEF ChainInv, ChainsFit
<1>3. ASSUME cmd' = IdleCmd PROVE CmdFits'
  BY <1>3 DEF CmdFits, IdleCmd
<1>4. ASSUME cmd' = cmd PROVE CmdFits'
  <2>1. PICK m : m = cmd.of /\ m = cmd'.of
    BY <1>4
  <2>2. Withheld(m) => Withheld(m)'
    BY FramedPlaces
  <2>3. Chain(m)' = Chain(m)
    BY FramedChain
  <2>4. /\ cmd'.pc = "issue" => Withheld(m)'
        /\ cmd'.pc = "link" => \E k \in Chain(m)' : k.type = "card"
    BY <1>4, <2>1, <2>2, <2>3 DEF ChainInv, CmdFits
  <2> QED
    BY <1>4, <2>1, <2>4 DEF CmdFits, Withheld, Chain, Links
<1> QED
  BY <1>1, <1>2, <1>3, <1>4

(* What was delivered stays so, and only a row that is ready is taken up. *)
LEMMA OrderKept ==
  ASSUME ChainInv, Framed,
         \A k \in DOMAIN note : InChain(k) =>
           /\ note[k].st = "succeeded" => note'[k].st = "succeeded"
           /\ Touched(k)' => Touched(k) \/ Ready(k)
  PROVE  OrderFits'
<1> SUFFICES ASSUME NEW k \in DOMAIN note', InChain(k), Touched(k)'
             PROVE  Ready(k)'
  BY DEF OrderFits
<1>1. k \in DOMAIN note
  BY DEF Framed
<1>2. Ready(k)
  BY <1>1 DEF ChainInv, OrderFits
<1>3. PICK m : m = k.of
  OBVIOUS
<1>4. Chain(m)' = Chain(m)
  BY FramedChain
<1>5. \A j \in Chain(m) : j \in DOMAIN note /\ InChain(j)
  BY DEF Chain, InChain
<1>6. note'[k].held = FALSE
  BY <1>1, <1>2 DEF Framed, Ready
<1>7. \A j \in Chain(m) : Before(j, k) => note'[j].st = "succeeded"
  BY <1>2, <1>3, <1>5 DEF Ready
<1>8. \A j \in Chain(m)' : Before(j, k) => note'[j].st = "succeeded"
  BY <1>4, <1>7
<1> QED
  BY <1>3, <1>6, <1>8 DEF Ready

LEMMA CalmKeepsOrder ==
  ASSUME Typed, ChainInv, Calm
  PROVE  Framed /\ StatesFit' /\ SentFit' /\ OrderFits'
<1>1. Quiet /\ \A b \in Bots : bot'[b] \in {bot[b], IdleBot}
  BY DEF Calm
<1>2. Framed
  BY <1>1, QuietFramed
<1>3. StatesFit'
  BY <1>1 DEF Quiet, ChainInv, StatesFit
<1>4. SentFit'
  <2> SUFFICES ASSUME NEW b \in Bots, bot'[b].pc = "sent" PROVE note'[bot'[b].key].sent = TRUE
    BY DEF SentFit
  <2>1. bot'[b] = bot[b]
    BY <1>1 DEF IdleBot
  <2>2. bot[b].pc = "sent" /\ bot[b].key \in DOMAIN note
    BY <2>1 DEF Typed, HandsFull
  <2>3. note[bot[b].key].sent = TRUE
    BY <2>2 DEF ChainInv, SentFit
  <2> QED
    BY <1>1, <2>1, <2>2, <2>3 DEF Quiet
<1>5. ASSUME NEW k \in DOMAIN note, Touched(k)' PROVE Touched(k)
  BY <1>1, <1>5 DEF Quiet, Touched, IdleBot
<1>6. OrderFits'
  BY <1>1, <1>2, <1>5, OrderKept DEF Quiet
<1> QED
  BY <1>2, <1>3, <1>4, <1>6

LEMMA CalmChainInv ==
  ASSUME Typed, ChainInv, CalmStep
  PROVE  ChainInv'
BY CalmKeepsOrder, FramedKeeps DEF CalmStep, ChainInv

LEMMA StartChainInv ==
  ASSUME Typed, ChainInv, NEW m \in Messages, CommandStarts(m)
  PROVE  ChainInv'
<1>1. Calm /\ cmd' = [pc |-> IF Prepared(m) THEN "link" ELSE "issue",
                      of |-> m, page |-> 1, ver |-> table]
  BY CommandStartCalm
<1>2. Framed /\ StatesFit' /\ SentFit' /\ OrderFits'
  BY <1>1, CalmKeepsOrder
<1>3. KeysFit' /\ ChainsFit'
  BY <1>2, FramedKeeps
<1>4. cmd'.of = m /\ (cmd'.pc = "link" => Prepared(m)) /\ (cmd'.pc = "issue" => ~Prepared(m))
  BY <1>1
<1>5. cmd'.pc = "issue" => Withheld(m)'
  <2>1. Released(m) => Prepared(m)
    BY DEF Released, Prepared
  <2>2. ~Prepared(m) => Withheld(m)
    BY <2>1 DEF ChainInv, ChainsFit
  <2> QED
    BY <1>2, <1>4, <2>2, FramedPlaces
<1>6. cmd'.pc = "link" => \E k \in Chain(m)' : k.type = "card"
  <2>1. Chain(m)' = Chain(m)
    BY <1>2, FramedChain
  <2> QED
    BY <1>4, <2>1 DEF Prepared
<1>7. CmdFits'
  BY <1>4, <1>5, <1>6 DEF CmdFits, Withheld, Chain, Links
<1> QED
  BY <1>2, <1>3, <1>7 DEF ChainInv

LEMMA ClaimChainInv ==
  ASSUME Typed, ChainInv, NEW b \in Bots, NEW k \in DOMAIN note,
         Claimable(k, now), Claim(b, k), cmd' = cmd
  PROVE  ChainInv'
<1>1. /\ Rewrites(k)
      /\ note'[k].st = "processing" /\ note'[k].tok # 0 /\ note'[k].sent = note[k].sent
      /\ bot'[b].pc = "claimed" /\ bot'[b].key = k
      /\ \A c \in Bots : c # b => bot'[c] = bot[c]
  BY ClaimStep
<1>2. Framed
  BY <1>1, RewriteFramed
<1>3. KeysFit' /\ ChainsFit' /\ CmdFits'
  BY <1>2, FramedKeeps
<1>4. StatesFit'
  BY <1>1 DEF ChainInv, StatesFit, Rewrites
<1>5. SentFit'
  <2> SUFFICES ASSUME NEW c \in Bots, bot'[c].pc = "sent" PROVE note'[bot'[c].key].sent = TRUE
    BY DEF SentFit
  <2>1. c # b /\ bot'[c] = bot[c]
    BY <1>1
  <2>2. bot[c].pc = "sent" /\ bot[c].key \in DOMAIN note
    BY <2>1 DEF Typed, HandsFull
  <2>3. note[bot[c].key].sent = TRUE
    BY <2>2 DEF ChainInv, SentFit
  <2> QED
    BY <1>1, <2>1, <2>2, <2>3 DEF Rewrites
<1>6. note[k].st # "succeeded"
  BY DEF Claimable, Candidate
<1>7. ASSUME NEW j \in DOMAIN note, InChain(j)
      PROVE  /\ note[j].st = "succeeded" => note'[j].st = "succeeded"
             /\ Touched(j)' => Touched(j) \/ Ready(j)
  <2>1. CASE j = k
    <3>1. Ready(j)
      BY <1>7, <2>1, ClaimableReady
    <3> QED
      BY <1>6, <2>1, <3>1
  <2>2. CASE j # k
    <3>1. note'[j] = note[j]
      BY <1>1, <2>2 DEF Rewrites
    <3>2. Touched(j)' => Touched(j)
      BY <1>1, <2>2, <3>1 DEF Touched
    <3> QED
      BY <3>1, <3>2
  <2> QED
    BY <2>1, <2>2
<1>8. OrderFits'
  BY <1>2, <1>7, OrderKept
<1> QED
  BY <1>3, <1>4, <1>5, <1>8 DEF ChainInv

LEMMA SuppressChainInv ==
  ASSUME Typed, ChainInv, NEW k \in DOMAIN note, ~InChain(k), Suppress(k), cmd' = cmd
  PROVE  ChainInv'
<1>1. /\ Rewrites(k) /\ bot' = bot
      /\ note'[k].st = "suppressed" /\ note'[k].tok = 0 /\ note'[k].sent = note[k].sent
  BY SuppressStep
<1>2. Framed
  BY <1>1, RewriteFramed
<1>3. KeysFit' /\ ChainsFit' /\ CmdFits'
  BY <1>2, FramedKeeps
<1>4. StatesFit'
  BY <1>1 DEF ChainInv, StatesFit, Rewrites
<1>5. SentFit'
  <2> SUFFICES ASSUME NEW c \in Bots, bot'[c].pc = "sent" PROVE note'[bot'[c].key].sent = TRUE
    BY DEF SentFit
  <2>1. bot'[c] = bot[c]
    BY <1>1
  <2>2. bot[c].pc = "sent" /\ bot[c].key \in DOMAIN note
    BY <2>1 DEF Typed, HandsFull
  <2>3. note[bot[c].key].sent = TRUE
    BY <2>2 DEF ChainInv, SentFit
  <2> QED
    BY <1>1, <2>1, <2>2, <2>3 DEF Rewrites
<1>6. ASSUME NEW j \in DOMAIN note, InChain(j)
      PROVE  /\ note[j].st = "succeeded" => note'[j].st = "succeeded"
             /\ Touched(j)' => Touched(j) \/ Ready(j)
  <2>1. note'[j] = note[j]
    BY <1>1, <1>6 DEF Rewrites
  <2> QED
    BY <1>1, <2>1 DEF Touched
<1>7. OrderFits'
  BY <1>2, <1>6, OrderKept
<1> QED
  BY <1>3, <1>4, <1>5, <1>7 DEF ChainInv

LEMMA SendChainInv ==
  ASSUME Typed, ChainInv, NEW b \in Bots, SendSucceeds(b), cmd' = cmd
  PROVE  ChainInv'
<1>1. PICK k \in DOMAIN note : k = bot[b].key
  BY SendStep
<1>2. /\ Rewrites(k) /\ bot[b].pc = "claimed"
      /\ note'[k].st = note[k].st /\ note'[k].tok = note[k].tok /\ note'[k].sent = TRUE
      /\ bot'[b].pc = "sent" /\ bot'[b].key = k
      /\ \A c \in Bots : c # b => bot'[c] = bot[c]
  BY <1>1, SendStep
<1>3. Framed
  BY <1>2, RewriteFramed
<1>4. KeysFit' /\ ChainsFit' /\ CmdFits'
  BY <1>3, FramedKeeps
<1>5. StatesFit'
  BY <1>2 DEF ChainInv, StatesFit, Rewrites
<1>6. SentFit'
  <2> SUFFICES ASSUME NEW c \in Bots, bot'[c].pc = "sent" PROVE note'[bot'[c].key].sent = TRUE
    BY DEF SentFit
  <2>1. CASE c = b
    BY <1>2, <2>1
  <2>2. CASE c # b
    <3>1. bot'[c] = bot[c]
      BY <1>2, <2>2
    <3>2. bot[c].pc = "sent" /\ bot[c].key \in DOMAIN note
      BY <3>1 DEF Typed, HandsFull
    <3>3. note[bot[c].key].sent = TRUE
      BY <3>2 DEF ChainInv, SentFit
    <3> QED
      BY <1>2, <3>1, <3>2, <3>3 DEF Rewrites
  <2> QED
    BY <2>1, <2>2
<1>7. ASSUME NEW j \in DOMAIN note, InChain(j)
      PROVE  /\ note[j].st = "succeeded" => note'[j].st = "succeeded"
             /\ Touched(j)' => Touched(j) \/ Ready(j)
  <2>1. CASE j = k
    <3>1. Touched(j)
      BY <1>1, <1>2, <2>1 DEF Touched
    <3> QED
      BY <1>2, <2>1, <3>1
  <2>2. CASE j # k
    <3>1. note'[j] = note[j]
      BY <1>2, <2>2 DEF Rewrites
    <3>2. Touched(j)' => Touched(j)
      BY <1>2, <2>2, <3>1 DEF Touched
    <3> QED
      BY <3>1, <3>2
  <2> QED
    BY <2>1, <2>2
<1>8. OrderFits'
  BY <1>3, <1>7, OrderKept
<1> QED
  BY <1>4, <1>5, <1>6, <1>8 DEF ChainInv

LEMMA CloseChainInv ==
  ASSUME Typed, ChainInv, NEW b \in Bots, bot[b].pc # "idle",
         NEW s \in {"suppressed", "retrying", "failed", "succeeded"},
         s = "succeeded" => bot[b].pc = "sent",
         Close(b, s), Rest(b), cmd' = cmd
  PROVE  ChainInv'
<1>1. PICK k \in DOMAIN note : k = bot[b].key
  BY CloseStep
<1>2. /\ Rewrites(k) /\ note'[k].sent = note[k].sent
      /\ \/ note' = note
         \/ note[k].tok = bot[b].tok /\ note'[k].st = s /\ note'[k].tok = 0
      /\ bot'[b] = IdleBot /\ \A c \in Bots : c # b => bot'[c] = bot[c]
  BY <1>1, CloseStep
<1>3. Framed
  BY <1>2, RewriteFramed
<1>4. KeysFit' /\ ChainsFit' /\ CmdFits'
  BY <1>3, FramedKeeps
<1>5. IdleBot.pc = "idle"
  BY DEF IdleBot
<1>6. StatesFit'
  <2>1. s = "succeeded" => note[k].sent = TRUE
    BY <1>1 DEF ChainInv, SentFit
  <2> QED
    BY <1>2, <2>1 DEF ChainInv, StatesFit, Rewrites
<1>7. SentFit'
  <2> SUFFICES ASSUME NEW c \in Bots, bot'[c].pc = "sent" PROVE note'[bot'[c].key].sent = TRUE
    BY DEF SentFit
  <2>1. bot'[c] = bot[c]
    BY <1>2, <1>5
  <2>2. bot[c].pc = "sent" /\ bot[c].key \in DOMAIN note
    BY <2>1 DEF Typed, HandsFull
  <2>3. note[bot[c].key].sent = TRUE
    BY <2>2 DEF ChainInv, SentFit
  <2> QED
    BY <1>2, <2>1, <2>2, <2>3 DEF Rewrites
<1>8. ASSUME NEW j \in DOMAIN note, InChain(j)
      PROVE  /\ note[j].st = "succeeded" => note'[j].st = "succeeded"
             /\ Touched(j)' => Touched(j) \/ Ready(j)
  <2>1. CASE j = k
    <3>1. Touched(j)
      BY <1>1, <2>1 DEF Touched
    <3>2. bot[b].tok # 0
      BY DEF Typed, HandsFull
    <3>3. note[k].st = "succeeded" => note[k].tok = 0
      BY DEF ChainInv, StatesFit
    <3>4. note[j].st = "succeeded" => note'[j].st = "succeeded"
      BY <1>2, <2>1, <3>2, <3>3
    <3> QED
      BY <3>1, <3>4
  <2>2. CASE j # k
    <3>1. note'[j] = note[j]
      BY <1>2, <2>2 DEF Rewrites
    <3>2. Touched(j)' => Touched(j)
      BY <1>2, <1>5, <3>1 DEF Touched
    <3> QED
      BY <3>1, <3>2
  <2> QED
    BY <2>1, <2>2
<1>9. OrderFits'
  BY <1>3, <1>8, OrderKept
<1> QED
  BY <1>4, <1>6, <1>7, <1>9 DEF ChainInv

LEMMA BotChainInv ==
  ASSUME Typed, ChainInv, NEW b \in Bots, Send(b)
  PROVE  ChainInv'
<1>1. cmd' = cmd
  BY SendSplits DEF world
<1>2. CASE \E k \in DOMAIN note : ~InChain(k) /\ Candidate(k) /\ Suppress(k)
  BY <1>1, <1>2, SuppressChainInv
<1>3. CASE \E k \in DOMAIN note : Claimable(k, now) /\ Claim(b, k)
  BY <1>1, <1>3, ClaimChainInv
<1>4. CASE SendSucceeds(b)
  BY <1>1, <1>4, SendChainInv
<1>5. CASE /\ bot[b].pc = "claimed" /\ Rest(b)
           /\ \E s \in {"suppressed", "retrying", "failed"} : Close(b, s)
  BY <1>1, <1>5, CloseChainInv
<1>6. CASE bot[b].pc = "sent" /\ Rest(b) /\ Close(b, "succeeded")
  BY <1>1, <1>6, CloseChainInv
<1> QED
  BY <1>2, <1>3, <1>4, <1>5, <1>6, SendSplits

(* Nobody has touched what is withheld. *)
LEMMA WithheldUntouched ==
  ASSUME ChainInv, NEW m, Withheld(m)
  PROVE  \A k \in DOMAIN note : InChain(k) /\ k.of = m => ~Touched(k)
BY DEF ChainInv, OrderFits, Ready, Withheld, Chain, Links, InChain

(* Rows of one command are added or released, unseen by the bots. *)
LEMMA OneChainChanges ==
  ASSUME Typed, ChainInv, NEW m \in Messages, Withheld(m),
         bot' = bot, DOMAIN note \subseteq DOMAIN note',
         \A k \in DOMAIN note :
            /\ note'[k].st = note[k].st /\ note'[k].tok = note[k].tok
            /\ note'[k].sent = note[k].sent
            /\ ~(InChain(k) /\ k.of = m) => note'[k] = note[k],
         \A k \in DOMAIN note' \ DOMAIN note :
            /\ InChain(k) /\ k.of = m
            /\ note'[k].st = "pending" /\ note'[k].tok = 0 /\ note'[k].sent = FALSE
  PROVE  /\ StatesFit' /\ SentFit' /\ OrderFits'
         /\ \A x \in Messages \ {m} : Withheld(x)' \/ Released(x)'
<1>1. StatesFit'
  BY DEF ChainInv, StatesFit
<1>2. SentFit'
  <2> SUFFICES ASSUME NEW b \in Bots, bot'[b].pc = "sent" PROVE note'[bot'[b].key].sent = TRUE
    BY DEF SentFit
  <2>1. bot[b].pc = "sent" /\ bot[b].key \in DOMAIN note
    BY DEF Typed, HandsFull
  <2>2. note[bot[b].key].sent = TRUE
    BY <2>1 DEF ChainInv, SentFit
  <2> QED
    BY <2>1, <2>2
<1>3. ASSUME NEW x, x # m PROVE Chain(x)' = Chain(x) /\ Links(x)' = Links(x)
  BY <1>3 DEF Chain, Links
<1>4. ASSUME NEW x, x # m PROVE \A k \in Chain(x) \cup Links(x) : note'[k] = note[k]
  BY <1>4 DEF Chain, Links
<1>5. ASSUME NEW x \in Messages \ {m} PROVE Withheld(x)' \/ Released(x)'
  <2>1. Chain(x)' = Chain(x) /\ Links(x)' = Links(x)
        /\ \A k \in Chain(x) \cup Links(x) : note'[k] = note[k]
    BY <1>3, <1>4
  <2>2. CASE Withheld(x)
    BY <2>1, <2>2 DEF Withheld
  <2>3. CASE Released(x)
    <3>1. (\E k \in Chain(x) : k.type = "card") /\ Key("link", x, 0) \in DOMAIN note'
      BY <2>3 DEF Released
    <3>2. \A k \in Chain(x) \cup Links(x) :
            note'[k].held = FALSE /\ note'[k].deps = Previous(k, Chain(x))
      BY <2>1, <2>3 DEF Released
    <3>3. \A k \in Chain(x)' \cup Links(x)' :
            note'[k].held = FALSE /\ note'[k].deps = Previous(k, Chain(x)')
      BY <2>1, <3>2
    <3>4. \E k \in Chain(x)' : k.type = "card"
      BY <2>1, <3>1
    <3> QED
      BY <3>1, <3>3, <3>4 DEF Released
  <2> QED
    BY <2>2, <2>3 DEF ChainInv, ChainsFit
<1>6. OrderFits'
  <2> SUFFICES ASSUME NEW k \in DOMAIN note', InChain(k), Touched(k)'
               PROVE  Ready(k)'
    BY DEF OrderFits
  <2>1. ASSUME k \notin DOMAIN note PROVE FALSE
    <3>1. note'[k].st = "pending" /\ note'[k].sent = FALSE
      BY <2>1
    <3>2. PICK b \in Bots : bot[b].pc # "idle" /\ bot[b].key = k
      BY <3>1 DEF Touched
    <3> QED
      BY <2>1, <3>2 DEF Typed, HandsFull
  <2>2. k \in DOMAIN note /\ Touched(k)
    BY <2>1 DEF Touched
  <2>3. Ready(k)
    BY <2>2 DEF ChainInv, OrderFits
  <2>4. PICK x : x = k.of
    OBVIOUS
  <2>5. x # m
    BY <2>2, <2>4, WithheldUntouched
  <2>6. Chain(x)' = Chain(x) /\ \A j \in Chain(x) : note'[j] = note[j]
    BY <1>3, <1>4, <2>5
  <2>7. note'[k] = note[k]
    BY <2>2, <2>4, <2>5
  <2>8. \A j \in Chain(x)' : Before(j, k) => note'[j].st = "succeeded"
    BY <2>3, <2>4, <2>6 DEF Ready
  <2>9. note'[k].held = FALSE
    BY <2>3, <2>7 DEF Ready
  <2> QED
    BY <2>4, <2>8, <2>9 DEF Ready
<1> QED
  BY <1>1, <1>2, <1>5, <1>6

LEMMA IssueChainInv ==
  ASSUME Typed, ChainInv, IssuePage
  PROVE  ChainInv'
<1>1. cmd.pc = "issue"
  BY DEF IssuePage
<1>2. PICK m \in Messages : m = cmd.of
  BY <1>1 DEF Typed, CmdTyped
<1>3. Withheld(m)
  BY <1>1, <1>2 DEF ChainInv, CmdFits
<1>4. PICK no \in 0..(2 * Pages) :
        /\ bot' = bot
        /\ DOMAIN note' = DOMAIN note \cup {Key("preview", m, no), Key("card", m, no)}
        /\ \A k \in DOMAIN note : note'[k] = note[k]
        /\ \A k \in DOMAIN note' \ DOMAIN note : note'[k] = HeldNote
  BY <1>2, IssueStep
<1>5. HeldNote.st = "pending" /\ HeldNote.tok = 0 /\ HeldNote.sent = FALSE /\ HeldNote.held = TRUE
  BY DEF HeldNote, NewNote
<1>6. /\ Key("preview", m, no).type = "preview" /\ Key("card", m, no).type = "card"
      /\ Key("preview", m, no).of = m /\ Key("card", m, no).of = m
      /\ Key("preview", m, no).no = no /\ Key("card", m, no).no = no
  BY DEF Key
<1>7. \A k \in DOMAIN note' \ DOMAIN note :
        k.type \in {"preview", "card"} /\ InChain(k) /\ k.of = m /\ k.no = no
  BY <1>4, <1>6 DEF InChain
<1>8. StatesFit' /\ SentFit' /\ OrderFits' /\ \A x \in Messages \ {m} : Withheld(x)' \/ Released(x)'
  BY <1>3, <1>4, <1>5, <1>7, OneChainChanges
<1>9. KeysFit'
  BY <1>4, <1>7 DEF ChainInv, KeysFit
<1>10. Withheld(m)'
  <2>1. Links(m)' = {}
    BY <1>3, <1>7 DEF Withheld, Links
  <2>2. \A k \in Chain(m)' : note'[k].held = TRUE
    BY <1>3, <1>4, <1>5 DEF Withheld, Chain
  <2> QED
    BY <2>1, <2>2 DEF Withheld
<1>11. Key("card", m, no) \in Chain(m)'
  BY <1>4, <1>6 DEF Chain
<1>12. cmd'.of = m
  BY <1>2 DEF IssuePage, Typed, CmdTyped, CmdState
<1>13. CmdFits'
  <2>1. \E k \in Chain(m)' : k.type = "card"
    BY <1>6, <1>11
  <2> QED
    BY <1>10, <1>12, <2>1 DEF CmdFits, Withheld, Chain, Links
<1>14. ChainsFit'
  BY <1>8, <1>10 DEF ChainsFit
<1> QED
  BY <1>8, <1>9, <1>13, <1>14 DEF ChainInv

LEMMA LinkChainInv ==
  ASSUME Typed, ChainInv, QueueTableLink
  PROVE  ChainInv'
<1>1. cmd.pc = "link" /\ cmd' = [cmd EXCEPT !.pc = "reply"]
  BY DEF QueueTableLink
<1>2. PICK m \in Messages : m = cmd.of
  BY <1>1 DEF Typed, CmdTyped
<1> DEFINE C == Chain(m)
           link == Key("link", m, 0)
<1>3. /\ bot' = bot /\ DOMAIN note' = DOMAIN note \cup {link}
      /\ \A k \in DOMAIN note \ C : note'[k] = note[k]
      /\ \A k \in C : /\ note'[k].held = FALSE /\ note'[k].deps = Previous(k, C)
                      /\ note'[k].st = note[k].st /\ note'[k].tok = note[k].tok
                      /\ note'[k].sent = note[k].sent /\ note'[k].ids = note[k].ids
                      /\ note'[k].told = note[k].told
      /\ link \notin DOMAIN note =>
           note'[link] = [NewNote({}) EXCEPT !.deps = Previous(link, C)]
  BY <1>2, LinkStep
<1>4. CmdFits'
  <2>1. cmd'.pc = "reply"
    BY <1>1 DEF Typed, CmdTyped, CmdState
  <2> QED
    BY <2>1 DEF CmdFits
<1>5. link.type = "link" /\ link.of = m /\ link.no = 0 /\ InChain(link)
  BY DEF Key, InChain
<1>6. \A k \in C : k \in DOMAIN note /\ k.of = m /\ InChain(k) /\ k.type # "link"
  BY DEF Chain, InChain
<1>7. CASE Released(m)
  <2>1. DOMAIN note' = DOMAIN note
    BY <1>3, <1>7 DEF Released
  <2>2. \A k \in DOMAIN note :
          /\ note'[k].held = note[k].held /\ note'[k].deps = note[k].deps
          /\ note'[k].st = note[k].st /\ note'[k].tok = note[k].tok
          /\ note'[k].sent = note[k].sent /\ note'[k].ids = note[k].ids
          /\ note'[k].told = note[k].told
    BY <1>3, <1>7 DEF Released
  <2>3. Quiet
    BY <2>1, <2>2 DEF Quiet
  <2>4. Calm
    <3>1. NotesTyped' /\ BotsTyped'
      BY LinkStep
    <3>2. now' = now
      BY DEF QueueTableLink
    <3> QED
      BY <1>3, <2>3, <3>1, <3>2 DEF Calm, Typed
  <2>5. Framed /\ StatesFit' /\ SentFit' /\ OrderFits'
    BY <2>4, CalmKeepsOrder
  <2>6. KeysFit' /\ ChainsFit'
    BY <2>5, FramedKeeps
  <2> QED
    BY <1>4, <2>5, <2>6 DEF ChainInv
<1>8. CASE Withheld(m)
  <2>1. link \notin DOMAIN note
    BY <1>5, <1>8 DEF Withheld, Links
  <2>2. note'[link] = [NewNote({}) EXCEPT !.deps = Previous(link, C)]
    BY <1>3, <2>1
  <2>3. /\ note'[link].st = "pending" /\ note'[link].tok = 0 /\ note'[link].sent = FALSE
        /\ note'[link].held = FALSE /\ note'[link].deps = Previous(link, C)
    BY <2>2 DEF NewNote
  <2> HIDE DEF C, link
  <2>4. \A k \in DOMAIN note :
            /\ note'[k].st = note[k].st /\ note'[k].tok = note[k].tok
            /\ note'[k].sent = note[k].sent
            /\ ~(InChain(k) /\ k.of = m) => note'[k] = note[k]
    BY <1>3, <1>6
  <2>5. \A k \in DOMAIN note' \ DOMAIN note :
            /\ InChain(k) /\ k.of = m
            /\ note'[k].st = "pending" /\ note'[k].tok = 0 /\ note'[k].sent = FALSE
    BY <1>3, <1>5, <2>3
  <2>6. StatesFit' /\ SentFit' /\ OrderFits' /\ \A x \in Messages \ {m} : Withheld(x)' \/ Released(x)'
    BY <1>3, <1>8, <2>4, <2>5, OneChainChanges
  <2>7. KeysFit'
    BY <1>3, <1>5 DEF ChainInv, KeysFit
  <2>8. Chain(m)' = C /\ Links(m)' = {link}
    BY <1>3, <1>5, <1>8 DEF Chain, Links, Withheld, C
  <2>9. Released(m)'
    <3>1. \E k \in C : k.type = "card"
      BY <1>1, <1>2 DEF ChainInv, CmdFits, C
    <3>2. \A k \in C \cup {link} : note'[k].held = FALSE /\ note'[k].deps = Previous(k, C)
      BY <1>3, <2>3
    <3>3. link \in DOMAIN note'
      BY <1>3
    <3>4. \A k \in Chain(m)' \cup Links(m)' :
            note'[k].held = FALSE /\ note'[k].deps = Previous(k, Chain(m)')
      BY <2>8, <3>2
    <3>5. \E k \in Chain(m)' : k.type = "card"
      BY <2>8, <3>1
    <3>6. Key("link", m, 0) \in DOMAIN note'
      BY <3>3 DEF link
    <3> QED
      BY <3>4, <3>5, <3>6 DEF Released
  <2>10. ChainsFit'
    BY <2>6, <2>9 DEF ChainsFit
  <2> QED
    BY <1>4, <2>6, <2>7, <2>10 DEF ChainInv
<1> QED
  BY <1>7, <1>8 DEF ChainInv, ChainsFit

LEMMA ChainInvInit ==
  ASSUME Init
  PROVE  ChainInv
<1>1. DOMAIN note = {}
  BY DEF Init
<1>2. \A m : Chain(m) = {} /\ Links(m) = {}
  BY <1>1 DEF Chain, Links
<1>3. KeysFit /\ StatesFit /\ OrderFits
  BY <1>1 DEF KeysFit, StatesFit, OrderFits
<1>4. ChainsFit
  BY <1>2 DEF ChainsFit, Withheld
<1>5. SentFit /\ CmdFits
  BY DEF Init, SentFit, CmdFits, IdleBot, IdleCmd
<1> QED
  BY <1>3, <1>4, <1>5 DEF ChainInv

LEMMA ChainInvNext ==
  ASSUME Typed, ChainInv, [Next]_vars
  PROVE  ChainInv'
<1>1. CASE CalmStep
  BY <1>1, CalmChainInv
<1>2. CASE \E m \in Messages : CommandStarts(m)
  BY <1>2, StartChainInv
<1>3. CASE IssuePage
  BY <1>3, IssueChainInv
<1>4. CASE QueueTableLink
  BY <1>4, LinkChainInv
<1>5. CASE \E b \in Bots : Send(b)
  BY <1>5, BotChainInv
<1> QED
  BY <1>1, <1>2, <1>3, <1>4, <1>5, StepSplits

LEMMA ChainInvAlways == Spec => [](Typed /\ ChainInv)
<1>1. Init => Typed /\ ChainInv
  BY TypedInit, ChainInvInit
<1>2. Typed /\ ChainInv /\ [Next]_vars => (Typed /\ ChainInv)'
  BY TypedNext, ChainInvNext
<1> QED
  BY <1>1, <1>2, PTL DEF Spec

LEMMA OrderIsSound ==
  ASSUME Typed, ChainInv
  PROVE  DeliveredInOrder
<1> SUFFICES ASSUME NEW j \in DOMAIN note, NEW k \in DOMAIN note, j.of = k.of,
                    k.type \in {"preview", "card", "link"}, Before(j, k), note[k].sent
             PROVE  note[j].sent
  BY DEF DeliveredInOrder
<1>1. note[k].sent = TRUE /\ note[j].sent \in BOOLEAN
  BY DEF Typed, NotesTyped, NoteState
<1>2. Ready(k)
  BY <1>1 DEF ChainInv, OrderFits, Touched, InChain
<1>3. j \in Chain(k.of)
  <2>1. CASE j.type = "link" /\ k.type = "link"
    <3>1. j.no = 0 /\ k.no = 0
      BY <2>1 DEF ChainInv, KeysFit
    <3> QED
      BY <2>1, <3>1 DEF Before
  <2>2. CASE j.type \in {"preview", "card"}
    BY <2>2 DEF Chain
  <2> QED
    BY <2>1, <2>2 DEF Before
<1>4. note[j].st = "succeeded"
  BY <1>2, <1>3 DEF Ready
<1> QED
  BY <1>1, <1>4 DEF ChainInv, StatesFit

(* A card is delivered after every preview of its command, and the table    *)
(* link after every card, whatever is lost, retried, replayed or sent       *)
(* twice: nothing is claimed before its depends_on has succeeded, and what  *)
(* has succeeded is never opened again.                                     *)
THEOREM DeliveryKeepsTheOrder == Spec => []DeliveredInOrder
<1>1. Typed /\ ChainInv => DeliveredInOrder
  BY OrderIsSound
<1> QED
  BY <1>1, ChainInvAlways, PTL

LEMMA FrozenStep ==
  ASSUME Typed, ChainInv, [Next]_vars, NEW m \in Messages,
         \E k \in Chain(m) : k.type = "card" /\ ~note[k].held
  PROVE  Chain(m)' = Chain(m)
<1>0. ~Withheld(m)
  BY DEF Withheld
<1>1. CASE CalmStep
  BY <1>1, QuietFramed, FramedChain DEF CalmStep, Calm
<1>2. CASE \E x \in Messages : CommandStarts(x)
  <2>1. Calm
    BY <1>2, CommandStartCalm
  <2> QED
    BY <2>1, QuietFramed, FramedChain DEF Calm
<1>3. CASE IssuePage
  <2>1. Withheld(cmd.of)
    BY <1>3 DEF IssuePage, ChainInv, CmdFits
  <2>2. cmd.of # m
    BY <1>0, <2>1
  <2>3. PICK no : DOMAIN note' = DOMAIN note \cup {Key("preview", cmd.of, no), Key("card", cmd.of, no)}
    BY <1>3, IssueStep
  <2> QED
    BY <2>2, <2>3 DEF Chain, Key
<1>4. CASE QueueTableLink
  <2>1. DOMAIN note' = DOMAIN note \cup {Key("link", cmd.of, 0)}
    BY <1>4, LinkStep
  <2> QED
    BY <2>1 DEF Chain, Key
<1>5. CASE \E b \in Bots : Send(b)
  <2>1. PICK b \in Bots : Send(b)
    BY <1>5
  <2>2. DOMAIN note' = DOMAIN note
    <3>1. CASE \E k \in DOMAIN note : Suppress(k)
      BY <3>1, SuppressStep DEF Rewrites
    <3>2. CASE \E k \in DOMAIN note : Claim(b, k)
      BY <3>2, ClaimStep DEF Rewrites
    <3>3. CASE SendSucceeds(b)
      BY <3>3, SendStep DEF Rewrites
    <3>4. CASE /\ bot[b].pc # "idle" /\ Rest(b)
               /\ \E s \in {"suppressed", "retrying", "failed", "succeeded"} : Close(b, s)
      BY <3>4, CloseStep DEF Rewrites
    <3> QED
      BY <2>1, <3>1, <3>2, <3>3, <3>4, SendSplits
  <2> QED
    BY <2>2 DEF Chain
<1> QED
  BY <1>1, <1>2, <1>3, <1>4, <1>5, StepSplits

(* Once a card of a command may be delivered, no replay of the command adds *)
(* a preview or a card to it, although the Smart Table has changed since:   *)
(* rows are added only while all those of the command are withheld, and are *)
(* released together.                                                       *)
THEOREM ReleasedChainsAreFrozen == Spec => ChainIsFrozen
<1>1. Typed /\ ChainInv /\ [Next]_vars =>
        [\A m \in Messages :
           (\E k \in Chain(m) : k.type = "card" /\ ~note[k].held) => Chain(m)' = Chain(m)]_vars
  BY FrozenStep
<1> QED
  BY <1>1, ChainInvAlways, PTL DEF Spec, ChainIsFrozen

-----------------------------------------------------------------------------
(* Progress reports: the rows of the sessions and of their messages *)

SessionState == [st : {"active", "closed", "disabled"}, start : Nat, next : Nat]
Progress ==
    [st : [Messages -> {"none", "awaiting", "processing", "included", "ignored"}],
     sof : [Messages -> Nat], ses : Seq(SessionState)]
MessageState ==
    [kind : {"none", "lead", "intent", "command", "refused"}, at : Nat,
     ev : {"none", "open"} \cup Verdicts]

MsgTyped == msg \in [Messages -> MessageState]

Reports == {k \in DOMAIN note : k.type = "summary"}

(* A session has moved on behind each of its reports, and a message that    *)
(* was counted stays with the session of the report.                        *)
ProgressFits(q) ==
    /\ q \in Progress
    /\ \A m \in Messages : q.sof[m] \in 0..Len(q.ses)
    /\ \A m \in Messages : q.st[m] \in {"none", "awaiting"} => q.sof[m] = NoSession
    /\ \A s, t \in DOMAIN q.ses : q.ses[s].st = "active" /\ q.ses[t].st = "active" => s = t
    /\ \A k \in Reports : /\ k.of \in DOMAIN q.ses /\ k.no \in Nat
                          /\ k.no + Interval <= q.ses[k.of].next
                          /\ \A m \in note[k].ids : q.sof[m] = k.of

LEMMA ProgressRecord ==
  ASSUME NEW q \in Progress
  PROVE  /\ q.st \in [Messages -> {"none", "awaiting", "processing", "included", "ignored"}]
         /\ q.sof \in [Messages -> Nat] /\ q.ses \in Seq(SessionState)
         /\ DOMAIN q.ses = 1..Len(q.ses) /\ Len(q.ses) \in Nat
         /\ \A s \in DOMAIN q.ses : q.ses[s] \in SessionState
BY DEF Progress

(* The state of a message changes, and it stays where it is. *)
LEMMA StateChanges ==
  ASSUME NEW q, ProgressFits(q), NEW m \in Messages,
         NEW s \in {"awaiting", "processing", "included", "ignored"},
         s = "awaiting" => q.sof[m] = NoSession
  PROVE  LET r == [q EXCEPT !.st[m] = s]
         IN  /\ ProgressFits(r) /\ r.ses = q.ses /\ r.sof = q.sof
             /\ \A x \in Messages \ {m} : r.st[x] = q.st[x]
<1> DEFINE r == [q EXCEPT !.st[m] = s]
<1>0. q \in Progress
  BY DEF ProgressFits
<1>1. r.st = [q.st EXCEPT ![m] = s] /\ r.ses = q.ses /\ r.sof = q.sof
  BY <1>0 DEF Progress
<1>2. r \in Progress
  BY <1>0 DEF Progress
<1> HIDE DEF r
<1>3. q.st \in [Messages -> {"none", "awaiting", "processing", "included", "ignored"}]
  BY <1>0, ProgressRecord
<1>4. ASSUME NEW x \in Messages
      PROVE  /\ r.st[x] \in {"none", "awaiting"} => r.sof[x] = NoSession
             /\ x # m => r.st[x] = q.st[x]
  BY <1>1, <1>3 DEF ProgressFits
<1>5. ProgressFits(r)
  BY <1>1, <1>2, <1>4 DEF ProgressFits
<1> QED
  BY <1>1, <1>4, <1>5 DEF r

(* A session without reports is anchored anew, or moves on, or is closed. *)
LEMMA SessionChanges ==
  ASSUME NEW q, ProgressFits(q), NEW s \in DOMAIN q.ses, NEW n \in SessionState,
         n.st = "active" => q.ses[s].st = "active",
         Summaries(s) = {} \/ n.next >= q.ses[s].next
  PROVE  LET r == [q EXCEPT !.ses = [q.ses EXCEPT ![s] = n]]
         IN  ProgressFits(r) /\ DOMAIN r.ses = DOMAIN q.ses /\ r.st = q.st
<1> DEFINE S == [q.ses EXCEPT ![s] = n]
           r == [q EXCEPT !.ses = S]
<1>0. q \in Progress
  BY DEF ProgressFits
<1>1. q.ses \in Seq(SessionState) /\ DOMAIN q.ses = 1..Len(q.ses) /\ Len(q.ses) \in Nat
      /\ \A t \in DOMAIN q.ses : q.ses[t] \in SessionState
  BY <1>0, ProgressRecord
<1>2. /\ S \in Seq(SessionState) /\ Len(S) = Len(q.ses) /\ DOMAIN S = DOMAIN q.ses
      /\ S[s] = n /\ \A t \in DOMAIN q.ses : t # s => S[t] = q.ses[t]
  BY <1>1
<1> HIDE DEF S
<1>3. r \in Progress /\ r.st = q.st /\ r.sof = q.sof /\ r.ses = S
  BY <1>0, <1>2 DEF Progress
<1> HIDE DEF r
<1>4. ASSUME NEW k \in Reports PROVE k.of \in DOMAIN S /\ k.no + Interval <= S[k.of].next
  <2>1. k.of \in DOMAIN q.ses /\ k.no \in Nat /\ k.no + Interval <= q.ses[k.of].next
    BY DEF ProgressFits
  <2>2. CASE k.of # s
    BY <1>2, <2>1, <2>2
  <2>3. CASE k.of = s
    <3>1. k \in Summaries(s)
      BY <2>3 DEF Reports, Summaries
    <3>2. n.next >= q.ses[s].next
      BY <3>1
    <3>3. n.next \in Nat /\ q.ses[s].next \in Nat
      BY <1>1 DEF SessionState
    <3> QED
      BY <1>2, <2>1, <2>3, <3>2, <3>3, ProgressAssumption
  <2> QED
    BY <2>2, <2>3
<1>5. \A t, u \in DOMAIN S : S[t].st = "active" /\ S[u].st = "active" => t = u
  BY <1>2 DEF ProgressFits
<1>6. ProgressFits(r)
  BY <1>2, <1>3, <1>4, <1>5 DEF ProgressFits
<1> QED
  BY <1>2, <1>3, <1>6 DEF r, S

LEMMA ActiveSessionThere ==
  ASSUME NEW q
  PROVE  ActiveSession(q) = NoSession \/ ActiveSession(q) \in DOMAIN q.ses
BY DEF ActiveSession

(* A message that is attached was nowhere before. *)
LEMMA UncountedMessage ==
  ASSUME NEW q, ProgressFits(q), NEW m \in Messages, q.st[m] \in {"none", "awaiting"}
  PROVE  \A k \in Reports : m \notin note[k].ids
<1>1. q.sof[m] = 0
  BY DEF ProgressFits, NoSession
<1>2. DOMAIN q.ses = 1..Len(q.ses) /\ Len(q.ses) \in Nat
  BY ProgressRecord DEF ProgressFits
<1> SUFFICES ASSUME NEW k \in Reports, m \in note[k].ids PROVE FALSE
  OBVIOUS
<1>3. k.of \in DOMAIN q.ses /\ q.sof[m] = k.of
  BY DEF ProgressFits
<1> QED
  BY <1>1, <1>2, <1>3

(* The message goes to a session. *)
LEMMA MessageJoins ==
  ASSUME NEW q, ProgressFits(q), NEW m \in Messages, q.st[m] \in {"none", "awaiting"},
         NEW s \in DOMAIN q.ses
  PROVE  LET r == [st |-> [q.st EXCEPT ![m] = "processing"],
                   sof |-> [q.sof EXCEPT ![m] = s], ses |-> q.ses]
         IN  ProgressFits(r) /\ \A x \in Messages \ {m} : r.st[x] = q.st[x]
<1> DEFINE r == [st |-> [q.st EXCEPT ![m] = "processing"],
                 sof |-> [q.sof EXCEPT ![m] = s], ses |-> q.ses]
<1>0. /\ q.st \in [Messages -> {"none", "awaiting", "processing", "included", "ignored"}]
      /\ q.sof \in [Messages -> Nat] /\ q.ses \in Seq(SessionState)
      /\ DOMAIN q.ses = 1..Len(q.ses) /\ Len(q.ses) \in Nat
  BY ProgressRecord DEF ProgressFits
<1>1. s \in 0..Len(q.ses) /\ s \in Nat
  BY <1>0
<1>2. /\ r.st = [q.st EXCEPT ![m] = "processing"] /\ r.sof = [q.sof EXCEPT ![m] = s]
      /\ r.ses = q.ses
  OBVIOUS
<1>3. r \in Progress
  BY <1>0, <1>1 DEF Progress
<1> HIDE DEF r
<1>4. ASSUME NEW x \in Messages
      PROVE  /\ r.sof[x] \in 0..Len(r.ses)
             /\ r.st[x] \in {"none", "awaiting"} => r.sof[x] = NoSession
             /\ x # m => r.st[x] = q.st[x] /\ r.sof[x] = q.sof[x]
  <2>1. CASE x = m
    BY <1>0, <1>1, <1>2, <2>1
  <2>2. CASE x # m
    BY <1>0, <1>2, <2>2 DEF ProgressFits
  <2> QED
    BY <2>1, <2>2
<1>5. ASSUME NEW k \in Reports
      PROVE  /\ k.of \in DOMAIN r.ses /\ k.no \in Nat
             /\ k.no + Interval <= r.ses[k.of].next
             /\ \A x \in note[k].ids : r.sof[x] = k.of
  <2>1. m \notin note[k].ids
    BY UncountedMessage
  <2>2. /\ k.of \in DOMAIN q.ses /\ k.no \in Nat /\ k.no + Interval <= q.ses[k.of].next
        /\ \A x \in note[k].ids : q.sof[x] = k.of
    BY DEF ProgressFits
  <2>3. \A x \in note[k].ids : r.sof[x] = q.sof[x]
    BY <1>0, <1>2, <2>1
  <2> QED
    BY <1>2, <2>2, <2>3
<1>6. ProgressFits(r)
  BY <1>2, <1>3, <1>4, <1>5 DEF ProgressFits
<1> QED
  BY <1>4, <1>6 DEF r

(* A session begins. *)
LEMMA SessionBegins ==
  ASSUME NEW q, ProgressFits(q), ActiveSession(q) = NoSession, NEW at \in Nat
  PROVE  LET r == [q EXCEPT !.ses = Append(q.ses, Session(at))]
         IN  /\ ProgressFits(r) /\ r.st = q.st /\ r.sof = q.sof
             /\ r.ses = Append(q.ses, Session(at))
             /\ Len(q.ses) + 1 \in DOMAIN r.ses /\ DOMAIN q.ses \subseteq DOMAIN r.ses
<1> DEFINE S == Append(q.ses, Session(at))
           r == [q EXCEPT !.ses = S]
<1>0. q \in Progress
  BY DEF ProgressFits
<1>1. q.ses \in Seq(SessionState) /\ DOMAIN q.ses = 1..Len(q.ses) /\ Len(q.ses) \in Nat
  BY <1>0, ProgressRecord
<1>2. Session(at) \in SessionState
  BY ProgressAssumption DEF Session, SessionState
<1>3. /\ S \in Seq(SessionState) /\ Len(S) = Len(q.ses) + 1
      /\ \A t \in 1..Len(q.ses) : S[t] = q.ses[t]
  BY <1>1, <1>2
<1>4. DOMAIN S = 1..(Len(q.ses) + 1)
  BY <1>1, <1>3
<1> HIDE DEF S
<1>5. r \in Progress /\ r.st = q.st /\ r.sof = q.sof /\ r.ses = S
  BY <1>0, <1>3 DEF Progress
<1> HIDE DEF r
<1>6. DOMAIN q.ses \subseteq DOMAIN r.ses /\ Len(q.ses) + 1 \in DOMAIN r.ses
  BY <1>1, <1>4, <1>5
<1>7. \A x \in Messages : r.sof[x] \in 0..Len(r.ses)
  BY <1>1, <1>3, <1>5 DEF ProgressFits
<1>8. \A k \in Reports : r.ses[k.of] = q.ses[k.of]
  BY <1>1, <1>3, <1>5 DEF ProgressFits
<1>9. \A t \in DOMAIN q.ses : q.ses[t].st # "active"
  <2> SUFFICES ASSUME NEW t \in DOMAIN q.ses, q.ses[t].st = "active" PROVE FALSE
    OBVIOUS
  <2>1. ActiveSession(q) \in DOMAIN q.ses
    BY DEF ActiveSession
  <2> QED
    BY <1>1, <2>1 DEF NoSession
<1>10. \A t, u \in DOMAIN r.ses : r.ses[t].st = "active" /\ r.ses[u].st = "active" => t = u
  <2>1. \A t \in DOMAIN r.ses : r.ses[t].st = "active" => t = Len(q.ses) + 1
    BY <1>1, <1>3, <1>4, <1>5, <1>9
  <2> QED
    BY <2>1
<1>11. ProgressFits(r)
  BY <1>5, <1>6, <1>7, <1>8, <1>10 DEF ProgressFits
<1> QED
  BY <1>5, <1>6, <1>11 DEF r, S

(* r comes after q, and only message m has been decided in between. *)
Follows(q, r, m) ==
    /\ ProgressFits(r) /\ DOMAIN q.ses \subseteq DOMAIN r.ses
    /\ \A x \in Messages \ {m} : r.st[x] = q.st[x]

LEMMA SessionAnchored ==
  ASSUME NEW e \in SessionState, NEW at \in Nat
  PROVE  [e EXCEPT !.start = at, !.next = at + Interval] \in SessionState
<1>1. PICK n \in Nat : n = at + Interval
  BY ProgressAssumption
<1>2. [e EXCEPT !.start = at, !.next = n] \in SessionState
  BY DEF SessionState
<1> QED
  BY <1>1, <1>2

LEMMA AttachFollows ==
  ASSUME NEW q, ProgressFits(q), NEW m \in Messages, q.st[m] \in {"none", "awaiting"},
         NEW at \in Nat
  PROVE  Follows(q, Attach(q, m, at), m) /\ Attach(q, m, at).st[m] = "processing"
<1> DEFINE s == ActiveSession(q)
           n == Len(q.ses) + 1
           join(o, t) == [st |-> [o.st EXCEPT ![m] = "processing"],
                          sof |-> [o.sof EXCEPT ![m] = t], ses |-> o.ses]
<1>0. /\ q \in Progress /\ q.ses \in Seq(SessionState)
      /\ DOMAIN q.ses = 1..Len(q.ses) /\ Len(q.ses) \in Nat
      /\ \A t \in DOMAIN q.ses : q.ses[t] \in SessionState
      /\ q.st \in [Messages -> {"none", "awaiting", "processing", "included", "ignored"}]
  BY ProgressRecord DEF ProgressFits
<1>1. s = NoSession \/ s \in DOMAIN q.ses
  BY ActiveSessionThere
<1>2. ASSUME NEW o, ProgressFits(o), o.st = q.st, DOMAIN q.ses \subseteq DOMAIN o.ses,
             NEW t \in DOMAIN o.ses, Attach(q, m, at) = join(o, t)
      PROVE  Follows(q, Attach(q, m, at), m) /\ Attach(q, m, at).st[m] = "processing"
  <2>1. ProgressFits(join(o, t)) /\ \A x \in Messages \ {m} : join(o, t).st[x] = o.st[x]
    BY <1>2, MessageJoins
  <2>2. join(o, t).ses = o.ses /\ join(o, t).st[m] = "processing"
    BY <1>0, <1>2
  <2> HIDE DEF join
  <2> QED
    BY <1>2, <2>1, <2>2 DEF Follows
<1>3. CASE s = NoSession
  <2> DEFINE o == [q EXCEPT !.ses = Append(q.ses, Session(at))]
  <2>1. /\ ProgressFits(o) /\ o.st = q.st /\ o.sof = q.sof
        /\ o.ses = Append(q.ses, Session(at))
        /\ n \in DOMAIN o.ses /\ DOMAIN q.ses \subseteq DOMAIN o.ses
    BY <1>3, SessionBegins
  <2> HIDE DEF o
  <2>2. Attach(q, m, at) = join(o, n)
    <3>1. Attach(q, m, at) = [st  |-> [q.st EXCEPT ![m] = "processing"],
                              sof |-> [q.sof EXCEPT ![m] = n],
                              ses |-> Append(q.ses, Session(at))]
      BY <1>3 DEF Attach
    <3> HIDE DEF n
    <3> QED
      BY <2>1, <3>1
  <2> QED
    BY <1>2, <2>1, <2>2
<1>4. CASE s # NoSession /\ at < q.ses[s].start /\ MayReanchor(s)
  <2> DEFINE e == [q.ses[s] EXCEPT !.start = at, !.next = at + Interval]
             o == [q EXCEPT !.ses = [q.ses EXCEPT ![s] = e]]
  <2>1. s \in DOMAIN q.ses /\ q.ses[s] \in SessionState
    BY <1>0, <1>1, <1>4
  <2>2. e \in SessionState /\ e.st = q.ses[s].st
    BY <2>1, SessionAnchored DEF SessionState
  <2>3. Summaries(s) = {}
    BY <1>4 DEF MayReanchor
  <2>4. o.ses = [q.ses EXCEPT ![s] = e] /\ o.sof = q.sof
    BY <1>0 DEF Progress
  <2>5. [q.ses EXCEPT ![s] = e] = [q.ses EXCEPT ![s].start = at, ![s].next = at + Interval]
    BY <2>1
  <2> HIDE DEF e
  <2>6. ProgressFits(o) /\ DOMAIN o.ses = DOMAIN q.ses /\ o.st = q.st
    <3> HIDE DEF s
    <3> QED
      BY <2>1, <2>2, <2>3, SessionChanges
  <2> HIDE DEF o
  <2>7. Attach(q, m, at) = join(o, s)
    BY <1>4, <2>4, <2>5, <2>6 DEF Attach
  <2> QED
    BY <1>2, <2>1, <2>6, <2>7
<1>5. CASE s # NoSession /\ ~(at < q.ses[s].start /\ MayReanchor(s))
  <2>1. Attach(q, m, at) = join(q, s)
    BY <1>5 DEF Attach
  <2> QED
    BY <1>1, <1>2, <1>5, <2>1
<1> QED
  BY <1>3, <1>4, <1>5

LEMMA FirstFits ==
  ASSUME MsgTyped, NEW q, NEW M \in SUBSET Messages, M # {}
  PROVE  First(q, M) \in Nat /\ \E m \in M : First(q, M) = msg[m].at
<1> DEFINE S == {msg[m].at : m \in M}
<1>1. S \in SUBSET Nat /\ S # {}
  BY DEF MsgTyped, MessageState
<1>2. PICK t \in S : \A u \in S : t <= u
  <2> HIDE DEF S
  <2> QED
    BY <1>1, LeastOf
<1>3. \E u \in S : \A m \in M : u <= msg[m].at
  BY <1>2
<1>4. First(q, M) \in S
  BY <1>3 DEF First
<1> QED
  BY <1>1, <1>4

LEMMA ReanchorFollows ==
  ASSUME MsgTyped, NEW q, ProgressFits(q), NEW s \in {NoSession} \cup DOMAIN q.ses
  PROVE  LET r == Reanchor(q, s)
         IN  ProgressFits(r) /\ DOMAIN r.ses = DOMAIN q.ses /\ r.st = q.st
<1> DEFINE M == Remaining(q, s)
<1>0. /\ q \in Progress /\ q.ses \in Seq(SessionState)
      /\ \A t \in DOMAIN q.ses : q.ses[t] \in SessionState
  BY ProgressRecord DEF ProgressFits
<1>1. CASE Reanchor(q, s) = q
  BY <1>1
<1>2. CASE s # NoSession /\ MayReanchor(s) /\ M = {} /\ q.ses[s].st = "active"
  <2> DEFINE e == [q.ses[s] EXCEPT !.st = "closed"]
  <2>1. s \in DOMAIN q.ses /\ q.ses[s] \in SessionState
    BY <1>0, <1>2
  <2>2. e \in SessionState /\ e.st # "active"
    BY <2>1 DEF SessionState
  <2>3. Summaries(s) = {}
    BY <1>2 DEF MayReanchor
  <2>4. Reanchor(q, s) = [q EXCEPT !.ses[s].st = "closed"]
    BY <1>2 DEF Reanchor
  <2>5. Reanchor(q, s) = [q EXCEPT !.ses = [q.ses EXCEPT ![s] = e]]
    BY <2>4
  <2> HIDE DEF e
  <2> QED
    BY <2>1, <2>2, <2>3, <2>5, SessionChanges
<1>3. CASE s # NoSession /\ MayReanchor(s) /\ M # {} /\ q.ses[s].st = "active"
  <2> DEFINE f == First(q, M)
             e == [q.ses[s] EXCEPT !.start = f, !.next = f + Interval]
  <2>1. s \in DOMAIN q.ses /\ q.ses[s] \in SessionState
    BY <1>0, <1>3
  <2>2. f \in Nat
    BY <1>3, FirstFits DEF Remaining
  <2>3. Reanchor(q, s) = [q EXCEPT !.ses[s].start = f, !.ses[s].next = f + Interval]
    BY <1>3 DEF Reanchor
  <2> HIDE DEF f
  <2>4. e \in SessionState /\ e.st = q.ses[s].st
    BY <2>1, <2>2, SessionAnchored DEF SessionState
  <2>5. Summaries(s) = {}
    BY <1>3 DEF MayReanchor
  <2>6. Reanchor(q, s) = [q EXCEPT !.ses = [q.ses EXCEPT ![s] = e]]
    <3>1. PICK o : o = [q EXCEPT !.ses[s].start = f]
      OBVIOUS
    <3>2. Reanchor(q, s) = [o EXCEPT !.ses[s].next = f + Interval]
      BY <2>3, <3>1
    <3>3. o = [q EXCEPT !.ses = [q.ses EXCEPT ![s].start = f]]
      BY <3>1
    <3>4. o.ses = [q.ses EXCEPT ![s].start = f]
      BY <1>0, <3>3 DEF Progress
    <3>5. o.ses[s] = [q.ses[s] EXCEPT !.start = f]
      BY <2>1, <3>4
    <3>6. Reanchor(q, s) = [o EXCEPT !.ses = [o.ses EXCEPT ![s] = [o.ses[s] EXCEPT !.next = f + Interval]]]
      BY <3>2
    <3>7. [o.ses[s] EXCEPT !.next = f + Interval] = e
      BY <3>5
    <3>8. [o.ses EXCEPT ![s] = e] = [q.ses EXCEPT ![s] = e]
      <4> HIDE DEF e
      <4> QED
        BY <3>4
    <3>9. Reanchor(q, s) = [o EXCEPT !.ses = [q.ses EXCEPT ![s] = e]]
      BY <3>6, <3>7, <3>8
    <3> HIDE DEF e
    <3> QED
      BY <3>3, <3>9
  <2> HIDE DEF e
  <2> QED
    BY <2>1, <2>4, <2>5, <2>6, SessionChanges
<1> QED
  BY <1>1, <1>2, <1>3 DEF Reanchor

LEMMA IncludeFollows ==
  ASSUME NEW q, ProgressFits(q), NEW m \in Messages
  PROVE  Follows(q, Include(q, m), m)
<1>1. ProgressFits(Include(q, m)) /\ Include(q, m).ses = q.ses
      /\ \A x \in Messages \ {m} : Include(q, m).st[x] = q.st[x]
  BY StateChanges DEF Include
<1> QED
  BY <1>1 DEF Follows

LEMMA IgnoreFollows ==
  ASSUME MsgTyped, NEW q, ProgressFits(q), NEW m \in Messages
  PROVE  Follows(q, Ignore(q, m), m)
<1> DEFINE r == [q EXCEPT !.st[m] = "ignored"]
<1>1. ProgressFits(r) /\ r.ses = q.ses /\ r.sof = q.sof
      /\ \A x \in Messages \ {m} : r.st[x] = q.st[x]
  BY StateChanges
<1>2. PICK s : s = q.sof[m]
  OBVIOUS
<1>3. s \in {NoSession} \cup DOMAIN r.ses
  <2>1. q.sof[m] \in 0..Len(q.ses) /\ DOMAIN q.ses = 1..Len(q.ses) /\ Len(q.ses) \in Nat
    BY ProgressRecord DEF ProgressFits
  <2> QED
    BY <1>1, <1>2, <2>1 DEF NoSession
<1>4. Ignore(q, m) = Reanchor(r, s)
  BY <1>2 DEF Ignore
<1> HIDE DEF r
<1>5. LET t == Reanchor(r, s)
      IN  ProgressFits(t) /\ DOMAIN t.ses = DOMAIN r.ses /\ t.st = r.st
  BY <1>1, <1>3, ReanchorFollows
<1> QED
  BY <1>1, <1>4, <1>5 DEF Follows

LEMMA DropFollows ==
  ASSUME NEW q, ProgressFits(q), NEW m \in Messages
  PROVE  Follows(q, [q EXCEPT !.st[m] = "ignored"], m)
<1> DEFINE r == [q EXCEPT !.st[m] = "ignored"]
<1>1. ProgressFits(r) /\ r.ses = q.ses
      /\ \A x \in Messages \ {m} : r.st[x] = q.st[x]
  BY StateChanges
<1> HIDE DEF r
<1>2. Follows(q, r, m)
  BY <1>1 DEF Follows
<1> QED
  BY <1>2 DEF r

LEMMA AttachIncludeFollows ==
  ASSUME MsgTyped, NEW q, ProgressFits(q), NEW m \in Messages, q.st[m] = "awaiting"
  PROVE  Follows(q, Include(Attach(q, m, msg[m].at), m), m)
<1>1. msg[m].at \in Nat
  BY DEF MsgTyped, MessageState
<1>2. Follows(q, Attach(q, m, msg[m].at), m)
  BY <1>1, AttachFollows
<1>3. PICK r : r = Attach(q, m, msg[m].at)
  OBVIOUS
<1>4. Follows(r, Include(r, m), m)
  BY <1>2, <1>3, IncludeFollows DEF Follows
<1> QED
  BY <1>2, <1>3, <1>4 DEF Follows

LEMMA RecoverOneFollows ==
  ASSUME MsgTyped, NEW q, ProgressFits(q), NEW m \in Messages
  PROVE  Follows(q, RecoverOne(q, m), m) /\ (q.st[m] = "none" => RecoverOne(q, m) = q)
<1>1. CASE RecoverOne(q, m) = q
  BY <1>1 DEF Follows
<1>2. CASE q.st[m] = "awaiting" /\ RecoverOne(q, m) = Include(Attach(q, m, msg[m].at), m)
  BY <1>2, AttachIncludeFollows
<1>3. CASE q.st[m] # "none" /\ RecoverOne(q, m) = [q EXCEPT !.st[m] = "ignored"]
  BY <1>3, DropFollows
<1>4. CASE q.st[m] # "none" /\ RecoverOne(q, m) = Ignore(q, m)
  BY <1>4, IgnoreFollows
<1>5. CASE q.st[m] # "none" /\ RecoverOne(q, m) = Include(q, m)
  BY <1>5, IncludeFollows
<1> QED
  BY <1>1, <1>2, <1>3, <1>4, <1>5 DEF RecoverOne

(* The recursive definition of Recovery has a solution. *)
LEMMA RecoveryIs ==
  Recovery = [i \in 0..NMsg |-> IF i = 0 THEN p ELSE RecoverOne(Recovery[i - 1], i)]
<1> DEFINE Solves(f, n) == f = [i \in 0..n |-> IF i = 0 THEN p ELSE RecoverOne(f[i - 1], i)]
           Bad == {n \in Nat : ~\E f : Solves(f, n)}
<1>1. ASSUME Bad # {} PROVE FALSE
  <2>1. Bad \in SUBSET Nat
    OBVIOUS
  <2>2. PICK n \in Bad : \A y \in Bad : n <= y
    <3> HIDE DEF Bad
    <3> QED
      BY <1>1, <2>1, LeastOf
  <2>3. n \in Nat /\ ~\E f : Solves(f, n)
    OBVIOUS
  <2>4. n # 0
    <3> SUFFICES ASSUME n = 0 PROVE FALSE
      OBVIOUS
    <3> DEFINE f == [i \in 0..0 |-> p]
    <3>1. f = [i \in 0..0 |-> IF i = 0 THEN p ELSE RecoverOne(f[i - 1], i)]
      OBVIOUS
    <3> QED
      BY <2>3, <3>1
  <2>5. n - 1 \in Nat /\ n - 1 \notin Bad
    <3>1. n - 1 \in Nat /\ ~(n <= n - 1)
      BY <2>3, <2>4
    <3> HIDE DEF Bad
    <3> QED
      BY <2>2, <3>1
  <2>6. PICK f : Solves(f, n - 1)
    BY <2>5
  <2> DEFINE g == [i \in 0..n |-> IF i < n THEN f[i] ELSE RecoverOne(f[n - 1], n)]
  <2>7. ASSUME NEW i \in 0..n
        PROVE  g[i] = IF i = 0 THEN p ELSE RecoverOne(g[i - 1], i)
    <3>1. CASE i = n
      <4>1. n - 1 \in 0..n /\ n - 1 < n
        BY <2>3, <2>4
      <4>2. g[n - 1] = f[n - 1]
        BY <4>1
      <4>3. g[n] = RecoverOne(f[n - 1], n)
        BY <2>3
      <4> QED
        BY <2>4, <3>1, <4>2, <4>3
    <3>2. CASE i # n
      <4>1. i \in 0..(n - 1) /\ i < n
        BY <2>3, <3>2
      <4>2. g[i] = f[i]
        BY <4>1
      <4>3. f[i] = IF i = 0 THEN p ELSE RecoverOne(f[i - 1], i)
        BY <2>6, <4>1
      <4>4. i # 0 => i - 1 \in 0..n /\ i - 1 < n
        BY <2>3, <4>1
      <4>5. i # 0 => g[i - 1] = f[i - 1]
        BY <4>4
      <4> QED
        BY <4>2, <4>3, <4>5
    <3> QED
      BY <3>1, <3>2
  <2>8. g = [i \in 0..n |-> g[i]]
    OBVIOUS
  <2> HIDE DEF g
  <2>9. Solves(g, n)
    BY <2>7, <2>8
  <2> QED
    BY <2>3, <2>9
<1>2. \E f : Solves(f, NMsg)
  BY <1>1, ProgressAssumption
<1> QED
  BY <1>2 DEF Recovery

(* What recover_pending_messages makes of the rows. *)
LEMMA RecoveredFits ==
  ASSUME MsgTyped, ProgressFits(p)
  PROVE  /\ ProgressFits(Recovered) /\ DOMAIN p.ses \subseteq DOMAIN Recovered.ses
         /\ \A x \in Messages : p.st[x] = "none" => Recovered.st[x] = "none"
<1> DEFINE Fine(r) == /\ ProgressFits(r) /\ DOMAIN p.ses \subseteq DOMAIN r.ses
                      /\ \A x \in Messages : p.st[x] = "none" => r.st[x] = "none"
           Bad == {n \in 0..NMsg : ~Fine(Recovery[n])}
<1>1. ASSUME NEW n \in 0..NMsg
      PROVE  Recovery[n] = IF n = 0 THEN p ELSE RecoverOne(Recovery[n - 1], n)
  BY RecoveryIs
<1>2. ASSUME Bad # {} PROVE FALSE
  <2>1. Bad \in SUBSET Nat
    BY ProgressAssumption
  <2>2. PICK n \in Bad : \A y \in Bad : n <= y
    <3> HIDE DEF Bad
    <3> QED
      BY <1>2, <2>1, LeastOf
  <2>3. n \in 0..NMsg /\ ~Fine(Recovery[n])
    OBVIOUS
  <2>4. n # 0
    <3>1. Recovery[0] = p
      BY <1>1, ProgressAssumption
    <3>2. Fine(p)
      OBVIOUS
    <3> HIDE DEF Fine
    <3> QED
      BY <2>3, <3>1, <3>2
  <2>5. n - 1 \in 0..NMsg /\ n - 1 \notin Bad
    <3>1. n - 1 \in 0..NMsg /\ ~(n <= n - 1)
      BY <2>3, <2>4, ProgressAssumption
    <3> HIDE DEF Bad
    <3> QED
      BY <2>2, <3>1
  <2>6. Fine(Recovery[n - 1])
    BY <2>5
  <2>7. PICK q : q = Recovery[n - 1]
    OBVIOUS
  <2>8. n \in Messages
    BY <2>3, <2>4, ProgressAssumption DEF Messages
  <2>9. Recovery[n] = RecoverOne(q, n)
    BY <1>1, <2>3, <2>4, <2>7
  <2>10. Follows(q, RecoverOne(q, n), n) /\ (q.st[n] = "none" => RecoverOne(q, n) = q)
    BY <2>6, <2>7, <2>8, RecoverOneFollows
  <2>11. Fine(RecoverOne(q, n))
    BY <2>6, <2>7, <2>8, <2>10 DEF Follows
  <2> HIDE DEF Fine
  <2> QED
    BY <2>3, <2>9, <2>11
<1>3. NMsg \in 0..NMsg
  BY ProgressAssumption
<1>4. Fine(Recovery[NMsg])
  BY <1>2, <1>3
<1> QED
  BY <1>4 DEF Recovered

-----------------------------------------------------------------------------
(* The reports and their windows *)

Heard == \A m \in Messages : msg[m].kind = "none" => p.st[m] = "none"

(* A report counts messages of its window. *)
WindowsFit ==
    \A k \in Reports :
      /\ k = Key("summary", k.of, k.no)
      /\ \A m \in note[k].ids : /\ m \in Messages /\ msg[m].kind # "none"
                                /\ k.no - Interval <= msg[m].at /\ msg[m].at < k.no

(* The windows of a session do not overlap. *)
WindowsApart ==
    \A j, k \in Reports : j.of = k.of /\ j.no < k.no => j.no + Interval <= k.no

SchedFits ==
    /\ sched \in [Schedulers -> [pc : {"idle", "report"}, at : Nat, ses : Nat]]
    /\ \A w \in Schedulers : sched[w].pc = "report" => sched[w].ses \in DOMAIN p.ses

ReportInv ==
    MsgTyped /\ ProgressFits(p) /\ Heard /\ WindowsFit /\ WindowsApart /\ SchedFits

(* Steps that make no report *)
ReportsStay ==
    /\ DOMAIN note \subseteq DOMAIN note'
    /\ \A k \in DOMAIN note' \ DOMAIN note : k.type # "summary"
    /\ \A k \in DOMAIN note : k.type = "summary" => note'[k].ids = note[k].ids

(* Messages that are there do not move. *)
MessagesStay ==
    /\ MsgTyped'
    /\ \A m \in Messages : msg[m].kind # "none" =>
         msg'[m].kind # "none" /\ msg'[m].at = msg[m].at

LEMMA ReportsStayThere ==
  ASSUME ReportsStay
  PROVE  Reports' = Reports /\ \A k \in Reports : note'[k].ids = note[k].ids
BY DEF ReportsStay, Reports

LEMMA FitsStay ==
  ASSUME ReportsStay, NEW q, ProgressFits(q), p' = q
  PROVE  ProgressFits(p)'
<1>1. Reports' = Reports /\ \A k \in Reports : note'[k].ids = note[k].ids
  BY ReportsStayThere
<1> QED
  BY <1>1 DEF ProgressFits

LEMMA WindowsStay ==
  ASSUME ReportInv, ReportsStay, MessagesStay
  PROVE  WindowsFit' /\ WindowsApart'
<1>1. Reports' = Reports /\ \A k \in Reports : note'[k].ids = note[k].ids
  BY ReportsStayThere
<1>2. WindowsFit'
  BY <1>1 DEF ReportInv, WindowsFit, MessagesStay
<1>3. WindowsApart'
  BY <1>1 DEF ReportInv, WindowsApart
<1> QED
  BY <1>2, <1>3

LEMMA SameMessages == ASSUME MsgTyped, msg' = msg PROVE MessagesStay
BY DEF MsgTyped, MessagesStay

LEMMA SchedStays ==
  ASSUME SchedFits, sched' = sched, DOMAIN p.ses \subseteq DOMAIN p'.ses
  PROVE  SchedFits'
BY DEF SchedFits

(* Steps that leave the progress rows and the messages alone. *)
LEMMA ReportInvStays ==
  ASSUME ReportInv, ReportsStay, msg' = msg, p' = p, sched' = sched
  PROVE  ReportInv'
<1>1. MessagesStay
  BY SameMessages DEF ReportInv
<1>2. ProgressFits(p)'
  BY FitsStay DEF ReportInv
<1>3. SchedFits'
  BY SchedStays DEF ReportInv
<1>4. Heard' /\ MsgTyped'
  BY DEF ReportInv, Heard, MsgTyped
<1> QED
  BY <1>1, <1>2, <1>3, <1>4, WindowsStay DEF ReportInv

(* Steps that decide a message. *)
LEMMA ReportInvFollows ==
  ASSUME ReportInv, note' = note, msg' = msg, NEW q, ProgressFits(q), p' = q,
         DOMAIN p.ses \subseteq DOMAIN q.ses,
         \A x \in Messages : p.st[x] = "none" => q.st[x] = "none"
  PROVE  ReportsStay /\ MsgTyped' /\ ProgressFits(p)' /\ Heard' /\ WindowsFit' /\ WindowsApart'
<1>0. ReportsStay
  BY DEF ReportsStay
<1>1. MessagesStay
  BY SameMessages DEF ReportInv
<1>2. ProgressFits(p)'
  BY <1>0, FitsStay
<1>3. Heard' /\ MsgTyped'
  BY DEF ReportInv, Heard, MsgTyped
<1> QED
  BY <1>0, <1>1, <1>2, <1>3, WindowsStay

LEMMA AddStays ==
  ASSUME NEW k, NEW m, k.type # "summary", AddNotes(One(k, m))
  PROVE  ReportsStay
<1>1. DOMAIN One(k, m) = {k}
  BY DEF One
<1>2. note' = [x \in DOMAIN note \cup {k} |-> IF x \in DOMAIN note THEN note[x] ELSE One(k, m)[x]]
  BY <1>1 DEF AddNotes
<1> QED
  BY <1>2 DEF ReportsStay

LEMMA ReceiptStays ==
  ASSUME NotesTyped, NEW m \in Messages, RecordReceipt(m)
  PROVE  ReportsStay
<1>1. CASE ~conf.receipts
  BY <1>1 DEF RecordReceipt, ReportsStay
<1>2. CASE conf.receipts /\ OpenReceipt # {}
  <2>1. note' = [k \in DOMAIN note |->
                    IF k \in OpenReceipt THEN [note[k] EXCEPT !.ids = @ \cup {m}]
                    ELSE note[k]]
    BY <1>2 DEF RecordReceipt
  <2>2. \A k \in OpenReceipt : k.type = "receipt"
    BY DEF OpenReceipt, Receipts
  <2> QED
    BY <2>1, <2>2 DEF ReportsStay
<1>3. CASE conf.receipts /\ OpenReceipt = {}
  <2>1. Key("receipt", m, 0).type # "summary"
    BY DEF Key
  <2> QED
    BY <1>3, <2>1, AddStays DEF RecordReceipt
<1> QED
  BY <1>1, <1>2, <1>3

(* A message arrives. *)
LEMMA ArrivalStays ==
  ASSUME MsgTyped, now \in Nat, NEW m \in Messages,
         NEW kind \in {"lead", "intent", "command", "refused"}, NEW ev \in {"none", "open"},
         Arrives(m, kind, ev)
  PROVE  /\ MessagesStay /\ msg[m].kind = "none" /\ msg'[m].kind # "none"
         /\ \A x \in Messages \ {m} : msg'[x] = msg[x]
<1> DEFINE e == [kind |-> kind, at |-> now, ev |-> ev]
<1>1. msg[m].kind = "none" /\ msg' = [msg EXCEPT ![m] = e]
  BY DEF Arrives
<1>2. e \in MessageState /\ e.kind # "none"
  BY DEF MessageState
<1> HIDE DEF e
<1>3. msg'[m] = e /\ \A x \in Messages \ {m} : msg'[x] = msg[x]
  BY <1>1 DEF MsgTyped
<1>4. MsgTyped'
  BY <1>1, <1>2 DEF MsgTyped
<1> QED
  BY <1>1, <1>2, <1>3, <1>4 DEF MessagesStay

LEMMA ReceiveReports ==
  ASSUME ReportInv, MessagesStay, ReportsStay, NEW m \in Messages,
         msg[m].kind = "none", msg'[m].kind # "none",
         \A x \in Messages \ {m} : msg'[x] = msg[x],
         Follows(p, p', m), sched' = sched
  PROVE  ReportInv'
<1>1. ProgressFits(p)'
  <2>1. PICK q : q = p' /\ ProgressFits(q)
    BY DEF Follows
  <2> QED
    BY <2>1, FitsStay
<1>2. Heard'
  BY DEF Follows, ReportInv, Heard
<1>3. SchedFits'
  BY SchedStays DEF Follows, ReportInv
<1> QED
  BY <1>1, <1>2, <1>3, WindowsStay DEF ReportInv, MessagesStay

LEMMA ReceiveReportInv ==
  ASSUME Typed, ReportInv, NEW m \in Messages, Receive(m)
  PROVE  ReportInv'
<1>0. MsgTyped /\ now \in Nat /\ ProgressFits(p) /\ NotesTyped
  BY DEF Typed, ReportInv
<1>1. Follows(p, p, m)
  BY <1>0 DEF Follows
<1>2. CASE ReceiveLead(m)
  <2>1. Arrives(m, "lead", "open") /\ RegisterDemand(m) /\ RecordReceipt(m) /\ sched' = sched
    BY <1>2 DEF ReceiveLead
  <2>2. /\ MessagesStay /\ msg[m].kind = "none" /\ msg'[m].kind # "none"
        /\ \A x \in Messages \ {m} : msg'[x] = msg[x]
    BY <1>0, <2>1, ArrivalStays
  <2>3. p.st[m] = "none"
    BY <2>2 DEF ReportInv, Heard
  <2>4. p' = p \/ p' = Attach(p, m, now)
    BY <2>1 DEF RegisterDemand
  <2>5. Follows(p, Attach(p, m, now), m)
    BY <1>0, <2>3, AttachFollows
  <2>6. Follows(p, p', m)
    BY <1>1, <2>4, <2>5
  <2>7. ReportsStay
    BY <1>0, <2>1, ReceiptStays
  <2> QED
    BY <2>1, <2>2, <2>6, <2>7, ReceiveReports
<1>3. CASE ReceiveIntent(m)
  <2>1. Arrives(m, "intent", "open") /\ RegisterCandidate(m) /\ note' = note /\ sched' = sched
    BY <1>3 DEF ReceiveIntent
  <2>2. /\ MessagesStay /\ msg[m].kind = "none" /\ msg'[m].kind # "none"
        /\ \A x \in Messages \ {m} : msg'[x] = msg[x]
    BY <1>0, <2>1, ArrivalStays
  <2>3. p.st[m] = "none" /\ p.sof[m] = NoSession
    BY <2>2 DEF ReportInv, Heard, ProgressFits
  <2> DEFINE r == [p EXCEPT !.st[m] = "awaiting"]
  <2>4. p' = p \/ p' = r
    BY <2>1 DEF RegisterCandidate
  <2>5. ProgressFits(r) /\ r.ses = p.ses /\ \A x \in Messages \ {m} : r.st[x] = p.st[x]
    BY <1>0, <2>3, StateChanges
  <2> HIDE DEF r
  <2>6. Follows(p, r, m)
    BY <2>5 DEF Follows
  <2>7. Follows(p, p', m)
    BY <1>1, <2>4, <2>6
  <2>8. ReportsStay
    BY <2>1 DEF ReportsStay
  <2> QED
    BY <2>1, <2>2, <2>7, <2>8, ReceiveReports
<1>4. CASE ReceiveCommand(m)
  <2>1. Arrives(m, "command", "open") /\ note' = note /\ p' = p /\ sched' = sched
    BY <1>4 DEF ReceiveCommand
  <2>2. /\ MessagesStay /\ msg[m].kind = "none" /\ msg'[m].kind # "none"
        /\ \A x \in Messages \ {m} : msg'[x] = msg[x]
    BY <1>0, <2>1, ArrivalStays
  <2>3. ReportsStay
    BY <2>1 DEF ReportsStay
  <2> QED
    BY <1>1, <2>1, <2>2, <2>3, ReceiveReports
<1>5. CASE ReceiveInactive(m)
  <2>1. /\ Arrives(m, "refused", "none") /\ p' = p /\ sched' = sched
        /\ AddNotes(One(Key("inactive", m, 0), NewNote({})))
    BY <1>5 DEF ReceiveInactive
  <2>2. /\ MessagesStay /\ msg[m].kind = "none" /\ msg'[m].kind # "none"
        /\ \A x \in Messages \ {m} : msg'[x] = msg[x]
    BY <1>0, <2>1, ArrivalStays
  <2>3. Key("inactive", m, 0).type # "summary"
    BY DEF Key
  <2>4. ReportsStay
    BY <2>1, <2>3, AddStays
  <2> QED
    BY <1>1, <2>1, <2>2, <2>4, ReceiveReports
<1> QED
  BY <1>2, <1>3, <1>4, <1>5 DEF Receive

(* The event of a message is settled. *)
LEMMA EventSettles ==
  ASSUME ReportInv, ReportsStay, NEW m \in Messages, NEW v \in Verdicts,
         msg' = [msg EXCEPT ![m].ev = v], p' = p, sched' = sched
  PROVE  ReportInv'
<1>1. msg[m] \in MessageState
  BY DEF ReportInv, MsgTyped
<1>2. [msg[m] EXCEPT !.ev = v] \in MessageState
      /\ [msg[m] EXCEPT !.ev = v].kind = msg[m].kind
      /\ [msg[m] EXCEPT !.ev = v].at = msg[m].at
  BY <1>1 DEF MessageState
<1>3. msg'[m] = [msg[m] EXCEPT !.ev = v] /\ \A x \in Messages \ {m} : msg'[x] = msg[x]
  BY DEF ReportInv, MsgTyped
<1>4. \A x \in Messages : msg'[x].kind = msg[x].kind /\ msg'[x].at = msg[x].at
  BY <1>2, <1>3
<1>5. MsgTyped'
  BY <1>2 DEF ReportInv, MsgTyped
<1>6. MessagesStay
  BY <1>4, <1>5 DEF MessagesStay
<1>7. Heard'
  BY <1>4 DEF ReportInv, Heard
<1>8. ProgressFits(p)'
  BY FitsStay DEF ReportInv
<1>9. SchedFits'
  BY SchedStays DEF ReportInv
<1> QED
  BY <1>5, <1>6, <1>7, <1>8, <1>9, WindowsStay DEF ReportInv

LEMMA DecideReportInv ==
  ASSUME Typed, ReportInv, NEW m \in Messages, Decide(m)
  PROVE  ReportInv'
<1>0. MsgTyped /\ ProgressFits(p) /\ msg[m].at \in Nat
  BY DEF ReportInv, MsgTyped, MessageState
<1>1. CASE Settle(m)
  <2>1. PICK v \in Verdicts, told \in BOOLEAN :
          /\ told => v \in {"failed", "plain"}
          /\ msg' = [msg EXCEPT ![m].ev = v]
          /\ IF told THEN AddNotes(One(Key(v, m, 0), NewNote({m}))) ELSE UNCHANGED note
    BY <1>1 DEF Settle
  <2>2. ReportsStay
    <3>1. CASE told
      <4>1. Key(v, m, 0).type # "summary"
        BY <2>1, <3>1 DEF Key
      <4> QED
        BY <2>1, <3>1, <4>1, AddStays
    <3>2. CASE ~told
      BY <2>1, <3>2 DEF ReportsStay
    <3> QED
      BY <3>1, <3>2
  <2>3. p' = p /\ sched' = sched
    BY <1>1 DEF Settle
  <2> QED
    BY <2>1, <2>2, <2>3, EventSettles
<1>2. ASSUME NEW q, Follows(p, q, m), p.st[m] # "none", p' = q,
             note' = note, msg' = msg, sched' = sched
      PROVE  ReportInv'
  <2>1. /\ ProgressFits(q) /\ DOMAIN p.ses \subseteq DOMAIN q.ses
        /\ \A x \in Messages : p.st[x] = "none" => q.st[x] = "none"
    BY <1>2 DEF Follows
  <2>2. MsgTyped' /\ ProgressFits(p)' /\ Heard' /\ WindowsFit' /\ WindowsApart'
    BY <1>2, <2>1, ReportInvFollows
  <2>3. SchedFits'
    BY <1>2, <2>1, SchedStays DEF ReportInv
  <2> QED
    BY <2>2, <2>3 DEF ReportInv
<1>3. CASE Activate(m) /\ Besides
  <2>1. p.st[m] = "awaiting" /\ p' = Attach(p, m, msg[m].at)
        /\ note' = note /\ msg' = msg /\ sched' = sched
    BY <1>3 DEF Activate
  <2>2. Follows(p, Attach(p, m, msg[m].at), m)
    BY <1>0, <2>1, AttachFollows
  <2> QED
    BY <1>2, <2>1, <2>2
<1>4. CASE RecordResolved(m) /\ Besides
  <2>1. /\ p.st[m] # "none" /\ note' = note /\ msg' = msg /\ sched' = sched
        /\ \/ p' = Ignore(p, m)
           \/ p.st[m] = "awaiting" /\ p' = Include(Attach(p, m, msg[m].at), m)
           \/ p' = Include(p, m)
    BY <1>4 DEF RecordResolved
  <2>2. PICK q : p' = q /\ Follows(p, q, m)
    BY <1>0, <2>1, IgnoreFollows, IncludeFollows, AttachIncludeFollows
  <2> QED
    BY <1>2, <2>1, <2>2
<1> QED
  BY <1>1, <1>3, <1>4 DEF Decide

LEMMA CommandEndReportInv ==
  ASSUME Typed, ReportInv, CommandEnds \/ CommandLost \/ CommandFails
  PROVE  ReportInv'
<1>1. CASE CommandEnds
  <2>1. cmd.of \in Messages
    BY <1>1 DEF CommandEnds, Typed, CmdTyped
  <2>2. Key("reply", cmd.of, 0).type # "summary"
    BY DEF Key
  <2>3. ReportsStay
    BY <1>1, <2>2, AddStays DEF CommandEnds
  <2>4. "plain" \in Verdicts
    BY DEF Verdicts
  <2>5. msg' = [msg EXCEPT ![cmd.of].ev = "plain"] /\ p' = p /\ sched' = sched
    BY <1>1 DEF CommandEnds
  <2> QED
    BY <2>1, <2>3, <2>4, <2>5, EventSettles
<1>2. CASE CommandLost
  BY <1>2, ReportInvStays DEF CommandLost, ReportsStay
<1>3. CASE CommandFails
  <2>1. cmd.of \in Messages
    BY <1>3 DEF CommandFails, Typed, CmdTyped
  <2>2. Key("terminal", cmd.of, 0).type # "summary"
    BY DEF Key
  <2>3. ReportsStay
    BY <1>3, <2>2, AddStays DEF CommandFails
  <2>4. "failed" \in Verdicts
    BY DEF Verdicts
  <2>5. msg' = [msg EXCEPT ![cmd.of].ev = "failed"] /\ p' = p /\ sched' = sched
    BY <1>3 DEF CommandFails
  <2> QED
    BY <2>1, <2>3, <2>4, <2>5, EventSettles
<1> QED
  BY <1>1, <1>2, <1>3

IdleAgain(w) == sched' = [sched EXCEPT ![w] = IdleSched]

LEMMA SchedRests ==
  ASSUME SchedFits, NEW w \in Schedulers, IdleAgain(w), DOMAIN p.ses \subseteq DOMAIN p'.ses
  PROVE  SchedFits'
<1>1. IdleSched \in [pc : {"idle", "report"}, at : Nat, ses : Nat] /\ IdleSched.pc = "idle"
  BY DEF IdleSched, NoSession
<1> QED
  BY <1>1 DEF SchedFits, IdleAgain

LEMMA ScanReportInv ==
  ASSUME Typed, ReportInv, NEW w \in Schedulers, ScheduleScan(w)
  PROVE  ReportInv'
<1>1. PICK q : q = Recovered
  OBVIOUS
<1> DEFINE due == {s \in DOMAIN q.ses : DueSession(q, s)}
<1>2. /\ p' = q /\ note' = note /\ msg' = msg
      /\ \/ UNCHANGED sched
         \/ /\ due # {}
            /\ sched' = [sched EXCEPT ![w] = [pc |-> "report", at |-> now,
                                              ses |-> CHOOSE s \in due : TRUE]]
  BY <1>1 DEF ScheduleScan
<1>3. /\ ProgressFits(q) /\ DOMAIN p.ses \subseteq DOMAIN q.ses
      /\ \A x \in Messages : p.st[x] = "none" => q.st[x] = "none"
  BY <1>1, RecoveredFits DEF ReportInv
<1>4. MsgTyped' /\ ProgressFits(p)' /\ Heard' /\ WindowsFit' /\ WindowsApart'
  BY <1>2, <1>3, ReportInvFollows
<1>5. SchedFits'
  <2>1. CASE UNCHANGED sched
    BY <1>2, <1>3, <2>1, SchedStays DEF ReportInv
  <2>2. CASE /\ due # {}
             /\ sched' = [sched EXCEPT ![w] = [pc |-> "report", at |-> now,
                                               ses |-> CHOOSE s \in due : TRUE]]
    <3>1. PICK s : s = CHOOSE x \in due : TRUE
      OBVIOUS
    <3>2. s \in due
      <4> HIDE DEF due
      <4> QED
        BY <2>2, <3>1
    <3>3. s \in DOMAIN q.ses
      BY <3>2
    <3>4. s \in Nat
      BY <1>3, <3>3, ProgressRecord DEF ProgressFits
    <3> DEFINE e == [pc |-> "report", at |-> now, ses |-> s]
    <3>5. sched' = [sched EXCEPT ![w] = e]
      BY <2>2, <3>1
    <3>6. e \in [pc : {"idle", "report"}, at : Nat, ses : Nat] /\ e.ses = s
      BY <3>4 DEF Typed
    <3> HIDE DEF e
    <3> QED
      BY <1>2, <1>3, <3>3, <3>5, <3>6 DEF ReportInv, SchedFits
  <2> QED
    BY <1>2, <2>1, <2>2
<1> QED
  BY <1>4, <1>5 DEF ReportInv

(* The session of a scan changes and makes no report. *)
LEMMA SessionStep ==
  ASSUME ReportInv, NEW w \in Schedulers, IdleAgain(w), NEW s \in DOMAIN p.ses,
         NEW n \in SessionState, n.next >= p.ses[s].next, n.st = "active" => p.ses[s].st = "active",
         p' = [p EXCEPT !.ses = [p.ses EXCEPT ![s] = n]], note' = note, msg' = msg
  PROVE  ReportInv'
<1>1. PICK q : q = [p EXCEPT !.ses = [p.ses EXCEPT ![s] = n]]
  OBVIOUS
<1>2. ProgressFits(q) /\ DOMAIN q.ses = DOMAIN p.ses /\ q.st = p.st
  BY <1>1, SessionChanges DEF ReportInv
<1>3. MsgTyped' /\ ProgressFits(p)' /\ Heard' /\ WindowsFit' /\ WindowsApart'
  BY <1>1, <1>2, ReportInvFollows
<1>4. SchedFits'
  BY <1>1, <1>2, SchedRests DEF ReportInv
<1> QED
  BY <1>3, <1>4 DEF ReportInv

LEMMA SkipsForward ==
  ASSUME NEW end \in Nat, NEW at \in Nat, at > end + Interval
  PROVE  SkippedTo(end, at) \in Nat /\ SkippedTo(end, at) >= end
<1>1. PICK d \in Nat : d = at - end - 1
  BY ProgressAssumption
<1>2. PICK e : e = d \div Interval
  OBVIOUS
<1>3. e \in Nat
  BY <1>2, ProgressAssumption
<1>4. Interval \in Nat
  BY ProgressAssumption
<1>5. e * Interval \in Nat
  BY <1>3, <1>4
<1>6. SkippedTo(end, at) = end + e * Interval
  BY <1>1, <1>2 DEF SkippedTo
<1> QED
  BY <1>5, <1>6

LEMMA SessionFields ==
  ASSUME NEW e \in SessionState, NEW t \in {"active", "closed", "disabled"}, NEW x \in Nat
  PROVE  /\ [e EXCEPT !.st = t] \in SessionState /\ [e EXCEPT !.st = t].next = e.next
         /\ [e EXCEPT !.st = t].st = t
         /\ [e EXCEPT !.next = x] \in SessionState /\ [e EXCEPT !.next = x].next = x
         /\ e.next \in Nat
BY DEF SessionState

(* The report of a window that has messages. *)
LEMMA WindowReported ==
  ASSUME Typed, ReportInv, NEW w \in Schedulers, IdleAgain(w), NEW s \in DOMAIN p.ses,
         NEW at, ReportWindow(s, at), msg' = msg
  PROVE  ReportInv'
<1> DEFINE e == p.ses[s].next
           k == Key("summary", s, e)
           n == NewNote(InWindow(s))
           x == [p.ses[s] EXCEPT !.next = e + Interval]
<1>0. ProgressFits(p) /\ MsgTyped /\ p \in Progress
  BY DEF ReportInv, ProgressFits
<1>1. p.ses[s] \in SessionState /\ DOMAIN p.ses = 1..Len(p.ses) /\ Len(p.ses) \in Nat
  BY <1>0, ProgressRecord
<1>2. e \in Nat /\ e + Interval \in Nat
  <2>1. e \in Nat
    BY <1>1, SessionFields
  <2> HIDE DEF e
  <2> QED
    BY <2>1, ProgressAssumption
<1>3. AddNotes(One(k, n)) /\ p' = [p EXCEPT !.ses[s].next = e + Interval]
  BY DEF ReportWindow, MoveOn
<1>4. k.type = "summary" /\ k.of = s /\ k.no = e
  BY DEF Key
<1>5. k \notin DOMAIN note
  <2> SUFFICES ASSUME k \in DOMAIN note PROVE FALSE
    OBVIOUS
  <2>1. k.no + Interval <= p.ses[k.of].next
    BY <1>0, <1>4 DEF ProgressFits, Reports
  <2>2. e + Interval <= e
    BY <1>4, <2>1
  <2> HIDE DEF e
  <2> QED
    BY <1>2, <2>2, ProgressAssumption
<1>6. InWindow(s) \in SUBSET Messages
  BY DEF InWindow
<1>7. n \in NoteState({}) /\ n.ids = InWindow(s)
  <2>1. n \in NoteState({})
    BY <1>6, NewNoteTyped
  <2>2. n.ids = InWindow(s)
    BY DEF NewNote
  <2> QED
    BY <2>1, <2>2
<1> HIDE DEF k, n
<1>8. /\ DOMAIN note' = DOMAIN note \cup {k}
      /\ \A j \in DOMAIN note : note'[j] = note[j]
      /\ note'[k] = n
  BY <1>3, <1>5, <1>7, AddOne DEF Typed
<1>9. Reports' = Reports \cup {k} /\ \A j \in Reports : note'[j] = note[j] /\ j # k
  BY <1>4, <1>5, <1>8 DEF Reports
<1>10. x \in SessionState /\ x.next = e + Interval /\ x.st = p.ses[s].st
  <2>1. x.st = p.ses[s].st
    BY <1>1 DEF SessionState
  <2> QED
    BY <1>1, <1>2, <2>1, SessionFields
<1>11. PICK q : q = [p EXCEPT !.ses = [p.ses EXCEPT ![s] = x]]
  OBVIOUS
<1>12. p' = q
  BY <1>3, <1>11
<1>13. q.ses = [p.ses EXCEPT ![s] = x] /\ q.sof = p.sof /\ q.st = p.st
  BY <1>0, <1>11 DEF Progress
<1>14. q.ses[s].next = e + Interval
  BY <1>10, <1>13
<1>15. x.next >= p.ses[s].next
  <2>1. e + Interval >= e
    <3> HIDE DEF e
    <3> QED
      BY <1>2, ProgressAssumption
  <2> QED
    BY <1>10, <2>1
<1> HIDE DEF x
<1>16. ProgressFits(q) /\ DOMAIN q.ses = DOMAIN p.ses
  BY <1>0, <1>10, <1>11, <1>15, SessionChanges
<1>17. \A m \in InWindow(s) : /\ m \in Messages /\ p.sof[m] = s
                              /\ e - Interval <= msg[m].at /\ msg[m].at < e
  BY DEF InWindow
<1> HIDE DEF e
<1>18. ProgressFits(p)'
  <2>1. ASSUME NEW j \in Reports'
        PROVE  /\ j.of \in DOMAIN q.ses /\ j.no \in Nat
               /\ j.no + Interval <= q.ses[j.of].next
               /\ \A m \in note'[j].ids : q.sof[m] = j.of
    <3>1. CASE j \in Reports
      BY <1>9, <1>16, <3>1 DEF ProgressFits
    <3>2. CASE j = k
      <4>1. j.of = s /\ j.no = e
        BY <1>4, <3>2
      <4>2. \A m \in note'[j].ids : q.sof[m] = s
        BY <1>7, <1>8, <1>13, <1>17, <3>2
      <4> QED
        BY <1>2, <1>14, <1>16, <4>1, <4>2, ProgressAssumption
    <3> QED
      BY <1>9, <3>1, <3>2
  <2> QED
    BY <1>12, <1>16, <2>1 DEF ProgressFits
<1>19. Heard' /\ MsgTyped'
  BY <1>0, <1>12, <1>13 DEF ReportInv, Heard, MsgTyped
<1>20. WindowsFit'
  <2>1. ASSUME NEW m \in InWindow(s) PROVE msg[m].kind # "none"
    <3>1. m \in Messages /\ p.sof[m] # 0
      BY <1>1, <1>17
    <3>2. p.st[m] # "none"
      BY <1>0, <3>1 DEF ProgressFits, NoSession
    <3> QED
      BY <3>1, <3>2 DEF ReportInv, Heard
  <2>2. ASSUME NEW j \in Reports'
        PROVE  /\ j = Key("summary", j.of, j.no)
               /\ \A m \in note'[j].ids : /\ m \in Messages /\ msg'[m].kind # "none"
                                          /\ j.no - Interval <= msg'[m].at /\ msg'[m].at < j.no
    <3>1. CASE j \in Reports
      BY <1>9, <3>1 DEF ReportInv, WindowsFit
    <3>2. CASE j = k
      <4>1. j.of = s /\ j.no = e /\ j = Key("summary", s, e)
        BY <1>4, <3>2 DEF k
      <4>2. note'[j].ids = InWindow(s)
        BY <1>7, <1>8, <3>2
      <4> QED
        BY <1>17, <2>1, <4>1, <4>2
    <3> QED
      BY <1>9, <3>1, <3>2
  <2> QED
    BY <2>2 DEF WindowsFit
<1>21. WindowsApart'
  <2>1. ASSUME NEW i \in Reports', NEW j \in Reports', i.of = j.of, i.no < j.no
        PROVE  i.no + Interval <= j.no
    <3>1. CASE i \in Reports /\ j \in Reports
      BY <2>1, <3>1 DEF ReportInv, WindowsApart
    <3>2. CASE i \in Reports /\ j = k
      <4>1. i.of = s /\ i.no + Interval <= p.ses[i.of].next
        BY <1>0, <1>4, <2>1, <3>2 DEF ProgressFits
      <4>2. i.no + Interval <= e
        BY <4>1 DEF e
      <4> QED
        BY <1>4, <3>2, <4>2
    <3>3. CASE i = k /\ j \in Reports
      <4>1. j.of = s /\ j.no \in Nat /\ j.no + Interval <= p.ses[j.of].next
        BY <1>0, <1>4, <2>1, <3>3 DEF ProgressFits
      <4>2. j.no + Interval <= e
        BY <4>1 DEF e
      <4>3. e < j.no
        BY <1>4, <2>1, <3>3
      <4> QED
        BY <1>2, <4>1, <4>2, <4>3, ProgressAssumption
    <3>4. CASE i = k /\ j = k
      BY <1>2, <1>4, <2>1, <3>4
    <3> QED
      BY <1>9, <3>1, <3>2, <3>3, <3>4
  <2> QED
    BY <2>1 DEF WindowsApart
<1>22. SchedFits'
  BY <1>12, <1>16, SchedRests DEF ReportInv
<1> QED
  BY <1>18, <1>19, <1>20, <1>21, <1>22 DEF ReportInv

LEMMA ReportReportInv ==
  ASSUME Typed, ReportInv, NEW w \in Schedulers, ScheduleReport(w)
  PROVE  ReportInv'
<1> DEFINE s == sched[w].ses
           at == sched[w].at
<1>1. sched[w].pc = "report" /\ IdleAgain(w) /\ msg' = msg
  BY DEF ScheduleReport, IdleAgain
<1>2. s \in DOMAIN p.ses /\ at \in Nat
  BY <1>1 DEF ReportInv, SchedFits
<1>3. p.ses[s] \in SessionState /\ p \in Progress
  BY <1>2, ProgressRecord DEF ReportInv, ProgressFits
<1>4. p.ses[s].next \in Nat
  BY <1>3, SessionFields
<1>5. ASSUME NEW n \in SessionState, n.next >= p.ses[s].next, note' = note,
             n.st = "active" => p.ses[s].st = "active",
             p' = [p EXCEPT !.ses = [p.ses EXCEPT ![s] = n]]
      PROVE  ReportInv'
  <2> HIDE DEF s
  <2> QED
    BY <1>1, <1>2, <1>5, SessionStep
<1>6. CASE UNCHANGED <<p, note>>
  <2>1. ReportsStay /\ MessagesStay
    BY <1>1, <1>6, SameMessages DEF ReportsStay, ReportInv
  <2>2. ProgressFits(p)'
    BY <1>6, <2>1, FitsStay DEF ReportInv
  <2>3. Heard' /\ MsgTyped'
    BY <1>1, <1>6 DEF ReportInv, Heard, MsgTyped
  <2>4. SchedFits'
    BY <1>1, <1>6, SchedRests DEF ReportInv
  <2> QED
    BY <2>1, <2>2, <2>3, <2>4, WindowsStay DEF ReportInv
<1>7. CASE Withdrawn(s)
  <2> DEFINE n == [p.ses[s] EXCEPT !.st = "disabled"]
  <2>1. n \in SessionState /\ n.next = p.ses[s].next /\ n.st # "active"
    BY <1>3, SessionFields
  <2>2. note' = note /\ p' = [p EXCEPT !.ses = [p.ses EXCEPT ![s] = n]]
    BY <1>7 DEF Withdrawn, Set
  <2> HIDE DEF n
  <2> QED
    BY <1>4, <1>5, <2>1, <2>2
<1>8. CASE SkipWindows(s, at)
  <2> DEFINE t == SkippedTo(p.ses[s].next, at)
             n == [p.ses[s] EXCEPT !.next = t]
  <2>1. at > p.ses[s].next + Interval
    BY <1>8 DEF SkipWindows
  <2>2. t \in Nat /\ t >= p.ses[s].next
    BY <1>2, <1>4, <2>1, SkipsForward
  <2>3. note' = note /\ p' = [p EXCEPT !.ses = [p.ses EXCEPT ![s] = n]]
    BY <1>8 DEF SkipWindows, Set
  <2> HIDE DEF t
  <2>4. n \in SessionState /\ n.next = t /\ n.st = p.ses[s].st
    <3>1. n.st = p.ses[s].st
      BY <1>3 DEF SessionState
    <3> QED
      BY <1>3, <2>2, <3>1, SessionFields
  <2> HIDE DEF n
  <2> QED
    BY <1>5, <2>2, <2>3, <2>4
<1>9. CASE EmptyWindow(s, at)
  <2>1. note' = note /\ p' = AfterEmptyWindow(s)
    BY <1>9 DEF EmptyWindow
  <2>2. CASE Later(s) # {}
    <3> DEFINE f == First(p, Later(s))
               n == [p.ses[s] EXCEPT !.next = f + Interval]
    <3>1. Later(s) \in SUBSET Messages
      BY DEF Later
    <3>2. f \in Nat /\ \E m \in Later(s) : f = msg[m].at
      BY <2>2, <3>1, FirstFits DEF ReportInv
    <3>3. f >= p.ses[s].next
      BY <3>2 DEF Later
    <3>4. p' = [p EXCEPT !.ses = [p.ses EXCEPT ![s] = n]]
      BY <2>1, <2>2 DEF AfterEmptyWindow
    <3> HIDE DEF f
    <3>5. f + Interval \in Nat /\ f + Interval >= p.ses[s].next
      BY <1>4, <3>2, <3>3, ProgressAssumption
    <3>6. n \in SessionState /\ n.next = f + Interval /\ n.st = p.ses[s].st
      <4>1. n.st = p.ses[s].st
        BY <1>3 DEF SessionState
      <4> QED
        BY <1>3, <3>5, <4>1, SessionFields
    <3> HIDE DEF n
    <3> QED
      BY <1>5, <2>1, <3>4, <3>5, <3>6
  <2>3. CASE Later(s) = {}
    <3> DEFINE n == [p.ses[s] EXCEPT !.st = "closed"]
    <3>1. n \in SessionState /\ n.next = p.ses[s].next /\ n.st # "active"
      BY <1>3, SessionFields
    <3>2. p' = [p EXCEPT !.ses = [p.ses EXCEPT ![s] = n]]
      BY <2>1, <2>3 DEF AfterEmptyWindow
    <3> HIDE DEF n
    <3> QED
      BY <1>4, <1>5, <2>1, <3>1, <3>2
  <2> QED
    BY <2>2, <2>3
<1>10. CASE ReportWindow(s, at)
  <2> HIDE DEF s, at
  <2> QED
    BY <1>1, <1>2, <1>10, WindowReported
<1> QED
  BY <1>6, <1>7, <1>8, <1>9, <1>10 DEF ScheduleReport, NotDue

LEMMA ScheduleReportInv ==
  ASSUME Typed, ReportInv, NEW w \in Schedulers,
         Schedule(w) \/ (SchedulerCrashes(w) /\ Besides)
  PROVE  ReportInv'
<1>1. CASE ScheduleScan(w)
  BY <1>1, ScanReportInv
<1>2. CASE ScheduleReport(w)
  BY <1>2, ReportReportInv
<1>3. CASE SchedulerCrashes(w)
  <2>1. IdleAgain(w) /\ note' = note /\ msg' = msg /\ p' = p
    BY <1>3 DEF SchedulerCrashes, IdleAgain
  <2>2. ReportsStay /\ MessagesStay
    BY <2>1, SameMessages DEF ReportsStay, ReportInv
  <2>3. ProgressFits(p)'
    BY <2>1, <2>2, FitsStay DEF ReportInv
  <2>4. Heard' /\ MsgTyped'
    BY <2>1 DEF ReportInv, Heard, MsgTyped
  <2>5. SchedFits'
    BY <2>1, SchedRests DEF ReportInv
  <2> QED
    BY <2>2, <2>3, <2>4, <2>5, WindowsStay DEF ReportInv
<1> QED
  BY <1>1, <1>2, <1>3 DEF Schedule

LEMMA IssueStays == ASSUME Typed, IssuePage PROVE ReportsStay
<1>1. PICK no \in 0..(2 * Pages) :
        /\ DOMAIN note' = DOMAIN note \cup {Key("preview", cmd.of, no), Key("card", cmd.of, no)}
        /\ \A k \in DOMAIN note : note'[k] = note[k]
  BY IssueStep
<1>2. Key("preview", cmd.of, no).type # "summary" /\ Key("card", cmd.of, no).type # "summary"
  BY DEF Key
<1> QED
  BY <1>1, <1>2 DEF ReportsStay

LEMMA LinkStays == ASSUME Typed, QueueTableLink PROVE ReportsStay
<1>1. /\ DOMAIN note' = DOMAIN note \cup {Key("link", cmd.of, 0)}
      /\ \A k \in DOMAIN note \ Chain(cmd.of) : note'[k] = note[k]
  BY LinkStep
<1>2. Key("link", cmd.of, 0).type # "summary"
  BY DEF Key
<1>3. \A k \in Chain(cmd.of) : k.type # "summary"
  BY DEF Chain
<1> QED
  BY <1>1, <1>2, <1>3 DEF ReportsStay

LEMMA RewriteStays == ASSUME NEW k \in DOMAIN note, Rewrites(k) PROVE ReportsStay
BY DEF Rewrites, ReportsStay

LEMMA ExpiryStays ==
  ASSUME Typed, NEW k \in DOMAIN note, NoteLeaseExpires(k)
  PROVE  ReportsStay
<1> DEFINE n == [note[k] EXCEPT !.lease = "expired"]
<1>1. note[k] \in NoteState(DOMAIN note)
  BY DEF Typed, NotesTyped
<1>2. n \in NoteState(DOMAIN note) /\ n.ids = note[k].ids
  BY <1>1 DEF NoteState
<1>3. note' = [note EXCEPT ![k] = n]
  BY DEF NoteLeaseExpires
<1> HIDE DEF n
<1> QED
  BY <1>2, <1>3, RowBecomes DEF ReportsStay, Typed

LEMMA SendStays ==
  ASSUME Typed, NEW b \in Bots, Send(b)
  PROVE  ReportsStay
<1>1. CASE \E k \in DOMAIN note : Suppress(k)
  BY <1>1, SuppressStep, RewriteStays
<1>2. CASE \E k \in DOMAIN note : Claim(b, k)
  BY <1>2, ClaimStep, RewriteStays
<1>3. CASE SendSucceeds(b)
  BY <1>3, SendStep, RewriteStays
<1>4. CASE /\ bot[b].pc # "idle" /\ Rest(b)
           /\ \E s \in {"suppressed", "retrying", "failed", "succeeded"} : Close(b, s)
  BY <1>4, CloseStep, RewriteStays
<1> QED
  BY <1>1, <1>2, <1>3, <1>4, SendSplits

LEMMA ReportInvNext ==
  ASSUME Typed, ReportInv, [Next]_vars
  PROVE  ReportInv'
<1>1. CASE \E m \in Messages : Receive(m)
  BY <1>1, ReceiveReportInv
<1>2. CASE \E m \in Messages : Decide(m)
  BY <1>2, DecideReportInv
<1>3. CASE \E w \in Schedulers : Schedule(w) \/ (SchedulerCrashes(w) /\ Besides)
  BY <1>3, ScheduleReportInv
<1>4. CASE CommandEnds \/ CommandLost \/ CommandFails
  BY <1>4, CommandEndReportInv
<1>5. CASE Remind
  <2>1. Key("reminder", Today, 0).type # "summary"
    BY DEF Key
  <2>2. ReportsStay
    BY <1>5, <2>1, AddStays DEF Remind
  <2> QED
    BY <1>5, <2>2, ReportInvStays DEF Remind
<1>6. CASE ExpireLease
  <2>1. ReportsStay
    BY <1>6, ExpiryStays DEF ExpireLease
  <2> QED
    BY <1>6, <2>1, ReportInvStays DEF ExpireLease, world
<1>7. CASE Crash
  <2>1. note' = note /\ msg' = msg /\ p' = p /\ sched' = sched
    BY <1>7 DEF Crash, BotCrashes, world
  <2> QED
    BY <2>1, ReportInvStays DEF ReportsStay
<1>8. CASE Tick \/ Withdraw \/ Submit \/ TableChanges \/ UNCHANGED vars
  <2>1. note' = note /\ msg' = msg /\ p' = p /\ sched' = sched
    BY <1>8 DEF Tick, Withdraw, Submit, TableChanges, vars
  <2> QED
    BY <2>1, ReportInvStays DEF ReportsStay
<1>9. CASE \E m \in Messages : CommandStarts(m)
  <2>1. note' = note /\ msg' = msg /\ p' = p /\ sched' = sched
    BY <1>9 DEF CommandStarts
  <2> QED
    BY <2>1, ReportInvStays DEF ReportsStay
<1>10. CASE IssuePage
  BY <1>10, IssueStays, ReportInvStays DEF IssuePage
<1>11. CASE QueueTableLink
  BY <1>11, LinkStays, ReportInvStays DEF QueueTableLink
<1>12. CASE \E b \in Bots : Send(b)
  <2>1. ReportsStay /\ UNCHANGED world
    BY <1>12, SendStays, SendSplits
  <2> QED
    BY <2>1, ReportInvStays DEF world
<1>13. CASE Next
  BY <1>1, <1>2, <1>3, <1>4, <1>5, <1>6, <1>7, <1>8, <1>9, <1>10, <1>11, <1>12, <1>13
     DEF Next, Command
<1> QED
  BY <1>8, <1>13

LEMMA ReportInvInit ==
  ASSUME Init
  PROVE  ReportInv
<1>1. Reports = {}
  BY DEF Init, Reports
<1>2. msg = [m \in Messages |-> [kind |-> "none", at |-> 0, ev |-> "none"]]
  BY DEF Init
<1>3. MsgTyped
  BY <1>2 DEF MsgTyped, MessageState
<1>4. /\ p = [st |-> [m \in Messages |-> "none"],
              sof |-> [m \in Messages |-> NoSession], ses |-> <<>>]
  BY DEF Init
<1>5. <<>> \in Seq(SessionState) /\ Len(<<>>) = 0
  OBVIOUS
<1>6. p \in Progress
  BY <1>4, <1>5 DEF Progress, NoSession
<1>7. \A m \in Messages : p.st[m] = "none" /\ p.sof[m] = 0 /\ p.sof[m] \in 0..Len(p.ses)
  BY <1>4, <1>5 DEF NoSession
<1>8. ProgressFits(p) /\ Heard
  BY <1>1, <1>4, <1>6, <1>7 DEF ProgressFits, Heard, NoSession
<1>9. SchedFits
  BY DEF Init, SchedFits, IdleSched, NoSession
<1>10. WindowsFit /\ WindowsApart
  BY <1>1 DEF WindowsFit, WindowsApart
<1> QED
  BY <1>3, <1>8, <1>9, <1>10 DEF ReportInv

LEMMA ReportsAreSound ==
  ASSUME ReportInv
  PROVE  OneReportPerMessage
<1> SUFFICES ASSUME NEW j \in Reports, NEW k \in Reports, j # k,
                    NEW m, m \in note[j].ids, m \in note[k].ids
             PROVE  FALSE
  BY DEF OneReportPerMessage, Reports
<1>1. j.of = k.of /\ j.no \in Nat /\ k.no \in Nat
  BY DEF ReportInv, ProgressFits
<1>2. j = Key("summary", j.of, j.no) /\ k = Key("summary", k.of, k.no)
  BY DEF ReportInv, WindowsFit
<1>3. j.no # k.no
  BY <1>1, <1>2
<1>4. /\ j.no - Interval <= msg[m].at /\ msg[m].at < j.no
      /\ k.no - Interval <= msg[m].at /\ msg[m].at < k.no /\ m \in Messages
  BY DEF ReportInv, WindowsFit
<1>5. msg[m].at \in Nat
  BY <1>4 DEF ReportInv, MsgTyped, MessageState
<1>6. j.no + Interval <= k.no \/ k.no + Interval <= j.no
  BY <1>1, <1>3 DEF ReportInv, WindowsApart
<1> QED
  BY <1>1, <1>4, <1>5, <1>6, ProgressAssumption

(* No message is counted in two progress reports, whatever candidates are   *)
(* recovered, sessions anchored anew, windows skipped and schedules run     *)
(* twice or lost: the windows of a session that has reported only move      *)
(* forward, by whole intervals or behind the last one, and a message never  *)
(* changes its session.                                                     *)
THEOREM MessagesAreReportedOnce == Spec => []OneReportPerMessage
<1>1. Init => Typed /\ ReportInv
  BY TypedInit, ReportInvInit
<1>2. Typed /\ ReportInv /\ [Next]_vars => (Typed /\ ReportInv)'
  BY TypedNext, ReportInvNext
<1>3. Typed /\ ReportInv => OneReportPerMessage
  BY ReportsAreSound
<1> QED
  BY <1>1, <1>2, <1>3, PTL DEF Spec

-----------------------------------------------------------------------------
(* Types *)

(* What was told is what the row lists, and so is what a bot has in hand. *)
ToldFits ==
    /\ \A k \in DOMAIN note : note[k].told \subseteq note[k].ids
    /\ \A b \in Bots : bot[b].pc # "idle" => bot[b].ids \subseteq note[bot[b].key].ids

LEMMA CalmTold ==
  ASSUME Typed, ToldFits, Calm
  PROVE  ToldFits'
<1>1. Quiet /\ \A b \in Bots : bot'[b] \in {bot[b], IdleBot}
  BY DEF Calm
<1>2. IdleBot.pc = "idle"
  BY DEF IdleBot
<1>3. \A k \in DOMAIN note' : note'[k].told \subseteq note'[k].ids
  BY <1>1 DEF Quiet, ToldFits
<1>4. ASSUME NEW b \in Bots, bot'[b].pc # "idle"
      PROVE  bot'[b].ids \subseteq note'[bot'[b].key].ids
  <2>1. bot'[b] = bot[b] /\ bot[b].key \in DOMAIN note /\ bot[b].ids \subseteq note[bot[b].key].ids
    BY <1>1, <1>2, <1>4 DEF Typed, HandsFull, ToldFits
  <2> QED
    BY <1>1, <2>1 DEF Quiet
<1> QED
  BY <1>3, <1>4 DEF ToldFits

LEMMA SendTold ==
  ASSUME Typed, ToldFits, NEW b \in Bots, Send(b)
  PROVE  ToldFits'
<1>0. \A c \in Bots : bot[c].pc # "idle" => bot[c].key \in DOMAIN note
  BY DEF Typed, HandsFull
<1>1. CASE \E k \in DOMAIN note : Suppress(k)
  <2>1. PICK k \in DOMAIN note : Suppress(k)
    BY <1>1
  <2>2. Rewrites(k) /\ bot' = bot /\ note'[k].told = note[k].told
    BY <2>1, SuppressStep
  <2> QED
    BY <1>0, <2>2 DEF Rewrites, ToldFits
<1>2. CASE \E k \in DOMAIN note : Claim(b, k)
  <2>1. PICK k \in DOMAIN note : Claim(b, k)
    BY <1>2
  <2>2. /\ Rewrites(k) /\ note'[k].told = note[k].told
        /\ bot'[b].key = k /\ bot'[b].ids = note[k].ids
        /\ \A c \in Bots : c # b => bot'[c] = bot[c]
    BY <2>1, ClaimStep
  <2> QED
    BY <1>0, <2>2 DEF Rewrites, ToldFits
<1>3. CASE SendSucceeds(b)
  <2>1. PICK k : k = bot[b].key
    OBVIOUS
  <2>2. /\ Rewrites(k) /\ bot[b].pc = "claimed" /\ k \in DOMAIN note
        /\ note'[k].told = bot[b].ids
        /\ bot'[b].key = k /\ bot'[b].ids = bot[b].ids
        /\ \A c \in Bots : c # b => bot'[c] = bot[c]
    BY <1>3, <2>1, SendStep
  <2>3. bot[b].ids \subseteq note[k].ids
    BY <2>1, <2>2 DEF ToldFits
  <2> QED
    BY <1>0, <2>2, <2>3 DEF Rewrites, ToldFits
<1>4. CASE /\ bot[b].pc # "idle" /\ Rest(b)
           /\ \E s \in {"suppressed", "retrying", "failed", "succeeded"} : Close(b, s)
  <2>1. PICK k : k = bot[b].key
    OBVIOUS
  <2>2. /\ Rewrites(k) /\ k \in DOMAIN note /\ note'[k].told = note[k].told
        /\ bot'[b] = IdleBot /\ \A c \in Bots : c # b => bot'[c] = bot[c]
    BY <1>4, <2>1, CloseStep
  <2>3. IdleBot.pc = "idle"
    BY DEF IdleBot
  <2> QED
    BY <1>0, <2>2, <2>3 DEF Rewrites, ToldFits
<1> QED
  BY <1>1, <1>2, <1>3, <1>4, SendSplits

LEMMA ToldNext ==
  ASSUME Typed, ToldFits, [Next]_vars
  PROVE  ToldFits'
<1>0. \A c \in Bots : bot[c].pc # "idle" => bot[c].key \in DOMAIN note
  BY DEF Typed, HandsFull
<1>1. CASE CalmStep
  BY <1>1, CalmTold DEF CalmStep
<1>2. CASE \E m \in Messages : CommandStarts(m)
  BY <1>2, CommandStartCalm, CalmTold
<1>3. CASE IssuePage
  <2>1. /\ bot' = bot /\ DOMAIN note \subseteq DOMAIN note'
        /\ \A k \in DOMAIN note : note'[k] = note[k]
        /\ \A k \in DOMAIN note' \ DOMAIN note : note'[k] = HeldNote
    BY <1>3, IssueStep
  <2>2. HeldNote.told = {}
    BY DEF HeldNote, NewNote
  <2> QED
    BY <1>0, <2>1, <2>2 DEF ToldFits
<1>4. CASE QueueTableLink
  <2>1. PICK l : l = Key("link", cmd.of, 0)
    OBVIOUS
  <2>2. /\ bot' = bot /\ DOMAIN note' = DOMAIN note \cup {l}
        /\ \A k \in DOMAIN note \ Chain(cmd.of) : note'[k] = note[k]
        /\ \A k \in Chain(cmd.of) : note'[k].ids = note[k].ids /\ note'[k].told = note[k].told
        /\ l \notin DOMAIN note =>
             note'[l] = [NewNote({}) EXCEPT !.deps = Previous(l, Chain(cmd.of))]
    BY <1>4, <2>1, LinkStep
  <2>3. \A D : [NewNote({}) EXCEPT !.deps = D].told = {}
    BY DEF NewNote
  <2>4. l \notin DOMAIN note => note'[l].told = {}
    BY <2>2, <2>3
  <2>5. \A k \in DOMAIN note : note'[k].ids = note[k].ids /\ note'[k].told = note[k].told
    BY <2>2
  <2> QED
    BY <1>0, <2>2, <2>4, <2>5 DEF ToldFits
<1>5. CASE \E b \in Bots : Send(b)
  BY <1>5, SendTold
<1> QED
  BY <1>1, <1>2, <1>3, <1>4, <1>5, StepSplits

(* Two sessions of one salesperson are never active together. *)
LEMMA OneActiveSession ==
  ASSUME ProgressFits(p)
  PROVE  Cardinality({s \in DOMAIN p.ses : p.ses[s].st = "active"}) <= 1
<1> DEFINE A == {s \in DOMAIN p.ses : p.ses[s].st = "active"}
<1>1. \A s, t \in A : s = t
  BY DEF ProgressFits
<1> SUFFICES Cardinality(A) <= 1
  OBVIOUS
<1> HIDE DEF A
<1>2. CASE A = {}
  BY <1>2, FS_EmptySet
<1>3. CASE A # {}
  <2>1. PICK s \in A : A = {s}
    BY <1>1, <1>3
  <2>2. Cardinality({s}) = 1
    BY FS_Singleton
  <2> QED
    BY <2>1, <2>2
<1> QED
  BY <1>2, <1>3

LEMMA TypesAreSound ==
  ASSUME Typed, ChainInv, ReportInv, ToldFits
  PROVE  TypeOK
<1>1. ASSUME NEW k \in DOMAIN note
      PROVE  /\ note[k].st \in Settled \cup {"pending", "retrying", "processing"}
             /\ note[k].ids \subseteq Messages /\ note[k].told \subseteq note[k].ids
             /\ note[k].deps \subseteq DOMAIN note
             /\ (note[k].st = "processing") = (note[k].tok # 0)
  <2>1. note[k] \in NoteState(DOMAIN note)
    BY DEF Typed, NotesTyped
  <2>2. /\ note[k].st \in States /\ note[k].ids \subseteq Messages
        /\ note[k].deps \subseteq DOMAIN note
    BY <2>1 DEF NoteState
  <2>3. note[k].told \subseteq note[k].ids
    BY DEF ToldFits
  <2>4. note[k].st = "processing" <=> note[k].tok # 0
    BY DEF ChainInv, StatesFit
  <2> QED
    BY <2>2, <2>3, <2>4 DEF States
<1>2. ProgressFits(p)
  BY DEF ReportInv
<1>3. \A m \in Messages : p.sof[m] \in 0..Len(p.ses)
  BY <1>2 DEF ProgressFits
<1>4. Cardinality({s \in DOMAIN p.ses : p.ses[s].st = "active"}) <= 1
  BY <1>2, OneActiveSession
<1> QED
  BY <1>1, <1>3, <1>4 DEF TypeOK

(* Rows have the states of the table and depend on rows that exist, a row   *)
(* is processing exactly while it has a claim token, what was delivered is  *)
(* what the row lists (outbound.py), and a salesperson has at most one      *)
(* active session of progress reports (leads/progress.py).                  *)
THEOREM NotificationTypesHold == Spec => []TypeOK
<1>1. Init => ToldFits
  <2>1. IdleBot.pc = "idle"
    BY DEF IdleBot
  <2> QED
    BY <2>1 DEF Init, ToldFits
<1>2. Typed /\ ToldFits /\ [Next]_vars => ToldFits'
  BY ToldNext
<1>3. Init => Typed /\ ChainInv /\ ReportInv
  BY TypedInit, ChainInvInit, ReportInvInit
<1>4. Typed /\ ChainInv /\ ReportInv /\ [Next]_vars => Typed' /\ ChainInv' /\ ReportInv'
  BY TypedNext, ChainInvNext, ReportInvNext
<1>5. Typed /\ ChainInv /\ ReportInv /\ ToldFits => TypeOK
  BY TypesAreSound
<1> QED
  BY <1>1, <1>2, <1>3, <1>4, <1>5, PTL DEF Spec
=============================================================================
