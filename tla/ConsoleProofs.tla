---------------------------- MODULE ConsoleProofs ----------------------------
(***************************************************************************)
(* Machine-checked proofs about Console, for every set of clerks, requests, *)
(* leads, salespeople, values and scenarios and every bound.               *)
(*                                                                         *)
(* What the five parts share is the clerk at the desk.  A step moves one    *)
(* clerk at most, and the places of the parts are disjoint; so the          *)
(* invariant of a part survives the steps of the others by one lemma per    *)
(* part, and only the part's own actions are looked at one by one.          *)
(***************************************************************************)
EXTENDS Console, FiniteSetTheorems, SequenceTheorems, TLAPS

-----------------------------------------------------------------------------
(* Types *)

TransferPlaces == {"transfer", "transfer_reconcile", "read", "send", "mark",
                   "verify", "settle", "close"}
CreationPlaces == {"create", "create_reconcile", "insert", "create_row", "keep",
                   "find", "bind"}
AttemptPlaces == {"supplement", "patching", "retry_done", "retry_failed"}
OtherPlaces == {"idle", "report", "discard", "retry", "reassign", "assign"}
Places == TransferPlaces \cup CreationPlaces \cup AttemptPlaces \cup OtherPlaces

ClerkState ==
    [pc : Places, kind : Operations \cup {None}, req : Requests \cup {None},
     op : Requests \cup Leads \cup Nat \cup {None},
     to : Sales \cup Requests \cup Values \cup {None},
     res : Outcomes \cup {"unknown", "refused", "unsettled", "made",
                          "unverified", "unbound", None}]

(* What a clerk's record holds at each place. *)
Fits(c) ==
    /\ c \in ClerkState
    /\ c.pc # "idle" => c.req \in Requests
    /\ c.pc = "report" => c.res \in Outcomes /\ c.res # "absent"
    /\ c.pc = "transfer" => c.to \in Sales
    /\ c.pc \in TransferPlaces \ {"transfer"} => c.op \in Requests
    /\ c.pc = "close" => c.res \in {"unknown", "refused", "unsettled"}
    /\ c.pc \in CreationPlaces \ {"create", "insert"} => c.op \in Requests
    /\ c.pc = "keep" => c.res \in {"made", "refused", "unverified", "unknown",
                                   "unbound"}
    /\ c.pc \in {"find", "keep"} => c.to \in Requests \cup {None}
    /\ c.pc = "bind" \/ (c.pc = "keep" /\ c.res = "made") => c.to \in Requests
    /\ c.pc \in {"discard", "reassign", "assign"} => c.op \in Leads
    /\ c.pc = "retry" => c.to = None
    /\ c.pc = "supplement" => c.to \in Values \cup {None}

Statuses == {"absent", "processing", "pending_recovery", "remote_failed",
             "succeeded"}
Remotes == {"pending", "unknown", "failed", "succeeded"}

TransferState ==
    [st : Statuses, remote : Remotes, old : Sales \cup {None},
     new : Sales \cup {None}, fresh : BOOLEAN]

CreationState ==
    [st : Statuses, remote : Remotes, rec : Requests \cup {None},
     fresh : BOOLEAN]

FieldState ==
    [cell : Values \cup {Hand, Blank, Gone}, fact : Values \cup {Blank},
     val : Values \cup {Blank}, synced : Values \cup {Blank},
     user : BOOLEAN, edited : BOOLEAN, torn : BOOLEAN]

DraftState ==
    [pc : {"none", "look", "plan", "reread", "replan", "save", "guard", "write",
           "record", "remake"},
     lead : Leads \cup {None}, val : Values \cup {None}, sup : BOOLEAN,
     ack : BOOLEAN, again : BOOLEAN, remade : BOOLEAN,
     seen : Values \cup {Hand, Blank, None}, new : Values \cup {Blank, None},
     base : Values \cup {Blank, None}, put : BOOLEAN, keep : BOOLEAN]

(* A synchronisation in work has its lead, and what it writes is a value. *)
DraftFits(d) ==
    /\ d \in DraftState
    /\ d.lead \in Leads <=> d.pc # "none"
    /\ d.put = TRUE \/ d.keep = TRUE => d.new \in Values \cup {Blank}
    /\ d.pc = "write" => d.put = TRUE

AttemptState ==
    [st : {"processing", "succeeded", "no_target", "failed_pending_review"},
     lead : Leads \cup {None}, fresh : BOOLEAN]

(* The parts of the state; attempts are named by a request at work. *)
DeskTyped ==
    /\ menu \in SUBSET Operations /\ audit \in [Requests -> Outcomes]
    /\ clerk \in [Clerks -> ClerkState] /\ \A p \in Clerks : Fits(clerk[p])
    /\ active \in BOOLEAN /\ discarded \subseteq Leads
    /\ faults \in 0..MaxFaults

TransferTyped ==
    /\ owner \in Sales /\ rowOwner \in Sales \cup {Elsewhere}
    /\ transfer \in [Requests -> TransferState]
    /\ \A r \in Requests : transfer[r].st # "absent" =>
         transfer[r].old \in Sales /\ transfer[r].new \in Sales
    /\ contexts \subseteq Sales /\ raced \in BOOLEAN

CreationTyped ==
    /\ creation \in [Requests -> CreationState]
    /\ bound \in [Requests -> Requests \cup {None}] /\ rows \subseteq Requests

ReviewTyped ==
    /\ field \in [Leads -> FieldState]
    /\ draft \in [Writers -> DraftState] /\ \A w \in Writers : DraftFits(draft[w])
    /\ due \subseteq Later

RetryTyped ==
    /\ event \in {"failed_pending_review", "succeeded"}
    /\ sync \in [Leads -> {"retrying", "failed_pending_review", "succeeded"}]
    /\ assigned \in Leads \cup {None}
    /\ attempt \in Seq(AttemptState)

(* A clerk on an attempt names one with a lead; a clerk's draft is the      *)
(* patch it waits for.                                                      *)
ClerksPlaced ==
    \A p \in Clerks :
      /\ clerk[p].pc \in AttemptPlaces =>
           clerk[p].op \in 1..Len(attempt) /\ attempt[clerk[p].op].lead \in Leads
      /\ draft[p].pc # "none" => clerk[p].pc = "patching"

(* A clerk at work on an operation finds it. *)
OperationsThere ==
    \A p \in Clerks :
      /\ clerk[p].pc \in TransferPlaces \ {"transfer"} =>
           transfer[clerk[p].op].st # "absent"
      /\ clerk[p].pc \in CreationPlaces \ {"create", "insert"} =>
           creation[clerk[p].op].st # "absent"

(* Requests in work are begun and are not shared. *)
RequestsApart ==
    /\ \A p \in Clerks : clerk[p].pc # "idle" => audit[clerk[p].req] # "absent"
    /\ \A p, q \in Clerks : p # q /\ clerk[p].pc # "idle" /\ clerk[q].pc # "idle"
         => clerk[p].req # clerk[q].req

Typed ==
    /\ DeskTyped /\ TransferTyped /\ CreationTyped /\ ReviewTyped /\ RetryTyped
    /\ ClerksPlaced /\ OperationsThere /\ RequestsApart

-----------------------------------------------------------------------------
(* The invariants of the parts *)

(* An operation belongs to a request that was begun, and the request that  *)
(* is to make one has none yet.                                            *)
OperationsApart ==
    /\ \A r \in Requests : transfer[r].st # "absent" \/ creation[r].st # "absent"
         => audit[r] # "absent"
    /\ \A p \in Clerks :
         /\ clerk[p].pc = "transfer" => transfer[clerk[p].req].st = "absent"
         /\ clerk[p].pc \in {"create", "insert"} =>
              creation[clerk[p].req].st = "absent"

(* The first call of a creation is out, or its answer is to be kept.       *)
FirstCall(p) ==
    \/ clerk[p].pc = "create_row"
    \/ clerk[p].pc = "keep" /\ clerk[p].res = "unverified"

(* While the first call of a creation is out, no one else touches it; rows  *)
(* are bound once.                                                         *)
CreationInv ==
    /\ \A p \in Clerks : FirstCall(p) =>
         /\ creation[clerk[p].op].st = "processing"
         /\ creation[clerk[p].op].remote = "pending"
         /\ clerk[p].pc = "keep" => clerk[p].to \in Requests
         /\ \A q \in Clerks \ {p} : OnCreation(q) => clerk[q].op # clerk[p].op
    /\ \A r \in Requests : creation[r].st = "succeeded" =>
         bound[r] # None /\ bound[r] = creation[r].rec
    /\ \A q, r \in Requests : q # r /\ bound[q] # None => bound[q] # bound[r]

(* As long as no two requests were in work on one operation: one transfer   *)
(* is open at most and at most one clerk is at work, on that one; the row    *)
(* has the old or the new owner, whichever the place allows, or one set by   *)
(* hand.                                                                   *)
TransferInv ==
    raced = FALSE =>
      /\ \A o, u \in Requests : OpenTransfer(o) /\ OpenTransfer(u) => o = u
      /\ \A p \in Clerks : OnTransfer(p) => OpenTransfer(clerk[p].op)
      /\ \A p, q \in Clerks : OnTransfer(p) /\ OnTransfer(q) => p = q
      /\ contexts \subseteq {owner}
      /\ (\A o \in Requests : ~OpenTransfer(o)) => rowOwner \in {owner, Elsewhere}
      /\ \A o \in Requests : OpenTransfer(o) =>
           /\ transfer[o].old = owner
           /\ rowOwner \in {owner, transfer[o].new, Elsewhere}
      /\ \A p \in Clerks :
           /\ clerk[p].pc = "send" \/ (clerk[p].pc = "close" /\ clerk[p].res = "refused")
                => rowOwner \in {owner, Elsewhere}
           /\ clerk[p].pc = "settle" =>
                rowOwner \in {transfer[clerk[p].op].new, Elsewhere}

(* A plan that writes keeps what it writes, and it was made for the row as  *)
(* it was last seen.                                                       *)
PlanFits(d) ==
    /\ d.pc \in {"reread", "save", "guard", "write", "record"} /\ d.put = TRUE
         => d.keep = TRUE
    /\ d.pc \in {"reread", "save"} /\ d.keep = TRUE /\ d.put = FALSE
         => d.seen = d.new
    /\ d.pc \in {"reread", "save", "guard", "write"} /\ d.put = TRUE
         => d.seen # Hand /\ (d.sup = TRUE => d.seen = Blank)

PlansFit == \A w \in Writers : PlanFits(draft[w])

(* No one has touched the row, and no value was left unrecorded. *)
Clean(f) == f.edited = FALSE /\ f.torn = FALSE

(* The draft d of the only writer of a clean field f knows the cell. *)
Knows(d, f) ==
    /\ d.pc # "remake"
    /\ d.pc \in {"plan", "reread", "replan", "save", "guard", "write"} =>
         d.seen = f.cell
    /\ d.pc \in {"guard", "write", "record"} /\ d.keep = TRUE =>
         f.fact = d.new /\ (d.put = FALSE => f.synced = d.new)
    /\ d.pc = "record" /\ d.put = TRUE => f.cell = d.new

Recording(w, l) ==
    draft[w].lead = l /\ draft[w].pc = "record" /\ draft[w].put = TRUE

(* A clean field has one writer at most, and its cell holds what was last   *)
(* recorded, unless that writer is about to record it or the lead was       *)
(* discarded in between.                                                    *)
CleanFields ==
    \A l \in Leads : Clean(field[l]) =>
      /\ field[l].user = FALSE /\ field[l].cell # Gone
      /\ \A v, w \in Writers : draft[v].lead = l /\ draft[w].lead = l => v = w
      /\ \A w \in Writers : draft[w].lead = l => Knows(draft[w], field[l])
      /\ \/ field[l].cell = field[l].synced \/ l \in discarded
         \/ \E w \in Writers : Recording(w, l)

-----------------------------------------------------------------------------
(* Steps of clerks *)

(* What was begun stays begun. *)
AuditKept ==
    /\ audit' \in [Requests -> Outcomes]
    /\ \A r \in Requests : audit[r] # "absent" => audit'[r] # "absent"

(* Clerk p goes on with its request, within the places S. *)
Moves(p, S) ==
    /\ AuditKept /\ clerk[p].pc \in S
    /\ \E c : /\ Fits(c) /\ c.pc \in S /\ clerk' = [clerk EXCEPT ![p] = c]
              /\ clerk[p].pc # "idle" /\ (c.pc = "idle" \/ c.req = clerk[p].req)

(* Clerk p begins a request of its own. *)
Begins(p, K) ==
    /\ clerk[p].pc = "idle"
    /\ \E r \in Requests, c \in ClerkState :
         /\ NotBegun(r) /\ audit' = [audit EXCEPT ![r] = "processing"]
         /\ Fits(c) /\ c.pc \in K /\ c.req = r
         /\ clerk' = [clerk EXCEPT ![p] = c]

(* What is left of the desk stays in its types. *)
DeskKept ==
    /\ menu' = menu /\ active' \in BOOLEAN /\ faults' \in 0..MaxFaults
    /\ discarded \subseteq discarded' /\ discarded' \subseteq Leads

(* A step within the places S, or one that begins a request of a kind K. *)
Within(S, K) ==
    /\ DeskKept
    /\ \/ UNCHANGED <<clerk, audit>>
       \/ \E p \in Clerks : Moves(p, S) \/ Begins(p, K)

LEMMA FaultTyped ==
  ASSUME faults \in 0..MaxFaults, MaxFaults \in Nat, Fault \/ UNCHANGED faults
  PROVE  faults' \in 0..MaxFaults
BY DEF Fault

LEMMA MovesTyped ==
  ASSUME DeskTyped, RequestsApart, NEW S, NEW p \in Clerks, Moves(p, S)
  PROVE  /\ audit' \in [Requests -> Outcomes]
         /\ clerk' \in [Clerks -> ClerkState]
         /\ \A q \in Clerks : Fits(clerk'[q])
         /\ RequestsApart'
<1>1. PICK c : /\ Fits(c) /\ c.pc \in S /\ clerk' = [clerk EXCEPT ![p] = c]
               /\ clerk[p].pc # "idle" /\ (c.pc = "idle" \/ c.req = clerk[p].req)
  BY DEF Moves
<1>2. c \in ClerkState BY <1>1 DEF Fits
<1>3. clerk' \in [Clerks -> ClerkState] BY <1>1, <1>2 DEF DeskTyped
<1>4. \A q \in Clerks : clerk'[q] = IF q = p THEN c ELSE clerk[q]
  BY <1>1 DEF DeskTyped
<1>5. \A q \in Clerks : Fits(clerk'[q]) BY <1>1, <1>4 DEF DeskTyped
<1>6. \A q \in Clerks : clerk'[q].pc # "idle" =>
         clerk[q].pc # "idle" /\ clerk'[q].req = clerk[q].req
  BY <1>1, <1>4
<1>7. \A q \in Clerks : clerk[q].pc # "idle" => clerk[q].req \in Requests
  BY DEF DeskTyped, Fits
<1>8. RequestsApart' BY <1>6, <1>7 DEF RequestsApart, Moves, AuditKept
<1>9. QED BY <1>3, <1>5, <1>8 DEF Moves, AuditKept

LEMMA BeginsTyped ==
  ASSUME DeskTyped, RequestsApart, NEW K, NEW p \in Clerks, Begins(p, K)
  PROVE  /\ audit' \in [Requests -> Outcomes]
         /\ clerk' \in [Clerks -> ClerkState]
         /\ \A q \in Clerks : Fits(clerk'[q])
         /\ RequestsApart'
         /\ AuditKept
<1>1. PICK r \in Requests, c \in ClerkState :
         /\ NotBegun(r) /\ audit' = [audit EXCEPT ![r] = "processing"]
         /\ Fits(c) /\ c.pc \in K /\ c.req = r
         /\ clerk' = [clerk EXCEPT ![p] = c]
  BY DEF Begins
<1>2. clerk' \in [Clerks -> ClerkState] BY <1>1 DEF DeskTyped
<1>3. \A q \in Clerks : clerk'[q] = IF q = p THEN c ELSE clerk[q]
  BY <1>1 DEF DeskTyped
<1>4. \A q \in Clerks : Fits(clerk'[q]) BY <1>1, <1>3 DEF DeskTyped
<1>5. /\ audit' \in [Requests -> Outcomes] /\ audit[r] = "absent"
      /\ \A x \in Requests : audit'[x] = IF x = r THEN "processing" ELSE audit[x]
  BY <1>1 DEF DeskTyped, Outcomes, NotBegun
<1>6. \A q \in Clerks : clerk[q].pc # "idle" => clerk[q].req \in Requests
  BY DEF DeskTyped, Fits
<1>7. \A q \in Clerks : q # p /\ clerk[q].pc # "idle" => clerk[q].req # r
  BY <1>5, <1>6 DEF RequestsApart
<1>8. RequestsApart'
  <2>1. \A q \in Clerks : clerk'[q].pc # "idle" => audit'[clerk'[q].req] # "absent"
    BY <1>1, <1>3, <1>5, <1>6 DEF RequestsApart
  <2>2. \A x, y \in Clerks :
           x # y /\ clerk'[x].pc # "idle" /\ clerk'[y].pc # "idle"
             => clerk'[x].req # clerk'[y].req
    BY <1>1, <1>3, <1>7 DEF RequestsApart
  <2>3. QED BY <2>1, <2>2 DEF RequestsApart
<1>9. AuditKept BY <1>5 DEF AuditKept
<1>10. QED BY <1>2, <1>4, <1>5, <1>8, <1>9

LEMMA WithinTyped ==
  ASSUME DeskTyped, RequestsApart, NEW S, NEW K, Within(S, K)
  PROVE  DeskTyped' /\ RequestsApart' /\ AuditKept
<1>0. DeskKept BY DEF Within
<1>1. CASE UNCHANGED <<clerk, audit>>
  BY <1>0, <1>1 DEF DeskTyped, RequestsApart, AuditKept, DeskKept
<1>2. ASSUME NEW p \in Clerks, Moves(p, S) PROVE DeskTyped' /\ RequestsApart' /\ AuditKept
  BY <1>0, <1>2, MovesTyped DEF DeskTyped, DeskKept, Moves
<1>3. ASSUME NEW p \in Clerks, Begins(p, K) PROVE DeskTyped' /\ RequestsApart' /\ AuditKept
  BY <1>0, <1>3, BeginsTyped DEF DeskTyped, DeskKept
<1>4. QED BY <1>1, <1>2, <1>3 DEF Within

(* A clerk that was not on its way within S keeps its record. *)
LEMMA WithinSpares ==
  ASSUME DeskTyped, NEW S, NEW K, Within(S, K), NEW p \in Clerks
  PROVE  \/ clerk'[p] = clerk[p]
         \/ clerk[p].pc \in S /\ clerk'[p].pc \in S
         \/ clerk[p].pc = "idle" /\ clerk'[p].pc \in K
<1>1. CASE UNCHANGED <<clerk, audit>> BY <1>1
<1>2. ASSUME NEW q \in Clerks, Moves(q, S)
      PROVE  clerk'[p] = clerk[p] \/ (clerk[p].pc \in S /\ clerk'[p].pc \in S)
  BY <1>2 DEF Moves, DeskTyped
<1>3. ASSUME NEW q \in Clerks, Begins(q, K)
      PROVE  clerk'[p] = clerk[p] \/ (clerk[p].pc = "idle" /\ clerk'[p].pc \in K)
  BY <1>3 DEF Begins, DeskTyped
<1>4. QED BY <1>1, <1>2, <1>3 DEF Within

LEMMA AuditSame ==
  ASSUME DeskTyped, UNCHANGED audit PROVE AuditKept
BY DEF DeskTyped, AuditKept

(* A clerk's record at another place. *)
LEMMA ClerkGoes ==
  ASSUME NEW c \in ClerkState, NEW x \in Places
  PROVE  /\ [c EXCEPT !.pc = x] \in ClerkState /\ [c EXCEPT !.pc = x].pc = x
         /\ [c EXCEPT !.pc = x].req = c.req /\ [c EXCEPT !.pc = x].op = c.op
BY DEF ClerkState

LEMMA GoMoves ==
  ASSUME DeskTyped, NEW p \in Clerks, NEW x, NEW S, clerk[p].pc \in S, x \in S,
         clerk[p].pc # "idle", UNCHANGED audit,
         Fits([clerk[p] EXCEPT !.pc = x]), Go(p, x)
  PROVE  Moves(p, S) /\ clerk' = [clerk EXCEPT ![p] = [clerk[p] EXCEPT !.pc = x]]
<1> DEFINE c == [clerk[p] EXCEPT !.pc = x]
<1>1. clerk' = [clerk EXCEPT ![p] = c] BY DEF Go
<1>2. c.pc = x /\ c.req = clerk[p].req BY DEF DeskTyped, ClerkState
<1>3. QED BY <1>1, <1>2, AuditSame DEF Moves

LEMMA AnswerMoves ==
  ASSUME DeskTyped, NEW p \in Clerks, NEW res \in Outcomes, res # "absent", NEW S,
         clerk[p].pc \in S, "report" \in S, clerk[p].pc # "idle",
         UNCHANGED audit, Answer(p, res)
  PROVE  Moves(p, S)
<1> DEFINE c == [clerk[p] EXCEPT !.pc = "report", !.res = res]
<1>1. clerk' = [clerk EXCEPT ![p] = c] BY DEF Answer
<1>2. /\ c \in ClerkState /\ c.pc = "report" /\ c.req = clerk[p].req /\ c.res = res
      /\ clerk[p].req \in Requests
  BY DEF DeskTyped, ClerkState, Places, OtherPlaces, Fits
<1>3. Fits(c)
  BY <1>2 DEF Fits, TransferPlaces, CreationPlaces
<1>4. QED BY <1>1, <1>2, <1>3, AuditSame DEF Moves

LEMMA RefuseMoves ==
  ASSUME DeskTyped, NEW p \in Clerks, NEW S, clerk[p].pc \in S, "report" \in S,
         clerk[p].pc # "idle", UNCHANGED audit, Refuse(p)
  PROVE  Moves(p, S)
<1>1. "failed" \in Outcomes BY DEF Outcomes
<1>2. QED BY <1>1, AnswerMoves DEF Refuse

LEMMA BeginBegins ==
  ASSUME DeskTyped, NEW p \in Clerks, NEW k, NEW o, NEW x, NEW K, k \in K,
         \A r \in Requests : Fits([pc |-> k, kind |-> k, req |-> r, op |-> o,
                                   to |-> x, res |-> None]),
         Begin(p, k, o, x)
  PROVE  Begins(p, K) /\ DeskKept
<1>1. clerk[p].pc = "idle" BY DEF Begin, Idle
<1>2. PICK r \in Requests :
         /\ NotBegun(r)
         /\ audit' = [audit EXCEPT ![r] = "processing"]
         /\ clerk' = [clerk EXCEPT ![p] =
                        [pc |-> k, kind |-> k, req |-> r, op |-> o, to |-> x,
                         res |-> None]]
  BY DEF Begin
<1> DEFINE c == [pc |-> k, kind |-> k, req |-> r, op |-> o, to |-> x, res |-> None]
<1>3. Fits(c) /\ c \in ClerkState /\ c.pc = k /\ c.req = r BY DEF Fits
<1>4. Begins(p, K) BY <1>1, <1>2, <1>3 DEF Begins
<1>5. DeskKept BY DEF Begin, DeskKept, DeskTyped
<1>6. QED BY <1>4, <1>5

(* A clerk that goes on with another result, or another outcome. *)
LEMMA CloseMoves ==
  ASSUME DeskTyped, NEW p \in Clerks, NEW res \in {"unknown", "refused", "unsettled"},
         clerk[p].pc \in TransferPlaces \ {"transfer"}, UNCHANGED audit,
         CloseWith(p, res)
  PROVE  Moves(p, TransferPlaces \cup {"report"})
<1> DEFINE c == [clerk[p] EXCEPT !.pc = "close", !.res = res]
<1>1. clerk' = [clerk EXCEPT ![p] = c] BY DEF CloseWith
<1>2. clerk[p].pc # "idle" BY DEF TransferPlaces
<1>3. /\ c \in ClerkState /\ c.pc = "close" /\ c.req = clerk[p].req /\ c.res = res
      /\ c.op = clerk[p].op
      /\ clerk[p].req \in Requests /\ clerk[p].op \in Requests
  BY <1>2 DEF DeskTyped, ClerkState, Places, TransferPlaces, Fits
<1>4. Fits(c)
  BY <1>3 DEF Fits, TransferPlaces, CreationPlaces
<1>5. QED BY <1>1, <1>2, <1>3, <1>4, AuditSame DEF Moves, TransferPlaces

-----------------------------------------------------------------------------
(* The steps of the transfer part *)

TransferWithin ==
    Within(TransferPlaces \cup {"report"}, {"transfer", "transfer_reconcile"})

LEMMA GoTransfer ==
  ASSUME DeskTyped, NEW p \in Clerks,
         NEW x \in {"read", "send", "mark", "verify", "settle"},
         clerk[p].pc \in TransferPlaces \ {"transfer"}, UNCHANGED audit, Go(p, x)
  PROVE  Moves(p, TransferPlaces \cup {"report"})
<1> DEFINE c == [clerk[p] EXCEPT !.pc = x]
<1>1. clerk[p].pc # "idle" BY DEF TransferPlaces
<1>2. /\ c \in ClerkState /\ c.pc = x /\ c.req = clerk[p].req /\ c.op = clerk[p].op
      /\ clerk[p].req \in Requests /\ clerk[p].op \in Requests
  BY <1>1 DEF DeskTyped, ClerkState, Places, TransferPlaces, Fits
<1>3. Fits(c) BY <1>2 DEF Fits, TransferPlaces, CreationPlaces
<1>4. x \in TransferPlaces BY DEF TransferPlaces
<1>5. QED BY <1>1, <1>3, <1>4, GoMoves

LEMMA MovesWithin ==
  ASSUME DeskTyped, MaxFaults \in Nat, NEW p \in Clerks, NEW S, NEW K, Moves(p, S),
         UNCHANGED <<menu, active, discarded>>, Fault \/ UNCHANGED faults
  PROVE  Within(S, K)
<1>1. faults' \in 0..MaxFaults BY FaultTyped DEF DeskTyped
<1>2. QED BY <1>1 DEF Within, DeskKept, DeskTyped

LEMMA AskTransferWithin ==
  ASSUME ConsoleAssumption, Typed, NEW p \in Clerks, NEW x \in Sales, AskTransfer(p, x)
  PROVE  TransferWithin /\ TransferTyped'
<1>1. \A r \in Requests : Fits([pc |-> "transfer", kind |-> "transfer", req |-> r,
                               op |-> None, to |-> x, res |-> None])
  BY DEF Fits, ClerkState, Places, TransferPlaces, CreationPlaces, Operations
<1>2. Begins(p, {"transfer", "transfer_reconcile"}) /\ DeskKept
  BY <1>1, BeginBegins DEF AskTransfer, Typed
<1>3. TransferTyped' BY DEF AskTransfer, transferVars, Typed, TransferTyped
<1>4. QED BY <1>2, <1>3 DEF Within, TransferWithin

LEMMA AskReconcileWithin ==
  ASSUME ConsoleAssumption, Typed, NEW p \in Clerks, NEW o \in Requests,
         AskReconcile(p, o)
  PROVE  TransferWithin /\ TransferTyped'
<1>1. \A r \in Requests :
         Fits([pc |-> "transfer_reconcile", kind |-> "transfer_reconcile", req |-> r,
               op |-> o, to |-> None, res |-> None])
  BY DEF Fits, ClerkState, Places, TransferPlaces, CreationPlaces, Operations
<1>2. Begins(p, {"transfer", "transfer_reconcile"}) /\ DeskKept
  BY <1>1, BeginBegins DEF AskReconcile, Typed
<1>3. TransferTyped' BY DEF AskReconcile, transferVars, Typed, TransferTyped
<1>4. QED BY <1>2, <1>3 DEF Within, TransferWithin

LEMMA PrepareTransferWithin ==
  ASSUME ConsoleAssumption, Typed, NEW p \in Clerks, PrepareTransfer(p)
  PROVE  TransferWithin /\ TransferTyped'
<1> DEFINE r == clerk[p].req  n == clerk[p].to
           open == {o \in Requests : OpenTransfer(o)}
<1> USE DEF PrepareTransfer, At
<1>0. /\ clerk[p].pc = "transfer" /\ DeskTyped /\ MaxFaults \in Nat
      /\ clerk[p] \in ClerkState /\ n \in Sales /\ r \in Requests
      /\ clerk[p].pc \in TransferPlaces
  BY DEF Typed, DeskTyped, Fits, ConsoleAssumption, TransferPlaces
<1>1. CASE Refuse(p) /\ UNCHANGED transfer
  BY <1>0, <1>1, RefuseMoves, MovesWithin
     DEF TransferWithin, Typed, TransferTyped
<1>2. CASE /\ \E o \in open : clerk' = [clerk EXCEPT ![p].pc = "transfer_reconcile",
                                                    ![p].op = o]
           /\ UNCHANGED transfer
  <2>1. PICK o \in open : clerk' = [clerk EXCEPT ![p].pc = "transfer_reconcile",
                                                 ![p].op = o]
    BY <1>2
  <2> DEFINE c == [clerk[p] EXCEPT !.pc = "transfer_reconcile", !.op = o]
  <2>2. clerk' = [clerk EXCEPT ![p] = c] BY <2>1, <1>0 DEF DeskTyped
  <2>3. /\ c \in ClerkState /\ c.pc = "transfer_reconcile" /\ c.op = o
        /\ c.req = r /\ o \in Requests
    BY <1>0 DEF ClerkState, Places, TransferPlaces
  <2>4. Fits(c) BY <1>0, <2>3 DEF Fits, TransferPlaces, CreationPlaces
  <2>5. Moves(p, TransferPlaces \cup {"report"})
    BY <1>0, <2>2, <2>3, <2>4, AuditSame DEF Moves, TransferPlaces
  <2>6. QED BY <1>0, <1>2, <2>5, MovesWithin DEF TransferWithin, Typed, TransferTyped
<1>3. CASE /\ transfer' = [transfer EXCEPT ![r] =
                [st |-> "processing", remote |-> "pending", old |-> owner,
                 new |-> n, fresh |-> TRUE]]
           /\ clerk' = [clerk EXCEPT ![p].pc = "send", ![p].op = r]
  <2> DEFINE c == [clerk[p] EXCEPT !.pc = "send", !.op = r]
  <2>2. clerk' = [clerk EXCEPT ![p] = c] BY <1>3, <1>0 DEF DeskTyped
  <2>3. c \in ClerkState /\ c.pc = "send" /\ c.op = r /\ c.req = r
    BY <1>0 DEF ClerkState, Places, TransferPlaces
  <2>4. Fits(c) BY <1>0, <2>3 DEF Fits, TransferPlaces, CreationPlaces
  <2>5. Moves(p, TransferPlaces \cup {"report"})
    BY <1>0, <2>2, <2>3, <2>4, AuditSame DEF Moves, TransferPlaces
  <2>6. TransferTyped'
    BY <1>0, <1>3 DEF Typed, TransferTyped, TransferState, Statuses, Remotes
  <2>7. QED BY <1>0, <2>5, <2>6, MovesWithin DEF TransferWithin
<1>4. QED BY <1>1, <1>2, <1>3

LEMMA ClaimTransferWithin ==
  ASSUME ConsoleAssumption, Typed, NEW p \in Clerks, ClaimTransfer(p)
  PROVE  TransferWithin /\ TransferTyped'
<1> DEFINE o == clerk[p].op  t == transfer[o]
<1> USE DEF ClaimTransfer, At
<1>0. /\ clerk[p].pc = "transfer_reconcile" /\ DeskTyped /\ MaxFaults \in Nat
      /\ o \in Requests /\ clerk[p].pc \in TransferPlaces \ {"transfer"}
      /\ clerk[p].pc # "idle"
  BY DEF Typed, DeskTyped, Fits, ConsoleAssumption, TransferPlaces
<1>1. CASE Refuse(p) /\ UNCHANGED <<transfer, raced>>
  BY <1>0, <1>1, RefuseMoves, MovesWithin
     DEF TransferWithin, Typed, TransferTyped
<1>2. CASE /\ t.st \in {"succeeded", "remote_failed"}
           /\ Answer(p, t.st) /\ UNCHANGED <<transfer, raced>>
  <2>1. t.st \in Outcomes /\ t.st # "absent" BY <1>2 DEF Outcomes
  <2>2. Moves(p, TransferPlaces \cup {"report"}) BY <1>0, <1>2, <2>1, AnswerMoves
  <2>3. QED BY <1>0, <1>2, <2>2, MovesWithin DEF TransferWithin, Typed, TransferTyped
<1>3. CASE Answer(p, "processing") /\ UNCHANGED <<transfer, raced>>
  <2>1. "processing" \in Outcomes BY DEF Outcomes
  <2>2. Moves(p, TransferPlaces \cup {"report"}) BY <1>0, <1>3, <2>1, AnswerMoves
  <2>3. QED BY <1>0, <1>3, <2>2, MovesWithin DEF TransferWithin, Typed, TransferTyped
<1>4. CASE /\ OpenTransfer(o)
           /\ transfer' = [transfer EXCEPT ![o].st = "processing",
                                           ![o].fresh = TRUE]
           /\ Go(p, "read")
           /\ raced' = (raced \/ \E q \in Clerks \ {p} :
                                    OnTransfer(q) /\ clerk[q].op = o)
  <2>1. Moves(p, TransferPlaces \cup {"report"}) BY <1>0, <1>4, GoTransfer
  <2>2. raced' \in BOOLEAN BY <1>4
  <2>3. TransferTyped'
    <3> DEFINE n == [transfer[o] EXCEPT !.st = "processing", !.fresh = TRUE]
    <3>1. transfer[o] \in TransferState /\ transfer[o].st # "absent"
      BY <1>0, <1>4 DEF Typed, TransferTyped, OpenTransfer
    <3>2. transfer' = [transfer EXCEPT ![o] = n] BY <1>4
    <3>3. n \in TransferState /\ n.old = transfer[o].old /\ n.new = transfer[o].new
      BY <3>1 DEF TransferState, Statuses
    <3> HIDE DEF n
    <3>4. transfer' \in [Requests -> TransferState]
      BY <3>2, <3>3 DEF Typed, TransferTyped
    <3>5. \A r \in Requests : /\ transfer'[r].old = transfer[r].old
                              /\ transfer'[r].new = transfer[r].new
                              /\ transfer'[r].st # "absent" => transfer[r].st # "absent"
      BY <1>0, <3>1, <3>2, <3>3 DEF Typed, TransferTyped
    <3>6. QED BY <2>2, <3>4, <3>5 DEF Typed, TransferTyped
  <2>4. QED BY <1>0, <2>1, <2>3, MovesWithin DEF TransferWithin
<1>5. QED BY <1>1, <1>2, <1>3, <1>4

LEMMA ReadRowWithin ==
  ASSUME ConsoleAssumption, Typed, NEW p \in Clerks, ReadRow(p)
  PROVE  TransferWithin /\ TransferTyped'
<1> USE DEF ReadRow, At
<1>0. /\ clerk[p].pc \in TransferPlaces \ {"transfer"} /\ DeskTyped
      /\ MaxFaults \in Nat
  BY DEF Typed, ConsoleAssumption, TransferPlaces
<1>1. TransferTyped' BY DEF Typed, TransferTyped, transferVars
<1>2. Fault \/ UNCHANGED faults OBVIOUS
<1>3. Moves(p, TransferPlaces \cup {"report"})
  BY <1>0, GoTransfer, CloseMoves
<1>4. QED BY <1>0, <1>1, <1>2, <1>3, MovesWithin DEF TransferWithin

LEMMA SendOwnerWithin ==
  ASSUME ConsoleAssumption, Typed, NEW p \in Clerks, SendOwner(p)
  PROVE  TransferWithin /\ TransferTyped'
<1> USE DEF SendOwner, At, NoAnswer
<1>0. /\ clerk[p].pc \in TransferPlaces \ {"transfer"} /\ DeskTyped
      /\ MaxFaults \in Nat
  BY DEF Typed, ConsoleAssumption, TransferPlaces
<1>1. Fault \/ UNCHANGED faults OBVIOUS
<1>2. Moves(p, TransferPlaces \cup {"report"})
  BY <1>0, GoTransfer, CloseMoves
<1>3. rowOwner' \in {rowOwner, transfer[clerk[p].op].new} OBVIOUS
<1>4. transfer[clerk[p].op].new \in Sales
  BY <1>0 DEF Typed, DeskTyped, Fits, OperationsThere, TransferTyped
<1>5. TransferTyped' BY <1>3, <1>4 DEF Typed, TransferTyped
<1>6. QED BY <1>0, <1>1, <1>2, <1>5, MovesWithin DEF TransferWithin

LEMMA FinishTransferTyped ==
  ASSUME NEW t \in TransferState, NEW st \in Statuses, NEW remote \in Remotes
  PROVE  /\ FinishTransfer(t, st, remote) \in TransferState
         /\ FinishTransfer(t, st, remote).old = t.old
         /\ FinishTransfer(t, st, remote).new = t.new
         /\ FinishTransfer(t, st, remote).st \in {t.st, st}
         /\ t.st = "succeeded" => FinishTransfer(t, st, remote).st = "succeeded"
BY DEF FinishTransfer, TransferState

LEMMA ClosedTyped ==
  ASSUME NEW res
  PROVE  /\ ClosedStatus(res) \in {"remote_failed", "pending_recovery"}
         /\ ClosedRemote(res) \in Remotes
BY DEF ClosedStatus, ClosedRemote, Remotes

LEMMA MarkRemoteWithin ==
  ASSUME ConsoleAssumption, Typed, NEW p \in Clerks, MarkRemote(p)
  PROVE  TransferWithin /\ TransferTyped'
<1> DEFINE o == clerk[p].op
<1> USE DEF MarkRemote, At
<1>0. /\ clerk[p].pc \in TransferPlaces \ {"transfer"} /\ DeskTyped
      /\ MaxFaults \in Nat /\ o \in Requests /\ transfer[o] \in TransferState
      /\ transfer[o].st # "absent"
  BY DEF Typed, ConsoleAssumption, TransferPlaces, DeskTyped, Fits, TransferTyped,
         OperationsThere
<1>1. Moves(p, TransferPlaces \cup {"report"}) BY <1>0, GoTransfer
<1>2. "processing" \in Statuses /\ "succeeded" \in Remotes BY DEF Statuses, Remotes
<1>3. PICK u : u = FinishTransfer(transfer[o], "processing", "succeeded") OBVIOUS
<1>4. /\ u \in TransferState /\ u.old = transfer[o].old /\ u.new = transfer[o].new
      /\ u.st \in {transfer[o].st, "processing"}
  BY <1>0, <1>2, <1>3, FinishTransferTyped
<1>5. transfer' = [transfer EXCEPT ![o] = u] BY <1>0, <1>3 DEF Typed, TransferTyped
<1>6. TransferTyped' BY <1>0, <1>4, <1>5 DEF Typed, TransferTyped
<1>7. QED BY <1>0, <1>1, <1>6, MovesWithin DEF TransferWithin

LEMMA VerifyPermissionWithin ==
  ASSUME ConsoleAssumption, Typed, NEW p \in Clerks, VerifyPermission(p)
  PROVE  TransferWithin /\ TransferTyped'
<1> USE DEF VerifyPermission, At
<1>0. /\ clerk[p].pc \in TransferPlaces \ {"transfer"} /\ DeskTyped
      /\ MaxFaults \in Nat
  BY DEF Typed, ConsoleAssumption, TransferPlaces
<1>1. TransferTyped' BY DEF Typed, TransferTyped, transferVars
<1>2. Fault \/ UNCHANGED faults OBVIOUS
<1>3. Moves(p, TransferPlaces \cup {"report"})
  BY <1>0, GoTransfer, CloseMoves
<1>4. QED BY <1>0, <1>1, <1>2, <1>3, MovesWithin DEF TransferWithin

LEMMA SettleTransferWithin ==
  ASSUME ConsoleAssumption, Typed, NEW p \in Clerks, SettleTransfer(p)
  PROVE  TransferWithin /\ TransferTyped'
<1> DEFINE o == clerk[p].op  t == transfer[o]
<1> USE DEF SettleTransfer, At
<1>0. /\ clerk[p].pc \in TransferPlaces \ {"transfer"} /\ DeskTyped
      /\ MaxFaults \in Nat /\ o \in Requests /\ t \in TransferState
      /\ t.new \in Sales /\ clerk[p].pc # "idle"
  BY DEF Typed, ConsoleAssumption, TransferPlaces, DeskTyped, Fits, TransferTyped,
         OperationsThere
<1>1. CASE MayMove(t)
  <2>1. "succeeded" \in Outcomes BY DEF Outcomes
  <2>2. Answer(p, "succeeded") BY <1>1
  <2>3. Moves(p, TransferPlaces \cup {"report"}) BY <1>0, <2>1, <2>2, AnswerMoves
  <2>4. transfer' = [transfer EXCEPT ![o] = [t EXCEPT !.st = "succeeded"]]
    BY <1>1, <1>0 DEF Typed, TransferTyped
  <2>5. [t EXCEPT !.st = "succeeded"] \in TransferState
    BY <1>0 DEF TransferState, Statuses
  <2>6. TransferTyped'
    BY <1>0, <1>1, <2>4, <2>5 DEF Typed, TransferTyped, TransferState, OperationsThere
  <2>7. QED BY <1>0, <2>3, <2>6, MovesWithin DEF TransferWithin
<1>2. CASE ~MayMove(t)
  <2>1. Moves(p, TransferPlaces \cup {"report"}) BY <1>0, <1>2, CloseMoves
  <2>2. TransferTyped' BY <1>2 DEF Typed, TransferTyped
  <2>3. QED BY <1>0, <2>1, <2>2, MovesWithin DEF TransferWithin
<1>3. QED BY <1>1, <1>2

LEMMA CloseTransferWithin ==
  ASSUME ConsoleAssumption, Typed, NEW p \in Clerks, CloseTransfer(p)
  PROVE  TransferWithin /\ TransferTyped'
<1> DEFINE o == clerk[p].op  res == clerk[p].res
<1> USE DEF CloseTransfer, At
<1>0. /\ clerk[p].pc \in TransferPlaces \ {"transfer"} /\ DeskTyped
      /\ MaxFaults \in Nat /\ o \in Requests /\ transfer[o] \in TransferState
      /\ transfer[o].st # "absent" /\ clerk[p].pc # "idle"
  BY DEF Typed, ConsoleAssumption, TransferPlaces, DeskTyped, Fits, TransferTyped,
         OperationsThere
<1>1. ClosedStatus(res) \in Outcomes /\ ClosedStatus(res) # "absent"
  BY ClosedTyped DEF Outcomes
<1>2. Moves(p, TransferPlaces \cup {"report"}) BY <1>0, <1>1, AnswerMoves
<1>3. ClosedStatus(res) \in Statuses /\ ClosedRemote(res) \in Remotes
  BY ClosedTyped DEF Statuses
<1>4. PICK u : u = FinishTransfer(transfer[o], ClosedStatus(res), ClosedRemote(res))
  OBVIOUS
<1>5. /\ u \in TransferState /\ u.old = transfer[o].old /\ u.new = transfer[o].new
      /\ u.st \in {transfer[o].st, ClosedStatus(res)}
  BY <1>0, <1>3, <1>4, FinishTransferTyped
<1>6. transfer' = [transfer EXCEPT ![o] = u] BY <1>0, <1>4 DEF Typed, TransferTyped
<1>7. TransferTyped' BY <1>0, <1>5, <1>6 DEF Typed, TransferTyped
<1>8. QED BY <1>0, <1>2, <1>7, MovesWithin DEF TransferWithin

LEMMA LeaseLapsesWithin ==
  ASSUME ConsoleAssumption, Typed, NEW o \in Requests, LeaseLapses(o)
  PROVE  TransferWithin /\ TransferTyped'
<1> USE DEF LeaseLapses
<1>1. faults' \in 0..MaxFaults
  BY FaultTyped DEF Typed, DeskTyped, ConsoleAssumption
<1>2. DeskKept BY <1>1 DEF DeskKept, Typed, DeskTyped
<1>3. TransferTyped' BY DEF Typed, TransferTyped, TransferState
<1>4. QED BY <1>2, <1>3 DEF Within, TransferWithin

LEMMA EditOwnerWithin ==
  ASSUME ConsoleAssumption, Typed, EditOwner
  PROVE  TransferWithin /\ TransferTyped'
<1> USE DEF EditOwner
<1>1. faults' \in 0..MaxFaults
  BY FaultTyped DEF Typed, DeskTyped, ConsoleAssumption
<1>2. DeskKept BY <1>1 DEF DeskKept, Typed, DeskTyped
<1>3. TransferTyped' BY DEF Typed, TransferTyped
<1>4. QED BY <1>2, <1>3 DEF Within, TransferWithin

LEMMA TransferStepWithin ==
  ASSUME ConsoleAssumption, Typed, TransferNext
  PROVE  TransferWithin /\ TransferTyped'
BY AskTransferWithin, AskReconcileWithin, PrepareTransferWithin, ClaimTransferWithin,
   ReadRowWithin, SendOwnerWithin, MarkRemoteWithin, VerifyPermissionWithin,
   SettleTransferWithin, CloseTransferWithin, LeaseLapsesWithin, EditOwnerWithin
   DEF TransferNext

-----------------------------------------------------------------------------
(* The steps of the creation part *)

CreationWithin ==
    Within(CreationPlaces \cup {"report"}, {"create", "create_reconcile"})

LEMMA OutcomeMoves ==
  ASSUME DeskTyped, NEW p \in Clerks, NEW x \in {"keep", "find"},
         NEW res \in {"made", "refused", "unverified", "unknown", "unbound", None},
         x = "keep" => res \in {"made", "refused", "unverified", "unknown", "unbound"},
         NEW rec \in Requests \cup {None},
         x = "keep" /\ res = "made" => rec \in Requests,
         clerk[p].pc \in CreationPlaces \ {"create", "insert"}, UNCHANGED audit,
         Outcome(p, x, res, rec)
  PROVE  /\ Moves(p, CreationPlaces \cup {"report"})
         /\ clerk' = [clerk EXCEPT ![p] =
                        [clerk[p] EXCEPT !.pc = x, !.res = res, !.to = rec]]
<1> DEFINE c == [clerk[p] EXCEPT !.pc = x, !.res = res, !.to = rec]
<1>1. clerk' = [clerk EXCEPT ![p] = c] BY DEF Outcome
<1>2. clerk[p].pc # "idle" BY DEF CreationPlaces
<1>3. /\ c \in ClerkState /\ c.pc = x /\ c.req = clerk[p].req /\ c.res = res
      /\ c.to = rec /\ c.op = clerk[p].op
      /\ clerk[p].req \in Requests /\ clerk[p].op \in Requests
  BY <1>2 DEF DeskTyped, ClerkState, Places, CreationPlaces, Fits
<1>4. Fits(c)
  BY <1>3 DEF Fits, TransferPlaces, CreationPlaces
<1>5. x \in CreationPlaces BY DEF CreationPlaces
<1>6. QED BY <1>1, <1>2, <1>3, <1>4, <1>5, AuditSame DEF Moves

LEMMA AskCreateWithin ==
  ASSUME ConsoleAssumption, Typed, NEW p \in Clerks, AskCreate(p)
  PROVE  CreationWithin /\ CreationTyped'
<1>1. \A r \in Requests : Fits([pc |-> "create", kind |-> "create", req |-> r,
                               op |-> None, to |-> None, res |-> None])
  BY DEF Fits, ClerkState, Places, TransferPlaces, CreationPlaces, Operations
<1>2. Begins(p, {"create", "create_reconcile"}) /\ DeskKept
  BY <1>1, BeginBegins DEF AskCreate, Typed
<1>3. CreationTyped' BY DEF AskCreate, creationVars, Typed, CreationTyped
<1>4. QED BY <1>2, <1>3 DEF Within, CreationWithin

LEMMA AskReconcileCreationWithin ==
  ASSUME ConsoleAssumption, Typed, NEW p \in Clerks, NEW o \in Requests,
         AskReconcileCreation(p, o)
  PROVE  CreationWithin /\ CreationTyped'
<1>1. \A r \in Requests :
         Fits([pc |-> "create_reconcile", kind |-> "create_reconcile", req |-> r,
               op |-> o, to |-> None, res |-> None])
  BY DEF Fits, ClerkState, Places, TransferPlaces, CreationPlaces, Operations
<1>2. Begins(p, {"create", "create_reconcile"}) /\ DeskKept
  BY <1>1, BeginBegins DEF AskReconcileCreation, Typed
<1>3. CreationTyped' BY DEF AskReconcileCreation, creationVars, Typed, CreationTyped
<1>4. QED BY <1>2, <1>3 DEF Within, CreationWithin

LEMMA CheckDuplicateWithin ==
  ASSUME ConsoleAssumption, Typed, NEW p \in Clerks, CheckDuplicate(p)
  PROVE  CreationWithin /\ CreationTyped'
<1> USE DEF CheckDuplicate, At
<1>0. /\ clerk[p].pc = "create" /\ DeskTyped /\ MaxFaults \in Nat
      /\ clerk[p] \in ClerkState /\ clerk[p].req \in Requests
      /\ clerk[p].pc \in CreationPlaces /\ clerk[p].pc # "idle"
  BY DEF Typed, DeskTyped, Fits, ConsoleAssumption, CreationPlaces
<1>1. CASE Go(p, "insert")
  <2> DEFINE c == [clerk[p] EXCEPT !.pc = "insert"]
  <2>1. c \in ClerkState /\ c.pc = "insert" /\ c.req \in Requests
    BY <1>0 DEF ClerkState, Places, CreationPlaces
  <2>2. Fits(c) BY <2>1 DEF Fits, TransferPlaces, CreationPlaces
  <2>3. "insert" \in CreationPlaces BY DEF CreationPlaces
  <2>4. QED BY <1>0, <1>1, <2>2, <2>3, GoMoves, MovesWithin
            DEF CreationWithin, Typed, CreationTyped, creationVars
<1>2. CASE Refuse(p)
  BY <1>0, <1>2, RefuseMoves, MovesWithin
     DEF CreationWithin, Typed, CreationTyped, creationVars
<1>3. QED BY <1>1, <1>2

LEMMA InsertLeadWithin ==
  ASSUME ConsoleAssumption, Typed, NEW p \in Clerks, InsertLead(p)
  PROVE  CreationWithin /\ CreationTyped'
<1> DEFINE r == clerk[p].req  c == [clerk[p] EXCEPT !.pc = "create_row", !.op = r]
<1> USE DEF InsertLead, At
<1>0. /\ clerk[p].pc = "insert" /\ DeskTyped /\ MaxFaults \in Nat
      /\ clerk[p] \in ClerkState /\ r \in Requests
      /\ clerk[p].pc \in CreationPlaces /\ clerk[p].pc # "idle"
  BY DEF Typed, DeskTyped, Fits, ConsoleAssumption, CreationPlaces
<1>1. clerk' = [clerk EXCEPT ![p] = c] BY <1>0 DEF DeskTyped
<1>2. c \in ClerkState /\ c.pc = "create_row" /\ c.req = r /\ c.op = r
  BY <1>0 DEF ClerkState, Places, CreationPlaces
<1>3. Fits(c) BY <1>0, <1>2 DEF Fits, TransferPlaces, CreationPlaces
<1>4. "create_row" \in CreationPlaces BY DEF CreationPlaces
<1>5. Moves(p, CreationPlaces \cup {"report"})
  BY <1>0, <1>1, <1>2, <1>3, <1>4, AuditSame DEF Moves
<1>6. CreationTyped'
  BY <1>0 DEF Typed, CreationTyped, CreationState, NoCreation, Statuses, Remotes
<1>7. QED BY <1>0, <1>5, <1>6, MovesWithin DEF CreationWithin

LEMMA CreateRowWithin ==
  ASSUME ConsoleAssumption, Typed, NEW p \in Clerks, CreateRow(p)
  PROVE  CreationWithin /\ CreationTyped'
<1> DEFINE r == clerk[p].op
<1> USE DEF CreateRow, At
<1>0. /\ clerk[p].pc = "create_row" /\ DeskTyped /\ MaxFaults \in Nat
      /\ r \in Requests /\ clerk[p].pc \in CreationPlaces \ {"create", "insert"}
  BY DEF Typed, DeskTyped, Fits, ConsoleAssumption, CreationPlaces
<1>1. rows' \in {rows, rows \cup {r}} /\ (Fault \/ UNCHANGED faults) OBVIOUS
<1>2. CreationTyped' BY <1>0, <1>1 DEF Typed, CreationTyped
<1>3. Moves(p, CreationPlaces \cup {"report"}) BY <1>0, OutcomeMoves
<1>4. QED BY <1>0, <1>1, <1>2, <1>3, MovesWithin DEF CreationWithin

LEMMA FinishCreationTyped ==
  ASSUME NEW c \in CreationState, NEW st \in Statuses, NEW remote \in Remotes,
         NEW rec \in Requests \cup {None}
  PROVE  /\ FinishCreation(c, st, remote, rec) \in CreationState
         /\ FinishCreation(c, st, remote, rec).st \in {c.st, st}
         /\ c.st = "succeeded" => FinishCreation(c, st, remote, rec) = c
         /\ c.st # "succeeded" => FinishCreation(c, st, remote, rec).st = st
BY DEF FinishCreation, CreationState

LEMMA KeptTyped ==
  ASSUME NEW res
  PROVE  /\ KeptStatus(res) \in {"processing", "remote_failed", "pending_recovery"}
         /\ KeptRemote(res) \in Remotes
BY DEF KeptStatus, KeptRemote, Remotes

LEMMA KeepOutcomeWithin ==
  ASSUME ConsoleAssumption, Typed, NEW p \in Clerks, KeepOutcome(p)
  PROVE  CreationWithin /\ CreationTyped'
<1> DEFINE r == clerk[p].op  res == clerk[p].res  rec == clerk[p].to
<1> USE DEF KeepOutcome, At
<1>0. /\ clerk[p].pc = "keep" /\ DeskTyped /\ MaxFaults \in Nat
      /\ r \in Requests /\ clerk[p].pc \in CreationPlaces /\ clerk[p].pc # "idle"
      /\ rec \in Requests \cup {None} /\ creation[r] \in CreationState
      /\ res = "made" => rec \in Requests
      /\ clerk[p] \in ClerkState /\ clerk[p].req \in Requests
  BY DEF Typed, DeskTyped, Fits, ConsoleAssumption, CreationPlaces, CreationTyped
<1>1. /\ KeptStatus(res) \in Outcomes /\ KeptStatus(res) # "absent"
      /\ KeptStatus(res) \in Statuses /\ KeptRemote(res) \in Remotes
  BY KeptTyped DEF Outcomes, Statuses
<1>2. Moves(p, CreationPlaces \cup {"report"})
  <2>1. CASE res = "made"
    <3> DEFINE c == [clerk[p] EXCEPT !.pc = "bind"]
    <3>1. c \in ClerkState /\ c.pc = "bind" /\ c.req \in Requests /\ c.to = rec /\ c.op = r
      BY <1>0 DEF ClerkState, Places, CreationPlaces
    <3>2. Fits(c) BY <1>0, <2>1, <3>1 DEF Fits, TransferPlaces, CreationPlaces
    <3>3. "bind" \in CreationPlaces BY DEF CreationPlaces
    <3>4. QED BY <1>0, <2>1, <3>2, <3>3, GoMoves
  <2>2. CASE res # "made" BY <1>0, <1>1, <2>2, AnswerMoves
  <2>3. QED BY <2>1, <2>2
<1>3. PICK u : u = FinishCreation(creation[r], KeptStatus(res), KeptRemote(res), rec)
  OBVIOUS
<1>4. u \in CreationState BY <1>0, <1>1, <1>3, FinishCreationTyped
<1>5. creation' = [creation EXCEPT ![r] = u] BY <1>0, <1>3 DEF Typed, CreationTyped
<1>6. CreationTyped' BY <1>0, <1>4, <1>5 DEF Typed, CreationTyped
<1>7. QED BY <1>0, <1>2, <1>6, MovesWithin DEF CreationWithin

LEMMA KeepUnverifiedWithin ==
  ASSUME ConsoleAssumption, Typed, NEW p \in Clerks, KeepUnverified(p)
  PROVE  CreationWithin /\ CreationTyped'
<1> DEFINE r == clerk[p].op  rec == clerk[p].to
<1> USE DEF KeepUnverified, At
<1>0. /\ clerk[p].pc = "keep" /\ DeskTyped /\ MaxFaults \in Nat
      /\ r \in Requests /\ clerk[p].pc \in CreationPlaces /\ clerk[p].pc # "idle"
      /\ rec \in Requests \cup {None} /\ creation[r] \in CreationState
  BY DEF Typed, DeskTyped, Fits, ConsoleAssumption, CreationPlaces, CreationTyped
<1>1. CASE Unique(r, rec)
  <2>1. /\ "pending_recovery" \in Outcomes /\ "pending_recovery" \in Statuses
        /\ "unknown" \in Remotes
    BY DEF Outcomes, Statuses, Remotes
  <2>2. Moves(p, CreationPlaces \cup {"report"}) BY <1>0, <1>1, <2>1, AnswerMoves
  <2>3. PICK u : u = FinishCreation(creation[r], "pending_recovery", "unknown", rec)
    OBVIOUS
  <2>4. u \in CreationState BY <1>0, <2>1, <2>3, FinishCreationTyped
  <2>5. creation' = [creation EXCEPT ![r] = u]
    BY <1>0, <1>1, <2>3 DEF Typed, CreationTyped
  <2>6. CreationTyped' BY <1>0, <1>1, <2>4, <2>5 DEF Typed, CreationTyped
  <2>7. QED BY <1>0, <2>2, <2>6, MovesWithin DEF CreationWithin
<1>2. CASE ~Unique(r, rec)
  BY <1>0, <1>2, RefuseMoves, MovesWithin DEF CreationWithin, Typed, CreationTyped
<1>3. QED BY <1>1, <1>2

LEMMA BindLeadWithin ==
  ASSUME ConsoleAssumption, Typed, NEW p \in Clerks, BindLead(p)
  PROVE  CreationWithin /\ CreationTyped'
<1> DEFINE r == clerk[p].op  rec == clerk[p].to
<1> USE DEF BindLead, At
<1>0. /\ clerk[p].pc = "bind" /\ DeskTyped /\ MaxFaults \in Nat
      /\ r \in Requests /\ clerk[p].pc \in CreationPlaces \ {"create", "insert"}
      /\ clerk[p].pc # "idle"
      /\ rec \in Requests /\ creation[r] \in CreationState
  BY DEF Typed, DeskTyped, Fits, ConsoleAssumption, CreationPlaces, CreationTyped
<1>1. CASE MayBind(r, rec)
  <2>1. "succeeded" \in Outcomes BY DEF Outcomes
  <2>2. Moves(p, CreationPlaces \cup {"report"}) BY <1>0, <1>1, <2>1, AnswerMoves
  <2>3. [creation[r] EXCEPT !.st = "succeeded", !.remote = "succeeded", !.rec = rec]
          \in CreationState
    BY <1>0 DEF CreationState, Statuses, Remotes
  <2>4. CreationTyped'
    BY <1>0, <1>1, <2>3 DEF Typed, CreationTyped
  <2>5. QED BY <1>0, <2>2, <2>4, MovesWithin DEF CreationWithin
<1>2. CASE ~MayBind(r, rec)
  BY <1>0, <1>2, OutcomeMoves, MovesWithin DEF CreationWithin, Typed, CreationTyped
<1>3. QED BY <1>1, <1>2

LEMMA ClaimCreationWithin ==
  ASSUME ConsoleAssumption, Typed, NEW p \in Clerks, ClaimCreation(p)
  PROVE  CreationWithin /\ CreationTyped'
<1> DEFINE o == clerk[p].op  c == creation[o]
<1> USE DEF ClaimCreation, At
<1>0. /\ clerk[p].pc = "create_reconcile" /\ DeskTyped /\ MaxFaults \in Nat
      /\ o \in Requests /\ clerk[p].pc \in CreationPlaces \ {"create", "insert"}
      /\ clerk[p].pc # "idle" /\ c \in CreationState /\ c.rec \in Requests \cup {None}
  BY DEF Typed, DeskTyped, Fits, ConsoleAssumption, CreationPlaces, CreationTyped,
         CreationState
<1>1. CreationTyped'
  <2>1. \/ creation' = creation
        \/ creation' = [creation EXCEPT ![o].st = "processing", ![o].fresh = TRUE]
    OBVIOUS
  <2>2. QED BY <1>0, <2>1 DEF Typed, CreationTyped, CreationState, Statuses
<1>2. "succeeded" \in Outcomes /\ "processing" \in Outcomes BY DEF Outcomes
<1>3. Moves(p, CreationPlaces \cup {"report"})
  <2>1. CASE Refuse(p) BY <1>0, <2>1, RefuseMoves
  <2>2. CASE Answer(p, "succeeded") BY <1>0, <1>2, <2>2, AnswerMoves
  <2>3. CASE Answer(p, "processing") BY <1>0, <1>2, <2>3, AnswerMoves
  <2>4. CASE Outcome(p, "find", None, c.rec)
    <3>1. PICK rec : rec = c.rec OBVIOUS
    <3>2. QED BY <1>0, <2>4, <3>1, OutcomeMoves
  <2>5. QED BY <2>1, <2>2, <2>3, <2>4
<1>4. QED BY <1>0, <1>1, <1>3, MovesWithin DEF CreationWithin

(* What matches is a row, and one match is one that matches. *)
LEMMA MatchFound ==
  ASSUME Typed, NEW rec
  PROVE  /\ Matches(rec) \subseteq rows
         /\ Cardinality(Matches(rec)) = 1 =>
              (CHOOSE x \in Matches(rec) : TRUE) \in rows
<1>1. Matches(rec) \subseteq rows BY DEF Matches
<1>2. ASSUME Cardinality(Matches(rec)) = 1 PROVE Matches(rec) # {}
  BY <1>2, FS_EmptySet
<1>3. QED BY <1>1, <1>2

LEMMA FindRowWithin ==
  ASSUME ConsoleAssumption, Typed, NEW p \in Clerks, FindRow(p)
  PROVE  CreationWithin /\ CreationTyped'
<1> DEFINE m == Matches(clerk[p].to)
<1> USE DEF FindRow, At
<1>0. /\ clerk[p].pc = "find" /\ DeskTyped /\ MaxFaults \in Nat
      /\ clerk[p].pc \in CreationPlaces \ {"create", "insert"} /\ clerk[p].pc # "idle"
  BY DEF Typed, DeskTyped, ConsoleAssumption, CreationPlaces
<1>1. CreationTyped' BY DEF Typed, CreationTyped, creationVars
<1>2. Fault \/ UNCHANGED faults OBVIOUS
<1>3. Cardinality(m) = 1 => (CHOOSE x \in m : TRUE) \in Requests
  BY MatchFound DEF Typed, CreationTyped
<1>4. PICK rec : rec = CHOOSE x \in m : TRUE OBVIOUS
<1>5. Moves(p, CreationPlaces \cup {"report"})
  <2>1. CASE Refuse(p) BY <1>0, <2>1, RefuseMoves
  <2>2. CASE Outcome(p, "keep", "unknown", None) BY <1>0, <2>2, OutcomeMoves
  <2>3. CASE Cardinality(m) = 1 /\ Outcome(p, "keep", "made", rec)
    <3>1. rec \in Requests BY <1>3, <1>4, <2>3
    <3>2. QED BY <1>0, <2>3, <3>1, OutcomeMoves
  <2>4. QED BY <1>4, <2>1, <2>2, <2>3
<1>6. QED BY <1>0, <1>1, <1>2, <1>5, MovesWithin DEF CreationWithin

LEMMA CreationLapsesWithin ==
  ASSUME ConsoleAssumption, Typed, NEW o \in Requests, CreationLapses(o) \/ DeleteRow(o)
  PROVE  CreationWithin /\ CreationTyped'
<1> USE DEF CreationLapses, DeleteRow
<1>1. faults' \in 0..MaxFaults
  BY FaultTyped DEF Typed, DeskTyped, ConsoleAssumption
<1>2. DeskKept BY <1>1 DEF DeskKept, Typed, DeskTyped
<1>3. ASSUME CreationLapses(o) PROVE CreationTyped'
  <2>1. PICK n : n = [creation[o] EXCEPT !.fresh = FALSE] OBVIOUS
  <2>2. creation[o] \in CreationState BY DEF Typed, CreationTyped
  <2>3. n \in CreationState BY <2>1, <2>2 DEF CreationState
  <2>4. creation' = [creation EXCEPT ![o] = n] BY <1>3, <2>1
  <2>5. QED BY <1>3, <2>3, <2>4 DEF Typed, CreationTyped
<1>4. ASSUME DeleteRow(o) PROVE CreationTyped' BY <1>4 DEF Typed, CreationTyped
<1>5. QED BY <1>2, <1>3, <1>4 DEF Within, CreationWithin

LEMMA CreationStepWithin ==
  ASSUME ConsoleAssumption, Typed, CreationNext
  PROVE  CreationWithin /\ CreationTyped'
BY AskCreateWithin, AskReconcileCreationWithin, CheckDuplicateWithin, InsertLeadWithin,
   CreateRowWithin, KeepOutcomeWithin, KeepUnverifiedWithin, BindLeadWithin,
   ClaimCreationWithin, FindRowWithin, CreationLapsesWithin DEF CreationNext

-----------------------------------------------------------------------------
(* The steps of a synchronisation *)

(* A draft d on the field f of a lead, discarded or not, leaves the field   *)
(* as its writer knows it.                                                  *)
Sound(d, f, gone) ==
    /\ f.user = FALSE /\ f.cell # Gone /\ Knows(d, f)
    /\ f.cell = f.synced \/ gone \/ (d.pc = "record" /\ d.put = TRUE)

(* What a step of a writer makes of its draft and its field. *)
Advances(d, f, e, g, gone) ==
    /\ DraftFits(e) /\ g \in FieldState
    /\ e = NoDraft \/ (e.lead = d.lead /\ e.pc # "none")
    /\ PlanFits(d) => PlanFits(e)
    /\ Clean(g) => /\ Clean(f)
                   /\ PlanFits(d) /\ Sound(d, f, gone) => Sound(e, g, gone)

WriterSteps(w, e, g) ==
    /\ draft[w].pc # "none"
    /\ Advances(draft[w], field[draft[w].lead], e, g, LeadDiscarded(w))
    /\ draft' = [draft EXCEPT ![w] = e]
    /\ field' = [field EXCEPT ![draft[w].lead] = g]

(* The clerk of a synchronisation waits for it, or goes on when it ends. *)
ClerkSteps(w) ==
    /\ UNCHANGED audit
    /\ \/ UNCHANGED clerk
       \/ /\ w \in Clerks /\ draft' = [draft EXCEPT ![w] = NoDraft]
          /\ \E x \in {"retry_done", "retry_failed"} : Go(w, x)

ReviewStep(w) == ClerkSteps(w) /\ \E e, g : WriterSteps(w, e, g)

LEMMA NoDraftFits ==
  DraftFits(NoDraft) /\ PlanFits(NoDraft) /\ \A f : Knows(NoDraft, f)
BY ConsoleAssumption
   DEF NoDraft, DraftFits, DraftState, PlanFits, Knows, ConsoleAssumption

LEMMA EndAdvances ==
  ASSUME NEW d \in DraftState, NEW f \in FieldState, NEW gone,
         d.pc # "record" \/ gone
  PROVE  Advances(d, f, NoDraft, f, gone)
BY NoDraftFits DEF Advances, Sound, NoDraft

LEMMA EndSteps ==
  ASSUME NEW w \in Writers, NEW ok \in BOOLEAN, EndDraft(w, ok), UNCHANGED audit
  PROVE  ClerkSteps(w) /\ draft' = [draft EXCEPT ![w] = NoDraft]
BY DEF EndDraft, ClerkSteps

LEMMA RetriesLook ==
  ASSUME NEW d, DraftFits(d), d.pc \in {"look", "plan", "reread", "write", "remake"},
         NEW f \in FieldState, NEW gone,
         NEW e, \/ e = [d EXCEPT !.pc = "look", !.again = TRUE]
                \/ e = [d EXCEPT !.pc = "look", !.remade = TRUE]
  PROVE  Advances(d, f, e, f, gone)
<1>1. d \in DraftState BY DEF DraftFits
<1>2. e \in DraftState /\ e.pc = "look" /\ e.lead = d.lead BY <1>1 DEF DraftState
<1>3. e.put = d.put /\ e.keep = d.keep /\ e.new = d.new BY <1>1 DEF DraftState
<1>4. DraftFits(e) BY <1>2, <1>3 DEF DraftFits
<1>5. PlanFits(e) BY <1>2 DEF PlanFits
<1>6. Sound(d, f, gone) => Sound(e, f, gone) BY <1>2 DEF Sound, Knows
<1>7. QED BY <1>2, <1>4, <1>5, <1>6 DEF Advances

(* A draft that goes on with what it has. *)
LEMMA DraftGoes ==
  ASSUME NEW d \in DraftState, NEW x \in {"write", "record"},
         NEW e, e = [d EXCEPT !.pc = x]
  PROVE  /\ e \in DraftState /\ e.pc = x /\ e.lead = d.lead
         /\ e.put = d.put /\ e.keep = d.keep /\ e.new = d.new
         /\ e.seen = d.seen /\ e.sup = d.sup
<1>1. e \in DraftState BY DEF DraftState
<1>2. e.pc = x /\ e.lead = d.lead /\ e.put = d.put BY DEF DraftState
<1>3. e.keep = d.keep /\ e.new = d.new BY DEF DraftState
<1>4. e.seen = d.seen /\ e.sup = d.sup BY DEF DraftState
<1>5. QED BY <1>1, <1>2, <1>3, <1>4

LEMMA WriterTyped ==
  ASSUME Typed, NEW w \in Writers, draft[w].pc # "none"
  PROVE  /\ draft[w] \in DraftState /\ DraftFits(draft[w])
         /\ draft[w].lead \in Leads
         /\ field[draft[w].lead] \in FieldState
         /\ field = [field EXCEPT ![draft[w].lead] = field[draft[w].lead]]
BY DEF Typed, ReviewTyped, DraftFits

(* The synchronisation ends and the field stays. *)
LEMMA EndReview ==
  ASSUME Typed, NEW w \in Writers, draft[w].pc # "none", NEW ok \in BOOLEAN,
         draft[w].pc # "record" \/ LeadDiscarded(w),
         EndDraft(w, ok), UNCHANGED <<audit, field>>
  PROVE  ReviewStep(w)
<1>1. Advances(draft[w], field[draft[w].lead], NoDraft, field[draft[w].lead],
               LeadDiscarded(w))
  BY WriterTyped, EndAdvances
<1>2. ClerkSteps(w) /\ draft' = [draft EXCEPT ![w] = NoDraft] BY EndSteps
<1>3. WriterSteps(w, NoDraft, field[draft[w].lead])
  BY <1>1, <1>2, WriterTyped DEF WriterSteps
<1>4. QED BY <1>2, <1>3 DEF ReviewStep

(* The draft goes on and the field stays. *)
LEMMA DraftReview ==
  ASSUME Typed, NEW w \in Writers, draft[w].pc # "none", NEW e,
         Advances(draft[w], field[draft[w].lead], e, field[draft[w].lead],
                  LeadDiscarded(w)),
         draft' = [draft EXCEPT ![w] = e], UNCHANGED <<audit, field, clerk>>
  PROVE  ReviewStep(w)
<1>1. WriterSteps(w, e, field[draft[w].lead]) BY WriterTyped DEF WriterSteps
<1>2. QED BY <1>1 DEF ReviewStep, ClerkSteps

LEMMA TransientReview ==
  ASSUME Typed, NEW w \in Writers, draft[w].pc \in {"look", "reread", "write"},
         TransientFailure(w), UNCHANGED <<audit, field>>
  PROVE  ReviewStep(w)
<1>0. draft[w].pc # "none" /\ draft[w].pc # "record" OBVIOUS
<1>1. CASE draft[w].again
  BY <1>0, <1>1, EndReview DEF TransientFailure
<1>2. CASE ~draft[w].again
  <2> DEFINE e == [draft[w] EXCEPT !.pc = "look", !.again = TRUE]
  <2>1. draft' = [draft EXCEPT ![w] = e] /\ UNCHANGED clerk
    BY <1>2 DEF TransientFailure
  <2>2. Advances(draft[w], field[draft[w].lead], e, field[draft[w].lead],
                 LeadDiscarded(w))
    BY <1>0, WriterTyped, RetriesLook
  <2>3. QED BY <1>0, <2>1, <2>2, DraftReview
<1>3. QED BY <1>1, <1>2

LEMMA ReadReview ==
  ASSUME Typed, NEW w \in Writers, NEW x,
         \/ draft[w].pc = "look" /\ x = "plan"
         \/ draft[w].pc = "reread" /\ x = AfterReread(w),
         Read(w, x), UNCHANGED <<audit, field>>
  PROVE  ReviewStep(w)
<1> DEFINE d == draft[w]  f == field[draft[w].lead]
<1>0. d.pc # "none" /\ d.pc # "record" OBVIOUS
<1>1. CASE TransientFailure(w) BY <1>1, TransientReview
<1>2. CASE f.cell = Gone /\ RowMissing(w)
  <2>1. CASE EndDraft(w, FALSE) BY <1>0, <2>1, EndReview
  <2>2. CASE Step(w, "remake") /\ UNCHANGED clerk
    <3> DEFINE e == [d EXCEPT !.pc = "remake"]
    <3>1. Advances(d, f, e, f, LeadDiscarded(w))
      <4>1. d \in DraftState /\ DraftFits(d) /\ f \in FieldState
        BY <1>0, WriterTyped
      <4>2. e \in DraftState /\ e.pc = "remake" /\ e.lead = d.lead
        BY <4>1 DEF DraftState
      <4>3. e.put = d.put /\ e.keep = d.keep /\ e.new = d.new
        BY <4>1 DEF DraftState
      <4> HIDE DEF d, f, e
      <4>4. DraftFits(e) BY <1>0, <4>1, <4>2, <4>3 DEF DraftFits
      <4>5. PlanFits(e) BY <4>2 DEF PlanFits
      <4>6. ~Sound(d, f, LeadDiscarded(w)) BY <1>2 DEF Sound
      <4>7. QED BY <4>1, <4>2, <4>4, <4>5, <4>6 DEF Advances
    <3>2. draft' = [draft EXCEPT ![w] = e] BY <2>2 DEF Step
    <3>3. QED BY <1>0, <2>2, <3>1, <3>2, DraftReview
  <2>3. QED BY <1>2, <2>1, <2>2 DEF RowMissing
<1>3. CASE /\ f.cell # Gone /\ UNCHANGED clerk
           /\ draft' = [draft EXCEPT ![w] = [d EXCEPT !.pc = x, !.seen = f.cell]]
  <2> DEFINE e == [d EXCEPT !.pc = x, !.seen = f.cell]
  <2>1. x \in {"plan", "replan"} \/ (x = "save" /\ d.pc = "reread" /\ f.cell = d.seen)
    BY DEF AfterReread
  <2>2. Advances(d, f, e, f, LeadDiscarded(w))
    <3>1. /\ d \in DraftState /\ DraftFits(d) /\ f \in FieldState
          /\ e \in DraftState /\ e.pc = x /\ e.seen = f.cell /\ e.lead = d.lead
          /\ e.put = d.put /\ e.keep = d.keep /\ e.new = d.new /\ e.sup = d.sup
      <4>1. d \in DraftState /\ DraftFits(d) /\ f \in FieldState BY <1>0, WriterTyped
      <4>2. f.cell \in Values \cup {Hand, Blank} BY <1>3, <4>1 DEF FieldState
      <4>3. PICK s \in Values \cup {Hand, Blank} : s = f.cell BY <4>2
      <4>4. PICK o \in DraftState : o = d BY <4>1
      <4>5. PICK y \in {"plan", "replan", "save"} : y = x BY <2>1
      <4>6. [o EXCEPT !.pc = y, !.seen = s] \in DraftState BY DEF DraftState
      <4>7. /\ [o EXCEPT !.pc = y, !.seen = s].pc = y
            /\ [o EXCEPT !.pc = y, !.seen = s].seen = s
            /\ [o EXCEPT !.pc = y, !.seen = s].lead = o.lead
        BY DEF DraftState
      <4>8. /\ [o EXCEPT !.pc = y, !.seen = s].put = o.put
            /\ [o EXCEPT !.pc = y, !.seen = s].keep = o.keep
            /\ [o EXCEPT !.pc = y, !.seen = s].new = o.new
            /\ [o EXCEPT !.pc = y, !.seen = s].sup = o.sup
        BY DEF DraftState
      <4>9. QED BY <4>1, <4>3, <4>4, <4>5, <4>6, <4>7, <4>8
    <3>2. DraftFits(e) BY <1>0, <2>1, <3>1 DEF DraftFits
    <3>3. PlanFits(d) => PlanFits(e) BY <2>1, <3>1 DEF PlanFits
    <3>4. Sound(d, f, LeadDiscarded(w)) => Sound(e, f, LeadDiscarded(w))
      BY <1>0, <2>1, <3>1 DEF Sound, Knows
    <3>5. QED BY <2>1, <3>1, <3>2, <3>3, <3>4 DEF Advances
  <2>3. QED BY <1>0, <1>3, <2>2, DraftReview
<1>4. QED BY <1>1, <1>2, <1>3 DEF Read

LEMMA LookReview ==
  ASSUME Typed, NEW w \in Writers, Look(w)
  PROVE  ReviewStep(w)
<1> USE DEF Look, Drafting
<1>1. CASE LeadDiscarded(w) BY <1>1, EndReview
<1>2. CASE ~LeadDiscarded(w) BY <1>2, ReadReview
<1>3. QED BY <1>1, <1>2

LEMMA RereadReview ==
  ASSUME Typed, NEW w \in Writers, Reread(w)
  PROVE  ReviewStep(w)
BY ReadReview DEF Reread, Drafting

LEMMA GuardReview ==
  ASSUME Typed, NEW w \in Writers, GuardWrite(w)
  PROVE  ReviewStep(w)
<1> DEFINE d == draft[w]  f == field[draft[w].lead]
<1> USE DEF GuardWrite, Drafting
<1>0. d.pc = "guard" /\ d.pc # "none" /\ d.pc # "record" OBVIOUS
<1>1. CASE LeadDiscarded(w) BY <1>0, <1>1, EndReview
<1>2. CASE ~LeadDiscarded(w)
  <2>1. PICK x : x = IF d.put THEN "write" ELSE "record" OBVIOUS
  <2> DEFINE e == [d EXCEPT !.pc = x]
  <2>2. draft' = [draft EXCEPT ![w] = e] /\ UNCHANGED clerk BY <1>2, <2>1 DEF Step
  <2>3. Advances(d, f, e, f, LeadDiscarded(w))
    <3>1. d \in DraftState /\ DraftFits(d) /\ f \in FieldState BY <1>0, WriterTyped
    <3>2. x \in {"write", "record"} /\ (x = "write" <=> d.put = TRUE)
      BY <2>1, <3>1 DEF DraftState
    <3>3. /\ e \in DraftState /\ e.pc = x /\ e.lead = d.lead
          /\ e.put = d.put /\ e.keep = d.keep /\ e.new = d.new
          /\ e.seen = d.seen /\ e.sup = d.sup
      <4>1. PICK o \in DraftState : o = d BY <3>1
      <4>2. PICK q : q = [o EXCEPT !.pc = x] OBVIOUS
      <4>3. /\ q \in DraftState /\ q.pc = x /\ q.lead = o.lead
            /\ q.put = o.put /\ q.keep = o.keep /\ q.new = o.new
            /\ q.seen = o.seen /\ q.sup = o.sup
        BY <3>2, <4>2, DraftGoes
      <4>4. q = e BY <4>1, <4>2
      <4> HIDE DEF e, d
      <4>5. QED BY <4>1, <4>3, <4>4
    <3> HIDE DEF e, d, f
    <3>4. DraftFits(e) BY <1>0, <3>1, <3>2, <3>3 DEF DraftFits
    <3>5. PlanFits(d) => PlanFits(e) BY <1>0, <3>2, <3>3 DEF PlanFits
    <3>6. Sound(d, f, LeadDiscarded(w)) => Sound(e, f, LeadDiscarded(w))
      BY <1>0, <3>2, <3>3 DEF Sound, Knows
    <3>7. QED BY <3>1, <3>2, <3>3, <3>4, <3>5, <3>6 DEF Advances
  <2>4. QED BY <1>0, <2>2, <2>3, DraftReview
<1>3. QED BY <1>1, <1>2

(* A plan that writes was made for a cell without a person's value. *)
LEMMA PlanSees ==
  ASSUME NEW f \in FieldState, NEW s, NEW sup \in BOOLEAN, NEW ack \in BOOLEAN,
         ~Protected(f, s, sup, ack)
  PROVE  s # Hand /\ (sup = TRUE => s = Blank)
BY ConsoleAssumption DEF Protected, FieldState, ConsoleAssumption

LEMMA MakePlanReview ==
  ASSUME Typed, NEW w \in Writers, MakePlan(w)
  PROVE  ReviewStep(w)
<1> DEFINE d == draft[w]  f == field[draft[w].lead]  v == Candidate(f, d.val)
           free == v # None /\ ~Protected(f, d.seen, d.sup, d.ack)
<1>0. d.pc \in {"plan", "replan"} /\ d.pc # "none" /\ d.pc # "record" BY DEF MakePlan
<1>1. CASE LeadDiscarded(w) BY <1>0, <1>1, EndReview DEF MakePlan
<1>2. CASE ~LeadDiscarded(w)
  <2>0. /\ d \in DraftState /\ DraftFits(d) /\ f \in FieldState /\ d.lead \in Leads
    BY <1>0, WriterTyped
  <2>1. PICK u \in BOOLEAN : u = EditDetected(f, d.seen, d.ack)
    BY <2>0 DEF EditDetected, FieldState
  <2>2. PICK pc : pc = IF d.pc = "plan" THEN "reread" ELSE "save" OBVIOUS
  <2>3. PICK put \in BOOLEAN : put = (free /\ d.seen # v) OBVIOUS
  <2>4. PICK keep \in BOOLEAN : keep = (free /\ (d.seen = v => f.fact # v)) OBVIOUS
  <2>5. v \in Values \cup {Blank, None}
    BY <2>0 DEF Candidate, DraftState, FieldState
  <2> DEFINE e == [d EXCEPT !.pc = pc, !.new = v, !.base = f.fact, !.put = put,
                            !.keep = keep]
             g == [f EXCEPT !.user = u]
  <2>6. /\ draft' = [draft EXCEPT ![w] = e] /\ UNCHANGED <<clerk, audit>>
        /\ field' = [field EXCEPT ![d.lead] = g]
    <3>1. draft' = [draft EXCEPT ![w] = e]
      BY <1>2, <2>2, <2>3, <2>4 DEF MakePlan
    <3>2. field' = [field EXCEPT ![d.lead].user = u]
      BY <1>2, <2>1 DEF MakePlan
    <3>3. QED BY <1>2, <2>0, <3>1, <3>2 DEF Typed, ReviewTyped, MakePlan
  <2>7. /\ e \in DraftState /\ e.pc = pc /\ e.new = v /\ e.put = put /\ e.keep = keep
        /\ e.seen = d.seen /\ e.sup = d.sup /\ e.lead = d.lead
    <3>1. pc \in {"reread", "save"} BY <2>2
    <3>2. f.fact \in Values \cup {Blank, None} BY <2>0 DEF FieldState
    <3>3. PICK o \in DraftState : o = d BY <2>0
    <3>4. PICK n \in Values \cup {Blank, None} : n = v BY <2>5
    <3>5. PICK b \in Values \cup {Blank, None} : b = f.fact BY <3>2
    <3>6. PICK q : q = [o EXCEPT !.pc = pc, !.new = n, !.base = b, !.put = put, !.keep = keep]
      OBVIOUS
    <3>7. q = e
      <4> HIDE DEF v, free, f, d
      <4>1. QED BY <3>3, <3>4, <3>5, <3>6
    <3>8. /\ q \in DraftState /\ q.pc = pc /\ q.new = n /\ q.put = put /\ q.keep = keep
          /\ q.seen = o.seen /\ q.sup = o.sup /\ q.lead = o.lead
      <4>1. PICK h : h = [o EXCEPT !.pc = pc] OBVIOUS
      <4>2. h \in DraftState BY <3>1, <4>1 DEF DraftState
      <4>3. PICK i : i = [h EXCEPT !.new = n] OBVIOUS
      <4>4. i \in DraftState BY <4>2, <4>3 DEF DraftState
      <4>5. PICK j : j = [i EXCEPT !.base = b] OBVIOUS
      <4>6. j \in DraftState BY <4>4, <4>5 DEF DraftState
      <4>7. PICK k : k = [j EXCEPT !.put = put] OBVIOUS
      <4>8. k \in DraftState BY <4>6, <4>7 DEF DraftState
      <4>9. q = [k EXCEPT !.keep = keep] BY <3>6, <4>1, <4>3, <4>5, <4>7
      <4>10. q \in DraftState BY <4>8, <4>9 DEF DraftState
      <4>11. q.pc = pc /\ q.new = n /\ q.put = put /\ q.keep = keep BY <3>6 DEF DraftState
      <4>12. q.seen = o.seen /\ q.sup = o.sup /\ q.lead = o.lead BY <3>6 DEF DraftState
      <4>13. QED BY <4>10, <4>11, <4>12
    <3>9. QED BY <3>3, <3>4, <3>7, <3>8
  <2>8. /\ g \in FieldState /\ g.user = u /\ g.cell = f.cell /\ g.synced = f.synced
        /\ g.edited = f.edited /\ g.torn = f.torn /\ g.fact = f.fact
    BY <2>0 DEF FieldState
  <2>9. /\ put = TRUE => free /\ d.seen # v
        /\ keep = TRUE => free
        /\ free /\ d.seen # v => put = TRUE /\ keep = TRUE
    BY <2>3, <2>4
  <2>10. DraftFits(e) BY <2>0, <2>2, <2>5, <2>7, <2>9 DEF DraftFits
  <2>11. PlanFits(e)
    <3>1. put = TRUE => d.seen # Hand /\ (d.sup = TRUE => d.seen = Blank)
      <4>1. d.sup \in BOOLEAN /\ d.ack \in BOOLEAN BY <2>0 DEF DraftState
      <4>2. put = TRUE => ~Protected(f, d.seen, d.sup, d.ack) BY <2>9
      <4> HIDE DEF f, d
      <4>3. QED BY <2>0, <4>1, <4>2, PlanSees
    <3>2. QED BY <2>2, <2>7, <2>9, <3>1 DEF PlanFits
  <2>12. Sound(d, f, LeadDiscarded(w)) => Sound(e, g, LeadDiscarded(w))
    <3> SUFFICES ASSUME Sound(d, f, LeadDiscarded(w)) PROVE Sound(e, g, LeadDiscarded(w))
      OBVIOUS
    <3>1. /\ f.user = FALSE /\ f.cell # Gone /\ d.seen = f.cell /\ f.cell = f.synced
      BY <1>0, <1>2 DEF Sound, Knows
    <3>2. u = FALSE BY <2>1, <3>1 DEF EditDetected
    <3>3. QED BY <2>2, <2>7, <2>8, <3>1, <3>2 DEF Sound, Knows
  <2>13. Advances(d, f, e, g, LeadDiscarded(w))
    BY <2>2, <2>7, <2>8, <2>10, <2>11, <2>12 DEF Advances, Clean
  <2>14. WriterSteps(w, e, g) BY <1>0, <2>6, <2>13 DEF WriterSteps
  <2>15. QED BY <2>6, <2>14 DEF ReviewStep, ClerkSteps
<1>3. QED BY <1>1, <1>2

LEMMA SavePlanReview ==
  ASSUME Typed, NEW w \in Writers, SavePlan(w)
  PROVE  ReviewStep(w)
<1> DEFINE d == draft[w]  f == field[draft[w].lead]  e == [d EXCEPT !.pc = "guard"]
<1> USE DEF SavePlan, Drafting
<1>0. /\ d.pc = "save" /\ d.pc # "none"
      /\ d \in DraftState /\ DraftFits(d) /\ f \in FieldState /\ d.lead \in Leads
  BY WriterTyped
<1>1. draft' = [draft EXCEPT ![w] = e] /\ UNCHANGED <<clerk, audit>> BY DEF Step
<1>2. CASE d.keep = TRUE
  <2>1. PICK s : s = IF d.put THEN f.synced ELSE d.new OBVIOUS
  <2> DEFINE g == [f EXCEPT !.fact = d.new, !.val = d.new, !.synced = s]
  <2>2. field' = [field EXCEPT ![d.lead] = g]
    BY <1>2, <2>1
  <2>3. /\ g \in FieldState /\ g.fact = d.new /\ g.synced = s /\ g.cell = f.cell
        /\ g.user = f.user /\ g.edited = f.edited /\ g.torn = f.torn
    BY <1>0, <1>2, <2>1 DEF FieldState, DraftFits
  <2>4. Advances(d, f, e, g, LeadDiscarded(w))
    <3>1. /\ e \in DraftState /\ e.pc = "guard" /\ e.lead = d.lead /\ e.new = d.new
          /\ e.put = d.put /\ e.keep = d.keep /\ e.seen = d.seen /\ e.sup = d.sup
          /\ d.put \in BOOLEAN
      BY <1>0 DEF DraftState
    <3>2. DraftFits(e) BY <1>0, <3>1 DEF DraftFits
    <3>3. PlanFits(d) => PlanFits(e) BY <1>0, <3>1 DEF PlanFits
    <3>4. ASSUME PlanFits(d), Sound(d, f, LeadDiscarded(w))
          PROVE  Sound(e, g, LeadDiscarded(w))
      <4>1. d.seen = f.cell /\ (f.cell = f.synced \/ LeadDiscarded(w))
        BY <1>0, <3>4 DEF Sound, Knows
      <4>2. d.put = FALSE => d.seen = d.new BY <1>0, <1>2, <3>4 DEF PlanFits
      <4>3. Knows(e, g) BY <2>1, <2>3, <3>1, <4>1 DEF Knows
      <4>4. g.cell = g.synced \/ LeadDiscarded(w)
        BY <2>1, <2>3, <3>1, <4>1, <4>2
      <4>5. QED BY <2>3, <3>4, <4>3, <4>4 DEF Sound
    <3>5. QED BY <2>3, <3>1, <3>2, <3>3, <3>4 DEF Advances, Clean
  <2>5. QED BY <1>0, <1>1, <2>2, <2>4 DEF ReviewStep, ClerkSteps, WriterSteps
<1>3. CASE d.keep = FALSE
  <2>1. Advances(d, f, e, f, LeadDiscarded(w))
    BY <1>0, <1>3 DEF Advances, DraftFits, DraftState, PlanFits, Sound, Knows
  <2>2. QED BY <1>0, <1>1, <1>3, <2>1, DraftReview
<1>4. QED BY <1>0, <1>2, <1>3 DEF DraftState

LEMMA WriteReview ==
  ASSUME Typed, NEW w \in Writers, WriteCell(w)
  PROVE  ReviewStep(w)
<1> DEFINE d == draft[w]  f == field[draft[w].lead]
<1>0. /\ d.pc = "write" /\ d.pc # "none" /\ d.pc # "record" /\ UNCHANGED audit
      /\ d \in DraftState /\ DraftFits(d) /\ f \in FieldState /\ d.lead \in Leads
      /\ d.put = TRUE /\ d.new \in Values \cup {Blank}
  <2>1. d.pc = "write" /\ UNCHANGED audit BY DEF WriteCell, Drafting
  <2>2. QED BY <2>1, WriterTyped DEF DraftFits
<1>1. CASE /\ field' = [field EXCEPT ![d.lead].cell = d.new] /\ Step(w, "record")
           /\ UNCHANGED clerk
  <2> DEFINE e == [d EXCEPT !.pc = "record"]  g == [f EXCEPT !.cell = d.new]
  <2>1. draft' = [draft EXCEPT ![w] = e] /\ field' = [field EXCEPT ![d.lead] = g]
    BY <1>0, <1>1 DEF Step, Typed, ReviewTyped
  <2>2. /\ g \in FieldState /\ g.cell = d.new /\ g.fact = f.fact /\ g.synced = f.synced
        /\ g.user = f.user /\ g.edited = f.edited /\ g.torn = f.torn
    BY <1>0 DEF FieldState
  <2>3. /\ e \in DraftState /\ e.pc = "record" /\ e.lead = d.lead /\ e.new = d.new
        /\ e.put = d.put /\ e.keep = d.keep /\ e.seen = d.seen /\ e.sup = d.sup
    BY <1>0 DEF DraftState
  <2>4. DraftFits(e) /\ (PlanFits(d) => PlanFits(e))
    BY <1>0, <2>3 DEF DraftFits, PlanFits
  <2>5. ASSUME Sound(d, f, LeadDiscarded(w)) PROVE Sound(e, g, LeadDiscarded(w))
    <3>1. d.new # Gone BY <1>0, ConsoleAssumption DEF ConsoleAssumption
    <3>2. Knows(e, g) BY <1>0, <2>2, <2>3, <2>5 DEF Sound, Knows
    <3>3. QED BY <1>0, <2>2, <2>3, <2>5, <3>1, <3>2 DEF Sound
  <2>6. Advances(d, f, e, g, LeadDiscarded(w))
    BY <2>2, <2>3, <2>4, <2>5 DEF Advances, Clean
  <2>7. QED BY <1>0, <1>1, <2>1, <2>6 DEF ReviewStep, ClerkSteps, WriterSteps
<1>2. CASE /\ TransientFailure(w)
           /\ field' = [field EXCEPT ![d.lead] =
                          [f EXCEPT !.cell = d.new, !.torn = TRUE]]
  <2> DEFINE g == [f EXCEPT !.cell = d.new, !.torn = TRUE]
  <2>1. g \in FieldState /\ g.torn = TRUE BY <1>0 DEF FieldState
  <2>2. CASE d.again
    <3>1. ClerkSteps(w) /\ draft' = [draft EXCEPT ![w] = NoDraft]
      BY <1>0, <1>2, <2>2, EndSteps DEF TransientFailure
    <3>2. Advances(d, f, NoDraft, g, LeadDiscarded(w))
      BY <2>1, NoDraftFits DEF Advances, Clean
    <3>3. QED BY <1>0, <1>2, <3>1, <3>2 DEF ReviewStep, WriterSteps
  <2>3. CASE ~d.again
    <3> DEFINE e == [d EXCEPT !.pc = "look", !.again = TRUE]
    <3>1. draft' = [draft EXCEPT ![w] = e] /\ UNCHANGED clerk
      BY <2>3, <1>2 DEF TransientFailure
    <3>2. DraftFits(e) /\ PlanFits(e) /\ e.lead = d.lead /\ e.pc = "look"
      BY <1>0 DEF DraftFits, PlanFits, DraftState
    <3>3. Advances(d, f, e, g, LeadDiscarded(w))
      BY <2>1, <3>2 DEF Advances, Clean
    <3>4. QED BY <1>0, <1>2, <3>1, <3>3 DEF ReviewStep, ClerkSteps, WriterSteps
  <2>4. QED BY <2>2, <2>3
<1>3. CASE TransientFailure(w) /\ UNCHANGED field
  BY <1>0, <1>3, TransientReview
<1>4. CASE EndDraft(w, FALSE) /\ UNCHANGED field
  BY <1>0, <1>4, EndReview
<1>5. QED BY <1>1, <1>2, <1>3, <1>4 DEF WriteCell

LEMMA RecordReview ==
  ASSUME Typed, NEW w \in Writers, RecordPatch(w)
  PROVE  ReviewStep(w)
<1> DEFINE d == draft[w]  f == field[draft[w].lead]
<1>0. /\ d.pc = "record" /\ d.pc # "none" /\ UNCHANGED audit
      /\ d \in DraftState /\ DraftFits(d) /\ f \in FieldState /\ d.lead \in Leads
  <2>1. d.pc = "record" /\ UNCHANGED audit BY DEF RecordPatch, Drafting
  <2>2. QED BY <2>1, WriterTyped DEF DraftFits
<1>1. ClerkSteps(w) /\ draft' = [draft EXCEPT ![w] = NoDraft]
  <2>1. PICK ok \in BOOLEAN : ok = ~LeadDiscarded(w) OBVIOUS
  <2>2. EndDraft(w, ok) BY <2>1 DEF RecordPatch
  <2>3. QED BY <1>0, <2>2, EndSteps
<1>2. CASE LeadDiscarded(w)
  <2>1. UNCHANGED field BY <1>2 DEF RecordPatch
  <2>2. Advances(d, f, NoDraft, f, LeadDiscarded(w)) BY <1>0, <1>2, EndAdvances
  <2>3. field' = [field EXCEPT ![d.lead] = f] BY <1>0, <2>1, WriterTyped
  <2>4. QED BY <1>0, <1>1, <2>2, <2>3 DEF ReviewStep, WriterSteps
<1>3. CASE ~LeadDiscarded(w) /\ d.keep = TRUE /\ f.fact \in {d.base, d.new}
  <2> DEFINE g == Recorded(f, d.new)
  <2>1. field' = [field EXCEPT ![d.lead] = g] BY <1>3 DEF RecordPatch
  <2>2. /\ g \in FieldState /\ g.synced = d.new /\ g.cell = f.cell
        /\ g.user = f.user /\ g.edited = f.edited /\ g.torn = f.torn
    BY <1>0, <1>3 DEF Recorded, FieldState, DraftFits
  <2>3. ASSUME Sound(d, f, LeadDiscarded(w)) PROVE Sound(NoDraft, g, LeadDiscarded(w))
    <3>1. d.put \in BOOLEAN BY <1>0 DEF DraftState
    <3>2. f.cell = d.new BY <1>0, <1>3, <2>3, <3>1 DEF Sound, Knows
    <3>3. Knows(NoDraft, g) BY NoDraftFits
    <3>4. QED BY <2>2, <2>3, <3>2, <3>3 DEF Sound
  <2>4. Advances(d, f, NoDraft, g, LeadDiscarded(w))
    BY <2>2, <2>3, NoDraftFits DEF Advances, Clean
  <2>5. QED BY <1>0, <1>1, <2>1, <2>4 DEF ReviewStep, WriterSteps
<1>4. CASE ~LeadDiscarded(w) /\ ~(d.keep = TRUE /\ f.fact \in {d.base, d.new})
  <2>1. UNCHANGED field
    BY <1>0, <1>4 DEF RecordPatch, DraftState
  <2>2. field' = [field EXCEPT ![d.lead] = f] BY <1>0, <2>1, WriterTyped
  <2>3. ASSUME PlanFits(d), Sound(d, f, LeadDiscarded(w))
        PROVE  Sound(NoDraft, f, LeadDiscarded(w))
    <3>1. d.put \in BOOLEAN /\ d.keep \in BOOLEAN BY <1>0 DEF DraftState
    <3>2. d.put = FALSE
      BY <1>0, <1>4, <2>3, <3>1 DEF Sound, Knows, PlanFits
    <3>3. Knows(NoDraft, f) BY NoDraftFits
    <3>4. QED BY <2>3, <3>2, <3>3 DEF Sound
  <2>4. Advances(d, f, NoDraft, f, LeadDiscarded(w))
    BY <1>0, <2>3, NoDraftFits DEF Advances
  <2>5. QED BY <1>0, <1>1, <2>2, <2>4 DEF ReviewStep, WriterSteps
<1>5. QED BY <1>2, <1>3, <1>4

LEMMA RemakeReview ==
  ASSUME Typed, NEW w \in Writers, RemakeRow(w)
  PROVE  ReviewStep(w)
<1> DEFINE d == draft[w]  f == field[draft[w].lead]
<1>0. /\ d.pc = "remake" /\ d.pc # "none" /\ d.pc # "record" /\ UNCHANGED audit
      /\ d \in DraftState /\ DraftFits(d) /\ f \in FieldState /\ d.lead \in Leads
  <2>1. d.pc = "remake" /\ UNCHANGED audit BY DEF RemakeRow, Drafting
  <2>2. QED BY <2>1, WriterTyped DEF DraftFits
<1>1. CASE EndDraft(w, FALSE) /\ UNCHANGED field BY <1>0, <1>1, EndReview
<1>2. CASE /\ field' = [field EXCEPT ![d.lead].cell = f.fact] /\ UNCHANGED clerk
           /\ draft' = [draft EXCEPT ![w] = [d EXCEPT !.pc = "look", !.remade = TRUE]]
  <2> DEFINE e == [d EXCEPT !.pc = "look", !.remade = TRUE]
             g == [f EXCEPT !.cell = f.fact]
  <2>1. field' = [field EXCEPT ![d.lead] = g] BY <1>0, <1>2 DEF Typed, ReviewTyped
  <2>2. g \in FieldState /\ (Clean(g) => Clean(f)) BY <1>0 DEF FieldState, Clean
  <2>3. ~Sound(d, f, LeadDiscarded(w)) BY <1>0 DEF Sound, Knows
  <2>4. DraftFits(e) /\ PlanFits(e) /\ e.lead = d.lead /\ e.pc = "look"
    BY <1>0 DEF DraftFits, PlanFits, DraftState
  <2>5. Advances(d, f, e, g, LeadDiscarded(w)) BY <2>2, <2>3, <2>4 DEF Advances
  <2>6. QED BY <1>0, <1>2, <2>1, <2>5 DEF ReviewStep, ClerkSteps, WriterSteps
<1>3. QED BY <1>1, <1>2 DEF RemakeRow

(* A field that is spared, and the writers of its lead with it. *)
LEMMA WriterSpares ==
  ASSUME Typed, NEW w \in Writers, NEW e, NEW g, WriterSteps(w, e, g)
  PROVE  /\ draft' \in [Writers -> DraftState] /\ field' \in [Leads -> FieldState]
         /\ draft'[w] = e /\ draft[w].lead \in Leads /\ e \in DraftState
         /\ \A v \in Writers : v # w => draft'[v] = draft[v]
         /\ field'[draft[w].lead] = g
         /\ \A l \in Leads : l # draft[w].lead => field'[l] = field[l]
<1>1. draft[w].lead \in Leads BY WriterTyped DEF WriterSteps
<1>2. e \in DraftState /\ g \in FieldState BY DEF WriterSteps, Advances, DraftFits
<1>3. QED BY <1>1, <1>2 DEF WriterSteps, Typed, ReviewTyped

LEMMA WriterKeepsFields ==
  ASSUME ConsoleAssumption, Typed, PlansFit, CleanFields,
         NEW w \in Writers, NEW e, NEW g, WriterSteps(w, e, g), UNCHANGED discarded
  PROVE  PlansFit' /\ CleanFields'
<1> DEFINE k == draft[w].lead
<1>1. PlansFit' BY WriterSpares DEF PlansFit, WriterSteps, Advances
<1>2. Advances(draft[w], field[k], e, g, LeadDiscarded(w)) /\ k \in Leads
  BY WriterSpares DEF WriterSteps
<1>3. e.lead \in {k, None}
  BY <1>2 DEF Advances, NoDraft
<1>4. ASSUME NEW l \in Leads, Clean(field'[l]) PROVE
      /\ field'[l].user = FALSE /\ field'[l].cell # Gone
      /\ \A x, y \in Writers : draft'[x].lead = l /\ draft'[y].lead = l => x = y
      /\ \A x \in Writers : draft'[x].lead = l => Knows(draft'[x], field'[l])
      /\ \/ field'[l].cell = field'[l].synced \/ l \in discarded'
         \/ \E x \in Writers : Recording(x, l)'
  <2>1. CASE l # k
    <3>1. Clean(field[l]) /\ field'[l] = field[l] BY <1>4, <2>1, WriterSpares
    <3>2. e.lead # l BY <1>3, <2>1, ConsoleAssumption DEF ConsoleAssumption
    <3>3. \A x \in Writers : draft'[x].lead = l => x # w /\ draft'[x] = draft[x]
      BY <3>2, WriterSpares
    <3>4. \A x \in Writers : Recording(x, l) => Recording(x, l)'
      BY <2>1, WriterSpares DEF Recording
    <3>5. QED BY <3>1, <3>3, <3>4 DEF CleanFields
  <2>2. CASE l = k
    <3>1. Clean(g) /\ Clean(field[k]) /\ field'[k] = g
      BY <1>2, <1>4, <2>2, WriterSpares DEF Advances
    <3>2. \A x \in Writers : draft[x].lead = k => x = w BY <1>2, <3>1 DEF CleanFields
    <3>3. Sound(draft[w], field[k], LeadDiscarded(w))
      BY <1>2, <3>1, <3>2 DEF CleanFields, Sound, LeadDiscarded, Recording
    <3>4. Sound(e, g, LeadDiscarded(w))
      BY <1>2, <3>1, <3>3 DEF Advances, PlansFit
    <3>5. \A x \in Writers : draft'[x].lead = k => x = w
      BY <3>2, WriterSpares
    <3>6. e.pc = "record" => e.lead = k
      BY <1>2, <1>3 DEF Advances, NoDraft
    <3>7. \/ g.cell = g.synced \/ k \in discarded'
          \/ draft'[w].lead = k /\ draft'[w].pc = "record" /\ draft'[w].put = TRUE
      BY <3>4, <3>6, WriterSpares DEF Sound, LeadDiscarded, Recording
    <3>8. \A x \in Writers : draft'[x].lead = k => Knows(draft'[x], g)
      BY <3>4, <3>5, WriterSpares DEF Sound
    <3>9. g.user = FALSE /\ g.cell # Gone BY <3>4 DEF Sound
    <3>10. \A x \in Writers : draft'[x].lead = l => Knows(draft'[x], field'[l])
      BY <2>2, <3>1, <3>8
    <3>11. \A x, y \in Writers : draft'[x].lead = l /\ draft'[y].lead = l => x = y
      BY <2>2, <3>5
    <3>12. field'[l].user = FALSE /\ field'[l].cell # Gone BY <2>2, <3>1, <3>9
    <3>13. \/ field'[l].cell = field'[l].synced \/ l \in discarded'
           \/ \E x \in Writers : Recording(x, l)'
      BY <2>2, <3>1, <3>7 DEF Recording
    <3>14. QED BY <3>10, <3>11, <3>12, <3>13
  <2>3. QED BY <2>1, <2>2
<1>5. CleanFields' BY <1>4 DEF CleanFields
<1>6. QED BY <1>1, <1>5

LEMMA ReviewStepTyped ==
  ASSUME ConsoleAssumption, Typed, NEW w \in Writers, ReviewStep(w),
         UNCHANGED <<menu, active, discarded, due, attempt>>, Fault \/ UNCHANGED faults
  PROVE  Within(AttemptPlaces, {}) /\ ReviewTyped' /\ ClerksPlaced'
<1>1. PICK e, g : WriterSteps(w, e, g) BY DEF ReviewStep
<1>2. ReviewTyped'
  <2>1. /\ draft' \in [Writers -> DraftState] /\ field' \in [Leads -> FieldState]
        /\ draft'[w] = e /\ \A x \in Writers : x # w => draft'[x] = draft[x]
    BY <1>1, WriterSpares
  <2>2. DraftFits(e) BY <1>1 DEF WriterSteps, Advances
  <2>3. \A x \in Writers : DraftFits(draft'[x])
    BY <2>1, <2>2 DEF Typed, ReviewTyped
  <2>4. due' \subseteq Later BY DEF Typed, ReviewTyped
  <2>5. QED BY <2>1, <2>3, <2>4 DEF ReviewTyped
<1>3. faults' \in 0..MaxFaults BY FaultTyped DEF Typed, DeskTyped, ConsoleAssumption
<1>4. DeskKept BY <1>3 DEF DeskKept, Typed, DeskTyped
<1>5. CASE UNCHANGED clerk
  <2>1. Within(AttemptPlaces, {}) BY <1>4, <1>5 DEF Within, ReviewStep, ClerkSteps
  <2>2. \A p \in Clerks : draft'[p].pc # "none" => draft[p].pc # "none"
    BY <1>1, WriterSpares DEF WriterSteps, Writers
  <2>3. QED BY <1>2, <1>5, <2>1, <2>2 DEF ClerksPlaced, Typed
<1>6. CASE /\ w \in Clerks /\ draft' = [draft EXCEPT ![w] = NoDraft]
           /\ \E x \in {"retry_done", "retry_failed"} : Go(w, x)
  <2>1. PICK x \in {"retry_done", "retry_failed"} : Go(w, x) BY <1>6
  <2>2. clerk[w].pc = "patching" /\ DeskTyped /\ clerk[w] \in ClerkState
    BY <1>1, <1>6 DEF Typed, ClerksPlaced, WriterSteps, DeskTyped
  <2> DEFINE c == [clerk[w] EXCEPT !.pc = x]
  <2>3. /\ c \in ClerkState /\ c.pc = x /\ c.req = clerk[w].req /\ c.op = clerk[w].op
        /\ clerk[w].req \in Requests
    <3>1. x \in Places BY DEF Places, AttemptPlaces
    <3>2. clerk[w].req \in Requests BY <1>6, <2>2 DEF DeskTyped, Fits
    <3>3. QED BY <2>2, <3>1, <3>2, ClerkGoes
  <2>4. Fits(c) BY <2>3 DEF Fits, TransferPlaces, CreationPlaces
  <2>5. /\ Moves(w, AttemptPlaces) /\ clerk' = [clerk EXCEPT ![w] = c]
    BY <1>6, <2>1, <2>2, <2>4, GoMoves DEF AttemptPlaces, ReviewStep, ClerkSteps
  <2>6. Within(AttemptPlaces, {}) BY <1>4, <1>6, <2>5 DEF Within
  <2>7. ClerksPlaced'
    BY <1>6, <2>2, <2>3, <2>5
       DEF ClerksPlaced, Typed, DeskTyped, ReviewTyped, AttemptPlaces, NoDraft, Writers
  <2>8. QED BY <1>2, <2>6, <2>7
<1>7. QED BY <1>5, <1>6 DEF ReviewStep, ClerkSteps

(* Writer w has started on lead l. *)
Starts(w, l) ==
    /\ draft' \in [Writers -> DraftState] /\ field' \in [Leads -> FieldState]
    /\ \A x \in Writers : x # w => draft'[x] = draft[x]
    /\ \A k \in Leads : k # l => field'[k] = field[k]
    /\ DraftFits(draft'[w]) /\ draft'[w].pc = "look" /\ draft'[w].lead = l
    /\ field'[l].torn = FALSE => ~InWork(l) /\ field'[l] = field[l]

LEMMA StartTyped ==
  ASSUME Typed, NEW w \in Writers, NEW l \in Leads, NEW v \in Values \cup {None},
         NEW sup \in BOOLEAN, NEW ack \in BOOLEAN, StartDraft(w, l, v, sup, ack)
  PROVE  Starts(w, l)
<1> DEFINE d == [NoDraft EXCEPT !.pc = "look", !.lead = l, !.val = v, !.sup = sup,
                                !.ack = ack]
<1>1. draft' = [draft EXCEPT ![w] = d] BY DEF StartDraft
<1>2. DraftFits(d) /\ d \in DraftState /\ d.pc = "look" /\ d.lead = l
  BY DEF DraftFits, DraftState, NoDraft
<1>3. field[l] \in FieldState BY DEF Typed, ReviewTyped
<1>4. PICK t \in BOOLEAN : t = (field[l].torn \/ InWork(l))
  BY <1>3 DEF FieldState
<1>5. field' = [field EXCEPT ![l].torn = t] BY <1>4 DEF StartDraft
<1>6. t = FALSE => field[l].torn = FALSE /\ ~InWork(l)
  BY <1>3, <1>4 DEF FieldState
<1>7. field' = [field EXCEPT ![l] = [field[l] EXCEPT !.torn = t]]
  BY <1>5 DEF Typed, ReviewTyped
<1>8. /\ [field[l] EXCEPT !.torn = t] \in FieldState
      /\ [field[l] EXCEPT !.torn = t].torn = t
      /\ field[l].torn = t => [field[l] EXCEPT !.torn = t] = field[l]
  BY <1>3 DEF FieldState
<1>9. QED BY <1>1, <1>2, <1>6, <1>7, <1>8 DEF Typed, ReviewTyped, Starts

LEMMA StartKeepsFields ==
  ASSUME ConsoleAssumption, Typed, PlansFit, CleanFields, NEW w \in Writers,
         draft[w].pc = "none", NEW l \in Leads, Starts(w, l), UNCHANGED discarded
  PROVE  PlansFit' /\ CleanFields'
<1>0. /\ \A x \in Writers : x # w => draft'[x] = draft[x]
      /\ \A k \in Leads : k # l => field'[k] = field[k]
      /\ draft'[w].pc = "look" /\ draft'[w].lead = l
      /\ field'[l].torn = FALSE => ~InWork(l) /\ field'[l] = field[l]
  BY DEF Starts
<1>1. PlansFit'
  <2>1. PlanFits(draft'[w]) BY <1>0 DEF PlanFits
  <2>2. QED BY <2>1, <1>0 DEF PlansFit
<1>2. draft[w].lead \notin Leads BY DEF Typed, ReviewTyped, DraftFits
<1>3. ASSUME NEW k \in Leads, Clean(field'[k]) PROVE
      /\ field'[k].user = FALSE /\ field'[k].cell # Gone
      /\ \A x, y \in Writers : draft'[x].lead = k /\ draft'[y].lead = k => x = y
      /\ \A x \in Writers : draft'[x].lead = k => Knows(draft'[x], field'[k])
      /\ \/ field'[k].cell = field'[k].synced \/ k \in discarded'
         \/ \E x \in Writers : Recording(x, k)'
  <2>1. field'[k] = field[k] /\ Clean(field[k]) /\ (k = l => ~InWork(l))
    BY <1>3, <1>0 DEF Clean
  <2>2. CASE k # l
    <3>1. \A x \in Writers : draft'[x].lead = k => x # w /\ draft'[x] = draft[x]
      BY <2>2, <1>0
    <3>2. \A x \in Writers : Recording(x, k) => Recording(x, k)'
      BY <1>2, <1>0 DEF Recording
    <3>3. QED BY <2>1, <3>1, <3>2 DEF CleanFields
  <2>3. CASE k = l
    <3>1. \A x \in Writers : draft[x].lead # k BY <2>1, <2>3 DEF InWork
    <3>2. \A x \in Writers : draft'[x].lead = k => x = w
      BY <3>1, <1>0
    <3>3. Knows(draft'[w], field'[k]) BY <1>0 DEF Knows
    <3>4. ~ \E x \in Writers : Recording(x, k) BY <3>1 DEF Recording
    <3>5. QED BY <2>1, <3>2, <3>3, <3>4 DEF CleanFields
  <2>4. QED BY <2>2, <2>3
<1>4. CleanFields' BY <1>3 DEF CleanFields
<1>5. QED BY <1>1, <1>4

LEMMA DropTyped ==
  ASSUME ConsoleAssumption, Typed, NEW w \in Writers, DropDraft(w)
  PROVE  /\ draft' \in [Writers -> DraftState] /\ field' \in [Leads -> FieldState]
         /\ draft'[w] = NoDraft
         /\ \A x \in Writers : x # w => draft'[x] = draft[x]
         /\ \A k \in Leads :
              \/ field'[k] = field[k] /\ ~Recording(w, k)
              \/ field'[k].torn = TRUE
<1>0. draft' = [draft EXCEPT ![w] = NoDraft] BY DEF DropDraft
<1>1. /\ draft' \in [Writers -> DraftState] /\ draft'[w] = NoDraft
      /\ \A x \in Writers : x # w => draft'[x] = draft[x]
  BY <1>0, NoDraftFits DEF DraftFits, Typed, ReviewTyped
<1>2. CASE draft[w].pc = "record" /\ draft[w].put = TRUE
  <2>1. draft[w].lead \in Leads BY <1>2, WriterTyped
  <2>2. field' = [field EXCEPT ![draft[w].lead].torn = TRUE]
    BY <1>2 DEF DropDraft, Drafting
  <2>3. PICK k \in Leads : k = draft[w].lead BY <2>1
  <2>4. PICK g : g = [field[k] EXCEPT !.torn = TRUE] OBVIOUS
  <2>5. field[k] \in FieldState BY DEF Typed, ReviewTyped
  <2>6. g \in FieldState /\ g.torn = TRUE BY <2>4, <2>5 DEF FieldState
  <2>7. field' = [field EXCEPT ![k] = g] BY <2>2, <2>3, <2>4
  <2>8. field' \in [Leads -> FieldState] BY <2>6, <2>7 DEF Typed, ReviewTyped
  <2>9. \A l \in Leads : \/ field'[l] = field[l] /\ ~Recording(w, l)
                         \/ field'[l].torn = TRUE
    BY <2>3, <2>6, <2>7 DEF Typed, ReviewTyped, Recording
  <2>10. QED BY <1>1, <2>8, <2>9
<1>3. CASE ~(draft[w].pc = "record" /\ draft[w].put = TRUE)
  <2>1. draft[w].put \in BOOLEAN BY DEF Typed, ReviewTyped, DraftState
  <2>2. UNCHANGED field BY <1>3, <2>1 DEF DropDraft, Drafting
  <2>3. QED BY <1>1, <1>3, <2>2 DEF Typed, ReviewTyped, Recording
<1>4. QED BY <1>2, <1>3

LEMMA DropKeepsFields ==
  ASSUME ConsoleAssumption, Typed, PlansFit, CleanFields, NEW w \in Writers,
         DropDraft(w), discarded \subseteq discarded'
  PROVE  PlansFit' /\ CleanFields'
<1>1. PlansFit' BY DropTyped, NoDraftFits DEF PlansFit
<1>2. NoDraft.lead \notin Leads BY ConsoleAssumption DEF ConsoleAssumption, NoDraft
<1>3. ASSUME NEW k \in Leads, Clean(field'[k]) PROVE
      /\ field'[k].user = FALSE /\ field'[k].cell # Gone
      /\ \A x, y \in Writers : draft'[x].lead = k /\ draft'[y].lead = k => x = y
      /\ \A x \in Writers : draft'[x].lead = k => Knows(draft'[x], field'[k])
      /\ \/ field'[k].cell = field'[k].synced \/ k \in discarded'
         \/ \E x \in Writers : Recording(x, k)'
  <2>1. field'[k] = field[k] /\ Clean(field[k]) /\ ~Recording(w, k)
    BY <1>3, DropTyped DEF Clean
  <2>2. \A x \in Writers : draft'[x].lead = k => x # w /\ draft'[x] = draft[x]
    BY <1>2, DropTyped
  <2>3. \A x \in Writers : Recording(x, k) => Recording(x, k)'
    BY <2>1, DropTyped DEF Recording
  <2>4. QED BY <2>1, <2>2, <2>3 DEF CleanFields
<1>4. CleanFields' BY <1>3 DEF CleanFields
<1>5. QED BY <1>1, <1>4

LEMMA EditKeepsFields ==
  ASSUME Typed, PlansFit, CleanFields, NEW l \in Leads, EditCell(l)
  PROVE  PlansFit' /\ CleanFields' /\ field' \in [Leads -> FieldState]
<1> USE DEF EditCell
<1>1. PlansFit' BY DEF PlansFit
<1>2. PICK v \in {Hand, Blank, Gone} :
         field' = [field EXCEPT ![l] = [@ EXCEPT !.cell = v, !.edited = TRUE]]
  OBVIOUS
<1>3. /\ field' \in [Leads -> FieldState] /\ field'[l].edited = TRUE
      /\ \A k \in Leads : k # l => field'[k] = field[k]
  BY <1>2 DEF Typed, ReviewTyped, FieldState
<1>4. CleanFields' BY <1>3 DEF CleanFields, Clean, Recording
<1>5. QED BY <1>1, <1>3, <1>4

LEMMA WriterActions ==
  ASSUME ConsoleAssumption, Typed, NEW w \in Writers,
         \/ Look(w) \/ MakePlan(w) \/ Reread(w) \/ SavePlan(w) \/ GuardWrite(w)
         \/ WriteCell(w) \/ RecordPatch(w) \/ RemakeRow(w)
  PROVE  /\ ReviewStep(w) /\ UNCHANGED <<menu, active, discarded, due>>
         /\ Fault \/ UNCHANGED faults
<1>1. CASE Look(w) BY <1>1, LookReview DEF Look, Read
<1>2. CASE MakePlan(w) BY <1>2, MakePlanReview DEF MakePlan
<1>3. CASE Reread(w) BY <1>3, RereadReview DEF Reread, Read
<1>4. CASE SavePlan(w) BY <1>4, SavePlanReview DEF SavePlan
<1>5. CASE GuardWrite(w) BY <1>5, GuardReview DEF GuardWrite
<1>6. CASE WriteCell(w) BY <1>6, WriteReview DEF WriteCell
<1>7. CASE RecordPatch(w) BY <1>7, RecordReview DEF RecordPatch
<1>8. CASE RemakeRow(w) BY <1>8, RemakeReview DEF RemakeRow
<1>9. QED BY <1>1, <1>2, <1>3, <1>4, <1>5, <1>6, <1>7, <1>8

LEMMA TakeStarts ==
  ASSUME ConsoleAssumption, Typed, TakeMessage(Made)
  PROVE  /\ Starts(Pipeline, Made) /\ draft[Pipeline].pc = "none"
         /\ due' \subseteq Later /\ Pipeline \in Writers /\ Made \in Leads
<1>1. PICK v \in due : due' = due \ {v} /\ StartDraft(Pipeline, Made, v, FALSE, FALSE)
  BY DEF TakeMessage
<1>2. v \in Values \cup {None} /\ due' \subseteq Later
  BY <1>1 DEF Typed, ReviewTyped, Values
<1>3. Pipeline \in Writers /\ Made \in Leads BY DEF Writers, ConsoleAssumption
<1>4. Starts(Pipeline, Made) BY <1>1, <1>2, <1>3, StartTyped
<1>5. QED BY <1>2, <1>3, <1>4 DEF TakeMessage, Drafting

LEMMA ReviewNextWithin ==
  ASSUME ConsoleAssumption, Typed, ReviewNext, UNCHANGED attempt
  PROVE  Within(AttemptPlaces, {}) /\ ReviewTyped' /\ ClerksPlaced'
<1>1. ASSUME NEW w \in Writers,
             \/ Look(w) \/ MakePlan(w) \/ Reread(w) \/ SavePlan(w) \/ GuardWrite(w)
             \/ WriteCell(w) \/ RecordPatch(w) \/ RemakeRow(w)
      PROVE  Within(AttemptPlaces, {}) /\ ReviewTyped' /\ ClerksPlaced'
  BY <1>1, WriterActions, ReviewStepTyped
<1>2. Pipeline \notin Clerks /\ Made \in Leads /\ Pipeline \in Writers
  BY DEF ConsoleAssumption, Writers
<1>3. ASSUME UNCHANGED <<menu, audit, clerk, active, discarded>>,
             Fault \/ UNCHANGED faults, ReviewTyped',
             \A p \in Clerks : draft'[p] = draft[p]
      PROVE  Within(AttemptPlaces, {}) /\ ReviewTyped' /\ ClerksPlaced'
  <2>1. faults' \in 0..MaxFaults
    BY <1>3, FaultTyped DEF Typed, DeskTyped, ConsoleAssumption
  <2>2. DeskKept BY <1>3, <2>1 DEF DeskKept, Typed, DeskTyped
  <2>3. ClerksPlaced' BY <1>3 DEF ClerksPlaced, Typed
  <2>4. QED BY <1>3, <2>2, <2>3 DEF Within
<1>4. CASE TakeMessage(Made)
  <2>1. /\ Starts(Pipeline, Made) /\ due' \subseteq Later BY <1>4, TakeStarts
  <2>2. ReviewTyped' /\ \A p \in Clerks : draft'[p] = draft[p]
    BY <1>2, <2>1 DEF Starts, ReviewTyped, Typed, Writers
  <2>3. QED BY <1>3, <1>4, <2>2 DEF TakeMessage
<1>5. CASE EditCell(Made)
  <2>1. PICK v \in {Hand, Blank, Gone} :
           field' = [field EXCEPT ![Made] = [@ EXCEPT !.cell = v, !.edited = TRUE]]
    BY <1>5 DEF EditCell
  <2>2. field' \in [Leads -> FieldState]
    <3>1. PICK g : g = [field[Made] EXCEPT !.cell = v, !.edited = TRUE] OBVIOUS
    <3>2. Made \in Leads /\ field[Made] \in FieldState
      BY <1>2 DEF Typed, ReviewTyped
    <3>3. g \in FieldState BY <3>1, <3>2 DEF FieldState
    <3>4. field' = [field EXCEPT ![Made] = g] BY <2>1, <3>1
    <3>5. QED BY <3>3, <3>4 DEF Typed, ReviewTyped
  <2>3. ReviewTyped' /\ \A p \in Clerks : draft'[p] = draft[p]
    BY <1>5, <2>2 DEF EditCell, ReviewTyped, Typed
  <2>4. QED BY <1>3, <1>5, <2>3 DEF EditCell
<1>6. CASE PipelineDies
  <2>1. DropDraft(Pipeline) /\ UNCHANGED due BY <1>6 DEF PipelineDies
  <2>2. ReviewTyped' /\ \A p \in Clerks : draft'[p] = draft[p]
    BY <1>2, <2>1, DropTyped, NoDraftFits DEF ReviewTyped, Typed, Writers
  <2>3. QED BY <1>3, <1>6, <2>2 DEF PipelineDies
<1>7. QED BY <1>1, <1>4, <1>5, <1>6 DEF ReviewNext

LEMMA ReviewKeepsFields ==
  ASSUME ConsoleAssumption, Typed, PlansFit, CleanFields, ReviewNext
  PROVE  PlansFit' /\ CleanFields'
<1>1. ASSUME NEW w \in Writers,
             \/ Look(w) \/ MakePlan(w) \/ Reread(w) \/ SavePlan(w) \/ GuardWrite(w)
             \/ WriteCell(w) \/ RecordPatch(w) \/ RemakeRow(w)
      PROVE  PlansFit' /\ CleanFields'
  <2>1. ReviewStep(w) /\ UNCHANGED discarded BY <1>1, WriterActions
  <2>2. PICK e, g : WriterSteps(w, e, g) BY <2>1 DEF ReviewStep
  <2>3. QED BY <2>1, <2>2, WriterKeepsFields
<1>2. CASE TakeMessage(Made)
  BY <1>2, TakeStarts, StartKeepsFields DEF TakeMessage
<1>3. CASE EditCell(Made)
  BY <1>3, EditKeepsFields DEF ConsoleAssumption
<1>4. CASE PipelineDies
  <2>1. Pipeline \in Writers BY DEF Writers
  <2>2. QED BY <1>4, <2>1, DropKeepsFields DEF PipelineDies
<1>5. QED BY <1>1, <1>2, <1>3, <1>4 DEF ReviewNext

-----------------------------------------------------------------------------
(* The steps of the retry part *)

RetryPlaces == AttemptPlaces \cup {"retry", "reassign", "assign", "report"}

RetryWithin == Within(RetryPlaces, {"retry", "reassign"})

(* Attempts are added and keep their leads. *)
AttemptsKept ==
    /\ attempt' \in Seq(AttemptState) /\ Len(attempt) <= Len(attempt')
    /\ \A n \in 1..Len(attempt) : attempt'[n].lead = attempt[n].lead

LEMMA AttemptChanged ==
  ASSUME Typed, NEW n \in 1..Len(attempt), NEW e \in AttemptState,
         e.lead = attempt[n].lead, attempt' = [attempt EXCEPT ![n] = e]
  PROVE  AttemptsKept
<1>1. attempt \in Seq(AttemptState) BY DEF Typed, RetryTyped
<1>2. /\ attempt' \in Seq(AttemptState) /\ Len(attempt') = Len(attempt)
      /\ \A j \in 1..Len(attempt) : attempt'[j] = IF j = n THEN e ELSE attempt[j]
  BY <1>1, ExceptSeq
<1>3. Len(attempt) \in Nat BY <1>1
<1>4. QED BY <1>2, <1>3 DEF AttemptsKept

LEMMA AttemptSame ==
  ASSUME Typed, UNCHANGED attempt PROVE AttemptsKept
<1>1. attempt \in Seq(AttemptState) /\ Len(attempt) \in Nat BY DEF Typed, RetryTyped
<1>2. QED BY <1>1 DEF AttemptsKept

LEMMA PlacedAfter ==
  ASSUME Typed, AttemptsKept, UNCHANGED draft, NEW p \in Clerks,
         clerk[p].pc # "patching", \A q \in Clerks : q # p => clerk'[q] = clerk[q],
         clerk'[p].pc \in AttemptPlaces =>
           clerk'[p].op \in 1..Len(attempt') /\ attempt'[clerk'[p].op].lead \in Leads
  PROVE  ClerksPlaced'
<1>1. Len(attempt) \in Nat /\ Len(attempt') \in Nat
  BY DEF AttemptsKept, Typed, RetryTyped
<1>2. ASSUME NEW q \in Clerks
      PROVE  /\ clerk'[q].pc \in AttemptPlaces =>
                  clerk'[q].op \in 1..Len(attempt') /\ attempt'[clerk'[q].op].lead \in Leads
             /\ draft'[q].pc # "none" => clerk'[q].pc = "patching"
  <2>1. CASE q = p BY <2>1 DEF Typed, ClerksPlaced
  <2>2. CASE q # p
    <3>1. clerk'[q] = clerk[q] BY <2>2
    <3>2. clerk[q].pc \in AttemptPlaces =>
            clerk[q].op \in 1..Len(attempt) /\ attempt[clerk[q].op].lead \in Leads
      BY DEF Typed, ClerksPlaced
    <3>3. QED BY <1>1, <3>1, <3>2 DEF Typed, ClerksPlaced, AttemptsKept
  <2>3. QED BY <2>1, <2>2
<1>3. QED BY <1>2 DEF ClerksPlaced

(* The answer of a request, whatever is left unsettled. *)
LEMMA AnswerPlaced ==
  ASSUME Typed, MaxFaults \in Nat, NEW p \in Clerks, NEW res \in Outcomes,
         res # "absent", clerk[p].pc \in RetryPlaces \ {"patching"}, Answer(p, res),
         UNCHANGED <<menu, audit, active, discarded, faults, draft>>, AttemptsKept
  PROVE  RetryWithin /\ ClerksPlaced'
<1>1. clerk[p].pc # "idle" /\ DeskTyped BY DEF RetryPlaces, AttemptPlaces, Typed
<1>2. Moves(p, RetryPlaces) BY <1>1, AnswerMoves DEF RetryPlaces
<1>3. RetryWithin BY <1>1, <1>2, MovesWithin DEF RetryWithin
<1>4. clerk'[p].pc = "report" /\ \A q \in Clerks : q # p => clerk'[q] = clerk[q]
  BY DEF Answer, Typed, DeskTyped, ClerkState
<1>5. ClerksPlaced' BY <1>4, PlacedAfter DEF AttemptPlaces
<1>6. QED BY <1>3, <1>5

LEMMA RefusePlaced ==
  ASSUME Typed, MaxFaults \in Nat, NEW p \in Clerks,
         clerk[p].pc \in RetryPlaces \ {"patching"}, Refuse(p),
         UNCHANGED <<menu, audit, active, discarded, faults, draft>>, AttemptsKept
  PROVE  RetryWithin /\ ClerksPlaced'
<1>1. "failed" \in Outcomes BY DEF Outcomes
<1>2. QED BY <1>1, AnswerPlaced DEF Refuse

LEMMA AskRetryWithin ==
  ASSUME ConsoleAssumption, Typed, NEW p \in Clerks, UNCHANGED reviewVars,
         AskRetry(p) \/ \E l \in Leads : AskReassign(p, l)
  PROVE  RetryWithin /\ RetryTyped' /\ ClerksPlaced'
<1>1. Begins(p, {"retry", "reassign"}) /\ DeskKept
  <2>1. CASE AskRetry(p)
    <3>1. \A r \in Requests : Fits([pc |-> "retry", kind |-> "retry", req |-> r,
                                   op |-> None, to |-> None, res |-> None])
      BY DEF Fits, ClerkState, Places, OtherPlaces, TransferPlaces, CreationPlaces,
             Operations
    <3>2. QED BY <2>1, <3>1, BeginBegins DEF AskRetry, Typed
  <2>2. ASSUME NEW l \in Leads, AskReassign(p, l)
        PROVE  Begins(p, {"retry", "reassign"}) /\ DeskKept
    <3>1. \A r \in Requests : Fits([pc |-> "reassign", kind |-> "reassign", req |-> r,
                                   op |-> l, to |-> None, res |-> None])
      BY DEF Fits, ClerkState, Places, OtherPlaces, TransferPlaces, CreationPlaces,
             Operations
    <3>2. QED BY <2>2, <3>1, BeginBegins DEF AskReassign, Typed
  <2>3. QED BY <2>1, <2>2
<1>2. UNCHANGED retryVars BY DEF AskRetry, AskReassign
<1>3. RetryTyped' /\ AttemptsKept
  BY <1>2, AttemptSame DEF retryVars, RetryTyped, Typed
<1>4. /\ clerk[p].pc = "idle" /\ clerk'[p].pc \in {"retry", "reassign"}
      /\ \A q \in Clerks : q # p => clerk'[q] = clerk[q]
  BY <1>1 DEF Begins, Typed, DeskTyped
<1>5. ClerksPlaced' BY <1>3, <1>4, PlacedAfter DEF reviewVars, AttemptPlaces
<1>6. QED BY <1>1, <1>3, <1>5 DEF RetryWithin, Within

LEMMA LastAttempt ==
  ASSUME Typed, NEW st, LatestIs(st)
  PROVE  /\ Last \in 1..Len(attempt) /\ attempt[Last] \in AttemptState
         /\ attempt[Last].st = st
<1>1. attempt \in Seq(AttemptState) /\ Len(attempt) \in Nat BY DEF Typed, RetryTyped
<1>2. Last \in 1..Len(attempt) BY <1>1 DEF LatestIs, Last
<1>3. QED BY <1>1, <1>2, ElementOfSeq DEF LatestIs

LEMMA RetryAnsweredWithin ==
  ASSUME ConsoleAssumption, Typed, NEW p \in Clerks, UNCHANGED reviewVars,
         RetryAnswered(p)
  PROVE  RetryWithin /\ RetryTyped' /\ ClerksPlaced'
<1>0. /\ clerk[p].pc \in RetryPlaces \ {"patching"} /\ MaxFaults \in Nat
      /\ UNCHANGED <<menu, audit, active, discarded, faults, draft>>
      /\ UNCHANGED retryVars
  BY DEF RetryAnswered, At, RetryPlaces, reviewVars, retryVars, ConsoleAssumption
<1>1. RetryTyped' /\ AttemptsKept
  BY <1>0, AttemptSame DEF retryVars, RetryTyped, Typed
<1>2. {"processing", "succeeded", "no_target"} \subseteq Outcomes BY DEF Outcomes
<1>3. RetryWithin /\ ClerksPlaced'
  <2>1. CASE Refuse(p) BY <1>0, <1>1, <2>1, RefusePlaced
  <2>2. CASE \E res \in {"processing", "succeeded", "no_target"} : Answer(p, res)
    BY <1>0, <1>1, <1>2, <2>2, AnswerPlaced
  <2>3. QED BY <2>1, <2>2 DEF RetryAnswered
<1>4. QED BY <1>1, <1>3

(* A clerk that starts on attempt n. *)
LEMMA SupplementPlaced ==
  ASSUME Typed, MaxFaults \in Nat, NEW p \in Clerks, clerk[p].pc = "retry",
         NEW c, Fits(c), c.pc = "supplement", c.req = clerk[p].req,
         clerk' = [clerk EXCEPT ![p] = c],
         c.op \in 1..Len(attempt'), attempt'[c.op].lead \in Leads,
         UNCHANGED <<menu, audit, active, discarded, faults, draft>>, AttemptsKept
  PROVE  RetryWithin /\ ClerksPlaced'
<1>1. clerk[p].pc # "idle" /\ DeskTyped BY DEF Typed
<1>2. Moves(p, RetryPlaces)
  BY <1>1, AuditSame DEF Moves, RetryPlaces, AttemptPlaces
<1>3. RetryWithin BY <1>1, <1>2, MovesWithin DEF RetryWithin
<1>4. clerk'[p] = c /\ \A q \in Clerks : q # p => clerk'[q] = clerk[q]
  BY DEF Typed, DeskTyped
<1>5. ClerksPlaced' BY <1>4, PlacedAfter
<1>6. QED BY <1>3, <1>5

LEMMA RetryTakesOverWithin ==
  ASSUME ConsoleAssumption, Typed, NEW p \in Clerks, UNCHANGED reviewVars,
         RetryTakesOver(p)
  PROVE  RetryWithin /\ RetryTyped' /\ ClerksPlaced'
<1> DEFINE same == RetryTarget # None /\ RetryTarget = attempt[Last].lead
<1>0. /\ clerk[p].pc = "retry" /\ MaxFaults \in Nat
      /\ clerk[p].pc \in RetryPlaces \ {"patching"}
      /\ UNCHANGED <<menu, audit, active, discarded, faults, draft>>
      /\ UNCHANGED <<event, sync, assigned>>
  BY DEF RetryTakesOver, At, RetryPlaces, reviewVars, ConsoleAssumption
<1>1. /\ Last \in 1..Len(attempt) /\ attempt[Last] \in AttemptState
  BY LastAttempt DEF RetryTakesOver, AttemptOpen
<1>2. attempt \in Seq(AttemptState) /\ Len(attempt) \in Nat /\ Last \in Nat
  BY <1>1 DEF Typed, RetryTyped
<1>3. PICK e : e = IF same THEN [attempt[Last] EXCEPT !.fresh = TRUE]
                   ELSE [attempt[Last] EXCEPT !.st = "no_target"]
  OBVIOUS
<1>4. e \in AttemptState /\ e.lead = attempt[Last].lead BY <1>1, <1>3 DEF AttemptState
<1>5. attempt' = [attempt EXCEPT ![Last] = e] BY <1>3 DEF RetryTakesOver
<1>6. AttemptsKept BY <1>1, <1>4, <1>5, AttemptChanged
<1>7. RetryTyped' BY <1>0, <1>6 DEF RetryTyped, Typed, AttemptsKept
<1>8. CASE same
  <2>1. clerk' = [clerk EXCEPT ![p].pc = "supplement", ![p].op = Last]
    BY <1>8 DEF RetryTakesOver
  <2> DEFINE c == [clerk[p] EXCEPT !.pc = "supplement", !.op = Last]
  <2>2. clerk' = [clerk EXCEPT ![p] = c] BY <2>1 DEF Typed, DeskTyped
  <2>3. clerk[p] \in ClerkState /\ clerk[p].req \in Requests /\ clerk[p].to = None
    BY <1>0 DEF Typed, DeskTyped, Fits
  <2>4. attempt[Last].lead \in Leads /\ attempt'[Last].lead = attempt[Last].lead
    <3>1. attempt[Last].lead \in Leads \cup {None} BY <1>1 DEF AttemptState
    <3>2. QED BY <1>1, <1>6, <1>8, <3>1 DEF AttemptsKept
  <2>5. Last \in 1..Len(attempt') BY <1>1, <1>2, <1>6 DEF AttemptsKept
  <2>6. /\ c \in ClerkState /\ c.pc = "supplement" /\ c.op = Last /\ c.to = None
        /\ c.req = clerk[p].req
    BY <1>2, <2>3 DEF ClerkState, Places, AttemptPlaces
  <2>7. Fits(c) BY <2>3, <2>6 DEF Fits, TransferPlaces, CreationPlaces
  <2>8. QED
    BY <1>0, <1>6, <1>7, <2>2, <2>4, <2>5, <2>6, <2>7, SupplementPlaced
<1>9. CASE ~same
  <2>1. Answer(p, "no_target") /\ "no_target" \in Outcomes
    BY <1>9 DEF RetryTakesOver, Outcomes
  <2>2. QED BY <1>0, <1>6, <1>7, <2>1, AnswerPlaced
<1>10. QED BY <1>8, <1>9

LEMMA RetryStartsWithin ==
  ASSUME ConsoleAssumption, Typed, NEW p \in Clerks, UNCHANGED reviewVars,
         RetryStarts(p)
  PROVE  RetryWithin /\ RetryTyped' /\ ClerksPlaced'
<1>0. /\ clerk[p].pc = "retry" /\ MaxFaults \in Nat
      /\ clerk[p].pc \in RetryPlaces \ {"patching"}
      /\ UNCHANGED <<menu, audit, active, discarded, faults, draft>>
      /\ UNCHANGED <<event, sync, assigned>>
  BY DEF RetryStarts, At, RetryPlaces, reviewVars, ConsoleAssumption
<1>1. attempt \in Seq(AttemptState) /\ Len(attempt) \in Nat
  BY DEF Typed, RetryTyped
<1>2. RetryTarget \in Leads \cup {None}
  BY DEF RetryTarget, Typed, RetryTyped, ConsoleAssumption
<1>3. CASE Refuse(p) /\ UNCHANGED attempt
  BY <1>0, <1>3, AttemptSame, RefusePlaced DEF RetryTyped, Typed
<1>4. CASE attempt' # attempt \/ ~Refuse(p)
  <2>1. PICK e : e = NewAttempt(RetryTarget,
                        IF RetryTarget = None THEN "no_target" ELSE "processing")
    OBVIOUS
  <2>2. e \in AttemptState /\ e.lead = RetryTarget
    BY <1>2, <2>1 DEF NewAttempt, AttemptState
  <2>3. attempt' = Append(attempt, e) BY <1>4, <2>1 DEF RetryStarts
  <2>4. /\ attempt' \in Seq(AttemptState) /\ Len(attempt') = Len(attempt) + 1
        /\ \A i \in 1..Len(attempt) : attempt'[i] = attempt[i]
        /\ attempt'[Len(attempt) + 1] = e
    BY <1>1, <2>2, <2>3, AppendProperties
  <2>5. AttemptsKept BY <1>1, <2>4 DEF AttemptsKept
  <2>6. RetryTyped' BY <1>0, <2>5 DEF RetryTyped, Typed, AttemptsKept
  <2>7. CASE RetryTarget = None
    <3>1. Answer(p, "no_target") /\ "no_target" \in Outcomes
      BY <1>4, <2>7 DEF RetryStarts, Outcomes
    <3>2. QED BY <1>0, <2>5, <2>6, <3>1, AnswerPlaced
  <2>8. CASE RetryTarget # None
    <3>1. PICK v : v = IF PlanRecovered THEN field[Made].val ELSE None OBVIOUS
    <3> DEFINE c == [clerk[p] EXCEPT !.pc = "supplement", !.op = Last + 1, !.to = v]
    <3>2. clerk' = [clerk EXCEPT ![p] = c] BY <1>4, <2>8, <3>1 DEF RetryStarts
    <3>3. v \in Values \cup {None}
      <4>1. CASE PlanRecovered
        <5>1. field[Made].val # Blank BY <1>4, <4>1 DEF RetryStarts
        <5>2. field[Made].val \in Values \cup {Blank}
          BY DEF Typed, ReviewTyped, FieldState, ConsoleAssumption
        <5>3. QED BY <3>1, <4>1, <5>1, <5>2
      <4>2. CASE ~PlanRecovered BY <3>1, <4>2
      <4>3. QED BY <4>1, <4>2
    <3>4. Last + 1 \in Nat /\ Last = Len(attempt) BY <1>1 DEF Last
    <3>5. Fits(c) /\ c.pc = "supplement" /\ c.op = Last + 1 /\ c.req = clerk[p].req
      <4>1. clerk[p] \in ClerkState /\ clerk[p].req \in Requests
        BY <1>0 DEF Typed, DeskTyped, Fits
      <4>2. /\ c \in ClerkState /\ c.pc = "supplement" /\ c.op = Last + 1 /\ c.to = v
            /\ c.req = clerk[p].req
        <5>1. "supplement" \in Places BY DEF Places, AttemptPlaces
        <5>2. PICK n \in Nat : n = Last + 1 BY <3>4
        <5>3. PICK o \in ClerkState : o = clerk[p] BY <4>1
        <5>4. PICK q : q = [o EXCEPT !.pc = "supplement", !.op = n, !.to = v] OBVIOUS
        <5>5. q \in ClerkState BY <3>3, <5>1, <5>4 DEF ClerkState
        <5>6. q.pc = "supplement" /\ q.op = n /\ q.to = v /\ q.req = o.req
          BY <5>4 DEF ClerkState
        <5>7. q = c BY <5>2, <5>3, <5>4
        <5>8. QED BY <5>2, <5>3, <5>5, <5>6, <5>7
      <4>3. QED BY <3>3, <4>1, <4>2 DEF Fits, TransferPlaces, CreationPlaces
    <3>6. c.op \in 1..Len(attempt') /\ attempt'[c.op].lead \in Leads
      BY <1>1, <1>2, <2>2, <2>4, <2>8, <3>4, <3>5
    <3>7. QED BY <1>0, <2>5, <2>6, <3>2, <3>5, <3>6, SupplementPlaced
  <2>9. QED BY <2>7, <2>8
<1>5. QED BY <1>3, <1>4

LEMMA RetryWrittenWithin ==
  ASSUME ConsoleAssumption, Typed, NEW p \in Clerks, UNCHANGED reviewVars,
         RetryWritten(p)
  PROVE  RetryWithin /\ RetryTyped' /\ ClerksPlaced'
<1>0. /\ clerk[p].pc \in RetryPlaces \ {"patching"} /\ MaxFaults \in Nat
      /\ clerk[p].pc \in AttemptPlaces
      /\ UNCHANGED <<menu, audit, active, discarded, faults, draft, assigned>>
  BY DEF RetryWritten, At, RetryPlaces, AttemptPlaces, reviewVars, ConsoleAssumption
<1>1. PICK st \in {"succeeded", "failed_pending_review"} :
         Settle(clerk[p].op, st) /\ Answer(p, st)
  BY DEF RetryWritten
<1>2. clerk[p].op \in 1..Len(attempt) /\ attempt \in Seq(AttemptState)
  BY <1>0 DEF Typed, ClerksPlaced, RetryTyped
<1>3. attempt[clerk[p].op] \in AttemptState BY <1>2, ElementOfSeq
<1> DEFINE e == [attempt[clerk[p].op] EXCEPT !.st = st]
<1>4. e \in AttemptState /\ e.lead = attempt[clerk[p].op].lead
  BY <1>3 DEF AttemptState
<1>5. attempt' = [attempt EXCEPT ![clerk[p].op] = e]
  BY <1>1 DEF Settle
<1>6. AttemptsKept BY <1>2, <1>4, <1>5, AttemptChanged
<1>7. RetryTyped'
  BY <1>0, <1>1, <1>6 DEF RetryTyped, Typed, AttemptsKept, Settle, ConsoleAssumption
<1>8. st \in Outcomes /\ st # "absent" BY DEF Outcomes
<1>9. QED BY <1>0, <1>1, <1>6, <1>7, <1>8, AnswerPlaced

LEMMA ReassignWithin ==
  ASSUME ConsoleAssumption, Typed, NEW p \in Clerks, UNCHANGED reviewVars,
         PrepareReassign(p) \/ Assign(p)
  PROVE  RetryWithin /\ RetryTyped' /\ ClerksPlaced'
<1> USE DEF PrepareReassign, Assign, At
<1>0. /\ clerk[p].pc \in RetryPlaces \ {"patching"} /\ MaxFaults \in Nat
      /\ clerk[p].pc \in {"reassign", "assign"}
      /\ UNCHANGED <<menu, audit, active, discarded, faults, draft, event, sync, attempt>>
  BY DEF RetryPlaces, reviewVars, retryVars, ConsoleAssumption
<1>1. AttemptsKept BY <1>0, AttemptSame
<1>2. clerk[p].op \in Leads BY <1>0 DEF Typed, DeskTyped, Fits
<1>3. assigned' \in {assigned, clerk[p].op} BY DEF retryVars
<1>4. RetryTyped' BY <1>0, <1>2, <1>3 DEF RetryTyped, Typed
<1>5. CASE Refuse(p) BY <1>0, <1>1, <1>4, <1>5, RefusePlaced
<1>6. CASE Answer(p, "succeeded")
  <2>1. "succeeded" \in Outcomes BY DEF Outcomes
  <2>2. QED BY <1>0, <1>1, <1>4, <1>6, <2>1, AnswerPlaced
<1>7. CASE Go(p, "assign")
  <2> DEFINE c == [clerk[p] EXCEPT !.pc = "assign"]
  <2>1. clerk[p] \in ClerkState /\ clerk[p].req \in Requests /\ DeskTyped
    BY <1>0 DEF Typed, DeskTyped, Fits
  <2>2. /\ c \in ClerkState /\ c.pc = "assign" /\ c.op = clerk[p].op
        /\ c.req = clerk[p].req
    BY <2>1 DEF ClerkState, Places, OtherPlaces
  <2>3. Fits(c) BY <1>2, <2>1, <2>2 DEF Fits, TransferPlaces, CreationPlaces
  <2>4. Moves(p, RetryPlaces) /\ clerk' = [clerk EXCEPT ![p] = c]
    BY <1>0, <1>7, <2>1, <2>3, GoMoves DEF RetryPlaces
  <2>5. RetryWithin BY <1>0, <2>1, <2>4, MovesWithin DEF RetryWithin
  <2>6. clerk'[p] = c /\ \A q \in Clerks : q # p => clerk'[q] = clerk[q]
    BY <2>4 DEF Typed, DeskTyped
  <2>7. ClerksPlaced' BY <1>0, <1>1, <2>2, <2>6, PlacedAfter DEF AttemptPlaces
  <2>8. QED BY <1>4, <2>5, <2>7
<1>8. QED BY <1>5, <1>6, <1>7

LEMMA AttemptLapsesWithin ==
  ASSUME ConsoleAssumption, Typed, UNCHANGED reviewVars, AttemptLapses
  PROVE  RetryWithin /\ RetryTyped' /\ ClerksPlaced'
<1> USE DEF AttemptLapses
<1>1. Last \in 1..Len(attempt) /\ attempt[Last] \in AttemptState
  BY LastAttempt DEF AttemptOpen
<1> DEFINE e == [attempt[Last] EXCEPT !.fresh = FALSE]
<1>2. e \in AttemptState /\ e.lead = attempt[Last].lead BY <1>1 DEF AttemptState
<1>3. attempt' = [attempt EXCEPT ![Last] = e] OBVIOUS
<1>4. AttemptsKept BY <1>1, <1>2, <1>3, AttemptChanged
<1>5. RetryTyped' BY <1>4 DEF RetryTyped, Typed, AttemptsKept
<1>6. faults' \in 0..MaxFaults
  BY FaultTyped DEF Typed, DeskTyped, ConsoleAssumption
<1>7. RetryWithin BY <1>6 DEF RetryWithin, Within, DeskKept, Typed, DeskTyped
<1>8. Len(attempt) \in Nat /\ Len(attempt') \in Nat
  BY <1>4 DEF AttemptsKept, Typed, RetryTyped
<1>9. ClerksPlaced'
  <2>1. ASSUME NEW q \in Clerks, clerk[q].pc \in AttemptPlaces
        PROVE  clerk[q].op \in 1..Len(attempt') /\ attempt'[clerk[q].op].lead \in Leads
    BY <1>4, <1>8, <2>1 DEF Typed, ClerksPlaced, AttemptsKept
  <2>2. QED BY <2>1 DEF Typed, ClerksPlaced, reviewVars
<1>10. QED BY <1>5, <1>7, <1>9

LEMMA SupplementStarts ==
  ASSUME ConsoleAssumption, Typed, NEW p \in Clerks, Supplement(p)
  PROVE  /\ clerk[p].pc = "supplement" /\ p \in Writers /\ draft[p].pc = "none"
         /\ UNCHANGED <<menu, audit, active, discarded, due, retryVars>>
         /\ \/ Fault /\ Go(p, "retry_failed") /\ UNCHANGED <<field, draft>>
            \/ /\ UNCHANGED faults /\ Go(p, "patching")
               /\ \E l \in Leads : Starts(p, l)
<1> DEFINE l == attempt[clerk[p].op].lead
<1>1. /\ clerk[p].pc = "supplement" /\ p \in Writers /\ draft[p].pc = "none"
  <2>1. clerk[p].pc = "supplement" BY DEF Supplement, At
  <2>2. clerk[p].pc # "patching" BY <2>1
  <2>3. QED BY <2>1, <2>2 DEF Writers, Typed, ClerksPlaced
<1>2. l \in Leads BY <1>1 DEF Typed, ClerksPlaced, AttemptPlaces
<1>3. clerk[p].to \in Values \cup {None} BY <1>1 DEF Typed, DeskTyped, Fits
<1>4. PICK v : v = IF clerk[p].to = None THEN Old ELSE clerk[p].to OBVIOUS
<1>5. v \in Values \cup {None} BY <1>3, <1>4 DEF Values
<1>6. PICK ack \in BOOLEAN : ack = (clerk[p].to # None) OBVIOUS
<1>7. CASE UNCHANGED faults /\ Go(p, "patching") /\ StartDraft(p, l, v, TRUE, ack)
  <2>1. PICK k \in Leads : k = l BY <1>2
  <2>2. StartDraft(p, k, v, TRUE, ack) BY <1>7, <2>1
  <2>3. Starts(p, k)
    <3> HIDE DEF l
    <3>1. PICK yes \in BOOLEAN : yes = TRUE OBVIOUS
    <3>2. StartDraft(p, k, v, yes, ack) BY <2>2, <3>1
    <3>3. p \in Writers BY <1>1
    <3>4. QED BY <1>5, <3>2, <3>3, StartTyped
  <2>4. QED BY <1>1, <1>7, <2>3 DEF Supplement
<1>8. CASE Fault /\ Go(p, "retry_failed") /\ UNCHANGED <<field, draft>>
  BY <1>1, <1>8 DEF Supplement
<1>9. QED BY <1>4, <1>6, <1>7, <1>8 DEF Supplement

LEMMA SupplementWithin ==
  ASSUME ConsoleAssumption, Typed, NEW p \in Clerks, Supplement(p)
  PROVE  RetryWithin /\ RetryTyped' /\ ReviewTyped' /\ ClerksPlaced'
<1>0. /\ clerk[p].pc = "supplement" /\ p \in Writers /\ draft[p].pc = "none"
      /\ UNCHANGED <<menu, audit, active, discarded, due, retryVars>>
      /\ \/ Fault /\ Go(p, "retry_failed") /\ UNCHANGED <<field, draft>>
         \/ /\ UNCHANGED faults /\ Go(p, "patching")
            /\ \E l \in Leads : Starts(p, l)
  BY SupplementStarts
<1>1. PICK x \in {"retry_failed", "patching"} :
         /\ Go(p, x)
         /\ x = "retry_failed" => UNCHANGED <<field, draft>>
         /\ x = "patching" => \E l \in Leads : Starts(p, l)
  BY <1>0
<1> DEFINE c == [clerk[p] EXCEPT !.pc = x]
<1>2. clerk[p] \in ClerkState /\ clerk[p].req \in Requests /\ DeskTyped
  BY <1>0 DEF Typed, DeskTyped, Fits
<1>3. c \in ClerkState /\ c.pc = x /\ c.op = clerk[p].op /\ c.req = clerk[p].req
  BY <1>2 DEF ClerkState, Places, AttemptPlaces
<1>4. Fits(c) BY <1>2, <1>3 DEF Fits, TransferPlaces, CreationPlaces
<1>5. Moves(p, RetryPlaces) /\ clerk' = [clerk EXCEPT ![p] = c]
  BY <1>0, <1>1, <1>2, <1>4, GoMoves DEF RetryPlaces, AttemptPlaces
<1>6. Fault \/ UNCHANGED faults BY <1>0
<1>7. RetryWithin
  BY <1>0, <1>2, <1>5, <1>6, MovesWithin DEF RetryWithin, ConsoleAssumption
<1>8. RetryTyped' BY <1>0 DEF retryVars, RetryTyped, Typed
<1>9. /\ ReviewTyped' /\ \A w \in Writers : w # p => draft'[w] = draft[w]
      /\ x = "retry_failed" => draft'[p].pc = "none"
  <2>1. CASE x = "retry_failed" BY <1>0, <1>1, <2>1 DEF ReviewTyped, Typed
  <2>2. CASE x = "patching" BY <1>0, <1>1, <2>2 DEF ReviewTyped, Typed, Starts
  <2>3. QED BY <2>1, <2>2
<1>10. clerk'[p] = c /\ \A q \in Clerks : q # p => clerk'[q] = clerk[q]
  BY <1>5 DEF Typed, DeskTyped
<1>11. ClerksPlaced'
  <2>1. attempt' = attempt BY <1>0 DEF retryVars
  <2>2. clerk[p].op \in 1..Len(attempt) /\ attempt[clerk[p].op].lead \in Leads
    BY <1>0 DEF ClerksPlaced, Typed, AttemptPlaces
  <2>3. /\ clerk'[p].op \in 1..Len(attempt') /\ attempt'[clerk'[p].op].lead \in Leads
        /\ draft'[p].pc # "none" => clerk'[p].pc = "patching"
    BY <1>3, <1>9, <1>10, <2>1, <2>2
  <2>4. \A q \in Clerks : q # p => clerk'[q] = clerk[q] /\ draft'[q] = draft[q]
    BY <1>9, <1>10 DEF Writers
  <2>5. QED BY <2>1, <2>3, <2>4 DEF ClerksPlaced, Typed
<1>12. QED BY <1>7, <1>8, <1>9, <1>11

LEMMA RetryNextWithin ==
  ASSUME ConsoleAssumption, Typed, RetryNext
  PROVE  RetryWithin /\ RetryTyped' /\ ReviewTyped' /\ ClerksPlaced'
<1>1. ASSUME UNCHANGED reviewVars PROVE ReviewTyped'
  BY <1>1 DEF reviewVars, ReviewTyped, Typed
<1>2. QED
  BY <1>1, AskRetryWithin, RetryAnsweredWithin, RetryTakesOverWithin, RetryStartsWithin,
     RetryWrittenWithin, ReassignWithin, AttemptLapsesWithin, SupplementWithin
     DEF RetryNext

LEMMA RetryKeepsFields ==
  ASSUME ConsoleAssumption, Typed, PlansFit, CleanFields, RetryNext
  PROVE  PlansFit' /\ CleanFields'
<1>1. CASE UNCHANGED reviewVars
  <2>1. RetryWithin BY RetryNextWithin
  <2>2. discarded \subseteq discarded' BY <2>1 DEF RetryWithin, Within, DeskKept
  <2>3. UNCHANGED <<field, draft>> BY <1>1 DEF reviewVars
  <2>4. PlansFit' BY <2>3 DEF PlansFit
  <2>5. CleanFields' BY <2>2, <2>3 DEF CleanFields, Recording
  <2>6. QED BY <2>4, <2>5
<1>2. ASSUME NEW p \in Clerks, Supplement(p) PROVE PlansFit' /\ CleanFields'
  <2>1. /\ p \in Writers /\ draft[p].pc = "none" /\ UNCHANGED discarded
        /\ \/ UNCHANGED <<field, draft>>
           \/ \E l \in Leads : Starts(p, l)
    BY <1>2, SupplementStarts
  <2>2. CASE UNCHANGED <<field, draft>>
    BY <2>1, <2>2 DEF PlansFit, CleanFields, Recording
  <2>3. CASE \E l \in Leads : Starts(p, l)
    BY <2>1, <2>3, StartKeepsFields
  <2>4. QED BY <2>1, <2>2, <2>3
<1>3. QED BY <1>1, <1>2 DEF RetryNext

-----------------------------------------------------------------------------
(* The steps of the desk itself *)

DeskWithin == Within({"report", "discard", "idle"}, {"discard"})

LEMMA ReportWithin ==
  ASSUME ConsoleAssumption, Typed, NEW p \in Clerks, Report(p)
  PROVE  DeskWithin
<1> USE DEF Report, At
<1>1. /\ clerk[p].pc = "report" /\ clerk[p].res \in Outcomes /\ clerk[p].res # "absent"
      /\ clerk[p].req \in Requests
  BY DEF Typed, DeskTyped, Fits
<1>2. AuditKept BY <1>1 DEF AuditKept, Typed, DeskTyped
<1>3. Fits(Idle) /\ Idle.pc = "idle"
  BY DEF Idle, Fits, ClerkState, Places, OtherPlaces, TransferPlaces, CreationPlaces
<1>4. Moves(p, {"report", "discard", "idle"}) BY <1>1, <1>2, <1>3 DEF Moves
<1>5. QED BY <1>4, MovesWithin DEF DeskWithin, Typed, ConsoleAssumption

LEMMA DiscardLeadWithin ==
  ASSUME ConsoleAssumption, Typed, NEW p \in Clerks, DiscardLead(p)
  PROVE  DeskWithin
<1> USE DEF DiscardLead, At
<1>1. clerk[p].pc = "discard" /\ clerk[p].op \in Leads BY DEF Typed, DeskTyped, Fits
<1>2. DeskKept BY <1>1 DEF DeskKept, Typed, DeskTyped
<1>3. "succeeded" \in Outcomes BY DEF Outcomes
<1>4. Moves(p, {"report", "discard", "idle"})
  BY <1>1, <1>3, AnswerMoves, RefuseMoves DEF Typed
<1>5. QED BY <1>2, <1>4 DEF DeskWithin, Within

LEMMA DeskNextWithin ==
  ASSUME ConsoleAssumption, Typed, DeskNext
  PROVE  DeskWithin
<1>1. ASSUME NEW p \in Clerks, NEW l \in Leads, AskDiscard(p, l) PROVE DeskWithin
  <2>1. \A r \in Requests : Fits([pc |-> "discard", kind |-> "discard", req |-> r,
                                 op |-> l, to |-> None, res |-> None])
    BY DEF Fits, ClerkState, Places, OtherPlaces, TransferPlaces, CreationPlaces,
           Operations
  <2>2. Begins(p, {"discard"}) /\ DeskKept
    BY <1>1, <2>1, BeginBegins DEF AskDiscard, Typed
  <2>3. QED BY <2>2 DEF DeskWithin, Within
<1>2. CASE WithdrawAdmin
  BY <1>2 DEF WithdrawAdmin, DeskWithin, Within, DeskKept, Typed, DeskTyped
<1>3. QED BY <1>1, <1>2, ReportWithin, DiscardLeadWithin DEF DeskNext

LEMMA CrashWithin ==
  ASSUME ConsoleAssumption, Typed, NEW p \in Clerks, ClerkCrashes(p)
  PROVE  /\ DeskKept /\ AuditKept /\ clerk' = [clerk EXCEPT ![p] = Idle]
         /\ Idle.pc = "idle" /\ DeskTyped' /\ RequestsApart'
<1> USE DEF ClerkCrashes
<1>1. faults' \in 0..MaxFaults
  BY FaultTyped DEF Typed, DeskTyped, ConsoleAssumption
<1>2. DeskKept BY <1>1 DEF DeskKept, Typed, DeskTyped
<1>3. AuditKept BY AuditSame DEF Typed
<1>4. Fits(Idle) /\ Idle \in ClerkState /\ Idle.pc = "idle"
  BY DEF Idle, Fits, ClerkState, Places, OtherPlaces, TransferPlaces, CreationPlaces
<1>5. clerk' \in [Clerks -> ClerkState] BY <1>4 DEF Typed, DeskTyped
<1>6. \A q \in Clerks : clerk'[q] = IF q = p THEN Idle ELSE clerk[q]
  BY DEF Typed, DeskTyped
<1>7. DeskTyped' BY <1>1, <1>2, <1>4, <1>5, <1>6 DEF DeskTyped, Typed
<1>8. RequestsApart' BY <1>4, <1>6 DEF RequestsApart, Typed
<1>9. QED BY <1>2, <1>3, <1>4, <1>7, <1>8

-----------------------------------------------------------------------------
(* Operations stay, and clerks find theirs *)

(* The clerk p goes on with its operation. *)
SameOp(p) ==
    /\ clerk'[p].op = clerk[p].op
    /\ \A q \in Clerks : q # p => clerk'[q] = clerk[q]

LEMMA KeepsOp ==
  ASSUME DeskTyped, NEW p \in Clerks, NEW x, NEW res, NEW rec,
         \/ Go(p, x) \/ Answer(p, res) \/ Refuse(p) \/ CloseWith(p, res)
         \/ Outcome(p, x, res, rec)
  PROVE  SameOp(p)
<1>1. clerk[p] \in ClerkState BY DEF DeskTyped
<1>2. QED BY <1>1 DEF Go, Answer, Refuse, CloseWith, Outcome, SameOp, DeskTyped, ClerkState

LEMMA BeginOp ==
  ASSUME DeskTyped, NEW p \in Clerks, NEW k, NEW o, NEW x, Begin(p, k, o, x)
  PROVE  /\ clerk'[p].op = o /\ clerk'[p].pc = k
         /\ \A q \in Clerks : q # p => clerk'[q] = clerk[q]
BY DEF Begin, DeskTyped

(* What an operation has become of a step: it stays there, and a success is *)
(* final.                                                                  *)
TransferLives(r) ==
    /\ transfer[r].st # "absent" => transfer'[r].st # "absent"
    /\ transfer[r].st = "succeeded" => transfer'[r].st = "succeeded"

CreationLives(r) ==
    /\ creation[r].st # "absent" => creation'[r].st # "absent"
    /\ creation[r].st = "succeeded" => creation'[r].st = "succeeded"

(* The status of an operation after an action of the transfer part. *)
LEMMA TransferAfter ==
  ASSUME ConsoleAssumption, Typed, OperationsApart, TransferNext, NEW r \in Requests
  PROVE  TransferLives(r)
<1> USE DEF TransferLives
<1>0. transfer \in [Requests -> TransferState] /\ transfer[r] \in TransferState
  BY DEF Typed, TransferTyped
<1>1. ASSUME UNCHANGED transfer PROVE TransferLives(r) BY <1>1
<1>2. ASSUME NEW p \in Clerks, PrepareTransfer(p) PROVE TransferLives(r)
  <2>1. transfer[clerk[p].req].st = "absent"
    BY <1>2 DEF PrepareTransfer, At, OperationsApart
  <2>2. QED BY <1>0, <1>2, <2>1 DEF PrepareTransfer, TransferState
<1>3. ASSUME NEW p \in Clerks, ClaimTransfer(p) PROVE TransferLives(r)
  BY <1>0, <1>3 DEF ClaimTransfer, OpenTransfer, TransferState
<1>4. ASSUME NEW p \in Clerks, MarkRemote(p) PROVE TransferLives(r)
  <2>1. "processing" \in Statuses /\ "succeeded" \in Remotes BY DEF Statuses, Remotes
  <2>2. transfer'[r] \in {transfer[r],
                          FinishTransfer(transfer[r], "processing", "succeeded")}
    BY <1>0, <1>4 DEF MarkRemote
  <2>3. QED BY <1>0, <2>1, <2>2, FinishTransferTyped
<1>5. ASSUME NEW p \in Clerks, SettleTransfer(p) PROVE TransferLives(r)
  BY <1>0, <1>5 DEF SettleTransfer, TransferState
<1>6. ASSUME NEW p \in Clerks, CloseTransfer(p) PROVE TransferLives(r)
  <2>1. PICK st, remote : st = ClosedStatus(clerk[p].res) /\ remote = ClosedRemote(clerk[p].res)
    OBVIOUS
  <2>2. st \in Statuses /\ remote \in Remotes /\ st # "absent"
    BY <2>1, ClosedTyped DEF Statuses
  <2>3. transfer'[r] \in {transfer[r], FinishTransfer(transfer[r], st, remote)}
    BY <1>0, <1>6, <2>1 DEF CloseTransfer
  <2>4. QED BY <1>0, <2>2, <2>3, FinishTransferTyped
<1>7. ASSUME NEW o \in Requests, LeaseLapses(o) PROVE TransferLives(r)
  BY <1>0, <1>7 DEF LeaseLapses, TransferState
<1>8. ASSUME NEW p \in Clerks, ReadRow(p) \/ SendOwner(p) \/ VerifyPermission(p)
      PROVE  TransferLives(r)
  BY <1>1, <1>8 DEF ReadRow, SendOwner, VerifyPermission, transferVars
<1>9. ASSUME NEW p \in Clerks, NEW x \in Sales, AskTransfer(p, x) PROVE TransferLives(r)
  BY <1>1, <1>9 DEF AskTransfer, transferVars
<1>10. ASSUME NEW p \in Clerks, NEW o \in Requests, AskReconcile(p, o)
       PROVE  TransferLives(r)
  BY <1>1, <1>10 DEF AskReconcile, transferVars
<1>11. CASE EditOwner BY <1>1, <1>11 DEF EditOwner
<1>12. QED BY <1>2, <1>3, <1>4, <1>5, <1>6, <1>7, <1>8, <1>9, <1>10, <1>11
           DEF TransferNext

LEMMA CreationAfter ==
  ASSUME ConsoleAssumption, Typed, OperationsApart, CreationNext, NEW r \in Requests
  PROVE  CreationLives(r)
<1> USE DEF CreationLives
<1>0. creation \in [Requests -> CreationState] /\ creation[r] \in CreationState
  BY DEF Typed, CreationTyped
<1>1. ASSUME UNCHANGED creation PROVE CreationLives(r) BY <1>1
<1>2. ASSUME NEW p \in Clerks, InsertLead(p) PROVE CreationLives(r)
  <2>1. creation[clerk[p].req].st = "absent"
    BY <1>2 DEF InsertLead, At, OperationsApart
  <2>2. QED BY <1>0, <1>2, <2>1 DEF InsertLead, CreationState, NoCreation
<1>3. ASSUME NEW p \in Clerks, KeepOutcome(p) PROVE CreationLives(r)
  <2>1. PICK st, remote, rec :
           /\ st = KeptStatus(clerk[p].res) /\ remote = KeptRemote(clerk[p].res)
           /\ rec = clerk[p].to
    OBVIOUS
  <2>2. st \in Statuses /\ remote \in Remotes /\ st # "absent"
    BY <2>1, KeptTyped DEF Statuses
  <2>3. rec \in Requests \cup {None}
    BY <1>3, <2>1 DEF KeepOutcome, At, Typed, DeskTyped, Fits
  <2>4. creation'[r] \in {creation[r], FinishCreation(creation[r], st, remote, rec)}
    BY <1>0, <1>3, <2>1 DEF KeepOutcome
  <2>5. QED BY <1>0, <2>2, <2>3, <2>4, FinishCreationTyped
<1>4. ASSUME NEW p \in Clerks, KeepUnverified(p) PROVE CreationLives(r)
  <2>1. PICK rec : rec = clerk[p].to OBVIOUS
  <2>2. "pending_recovery" \in Statuses /\ "unknown" \in Remotes
    BY DEF Statuses, Remotes
  <2>3. rec \in Requests \cup {None}
    BY <1>4, <2>1 DEF KeepUnverified, At, Typed, DeskTyped, Fits
  <2>4. creation'[r] \in {creation[r],
                          FinishCreation(creation[r], "pending_recovery", "unknown", rec)}
    BY <1>0, <1>4, <2>1 DEF KeepUnverified
  <2>5. QED BY <1>0, <2>2, <2>3, <2>4, FinishCreationTyped
<1>5. ASSUME NEW p \in Clerks, BindLead(p) PROVE CreationLives(r)
  <2>1. PICK o, rec : o = clerk[p].op /\ rec = clerk[p].to OBVIOUS
  <2>2. \/ creation' = creation
        \/ creation' = [creation EXCEPT ![o] =
             [creation[o] EXCEPT !.st = "succeeded", !.remote = "succeeded", !.rec = rec]]
    BY <1>5, <2>1 DEF BindLead
  <2>3. PICK n : n = [creation[o] EXCEPT !.st = "succeeded", !.remote = "succeeded", !.rec = rec]
    OBVIOUS
  <2>4. creation'[r] = creation[r] \/ (o = r /\ creation'[r] = n)
    BY <1>0, <2>2, <2>3
  <2>5. o = r => n.st = "succeeded" BY <1>0, <2>3 DEF CreationState
  <2>6. QED BY <2>4, <2>5
<1>6. ASSUME NEW p \in Clerks, ClaimCreation(p) PROVE CreationLives(r)
  <2>1. PICK o : o = clerk[p].op OBVIOUS
  <2>2. \/ creation' = creation
        \/ /\ creation[o].st # "succeeded"
           /\ creation' = [creation EXCEPT ![o].st = "processing", ![o].fresh = TRUE]
    BY <1>6, <2>1 DEF ClaimCreation
  <2>3. CASE creation' = creation BY <2>3
  <2>4. CASE /\ creation[o].st # "succeeded"
             /\ creation' = [creation EXCEPT ![o].st = "processing", ![o].fresh = TRUE]
    <3>1. creation'[r] = creation[r]
          \/ (r = o /\ creation'[r].st = "processing")
      BY <1>0, <2>4 DEF CreationState
    <3>2. QED BY <2>4, <3>1
  <2>5. QED BY <2>2, <2>3, <2>4
<1>7. ASSUME NEW o \in Requests, CreationLapses(o) PROVE CreationLives(r)
  BY <1>0, <1>7 DEF CreationLapses, CreationState
<1>8. ASSUME NEW p \in Clerks, CheckDuplicate(p) \/ CreateRow(p) \/ FindRow(p)
      PROVE  CreationLives(r)
  BY <1>1, <1>8 DEF CheckDuplicate, CreateRow, FindRow, creationVars
<1>9. ASSUME NEW p \in Clerks, AskCreate(p) PROVE CreationLives(r)
  BY <1>1, <1>9 DEF AskCreate, creationVars
<1>10. ASSUME NEW p \in Clerks, NEW o \in Requests, AskReconcileCreation(p, o)
       PROVE  CreationLives(r)
  BY <1>1, <1>10 DEF AskReconcileCreation, creationVars
<1>11. ASSUME NEW o \in Requests, DeleteRow(o) PROVE CreationLives(r)
  BY <1>1, <1>11 DEF DeleteRow
<1>12. QED BY <1>2, <1>3, <1>4, <1>5, <1>6, <1>7, <1>8, <1>9, <1>10, <1>11
           DEF CreationNext

(* The two halves of OperationsThere and OperationsApart. *)
TransferApart ==
    /\ \A r \in Requests : transfer[r].st # "absent" => audit[r] # "absent"
    /\ \A p \in Clerks :
         /\ clerk[p].pc \in TransferPlaces \ {"transfer"} =>
              transfer[clerk[p].op].st # "absent"
         /\ clerk[p].pc = "transfer" => transfer[clerk[p].req].st = "absent"

CreationApart ==
    /\ \A r \in Requests : creation[r].st # "absent" => audit[r] # "absent"
    /\ \A p \in Clerks :
         /\ clerk[p].pc \in CreationPlaces \ {"create", "insert"} =>
              creation[clerk[p].op].st # "absent"
         /\ clerk[p].pc \in {"create", "insert"} =>
              creation[clerk[p].req].st = "absent"

LEMMA ApartHalves ==
  OperationsThere /\ OperationsApart <=> TransferApart /\ CreationApart
BY DEF OperationsThere, OperationsApart, TransferApart, CreationApart

(* Steps that leave a part's clerks where they are, or take them away. *)
TransferSpared ==
    AuditKept /\ UNCHANGED transferVars
    /\ \A q \in Clerks : clerk'[q] = clerk[q] \/ clerk'[q].pc \notin TransferPlaces

CreationSpared ==
    AuditKept /\ UNCHANGED creationVars
    /\ \A q \in Clerks : clerk'[q] = clerk[q] \/ clerk'[q].pc \notin CreationPlaces

LEMMA SparedApart ==
  ASSUME Typed
  PROVE  /\ TransferApart /\ TransferSpared => TransferApart'
         /\ CreationApart /\ CreationSpared => CreationApart'
<1>1. ASSUME TransferApart, TransferSpared PROVE TransferApart'
  BY <1>1 DEF TransferApart, TransferSpared, transferVars, AuditKept, TransferPlaces
<1>2. ASSUME CreationApart, CreationSpared PROVE CreationApart'
  BY <1>2 DEF CreationApart, CreationSpared, creationVars, AuditKept, CreationPlaces
<1>3. QED BY <1>1, <1>2

(* A clerk goes on with its transfer; nothing else is touched. *)
TransferActs(p) ==
    /\ clerk[p].pc \in TransferPlaces \ {"transfer"} /\ SameOp(p)
    /\ clerk'[p].pc # "transfer"
    /\ \A r \in Requests : r # clerk[p].op => transfer'[r] = transfer[r]

LEMMA ActsApart ==
  ASSUME ConsoleAssumption, Typed, OperationsApart, TransferNext,
         NEW p \in Clerks, TransferActs(p)
  PROVE  TransferApart'
<1>1. AuditKept /\ DeskTyped'
  BY TransferStepWithin, WithinTyped DEF TransferWithin, Typed
<1>2. \A r \in Requests : TransferLives(r) BY TransferAfter
<1>3. TransferApart BY ApartHalves DEF Typed
<1>4. clerk[p].op \in Requests /\ transfer[clerk[p].op].st # "absent"
  BY <1>3 DEF TransferActs, TransferApart, Typed, DeskTyped, Fits
<1>5. \A r \in Requests : transfer'[r].st # "absent" => transfer[r].st # "absent"
  BY <1>4 DEF TransferActs
<1>6. \A r \in Requests : transfer'[r].st # "absent" => audit'[r] # "absent"
  BY <1>1, <1>3, <1>5 DEF TransferApart, AuditKept
<1>7. ASSUME NEW q \in Clerks
      PROVE  /\ clerk'[q].pc \in TransferPlaces \ {"transfer"} =>
                  transfer'[clerk'[q].op].st # "absent"
             /\ clerk'[q].pc = "transfer" => transfer'[clerk'[q].req].st = "absent"
  <2>1. CASE q = p BY <1>2, <1>4, <2>1 DEF TransferActs, SameOp, TransferLives
  <2>2. CASE q # p
    <3>1. clerk'[q] = clerk[q] BY <2>2 DEF TransferActs, SameOp
    <3>2. /\ clerk[q].pc \in TransferPlaces \ {"transfer"} => clerk[q].op \in Requests
          /\ clerk[q].pc = "transfer" => clerk[q].req \in Requests
      BY DEF Typed, DeskTyped, Fits
    <3>3. QED BY <1>2, <1>3, <1>5, <3>1, <3>2 DEF TransferApart, TransferLives
  <2>3. QED BY <2>1, <2>2
<1>8. QED BY <1>6, <1>7 DEF TransferApart

LEMMA TransferActions ==
  ASSUME ConsoleAssumption, Typed, NEW p \in Clerks,
         \/ ClaimTransfer(p) \/ ReadRow(p) \/ SendOwner(p) \/ MarkRemote(p)
         \/ VerifyPermission(p) \/ SettleTransfer(p) \/ CloseTransfer(p)
  PROVE  TransferActs(p)
<1>0. DeskTyped /\ transfer \in [Requests -> TransferState] BY DEF Typed, TransferTyped
<1>1. clerk[p] \in ClerkState /\ clerk[p].pc \in TransferPlaces \ {"transfer"}
  BY DEF ClaimTransfer, ReadRow, SendOwner, MarkRemote, VerifyPermission,
         SettleTransfer, CloseTransfer, At, TransferPlaces, Typed, DeskTyped
<1>2. \A r \in Requests : r # clerk[p].op => transfer'[r] = transfer[r]
  BY <1>0 DEF ClaimTransfer, ReadRow, SendOwner, MarkRemote, VerifyPermission,
         SettleTransfer, CloseTransfer, transferVars
<1>3. \/ \E x \in {"read", "send", "mark", "verify", "settle"} : Go(p, x)
      \/ \E res : Answer(p, res) \/ CloseWith(p, res)
  BY DEF ClaimTransfer, ReadRow, SendOwner, MarkRemote, VerifyPermission,
         SettleTransfer, CloseTransfer, Refuse
<1>4. SameOp(p) BY <1>0, <1>3, KeepsOp
<1>5. clerk'[p].pc # "transfer"
  <2>1. ASSUME NEW x \in {"read", "send", "mark", "verify", "settle"}, Go(p, x)
        PROVE  clerk'[p].pc # "transfer"
    BY <1>0, <1>1, <2>1 DEF DeskTyped, ClerkState, Go
  <2>2. ASSUME NEW res, Answer(p, res) \/ CloseWith(p, res)
        PROVE  clerk'[p].pc # "transfer"
    <3>1. \/ clerk'[p] = [clerk[p] EXCEPT !.pc = "report", !.res = res]
          \/ clerk'[p] = [clerk[p] EXCEPT !.pc = "close", !.res = res]
      BY <1>0, <2>2 DEF DeskTyped, Answer, CloseWith
    <3>2. QED BY <1>1, <3>1 DEF ClerkState
  <2>3. QED BY <1>3, <2>1, <2>2
<1>6. QED BY <1>1, <1>2, <1>4, <1>5 DEF TransferActs

(* A request that is begun has no operation yet. *)
LEMMA BegunAnew ==
  ASSUME Typed, OperationsApart, NEW p \in Clerks, NEW k, NEW o, NEW x,
         Begin(p, k, o, x)
  PROVE  /\ clerk'[p].pc = k /\ clerk'[p].op = o
         /\ clerk'[p].req \in Requests
         /\ transfer[clerk'[p].req].st = "absent"
         /\ creation[clerk'[p].req].st = "absent"
         /\ \A q \in Clerks : q # p => clerk'[q] = clerk[q]
<1>1. PICK r \in Requests :
         /\ NotBegun(r)
         /\ clerk' = [clerk EXCEPT ![p] =
                        [pc |-> k, kind |-> k, req |-> r, op |-> o, to |-> x,
                         res |-> None]]
  BY DEF Begin
<1>2. clerk'[p].req = r /\ \A q \in Clerks : q # p => clerk'[q] = clerk[q]
  BY <1>1 DEF Typed, DeskTyped
<1>3. transfer[r].st = "absent" /\ creation[r].st = "absent"
  BY <1>1 DEF NotBegun, OperationsApart
<1>4. clerk'[p].pc = k /\ clerk'[p].op = o BY <1>1 DEF Typed, DeskTyped
<1>5. QED BY <1>2, <1>3, <1>4

LEMMA PrepareApart ==
  ASSUME ConsoleAssumption, Typed, OperationsApart, TransferNext,
         NEW p \in Clerks, PrepareTransfer(p)
  PROVE  TransferApart'
<1> USE DEF PrepareTransfer, At
<1>1. AuditKept BY TransferStepWithin, WithinTyped DEF TransferWithin, Typed
<1>2. \A r \in Requests : TransferLives(r) BY TransferAfter
<1>3. TransferApart BY ApartHalves DEF Typed
<1>4. PICK r : r = clerk[p].req OBVIOUS
<1>5. /\ clerk[p] \in ClerkState /\ clerk[p].pc = "transfer" /\ r \in Requests
      /\ audit[r] # "absent"
      /\ \A q \in Clerks : q # p /\ clerk[q].pc # "idle" => clerk[q].req # r
  BY <1>4 DEF Typed, DeskTyped, RequestsApart, Fits
<1>6. \A x \in Requests : x # r => transfer'[x] = transfer[x]
  BY <1>4 DEF Typed, TransferTyped
<1>7. /\ \A q \in Clerks : q # p => clerk'[q] = clerk[q]
      /\ \/ clerk'[p].pc = "report"
         \/ clerk'[p].pc = "transfer_reconcile" /\ clerk'[p].op \in Requests
            /\ transfer[clerk'[p].op].st # "absent"
         \/ clerk'[p].pc = "send" /\ clerk'[p].op = r /\ transfer'[r].st = "processing"
  <2>0. clerk \in [Clerks -> ClerkState] /\ transfer \in [Requests -> TransferState]
    BY DEF Typed, DeskTyped, TransferTyped
  <2>1. CASE Refuse(p) BY <1>5, <2>0, <2>1 DEF Refuse, Answer, ClerkState
  <2>2. ASSUME NEW o \in Requests, OpenTransfer(o),
               clerk' = [clerk EXCEPT ![p].pc = "transfer_reconcile", ![p].op = o]
        PROVE  /\ \A q \in Clerks : q # p => clerk'[q] = clerk[q]
               /\ clerk'[p].pc = "transfer_reconcile" /\ clerk'[p].op = o
               /\ transfer[o].st # "absent"
    BY <1>5, <2>0, <2>2 DEF OpenTransfer, ClerkState
  <2>3. ASSUME NEW n, transfer' = [transfer EXCEPT ![r] =
                [st |-> "processing", remote |-> "pending", old |-> owner,
                 new |-> n, fresh |-> TRUE]],
               clerk' = [clerk EXCEPT ![p].pc = "send", ![p].op = r]
        PROVE  /\ \A q \in Clerks : q # p => clerk'[q] = clerk[q]
               /\ clerk'[p].pc = "send" /\ clerk'[p].op = r
               /\ transfer'[r].st = "processing"
    BY <1>5, <2>0, <2>3 DEF ClerkState
  <2>4. \/ Refuse(p)
        \/ \E o \in Requests : OpenTransfer(o)
             /\ clerk' = [clerk EXCEPT ![p].pc = "transfer_reconcile", ![p].op = o]
        \/ /\ transfer' = [transfer EXCEPT ![r] =
                [st |-> "processing", remote |-> "pending", old |-> owner,
                 new |-> clerk[p].to, fresh |-> TRUE]]
           /\ clerk' = [clerk EXCEPT ![p].pc = "send", ![p].op = r]
    BY <1>4
  <2>5. QED BY <2>1, <2>2, <2>3, <2>4
<1>8. ASSUME NEW x \in Requests, transfer'[x].st # "absent"
      PROVE  audit'[x] # "absent"
  BY <1>1, <1>3, <1>5, <1>6, <1>8 DEF TransferApart, AuditKept
<1>9. ASSUME NEW q \in Clerks
      PROVE  /\ clerk'[q].pc \in TransferPlaces \ {"transfer"} =>
                  transfer'[clerk'[q].op].st # "absent"
             /\ clerk'[q].pc = "transfer" => transfer'[clerk'[q].req].st = "absent"
  <2>1. CASE q = p BY <1>2, <1>7, <2>1 DEF TransferPlaces, TransferLives
  <2>2. CASE q # p
    <3>1. /\ clerk[q].pc \in TransferPlaces \ {"transfer"} => clerk[q].op \in Requests
          /\ clerk[q].pc = "transfer" => clerk[q].req \in Requests
      BY DEF Typed, DeskTyped, Fits
    <3>2. QED BY <1>2, <1>3, <1>5, <1>6, <1>7, <2>2, <3>1 DEF TransferApart, TransferLives
  <2>3. QED BY <2>1, <2>2
<1>10. QED BY <1>8, <1>9 DEF TransferApart

LEMMA TransferKeepsApart ==
  ASSUME ConsoleAssumption, Typed, OperationsApart, TransferNext
  PROVE  TransferApart'
<1>1. AuditKept BY TransferStepWithin, WithinTyped DEF TransferWithin, Typed
<1>2. TransferApart BY ApartHalves DEF Typed
<1>3. ASSUME NEW p \in Clerks, NEW x \in Sales, AskTransfer(p, x) PROVE TransferApart'
  <2>1. /\ clerk'[p].pc = "transfer" /\ transfer[clerk'[p].req].st = "absent"
        /\ \A q \in Clerks : q # p => clerk'[q] = clerk[q]
        /\ transfer' = transfer
    BY <1>3, BegunAnew DEF AskTransfer, transferVars
  <2>2. QED BY <1>1, <1>2, <2>1 DEF TransferApart, AuditKept
<1>4. ASSUME NEW p \in Clerks, NEW o \in Requests, AskReconcile(p, o)
      PROVE  TransferApart'
  <2>1. /\ clerk'[p].pc = "transfer_reconcile" /\ clerk'[p].op = o
        /\ transfer[o].st # "absent"
        /\ \A q \in Clerks : q # p => clerk'[q] = clerk[q]
        /\ transfer' = transfer
    BY <1>4, BegunAnew DEF AskReconcile, transferVars
  <2>2. QED BY <1>1, <1>2, <2>1 DEF TransferApart, AuditKept
<1>5. ASSUME NEW p \in Clerks, PrepareTransfer(p) PROVE TransferApart'
  BY <1>5, PrepareApart
<1>6. ASSUME NEW p \in Clerks,
             \/ ClaimTransfer(p) \/ ReadRow(p) \/ SendOwner(p) \/ MarkRemote(p)
             \/ VerifyPermission(p) \/ SettleTransfer(p) \/ CloseTransfer(p)
      PROVE  TransferApart'
  BY <1>6, TransferActions, ActsApart
<1>7. ASSUME UNCHANGED clerk, \A r \in Requests : transfer'[r].st = transfer[r].st
      PROVE  TransferApart'
  <2>1. /\ \A q \in Clerks : clerk[q].pc \in TransferPlaces \ {"transfer"} =>
             clerk[q].op \in Requests
        /\ \A q \in Clerks : clerk[q].pc = "transfer" => clerk[q].req \in Requests
    BY DEF Typed, DeskTyped, Fits
  <2>2. QED BY <1>1, <1>2, <1>7, <2>1 DEF TransferApart, AuditKept
<1>8. ASSUME NEW o \in Requests, LeaseLapses(o) PROVE TransferApart'
  <2>1. transfer \in [Requests -> TransferState] BY DEF Typed, TransferTyped
  <2>2. UNCHANGED clerk /\ \A r \in Requests : transfer'[r].st = transfer[r].st
    BY <1>8, <2>1 DEF LeaseLapses, TransferState
  <2>3. QED BY <1>7, <2>2
<1>9. CASE EditOwner BY <1>7, <1>9 DEF EditOwner
<1>10. QED BY <1>3, <1>4, <1>5, <1>6, <1>8, <1>9 DEF TransferNext

(* A clerk goes on with its creation; nothing else is touched. *)
CreationActs(p) ==
    /\ clerk[p].pc \in CreationPlaces \ {"create", "insert"} /\ SameOp(p)
    /\ clerk'[p].pc \notin {"create", "insert"}
    /\ \A r \in Requests : r # clerk[p].op => creation'[r] = creation[r]

LEMMA CreationActsApart ==
  ASSUME ConsoleAssumption, Typed, OperationsApart, CreationNext,
         NEW p \in Clerks, CreationActs(p)
  PROVE  CreationApart'
<1>1. AuditKept BY CreationStepWithin, WithinTyped DEF CreationWithin, Typed
<1>2. \A r \in Requests : CreationLives(r) BY CreationAfter
<1>3. CreationApart BY ApartHalves DEF Typed
<1>4. clerk[p].op \in Requests /\ creation[clerk[p].op].st # "absent"
  BY <1>3 DEF CreationActs, CreationApart, Typed, DeskTyped, Fits
<1>5. \A r \in Requests : creation'[r].st # "absent" => creation[r].st # "absent"
  BY <1>4 DEF CreationActs
<1>6. \A r \in Requests : creation'[r].st # "absent" => audit'[r] # "absent"
  BY <1>1, <1>3, <1>5 DEF CreationApart, AuditKept
<1>7. ASSUME NEW q \in Clerks
      PROVE  /\ clerk'[q].pc \in CreationPlaces \ {"create", "insert"} =>
                  creation'[clerk'[q].op].st # "absent"
             /\ clerk'[q].pc \in {"create", "insert"} =>
                  creation'[clerk'[q].req].st = "absent"
  <2>1. CASE q = p BY <1>2, <1>4, <2>1 DEF CreationActs, SameOp, CreationLives
  <2>2. CASE q # p
    <3>1. clerk'[q] = clerk[q] BY <2>2 DEF CreationActs, SameOp
    <3>2. /\ clerk[q].pc \in CreationPlaces \ {"create", "insert"} =>
               clerk[q].op \in Requests
          /\ clerk[q].pc \in {"create", "insert"} => clerk[q].req \in Requests
      BY DEF Typed, DeskTyped, Fits
    <3>3. QED BY <1>2, <1>3, <1>5, <3>1, <3>2 DEF CreationApart, CreationLives
  <2>3. QED BY <2>1, <2>2
<1>8. QED BY <1>6, <1>7 DEF CreationApart

LEMMA CreationActions ==
  ASSUME ConsoleAssumption, Typed, NEW p \in Clerks,
         \/ CreateRow(p) \/ KeepOutcome(p) \/ KeepUnverified(p) \/ BindLead(p)
         \/ ClaimCreation(p) \/ FindRow(p)
  PROVE  CreationActs(p)
<1>0. DeskTyped /\ creation \in [Requests -> CreationState] BY DEF Typed, CreationTyped
<1>1. clerk[p] \in ClerkState /\ clerk[p].pc \in CreationPlaces \ {"create", "insert"}
  BY DEF CreateRow, KeepOutcome, KeepUnverified, BindLead, ClaimCreation, FindRow,
         At, CreationPlaces, Typed, DeskTyped
<1>2. \A r \in Requests : r # clerk[p].op => creation'[r] = creation[r]
  <2>1. CASE CreateRow(p) \/ FindRow(p) BY <2>1 DEF CreateRow, FindRow, creationVars
  <2>2. CASE KeepOutcome(p) \/ KeepUnverified(p)
    BY <1>0, <2>2 DEF KeepOutcome, KeepUnverified
  <2>3. CASE BindLead(p) BY <1>0, <2>3 DEF BindLead
  <2>4. CASE ClaimCreation(p) BY <1>0, <2>4 DEF ClaimCreation
  <2>5. QED BY <2>1, <2>2, <2>3, <2>4
<1>3. \/ Go(p, "bind") \/ \E res : Answer(p, res)
      \/ \E x \in {"keep", "find"} : \E res, rec : Outcome(p, x, res, rec)
  <2>1. CASE CreateRow(p) BY <2>1 DEF CreateRow
  <2>2. CASE KeepOutcome(p) BY <2>2 DEF KeepOutcome
  <2>3. CASE KeepUnverified(p) BY <2>3 DEF KeepUnverified, Refuse
  <2>4. CASE BindLead(p) BY <2>4 DEF BindLead
  <2>5. CASE ClaimCreation(p) BY <2>5 DEF ClaimCreation, Refuse
  <2>6. CASE FindRow(p) BY <2>6 DEF FindRow, Refuse
  <2>7. QED BY <2>1, <2>2, <2>3, <2>4, <2>5, <2>6
<1>4. SameOp(p) BY <1>0, <1>3, KeepsOp
<1>5. clerk'[p].pc \notin {"create", "insert"}
  <2>1. CASE Go(p, "bind") BY <1>0, <1>1, <2>1 DEF DeskTyped, ClerkState, Go
  <2>2. ASSUME NEW res, Answer(p, res) PROVE clerk'[p].pc \notin {"create", "insert"}
    <3>1. clerk'[p] = [clerk[p] EXCEPT !.pc = "report", !.res = res]
      BY <1>0, <2>2 DEF DeskTyped, Answer
    <3>2. QED BY <1>1, <3>1 DEF ClerkState
  <2>3. ASSUME NEW x \in {"keep", "find"}, NEW res, NEW rec, Outcome(p, x, res, rec)
        PROVE  clerk'[p].pc \notin {"create", "insert"}
    <3>1. clerk'[p] = [clerk[p] EXCEPT !.pc = x, !.res = res, !.to = rec]
      BY <1>0, <2>3 DEF DeskTyped, Outcome
    <3>2. QED BY <1>1, <3>1 DEF ClerkState
  <2>4. QED BY <1>3, <2>1, <2>2, <2>3
<1>6. QED BY <1>1, <1>2, <1>4, <1>5 DEF CreationActs

(* The clerk p comes to the row of a new lead, or gives up. *)
LEMMA InsertApart ==
  ASSUME ConsoleAssumption, Typed, OperationsApart, CreationNext,
         NEW p \in Clerks, CheckDuplicate(p) \/ InsertLead(p)
  PROVE  CreationApart'
<1>1. AuditKept BY CreationStepWithin, WithinTyped DEF CreationWithin, Typed
<1>2. \A r \in Requests : CreationLives(r) BY CreationAfter
<1>3. CreationApart BY ApartHalves DEF Typed
<1>4. PICK r : r = clerk[p].req OBVIOUS
<1>5. /\ clerk[p] \in ClerkState /\ clerk[p].pc \in {"create", "insert"}
      /\ r \in Requests /\ audit[r] # "absent" /\ creation[r].st = "absent"
      /\ \A q \in Clerks : q # p /\ clerk[q].pc # "idle" => clerk[q].req # r
  BY <1>4 DEF CheckDuplicate, InsertLead, At, Typed, DeskTyped, RequestsApart, Fits,
     OperationsApart
<1>6. clerk \in [Clerks -> ClerkState] /\ creation \in [Requests -> CreationState]
  BY DEF Typed, DeskTyped, CreationTyped
<1>7. \A x \in Requests : x # r => creation'[x] = creation[x]
  BY <1>4, <1>6 DEF CheckDuplicate, InsertLead, creationVars
<1>8. /\ \A q \in Clerks : q # p => clerk'[q] = clerk[q]
      /\ \/ clerk'[p].pc = "report"
         \/ clerk'[p].pc = "insert" /\ clerk'[p].req = r /\ creation'[r].st = "absent"
         \/ clerk'[p].pc = "create_row" /\ clerk'[p].op = r
            /\ creation'[r].st = "processing"
  <2>1. CASE CheckDuplicate(p) /\ Go(p, "insert")
    BY <1>4, <1>5, <1>6, <2>1 DEF CheckDuplicate, creationVars, Go, ClerkState
  <2>2. CASE CheckDuplicate(p) /\ Refuse(p)
    BY <1>5, <1>6, <2>2 DEF Refuse, Answer, ClerkState
  <2>3. CASE InsertLead(p)
    BY <1>4, <1>5, <1>6, <2>3 DEF InsertLead, ClerkState, NoCreation
  <2>4. QED BY <2>1, <2>2, <2>3 DEF CheckDuplicate
<1>9. ASSUME NEW x \in Requests, creation'[x].st # "absent"
      PROVE  audit'[x] # "absent"
  BY <1>1, <1>3, <1>5, <1>7, <1>9 DEF CreationApart, AuditKept
<1>10. ASSUME NEW q \in Clerks
       PROVE  /\ clerk'[q].pc \in CreationPlaces \ {"create", "insert"} =>
                   creation'[clerk'[q].op].st # "absent"
              /\ clerk'[q].pc \in {"create", "insert"} =>
                   creation'[clerk'[q].req].st = "absent"
  <2>1. CASE q = p BY <1>8, <2>1 DEF CreationPlaces
  <2>2. CASE q # p
    <3>1. /\ clerk[q].pc \in CreationPlaces \ {"create", "insert"} =>
               clerk[q].op \in Requests
          /\ clerk[q].pc \in {"create", "insert"} => clerk[q].req \in Requests
      BY DEF Typed, DeskTyped, Fits
    <3>2. QED BY <1>2, <1>3, <1>5, <1>7, <1>8, <2>2, <3>1 DEF CreationApart, CreationLives
  <2>3. QED BY <2>1, <2>2
<1>11. QED BY <1>9, <1>10 DEF CreationApart

LEMMA CreationKeepsApart ==
  ASSUME ConsoleAssumption, Typed, OperationsApart, CreationNext
  PROVE  CreationApart'
<1>1. AuditKept BY CreationStepWithin, WithinTyped DEF CreationWithin, Typed
<1>2. CreationApart BY ApartHalves DEF Typed
<1>3. ASSUME NEW p \in Clerks, AskCreate(p) PROVE CreationApart'
  <2>1. /\ clerk'[p].pc = "create" /\ creation[clerk'[p].req].st = "absent"
        /\ \A q \in Clerks : q # p => clerk'[q] = clerk[q]
        /\ creation' = creation
    BY <1>3, BegunAnew DEF AskCreate, creationVars
  <2>2. QED BY <1>1, <1>2, <2>1 DEF CreationApart, AuditKept
<1>4. ASSUME NEW p \in Clerks, NEW o \in Requests, AskReconcileCreation(p, o)
      PROVE  CreationApart'
  <2>1. /\ clerk'[p].pc = "create_reconcile" /\ clerk'[p].op = o
        /\ creation[o].st # "absent"
        /\ \A q \in Clerks : q # p => clerk'[q] = clerk[q]
        /\ creation' = creation
    BY <1>4, BegunAnew DEF AskReconcileCreation, creationVars
  <2>2. QED BY <1>1, <1>2, <2>1 DEF CreationApart, AuditKept
<1>5. ASSUME NEW p \in Clerks, CheckDuplicate(p) \/ InsertLead(p) PROVE CreationApart'
  BY <1>5, InsertApart
<1>6. ASSUME NEW p \in Clerks,
             \/ CreateRow(p) \/ KeepOutcome(p) \/ KeepUnverified(p) \/ BindLead(p)
             \/ ClaimCreation(p) \/ FindRow(p)
      PROVE  CreationApart'
  BY <1>6, CreationActions, CreationActsApart
<1>7. ASSUME UNCHANGED clerk, \A r \in Requests : creation'[r].st = creation[r].st
      PROVE  CreationApart'
  <2>1. /\ \A q \in Clerks : clerk[q].pc \in CreationPlaces \ {"create", "insert"} =>
             clerk[q].op \in Requests
        /\ \A q \in Clerks : clerk[q].pc \in {"create", "insert"} =>
             clerk[q].req \in Requests
    BY DEF Typed, DeskTyped, Fits
  <2>2. QED BY <1>1, <1>2, <1>7, <2>1 DEF CreationApart, AuditKept
<1>8. ASSUME NEW o \in Requests, CreationLapses(o) PROVE CreationApart'
  <2>1. creation \in [Requests -> CreationState] BY DEF Typed, CreationTyped
  <2>2. UNCHANGED clerk /\ \A r \in Requests : creation'[r].st = creation[r].st
    BY <1>8, <2>1 DEF CreationLapses, CreationState
  <2>3. QED BY <1>7, <2>2
<1>9. ASSUME NEW o \in Requests, DeleteRow(o) PROVE CreationApart'
  BY <1>7, <1>9 DEF DeleteRow
<1>10. QED BY <1>3, <1>4, <1>5, <1>6, <1>8, <1>9 DEF CreationNext

-----------------------------------------------------------------------------
(* All parts together *)

(* Steps within other places leave the clerks at the places X alone. *)
LEMMA WithinElsewhere ==
  ASSUME DeskTyped, NEW S, NEW K, Within(S, K), NEW X, "idle" \notin X,
         \A x \in X : x \notin S /\ x \notin K
  PROVE  \A q \in Clerks :
           \/ clerk'[q] = clerk[q]
           \/ clerk[q].pc \notin X /\ clerk'[q].pc \notin X
<1>1. ASSUME NEW q \in Clerks
      PROVE  \/ clerk'[q] = clerk[q]
             \/ clerk[q].pc \notin X /\ clerk'[q].pc \notin X
  <2>1. \/ clerk'[q] = clerk[q]
        \/ clerk[q].pc \in S /\ clerk'[q].pc \in S
        \/ clerk[q].pc = "idle" /\ clerk'[q].pc \in K
    BY WithinSpares
  <2>2. QED BY <2>1
<1>2. QED BY <1>1

LEMMA PlacedKept ==
  ASSUME ClerksPlaced, UNCHANGED <<draft, attempt>>,
         \A q \in Clerks :
           \/ clerk'[q] = clerk[q]
           \/ clerk[q].pc \notin AttemptPlaces /\ clerk'[q].pc \notin AttemptPlaces
  PROVE  ClerksPlaced'
BY DEF ClerksPlaced, AttemptPlaces

(* What the invariants of the other parts need of a step. *)
LEMMA DeskStep ==
  ASSUME ConsoleAssumption, Typed, DeskNext,
         UNCHANGED <<transferVars, creationVars, reviewVars, retryVars>>
  PROVE  /\ DeskTyped' /\ RequestsApart' /\ DeskKept
         /\ TransferSpared /\ CreationSpared /\ ClerksPlaced'
<1> DEFINE S == {"report", "discard", "idle"}
           K == {"discard"}
<1>1. Within(S, K) BY DeskNextWithin DEF DeskWithin
<1>2. DeskTyped' /\ RequestsApart' /\ AuditKept BY <1>1, WithinTyped DEF Typed
<1>3. \A x \in TransferPlaces \cup CreationPlaces \cup AttemptPlaces :
         x \notin S /\ x \notin K /\ x # "idle"
  BY DEF TransferPlaces, CreationPlaces, AttemptPlaces
<1> HIDE DEF S, K
<1>4. TransferSpared BY <1>1, <1>2, <1>3, WithinElsewhere DEF Typed, TransferSpared
<1>5. CreationSpared BY <1>1, <1>2, <1>3, WithinElsewhere DEF Typed, CreationSpared
<1>6. ClerksPlaced'
  BY <1>1, <1>3, WithinElsewhere, PlacedKept DEF Typed, reviewVars, retryVars
<1>7. QED BY <1>1, <1>2, <1>4, <1>5, <1>6 DEF Within

LEMMA CrashStep ==
  ASSUME ConsoleAssumption, Typed, NEW p \in Clerks, ClerkCrashes(p), DropDraft(p),
         UNCHANGED <<transferVars, creationVars, due, retryVars>>
  PROVE  /\ DeskTyped' /\ RequestsApart' /\ DeskKept
         /\ TransferSpared /\ CreationSpared /\ ClerksPlaced' /\ ReviewTyped'
<1>1. /\ DeskKept /\ AuditKept /\ clerk' = [clerk EXCEPT ![p] = Idle]
      /\ Idle.pc = "idle" /\ DeskTyped' /\ RequestsApart'
  BY CrashWithin
<1>2. \A q \in Clerks : clerk'[q] = IF q = p THEN Idle ELSE clerk[q]
  BY <1>1 DEF Typed, DeskTyped
<1>3. TransferSpared BY <1>1, <1>2 DEF TransferSpared, TransferPlaces
<1>4. CreationSpared BY <1>1, <1>2 DEF CreationSpared, CreationPlaces
<1>5. p \in Writers BY DEF Writers
<1>6. /\ ReviewTyped' /\ draft'[p] = NoDraft
      /\ \A q \in Writers : q # p => draft'[q] = draft[q]
  <2>1. DraftFits(NoDraft) BY NoDraftFits
  <2>2. QED BY <1>5, <2>1, DropTyped DEF ReviewTyped, Typed
<1>7. NoDraft.pc = "none" BY DEF NoDraft
<1>8. ClerksPlaced'
  BY <1>1, <1>2, <1>6, <1>7 DEF ClerksPlaced, Typed, retryVars, AttemptPlaces, Writers
<1>9. QED BY <1>1, <1>3, <1>4, <1>6, <1>8

LEMMA TransferStep ==
  ASSUME ConsoleAssumption, Typed, TransferNext,
         UNCHANGED <<creationVars, reviewVars, retryVars>>
  PROVE  /\ DeskTyped' /\ RequestsApart' /\ DeskKept
         /\ TransferTyped' /\ CreationSpared /\ ClerksPlaced'
<1> DEFINE S == TransferPlaces \cup {"report"}
           K == {"transfer", "transfer_reconcile"}
<1>1. Within(S, K) /\ TransferTyped' BY TransferStepWithin DEF TransferWithin
<1>2. DeskTyped' /\ RequestsApart' /\ AuditKept BY <1>1, WithinTyped DEF Typed
<1>3. \A x \in CreationPlaces \cup AttemptPlaces : x \notin S /\ x \notin K /\ x # "idle"
  BY DEF TransferPlaces, CreationPlaces, AttemptPlaces
<1> HIDE DEF S, K
<1>4. CreationSpared
  BY <1>1, <1>2, <1>3, WithinElsewhere DEF Typed, CreationSpared
<1>5. ClerksPlaced'
  BY <1>1, <1>3, WithinElsewhere, PlacedKept DEF Typed, reviewVars, retryVars
<1>6. QED BY <1>1, <1>2, <1>4, <1>5 DEF Within

LEMMA CreationStep ==
  ASSUME ConsoleAssumption, Typed, CreationNext,
         UNCHANGED <<transferVars, reviewVars, retryVars>>
  PROVE  /\ DeskTyped' /\ RequestsApart' /\ DeskKept
         /\ CreationTyped' /\ TransferSpared /\ ClerksPlaced'
<1> DEFINE S == CreationPlaces \cup {"report"}
           K == {"create", "create_reconcile"}
<1>1. Within(S, K) /\ CreationTyped' BY CreationStepWithin DEF CreationWithin
<1>2. DeskTyped' /\ RequestsApart' /\ AuditKept BY <1>1, WithinTyped DEF Typed
<1>3. \A x \in TransferPlaces \cup AttemptPlaces : x \notin S /\ x \notin K /\ x # "idle"
  BY DEF TransferPlaces, CreationPlaces, AttemptPlaces
<1> HIDE DEF S, K
<1>4. TransferSpared
  BY <1>1, <1>2, <1>3, WithinElsewhere DEF Typed, TransferSpared
<1>5. ClerksPlaced'
  BY <1>1, <1>3, WithinElsewhere, PlacedKept DEF Typed, reviewVars, retryVars
<1>6. QED BY <1>1, <1>2, <1>4, <1>5 DEF Within

LEMMA RetryStep ==
  ASSUME ConsoleAssumption, Typed, UNCHANGED <<transferVars, creationVars>>,
         RetryNext \/ (ReviewNext /\ UNCHANGED retryVars)
  PROVE  /\ DeskTyped' /\ RequestsApart' /\ DeskKept
         /\ TransferSpared /\ CreationSpared
         /\ ReviewTyped' /\ RetryTyped' /\ ClerksPlaced'
<1> DEFINE X == TransferPlaces \cup CreationPlaces
<1>1. ASSUME NEW S, NEW K, Within(S, K),
             \A x \in X : x \notin S /\ x \notin K /\ x # "idle"
      PROVE  /\ DeskTyped' /\ RequestsApart' /\ DeskKept
             /\ TransferSpared /\ CreationSpared
  <2>1. DeskTyped' /\ RequestsApart' /\ AuditKept BY <1>1, WithinTyped DEF Typed
  <2>2. TransferSpared BY <1>1, <2>1, WithinElsewhere DEF Typed, TransferSpared
  <2>3. CreationSpared BY <1>1, <2>1, WithinElsewhere DEF Typed, CreationSpared
  <2>4. QED BY <1>1, <2>1, <2>2, <2>3 DEF Within
<1>2. CASE RetryNext
  <2>1. /\ Within(RetryPlaces, {"retry", "reassign"})
        /\ RetryTyped' /\ ReviewTyped' /\ ClerksPlaced'
    BY <1>2, RetryNextWithin DEF RetryWithin
  <2>2. \A x \in X : x \notin RetryPlaces /\ x \notin {"retry", "reassign"} /\ x # "idle"
    BY DEF TransferPlaces, CreationPlaces, RetryPlaces, AttemptPlaces
  <2>3. QED BY <1>1, <2>1, <2>2
<1>3. CASE ReviewNext /\ UNCHANGED retryVars
  <2>1. Within(AttemptPlaces, {}) /\ ReviewTyped' /\ ClerksPlaced'
    BY <1>3, ReviewNextWithin DEF retryVars
  <2>2. \A x \in X : x \notin AttemptPlaces /\ x \notin {} /\ x # "idle"
    BY DEF TransferPlaces, CreationPlaces, AttemptPlaces
  <2>3. RetryTyped' BY <1>3 DEF retryVars, RetryTyped, Typed
  <2>4. QED BY <1>1, <2>1, <2>2, <2>3
<1>4. QED BY <1>2, <1>3

(* Types, and the operations of requests, are kept by every step. *)
LEMMA TypedStep ==
  ASSUME ConsoleAssumption, Typed, OperationsApart, [Next]_vars
  PROVE  Typed' /\ OperationsApart'
<1>0. TransferApart /\ CreationApart BY ApartHalves DEF Typed
<1>a. ASSUME UNCHANGED transferVars PROVE TransferTyped'
  BY <1>a DEF transferVars, TransferTyped, Typed
<1>b. ASSUME UNCHANGED creationVars PROVE CreationTyped'
  BY <1>b DEF creationVars, CreationTyped, Typed
<1>c. ASSUME UNCHANGED reviewVars PROVE ReviewTyped'
  BY <1>c DEF reviewVars, ReviewTyped, Typed
<1>d. ASSUME UNCHANGED retryVars PROVE RetryTyped'
  BY <1>d DEF retryVars, RetryTyped, Typed
<1>e. ASSUME DeskTyped', RequestsApart', TransferTyped', CreationTyped', ReviewTyped',
             RetryTyped', ClerksPlaced', TransferApart', CreationApart'
      PROVE  Typed' /\ OperationsApart'
  <2>1. OperationsThere' /\ OperationsApart'
    BY <1>e DEF OperationsThere, OperationsApart, TransferApart, CreationApart
  <2>2. QED BY <1>e, <2>1 DEF Typed
<1>1. CASE DeskNext /\ UNCHANGED <<transferVars, creationVars, reviewVars, retryVars>>
  <2>1. /\ DeskTyped' /\ RequestsApart' /\ TransferSpared /\ CreationSpared
        /\ ClerksPlaced'
    BY <1>1, DeskStep
  <2>2. TransferApart' /\ CreationApart' BY <1>0, <2>1, SparedApart
  <2>3. QED BY <1>1, <1>a, <1>b, <1>c, <1>d, <1>e, <2>1, <2>2
<1>2. ASSUME NEW p \in Clerks, ClerkCrashes(p), DropDraft(p),
             UNCHANGED <<transferVars, creationVars, due, retryVars>>
      PROVE  Typed' /\ OperationsApart'
  <2>1. /\ DeskTyped' /\ RequestsApart' /\ TransferSpared /\ CreationSpared
        /\ ClerksPlaced' /\ ReviewTyped'
    BY <1>2, CrashStep
  <2>2. TransferApart' /\ CreationApart' BY <1>0, <2>1, SparedApart
  <2>3. QED BY <1>2, <1>a, <1>b, <1>d, <1>e, <2>1, <2>2
<1>3. CASE TransferNext /\ UNCHANGED <<creationVars, reviewVars, retryVars>>
  <2>1. /\ DeskTyped' /\ RequestsApart' /\ TransferTyped' /\ CreationSpared
        /\ ClerksPlaced'
    BY <1>3, TransferStep
  <2>2. TransferApart' BY <1>3, TransferKeepsApart
  <2>3. CreationApart' BY <1>0, <2>1, SparedApart
  <2>4. QED BY <1>3, <1>b, <1>c, <1>d, <1>e, <2>1, <2>2, <2>3
<1>4. CASE CreationNext /\ UNCHANGED <<transferVars, reviewVars, retryVars>>
  <2>1. /\ DeskTyped' /\ RequestsApart' /\ CreationTyped' /\ TransferSpared
        /\ ClerksPlaced'
    BY <1>4, CreationStep
  <2>2. CreationApart' BY <1>4, CreationKeepsApart
  <2>3. TransferApart' BY <1>0, <2>1, SparedApart
  <2>4. QED BY <1>4, <1>a, <1>c, <1>d, <1>e, <2>1, <2>2, <2>3
<1>5. ASSUME UNCHANGED <<transferVars, creationVars>>,
             RetryNext \/ (ReviewNext /\ UNCHANGED retryVars)
      PROVE  Typed' /\ OperationsApart'
  <2>1. /\ DeskTyped' /\ RequestsApart' /\ TransferSpared /\ CreationSpared
        /\ ReviewTyped' /\ RetryTyped' /\ ClerksPlaced'
    BY <1>5, RetryStep
  <2>2. TransferApart' /\ CreationApart' BY <1>0, <2>1, SparedApart
  <2>3. QED BY <1>5, <1>a, <1>b, <1>e, <2>1, <2>2
<1>6. CASE UNCHANGED vars
  BY <1>6 DEF vars, deskVars, transferVars, creationVars, reviewVars, retryVars, Typed,
     DeskTyped, TransferTyped, CreationTyped, ReviewTyped, RetryTyped, ClerksPlaced,
     OperationsThere, RequestsApart, OperationsApart
<1>7. QED BY <1>1, <1>2, <1>3, <1>4, <1>5, <1>6 DEF Next

LEMMA TypedInit ==
  ASSUME ConsoleAssumption, Init
  PROVE  Typed /\ OperationsApart
<1> USE ConsoleAssumption DEF ConsoleAssumption
<1>1. Fits(Idle) /\ Idle \in ClerkState /\ Idle.pc = "idle"
  BY DEF Idle, Fits, ClerkState, Places, OtherPlaces, TransferPlaces, CreationPlaces
<1>2. "absent" \in Outcomes BY DEF Outcomes
<1>3. clerk = [p \in Clerks |-> Idle] BY DEF Init, DeskInit
<1>4. DeskTyped BY <1>1, <1>2, <1>3 DEF Init, DeskInit, DeskTyped
<1>5. NoTransfer \in TransferState /\ NoTransfer.st = "absent"
  BY DEF NoTransfer, TransferState, Statuses, Remotes
<1>6. TransferTyped
  BY <1>5 DEF Init, TransferInit, TransferTyped
<1>7. NoCreation \in CreationState /\ NoCreation.st = "absent"
  BY DEF NoCreation, CreationState, Statuses, Remotes
<1>8. CreationTyped BY <1>7 DEF Init, CreationInit, CreationTyped
<1>9. Empty \in FieldState /\ Filled \in FieldState
  BY DEF Empty, Filled, FieldState, Values
<1>10. DraftFits(NoDraft) /\ NoDraft \in DraftState /\ NoDraft.pc = "none"
  <2>1. DraftFits(NoDraft) BY NoDraftFits
  <2>2. NoDraft.pc = "none" BY DEF NoDraft
  <2>3. QED BY <2>1, <2>2 DEF DraftFits
<1>11. ReviewTyped
  <2>1. draft = [w \in Writers |-> NoDraft] /\ field \in [Leads -> {Empty, Filled}]
    BY DEF Init, ReviewInit
  <2>2. field \in [Leads -> FieldState] BY <1>9, <2>1
  <2>3. due \subseteq Later BY DEF Init, ReviewInit
  <2>4. QED BY <1>10, <2>1, <2>2, <2>3 DEF ReviewTyped
<1>12. RetryTyped
  <2>1. NewAttempt(Made, "succeeded") \in AttemptState
    BY DEF NewAttempt, AttemptState
  <2>2. attempt \in Seq(AttemptState)
    <3>1. attempt = <<>> \/ attempt = <<NewAttempt(Made, "succeeded")>>
      BY DEF Init, RetryInit
    <3>2. <<>> \in Seq(AttemptState) OBVIOUS
    <3>3. <<NewAttempt(Made, "succeeded")>> \in Seq(AttemptState) BY <2>1
    <3>4. QED BY <3>1, <3>2, <3>3
  <2>3. QED BY <2>2 DEF Init, RetryInit, RetryTyped
<1>13. ClerksPlaced
  <2>1. draft = [w \in Writers |-> NoDraft] BY DEF Init, ReviewInit
  <2>2. QED BY <1>1, <1>3, <1>10, <2>1 DEF ClerksPlaced, AttemptPlaces, Writers
<1>14. OperationsThere /\ RequestsApart
  BY <1>1, <1>3 DEF OperationsThere, RequestsApart, TransferPlaces, CreationPlaces
<1>15. OperationsApart
  BY <1>1, <1>3, <1>5, <1>7 DEF OperationsApart, Init, TransferInit, CreationInit
<1>16. QED BY <1>4, <1>6, <1>8, <1>11, <1>12, <1>13, <1>14, <1>15 DEF Typed

LEMMA TypedAlways == Spec => [](Typed /\ OperationsApart)
<1>1. Init => Typed /\ OperationsApart BY ConsoleAssumption, TypedInit
<1>2. Typed /\ OperationsApart /\ [Next]_vars => (Typed /\ OperationsApart)'
  BY ConsoleAssumption, TypedStep
<1>3. QED BY <1>1, <1>2, PTL DEF Spec

-----------------------------------------------------------------------------
(* A created lead has its row *)

(* Steps that leave creations alone and bring no clerk to one. *)
LEMMA CreationIdle ==
  ASSUME Typed, CreationInv, UNCHANGED <<creation, bound>>,
         \A q \in Clerks : clerk'[q] = clerk[q] \/ ~OnCreation(q)'
  PROVE  CreationInv'
<1>1. ASSUME NEW q \in Clerks, FirstCall(q)' PROVE OnCreation(q)' /\ FirstCall(q)
  <2>1. OnCreation(q)' BY <1>1 DEF FirstCall, OnCreation
  <2>2. clerk'[q] = clerk[q] BY <2>1
  <2>3. QED BY <1>1, <2>1, <2>2 DEF FirstCall
<1>2. ASSUME NEW q \in Clerks, OnCreation(q)' PROVE clerk'[q] = clerk[q] /\ OnCreation(q)
  BY <1>2 DEF OnCreation
<1>3. QED BY <1>1, <1>2 DEF CreationInv

(* A clerk goes on with a creation it was at, which stays as it is. *)
LEMMA CreationMove ==
  ASSUME Typed, CreationInv, UNCHANGED <<creation, bound>>, NEW p \in Clerks,
         OnCreation(p), SameOp(p),
         FirstCall(p)' => FirstCall(p) /\ (clerk'[p].pc = "keep" => clerk'[p].to \in Requests)
  PROVE  CreationInv'
<1>1. ASSUME NEW q \in Clerks, q # p PROVE clerk'[q] = clerk[q]
  BY <1>1 DEF SameOp
<1>2. ASSUME NEW q \in Clerks, FirstCall(q)'
      PROVE  /\ FirstCall(q) /\ clerk'[q].op = clerk[q].op
             /\ clerk'[q].pc = "keep" => clerk'[q].to \in Requests
  BY <1>1, <1>2 DEF FirstCall, SameOp, CreationInv
<1>3. ASSUME NEW q \in Clerks, OnCreation(q)'
      PROVE  clerk'[q].op = clerk[q].op /\ OnCreation(q)
  BY <1>1, <1>3 DEF OnCreation, SameOp
<1>4. QED BY <1>2, <1>3 DEF CreationInv

(* A clerk changes the operation it is at, and is at no first call then. *)
LEMMA CreationSettles ==
  ASSUME Typed, CreationInv, NEW p \in Clerks, OnCreation(p), SameOp(p), ~FirstCall(p)',
         \A r \in Requests : r # clerk[p].op =>
            creation'[r] = creation[r] /\ bound'[r] = bound[r],
         creation'[clerk[p].op].st = "succeeded" =>
            /\ bound'[clerk[p].op] # None
            /\ bound'[clerk[p].op] = creation'[clerk[p].op].rec,
         \/ bound'[clerk[p].op] = bound[clerk[p].op]
         \/ \A q \in Requests \ {clerk[p].op} : bound[q] # bound'[clerk[p].op]
  PROVE  CreationInv'
<1>0. clerk[p].op \in Requests BY DEF OnCreation, Typed, DeskTyped, Fits, CreationPlaces
<1>1. ASSUME NEW q \in Clerks, q # p PROVE clerk'[q] = clerk[q]
  BY <1>1 DEF SameOp
<1>2. ASSUME NEW q \in Clerks, FirstCall(q)'
      PROVE  /\ q # p /\ FirstCall(q) /\ clerk'[q] = clerk[q]
             /\ clerk[q].op \in Requests /\ clerk[q].op # clerk[p].op
  <2>1. q # p /\ clerk'[q] = clerk[q] BY <1>1, <1>2
  <2>2. FirstCall(q) BY <1>2, <2>1 DEF FirstCall
  <2>3. clerk[q].op \in Requests
    BY <2>2 DEF FirstCall, Typed, DeskTyped, Fits, CreationPlaces
  <2>4. QED BY <2>1, <2>2, <2>3 DEF CreationInv
<1>3. ASSUME NEW q \in Clerks, OnCreation(q)'
      PROVE  clerk'[q].op = clerk[q].op /\ OnCreation(q)
  BY <1>1, <1>3 DEF OnCreation, SameOp
<1>4. ASSUME NEW q \in Clerks, FirstCall(q)'
      PROVE  /\ creation'[clerk'[q].op].st = "processing"
             /\ creation'[clerk'[q].op].remote = "pending"
             /\ clerk'[q].pc = "keep" => clerk'[q].to \in Requests
             /\ \A x \in Clerks \ {q} : OnCreation(x)' => clerk'[x].op # clerk'[q].op
  BY <1>2, <1>3, <1>4 DEF CreationInv
<1>5. \A r \in Requests : creation'[r].st = "succeeded" =>
         bound'[r] # None /\ bound'[r] = creation'[r].rec
  BY DEF CreationInv
<1>6. \A q, r \in Requests : q # r /\ bound'[q] # None => bound'[q] # bound'[r]
  BY <1>0 DEF CreationInv
<1>7. QED BY <1>4, <1>5, <1>6 DEF CreationInv

(* The clerk's record after a move. *)
LEMMA OutcomeAfter ==
  ASSUME Typed, NEW p \in Clerks, NEW x, NEW res, NEW rec, Outcome(p, x, res, rec)
  PROVE  clerk'[p].pc = x /\ clerk'[p].res = res /\ clerk'[p].to = rec
<1>1. clerk \in [Clerks -> ClerkState] /\ clerk[p] \in ClerkState BY DEF Typed, DeskTyped
<1>2. clerk'[p] = [clerk[p] EXCEPT !.pc = x, !.res = res, !.to = rec]
  BY <1>1 DEF Outcome
<1>3. QED BY <1>1, <1>2 DEF ClerkState

LEMMA AnswerAfter ==
  ASSUME Typed, NEW p \in Clerks, NEW res, Answer(p, res)
  PROVE  clerk'[p].pc = "report"
<1>1. clerk \in [Clerks -> ClerkState] /\ clerk[p] \in ClerkState BY DEF Typed, DeskTyped
<1>2. clerk'[p] = [clerk[p] EXCEPT !.pc = "report", !.res = res] BY <1>1 DEF Answer
<1>3. QED BY <1>1, <1>2 DEF ClerkState

LEMMA InsertKeepsRows ==
  ASSUME ConsoleAssumption, Typed, OperationsApart, CreationInv, NEW p \in Clerks,
         InsertLead(p)
  PROVE  CreationInv'
<1>1. PICK r : r = clerk[p].req OBVIOUS
<1>2. /\ clerk[p] \in ClerkState /\ r \in Requests /\ creation[r].st = "absent"
      /\ clerk \in [Clerks -> ClerkState] /\ creation \in [Requests -> CreationState]
  BY <1>1 DEF InsertLead, At, Typed, DeskTyped, Fits, OperationsApart, CreationTyped
<1>3. /\ clerk'[p].pc = "create_row" /\ clerk'[p].op = r
      /\ \A q \in Clerks : q # p => clerk'[q] = clerk[q]
  BY <1>1, <1>2 DEF InsertLead, ClerkState
<1>4. /\ creation'[r].st = "processing" /\ creation'[r].remote = "pending"
      /\ \A x \in Requests : x # r => creation'[x] = creation[x]
      /\ bound' = bound
  BY <1>1, <1>2 DEF InsertLead, NoCreation
<1>5. ASSUME NEW q \in Clerks, q # p, OnCreation(q)'
      PROVE  /\ clerk'[q] = clerk[q] /\ OnCreation(q) /\ clerk[q].op # r
             /\ clerk[q].op \in Requests
  <2>1. clerk'[q] = clerk[q] /\ OnCreation(q) BY <1>3, <1>5 DEF OnCreation
  <2>2. creation[clerk[q].op].st # "absent" /\ clerk[q].op \in Requests
    BY <2>1 DEF OnCreation, CreationPlaces, Typed, OperationsThere, DeskTyped, Fits
  <2>3. QED BY <1>2, <2>1, <2>2
<1>6. ASSUME NEW q \in Clerks, FirstCall(q)'
      PROVE  /\ creation'[clerk'[q].op].st = "processing"
             /\ creation'[clerk'[q].op].remote = "pending"
             /\ clerk'[q].pc = "keep" => clerk'[q].to \in Requests
             /\ \A x \in Clerks \ {q} : OnCreation(x)' => clerk'[x].op # clerk'[q].op
  <2>1. CASE q = p BY <1>3, <1>4, <1>5, <2>1
  <2>2. CASE q # p
    <3>1. OnCreation(q)' BY <1>6 DEF FirstCall, OnCreation
    <3>2. FirstCall(q) /\ clerk'[q] = clerk[q] /\ clerk[q].op \in Requests
          /\ clerk[q].op # r
      BY <1>5, <1>6, <2>2, <3>1 DEF FirstCall
    <3>3. \A x \in Clerks \ {q} : OnCreation(x)' => clerk'[x].op # clerk'[q].op
      BY <1>3, <1>5, <3>2 DEF CreationInv
    <3>4. QED BY <1>4, <3>2, <3>3 DEF CreationInv
  <2>3. QED BY <2>1, <2>2
<1>7. \A x \in Requests : creation'[x].st = "succeeded" =>
         bound'[x] # None /\ bound'[x] = creation'[x].rec
  BY <1>4 DEF CreationInv
<1>8. QED BY <1>4, <1>6, <1>7 DEF CreationInv

LEMMA CallKeepsRows ==
  ASSUME ConsoleAssumption, Typed, CreationInv, NEW p \in Clerks,
         CreateRow(p) \/ FindRow(p)
  PROVE  CreationInv'
<1>1. /\ OnCreation(p) /\ UNCHANGED <<creation, bound>>
      /\ clerk \in [Clerks -> ClerkState] /\ clerk[p] \in ClerkState
      /\ clerk[p].op \in Requests
  BY DEF CreateRow, FindRow, At, OnCreation, creationVars, Typed, DeskTyped, Fits,
     CreationPlaces
<1>2. SameOp(p) BY CreationActions DEF CreationActs
<1>3. FirstCall(p)' => FirstCall(p) /\ (clerk'[p].pc = "keep" => clerk'[p].to \in Requests)
  <2>1. CASE CreateRow(p)
    <3>1. FirstCall(p) BY <2>1 DEF CreateRow, At, FirstCall
    <3>2. \/ Outcome(p, "keep", "made", clerk[p].op)
          \/ Outcome(p, "keep", "refused", None)
          \/ Outcome(p, "keep", "unverified", clerk[p].op)
          \/ Outcome(p, "keep", "unknown", None)
      BY <2>1 DEF CreateRow
    <3>3. clerk'[p].res = "unverified" => clerk'[p].to \in Requests
      BY <1>1, <3>2, OutcomeAfter
    <3>4. clerk'[p].pc = "keep" BY <3>2, OutcomeAfter
    <3>5. QED BY <3>1, <3>3, <3>4 DEF FirstCall
  <2>2. CASE FindRow(p)
    <3>1. \/ Refuse(p) \/ Outcome(p, "keep", "unknown", None)
          \/ \E x : Outcome(p, "keep", "made", x)
      BY <2>2 DEF FindRow
    <3>2. /\ clerk'[p].pc \in {"report", "keep"}
          /\ clerk'[p].pc = "report" \/ clerk'[p].res \in {"unknown", "made"}
      BY <3>1, OutcomeAfter, AnswerAfter DEF Refuse
    <3>3. QED BY <3>2 DEF FirstCall
  <2>3. QED BY <2>1, <2>2
<1>4. QED BY <1>1, <1>2, <1>3, CreationMove

LEMMA KeepKeepsRows ==
  ASSUME ConsoleAssumption, Typed, CreationInv, NEW p \in Clerks, KeepOutcome(p)
  PROVE  CreationInv'
<1>1. PICK st, remote, rec, o :
         /\ st = KeptStatus(clerk[p].res) /\ remote = KeptRemote(clerk[p].res)
         /\ rec = clerk[p].to /\ o = clerk[p].op
  OBVIOUS
<1>2. /\ OnCreation(p) /\ o \in Requests
      /\ clerk \in [Clerks -> ClerkState] /\ clerk[p] \in ClerkState
      /\ creation \in [Requests -> CreationState]
  BY <1>1 DEF KeepOutcome, At, OnCreation, Typed, DeskTyped, Fits, CreationPlaces,
     CreationTyped
<1>3. SameOp(p) BY CreationActions DEF CreationActs
<1>4. st # "succeeded" BY <1>1 DEF KeptStatus
<1>5. /\ \A r \in Requests : r # o => creation'[r] = creation[r]
      /\ creation'[o] = FinishCreation(creation[o], st, remote, rec)
      /\ bound' = bound
  BY <1>1, <1>2 DEF KeepOutcome
<1>6. creation'[o].st = "succeeded" => creation'[o] = creation[o]
  BY <1>2, <1>4, <1>5 DEF FinishCreation, CreationState
<1>7. Go(p, "bind") \/ \E res : Answer(p, res) BY DEF KeepOutcome
<1>8. clerk'[p].pc \in {"bind", "report"}
  <2>1. CASE Go(p, "bind") BY <1>2, <2>1 DEF Go, ClerkState
  <2>2. ASSUME NEW res, Answer(p, res) PROVE clerk'[p].pc \in {"bind", "report"}
    BY <2>2, AnswerAfter
  <2>3. QED BY <1>7, <2>1, <2>2
<1>9. ~FirstCall(p)' BY <1>8 DEF FirstCall
<1>10. creation'[o].st = "succeeded" => bound'[o] # None /\ bound'[o] = creation'[o].rec
  BY <1>2, <1>5, <1>6 DEF CreationInv
<1>11. QED BY <1>1, <1>2, <1>3, <1>5, <1>9, <1>10, CreationSettles

LEMMA UnverifiedKeepsRows ==
  ASSUME ConsoleAssumption, Typed, CreationInv, NEW p \in Clerks, KeepUnverified(p)
  PROVE  CreationInv'
<1>1. PICK rec, o : rec = clerk[p].to /\ o = clerk[p].op OBVIOUS
<1>2. /\ OnCreation(p) /\ o \in Requests /\ FirstCall(p)
      /\ creation \in [Requests -> CreationState]
      /\ bound \in [Requests -> Requests \cup {None}]
  BY <1>1 DEF KeepUnverified, At, OnCreation, Typed, DeskTyped, Fits, CreationPlaces,
     CreationTyped, FirstCall
<1>3. SameOp(p) BY CreationActions DEF CreationActs
<1>4. creation[o].st = "processing" BY <1>1, <1>2 DEF CreationInv
<1>5. clerk'[p].pc = "report"
  BY AnswerAfter DEF KeepUnverified, Refuse
<1>6. ~FirstCall(p)' /\ ~OnCreation(p)' BY <1>5 DEF FirstCall, OnCreation
<1>7. CASE UNCHANGED <<creation, bound>>
  BY <1>3, <1>6, <1>7, CreationIdle DEF SameOp
<1>8. CASE /\ Unique(o, rec) /\ bound' = [bound EXCEPT ![o] = rec]
           /\ creation' = [creation EXCEPT ![o] =
                FinishCreation(creation[o], "pending_recovery", "unknown", rec)]
  <2>1. /\ \A r \in Requests : r # o => creation'[r] = creation[r] /\ bound'[r] = bound[r]
        /\ bound'[o] = rec
        /\ creation'[o] = FinishCreation(creation[o], "pending_recovery", "unknown", rec)
    BY <1>2, <1>8
  <2>2. creation'[o].st # "succeeded"
    BY <1>2, <1>4, <2>1 DEF FinishCreation, CreationState
  <2>3. \A q \in Requests \ {o} : bound[q] # bound'[o] BY <1>8, <2>1 DEF Unique
  <2>4. QED BY <1>1, <1>2, <1>3, <1>6, <2>1, <2>2, <2>3, CreationSettles
<1>9. QED BY <1>1, <1>7, <1>8 DEF KeepUnverified

LEMMA BindKeepsRows ==
  ASSUME ConsoleAssumption, Typed, CreationInv, NEW p \in Clerks, BindLead(p)
  PROVE  CreationInv'
<1>1. PICK rec, o : rec = clerk[p].to /\ o = clerk[p].op OBVIOUS
<1>2. /\ OnCreation(p) /\ o \in Requests /\ rec \in Requests
      /\ creation \in [Requests -> CreationState] /\ creation[o] \in CreationState
      /\ bound \in [Requests -> Requests \cup {None}]
  BY <1>1 DEF BindLead, At, OnCreation, Typed, DeskTyped, Fits, CreationPlaces,
     CreationTyped
<1>3. SameOp(p) BY CreationActions DEF CreationActs
<1>4. CASE Outcome(p, "keep", "unbound", rec) /\ UNCHANGED <<creation, bound>>
  <2>1. clerk'[p].pc = "keep" /\ clerk'[p].res = "unbound" BY <1>4, OutcomeAfter
  <2>2. ~FirstCall(p)' BY <2>1 DEF FirstCall
  <2>3. QED BY <1>2, <1>3, <1>4, <2>2, CreationMove
<1>5. CASE /\ MayBind(o, rec) /\ bound' = [bound EXCEPT ![o] = rec]
           /\ creation' = [creation EXCEPT ![o] =
                [creation[o] EXCEPT !.st = "succeeded", !.remote = "succeeded",
                                    !.rec = rec]]
           /\ Answer(p, "succeeded")
  <2>1. ~FirstCall(p)' BY <1>5, AnswerAfter DEF FirstCall
  <2>2. /\ \A r \in Requests : r # o => creation'[r] = creation[r] /\ bound'[r] = bound[r]
        /\ bound'[o] = rec /\ creation'[o].rec = rec
    BY <1>2, <1>5 DEF CreationState
  <2>3. rec # None BY <1>2 DEF ConsoleAssumption
  <2>4. \A q \in Requests \ {o} : bound[q] # bound'[o] BY <1>5, <2>2 DEF MayBind, Unique
  <2>5. QED BY <1>1, <1>2, <1>3, <2>1, <2>2, <2>3, <2>4, CreationSettles
<1>6. QED BY <1>1, <1>4, <1>5 DEF BindLead

(* The first call of a creation is out, or its answer is to be kept: then   *)
(* whoever claims the operation does not get it.                            *)
LEMMA ClaimKeepsRows ==
  ASSUME ConsoleAssumption, Typed, CreationInv, NEW p \in Clerks, ClaimCreation(p)
  PROVE  CreationInv'
<1>1. PICK o : o = clerk[p].op OBVIOUS
<1>2. /\ o \in Requests /\ clerk[p].pc = "create_reconcile"
      /\ creation \in [Requests -> CreationState] /\ creation[o] \in CreationState
  BY <1>1 DEF ClaimCreation, At, Typed, DeskTyped, Fits, CreationPlaces, CreationTyped
<1>3. SameOp(p) /\ UNCHANGED bound
  BY CreationActions DEF CreationActs, ClaimCreation
<1>4. /\ \A r \in Requests : r # o => creation'[r] = creation[r]
      /\ \/ creation'[o] = creation[o]
         \/ /\ creation'[o].st = "processing" /\ creation'[o].remote = creation[o].remote
            /\ creation[o].st # "succeeded"
  <2>1. \/ creation' = creation
        \/ /\ creation[o].st # "succeeded"
           /\ creation' = [creation EXCEPT ![o].st = "processing", ![o].fresh = TRUE]
    BY <1>1 DEF ClaimCreation
  <2>2. QED BY <1>2, <2>1 DEF CreationState
<1>5. \/ clerk'[p].pc = "report"
      \/ /\ clerk'[p].pc = "find"
         /\ ~(creation[o].st = "processing" /\ creation[o].remote = "pending")
  <2>1. \/ \E res : Answer(p, res)
        \/ /\ \E rec : Outcome(p, "find", None, rec)
           /\ ~(creation[o].st = "processing" /\ creation[o].remote = "pending")
    BY <1>1 DEF ClaimCreation, Refuse
  <2>2. QED BY <2>1, AnswerAfter, OutcomeAfter
<1>6. ~FirstCall(p)' BY <1>5 DEF FirstCall
<1>7. ASSUME NEW q \in Clerks, OnCreation(q)'
      PROVE  \/ q # p /\ clerk'[q] = clerk[q] /\ OnCreation(q)
             \/ /\ q = p /\ clerk'[q].op = o
                /\ ~(creation[o].st = "processing" /\ creation[o].remote = "pending")
  <2>1. CASE q = p BY <1>1, <1>3, <1>5, <1>7, <2>1 DEF OnCreation, SameOp
  <2>2. CASE q # p BY <1>3, <1>7, <2>2 DEF OnCreation, SameOp
  <2>3. QED BY <2>1, <2>2
<1>8. ASSUME NEW q \in Clerks, FirstCall(q)'
      PROVE  /\ creation'[clerk'[q].op].st = "processing"
             /\ creation'[clerk'[q].op].remote = "pending"
             /\ clerk'[q].pc = "keep" => clerk'[q].to \in Requests
             /\ \A x \in Clerks \ {q} : OnCreation(x)' => clerk'[x].op # clerk'[q].op
  <2>1. q # p /\ clerk'[q] = clerk[q] BY <1>3, <1>6, <1>8 DEF SameOp
  <2>2. FirstCall(q) BY <1>8, <2>1 DEF FirstCall
  <2>3. clerk[q].op \in Requests
    BY <2>2 DEF FirstCall, Typed, DeskTyped, Fits, CreationPlaces
  <2>4. creation[clerk[q].op].st = "processing" /\ creation[clerk[q].op].remote = "pending"
    BY <2>2 DEF CreationInv
  <2>5. \A x \in Clerks \ {q} : OnCreation(x)' => clerk'[x].op # clerk'[q].op
    BY <1>7, <2>1, <2>2, <2>4 DEF CreationInv
  <2>6. QED BY <1>4, <2>1, <2>2, <2>3, <2>4, <2>5 DEF CreationInv
<1>9. \A r \in Requests : creation'[r].st = "succeeded" =>
         bound'[r] # None /\ bound'[r] = creation'[r].rec
  BY <1>3, <1>4 DEF CreationInv
<1>10. QED BY <1>3, <1>8, <1>9 DEF CreationInv

LEMMA CreationKeepsRows ==
  ASSUME ConsoleAssumption, Typed, OperationsApart, CreationInv, CreationNext
  PROVE  CreationInv'
<1>1. ASSUME NEW p \in Clerks, NEW k \in {"create", "create_reconcile"}, NEW o,
             Begin(p, k, o, None), UNCHANGED creationVars
      PROVE  CreationInv'
  <2>1. /\ clerk'[p].pc = k /\ \A q \in Clerks : q # p => clerk'[q] = clerk[q]
    BY <1>1, BegunAnew
  <2>2. ~OnCreation(p)' BY <2>1 DEF OnCreation
  <2>3. QED BY <1>1, <2>1, <2>2, CreationIdle DEF creationVars
<1>2. ASSUME NEW p \in Clerks, AskCreate(p) PROVE CreationInv'
  BY <1>1, <1>2 DEF AskCreate
<1>3. ASSUME NEW p \in Clerks, NEW o \in Requests, AskReconcileCreation(p, o)
      PROVE  CreationInv'
  BY <1>1, <1>3 DEF AskReconcileCreation
<1>4. ASSUME NEW p \in Clerks, CheckDuplicate(p) PROVE CreationInv'
  <2>1. clerk \in [Clerks -> ClerkState] /\ clerk[p] \in ClerkState
    BY DEF Typed, DeskTyped
  <2>2. /\ clerk'[p].pc \in {"insert", "report"}
        /\ \A q \in Clerks : q # p => clerk'[q] = clerk[q]
    <3>1. CASE Go(p, "insert") BY <2>1, <3>1 DEF Go, ClerkState
    <3>2. CASE Answer(p, "failed") BY <2>1, <3>2, AnswerAfter DEF Answer
    <3>3. QED BY <1>4, <3>1, <3>2 DEF CheckDuplicate, Refuse
  <2>3. ~OnCreation(p)' BY <2>2 DEF OnCreation
  <2>4. QED BY <1>4, <2>2, <2>3, CreationIdle DEF CheckDuplicate, creationVars
<1>5. ASSUME NEW p \in Clerks,
             \/ InsertLead(p) \/ CreateRow(p) \/ KeepOutcome(p) \/ KeepUnverified(p)
             \/ BindLead(p) \/ ClaimCreation(p) \/ FindRow(p)
      PROVE  CreationInv'
  BY <1>5, InsertKeepsRows, CallKeepsRows, KeepKeepsRows, UnverifiedKeepsRows,
     BindKeepsRows, ClaimKeepsRows
<1>6. ASSUME NEW o \in Requests, CreationLapses(o) PROVE CreationInv'
  <2>1. creation \in [Requests -> CreationState] BY DEF Typed, CreationTyped
  <2>2. \A r \in Requests : /\ creation'[r].st = creation[r].st
                            /\ creation'[r].remote = creation[r].remote
                            /\ creation'[r].rec = creation[r].rec
    BY <1>6, <2>1 DEF CreationLapses, CreationState
  <2>3. \A q \in Clerks : FirstCall(q) => clerk[q].op \in Requests
    BY DEF FirstCall, Typed, DeskTyped, Fits, CreationPlaces
  <2>4. UNCHANGED <<clerk, bound>> BY <1>6 DEF CreationLapses
  <2>5. QED BY <2>2, <2>3, <2>4 DEF CreationInv, FirstCall, OnCreation
<1>7. ASSUME NEW o \in Requests, DeleteRow(o) PROVE CreationInv'
  BY <1>7, CreationIdle DEF DeleteRow
<1>8. QED BY <1>2, <1>3, <1>4, <1>5, <1>6, <1>7 DEF CreationNext

-----------------------------------------------------------------------------
(* The owners agree once no transfer is open *)

(* Steps that leave the transfers alone and bring no clerk to one. *)
LEMMA TransferIdle ==
  ASSUME Typed, TransferInv, UNCHANGED transferVars,
         \A q \in Clerks : clerk'[q] = clerk[q] \/ ~OnTransfer(q)'
  PROVE  TransferInv'
<1>1. ASSUME NEW q \in Clerks, OnTransfer(q)'
      PROVE  clerk'[q] = clerk[q] /\ OnTransfer(q)
  BY <1>1 DEF OnTransfer
<1>2. \A o \in Requests : OpenTransfer(o)' <=> OpenTransfer(o)
  BY DEF OpenTransfer, transferVars
<1>3. ASSUME NEW q \in Clerks, OnTransfer(q)' PROVE clerk[q].op \in Requests
  BY <1>1, <1>3 DEF OnTransfer, Typed, DeskTyped, Fits, TransferPlaces
<1>4. ASSUME NEW q \in Clerks, clerk'[q].pc \in {"send", "close", "settle"}
      PROVE  clerk'[q] = clerk[q]
  BY <1>1, <1>4 DEF OnTransfer
<1>5. QED BY <1>1, <1>2, <1>3, <1>4 DEF TransferInv, transferVars

(* The one clerk at work goes on, its transfer stays open, and the row has   *)
(* an owner that the clerk's new place allows.                              *)
LEMMA TransferMove ==
  ASSUME Typed, TransferInv, raced = FALSE, NEW p \in Clerks, OnTransfer(p), SameOp(p),
         UNCHANGED <<owner, contexts, raced>>,
         \A o \in Requests : /\ OpenTransfer(o)' <=> OpenTransfer(o)
                             /\ transfer'[o].old = transfer[o].old
                             /\ transfer'[o].new = transfer[o].new,
         rowOwner' \in {owner, transfer[clerk[p].op].new, Elsewhere},
         clerk'[p].pc = "send" \/ (clerk'[p].pc = "close" /\ clerk'[p].res = "refused")
           => rowOwner' \in {owner, Elsewhere},
         clerk'[p].pc = "settle" => rowOwner' \in {transfer[clerk[p].op].new, Elsewhere}
  PROVE  TransferInv'
<1>1. PICK u : u = clerk[p].op OBVIOUS
<1>2. u \in Requests
  BY <1>1 DEF OnTransfer, Typed, DeskTyped, Fits, TransferPlaces
<1>3. OpenTransfer(u) BY <1>1 DEF TransferInv
<1>4. \A q \in Clerks : q # p => clerk'[q] = clerk[q] BY DEF SameOp
<1>5. \A q \in Clerks : q # p => ~OnTransfer(q) BY DEF TransferInv
<1>6. ASSUME NEW q \in Clerks, OnTransfer(q)' PROVE q = p /\ clerk'[q].op = u
  BY <1>1, <1>4, <1>5, <1>6 DEF OnTransfer, SameOp
<1>7. ASSUME NEW q \in Clerks, clerk'[q].pc \in {"send", "close", "settle"}
      PROVE  q = p /\ clerk'[q].op = u
  BY <1>6, <1>7 DEF OnTransfer
<1>8. \A o, v \in Requests : OpenTransfer(o)' /\ OpenTransfer(v)' => o = v
  BY DEF TransferInv
<1>10. \A q \in Clerks : OnTransfer(q)' => transfer'[clerk'[q].op].st
            \in {"processing", "pending_recovery"}
  BY <1>2, <1>3, <1>6 DEF OpenTransfer
<1>11. \A o \in Requests : OpenTransfer(o)' =>
          transfer'[o].old = owner /\ rowOwner' \in {owner, transfer'[o].new, Elsewhere}
  BY <1>1, <1>2, <1>3 DEF TransferInv
<1>12. contexts \subseteq {owner} BY DEF TransferInv
<1>13. ~(\A o \in Requests : ~OpenTransfer(o)') BY <1>2, <1>3
<1>14. ASSUME NEW q \in Clerks
       PROVE  /\ clerk'[q].pc = "send"
                   \/ (clerk'[q].pc = "close" /\ clerk'[q].res = "refused")
                   => rowOwner' \in {owner, Elsewhere}
              /\ clerk'[q].pc = "settle" =>
                   rowOwner' \in {transfer'[clerk'[q].op].new, Elsewhere}
  BY <1>1, <1>2, <1>7
<1>15. QED
  BY <1>6, <1>8, <1>10, <1>11, <1>12, <1>13, <1>14 DEF TransferInv, OpenTransfer

LEMMA GoAfter ==
  ASSUME Typed, NEW p \in Clerks, NEW x, Go(p, x)
  PROVE  clerk'[p].pc = x
<1>1. clerk \in [Clerks -> ClerkState] /\ clerk[p] \in ClerkState BY DEF Typed, DeskTyped
<1>2. QED BY <1>1 DEF Go, ClerkState

LEMMA CloseAfter ==
  ASSUME Typed, NEW p \in Clerks, NEW res, CloseWith(p, res)
  PROVE  clerk'[p].pc = "close" /\ clerk'[p].res = res
<1>1. clerk \in [Clerks -> ClerkState] /\ clerk[p] \in ClerkState BY DEF Typed, DeskTyped
<1>2. clerk'[p] = [clerk[p] EXCEPT !.pc = "close", !.res = res] BY <1>1 DEF CloseWith
<1>3. QED BY <1>1, <1>2 DEF ClerkState

LEMMA ReadKeepsOwners ==
  ASSUME ConsoleAssumption, Typed, TransferInv, raced = FALSE, NEW p \in Clerks,
         ReadRow(p) \/ VerifyPermission(p)
  PROVE  TransferInv'
<1>1. PICK o : o = clerk[p].op OBVIOUS
<1>2. OnTransfer(p) /\ UNCHANGED transferVars
  BY DEF ReadRow, VerifyPermission, At, OnTransfer
<1>3. o \in Requests /\ OpenTransfer(o)
  BY <1>1, <1>2 DEF OnTransfer, Typed, DeskTyped, Fits, TransferPlaces, TransferInv
<1>4. SameOp(p) BY TransferActions DEF TransferActs
<1>5. transfer[o].old = owner /\ rowOwner \in {owner, transfer[o].new, Elsewhere}
  BY <1>3 DEF TransferInv
<1>6. /\ clerk'[p].pc = "send" => rowOwner = owner
      /\ clerk'[p].pc = "close" => clerk'[p].res # "refused"
      /\ clerk'[p].pc = "settle" => rowOwner = transfer[o].new
  <2>1. CASE ReadRow(p)
    <3>1. \/ CloseWith(p, "unknown") \/ Go(p, "mark")
          \/ Go(p, "send") /\ rowOwner = owner
      BY <1>1, <1>5, <2>1 DEF ReadRow
    <3>2. QED BY <3>1, GoAfter, CloseAfter
  <2>2. CASE VerifyPermission(p)
    <3>1. CloseWith(p, "unsettled") \/ (Go(p, "settle") /\ rowOwner = transfer[o].new)
      BY <1>1, <2>2 DEF VerifyPermission, PermissionVerified
    <3>2. QED BY <3>1, GoAfter, CloseAfter
  <2>3. QED BY <2>1, <2>2
<1>7. UNCHANGED <<owner, rowOwner, transfer, contexts, raced>>
  BY <1>2 DEF transferVars
<1>8. \A x \in Requests : OpenTransfer(x)' <=> OpenTransfer(x)
  BY <1>7 DEF OpenTransfer
<1>9. QED BY <1>1, <1>2, <1>4, <1>5, <1>6, <1>7, <1>8, TransferMove

LEMMA SendKeepsOwners ==
  ASSUME ConsoleAssumption, Typed, TransferInv, raced = FALSE, NEW p \in Clerks,
         SendOwner(p)
  PROVE  TransferInv'
<1>1. PICK o : o = clerk[p].op OBVIOUS
<1>2. /\ OnTransfer(p) /\ UNCHANGED <<owner, transfer, contexts, raced>>
      /\ rowOwner \in {owner, Elsewhere}
  BY DEF SendOwner, At, OnTransfer, TransferInv
<1>3. o \in Requests /\ OpenTransfer(o)
  BY <1>1, <1>2 DEF OnTransfer, Typed, DeskTyped, Fits, TransferPlaces, TransferInv
<1>4. SameOp(p) BY TransferActions DEF TransferActs
<1>5. \/ Go(p, "mark") /\ rowOwner' = transfer[o].new
      \/ CloseWith(p, "refused") /\ rowOwner' = rowOwner
      \/ CloseWith(p, "unknown") /\ rowOwner' \in {rowOwner, transfer[o].new}
  BY <1>1 DEF SendOwner, NoAnswer
<1>6. /\ rowOwner' \in {owner, transfer[o].new, Elsewhere}
      /\ clerk'[p].pc \in {"mark", "close"}
      /\ clerk'[p].pc = "close" /\ clerk'[p].res = "refused" =>
           rowOwner' \in {owner, Elsewhere}
  BY <1>2, <1>5, GoAfter, CloseAfter
<1>7. \A x \in Requests : OpenTransfer(x)' <=> OpenTransfer(x)
  BY <1>2 DEF OpenTransfer
<1>8. QED BY <1>1, <1>2, <1>4, <1>6, <1>7, TransferMove

LEMMA MarkKeepsOwners ==
  ASSUME ConsoleAssumption, Typed, TransferInv, raced = FALSE, NEW p \in Clerks,
         MarkRemote(p)
  PROVE  TransferInv'
<1>1. PICK o : o = clerk[p].op OBVIOUS
<1>2. /\ OnTransfer(p) /\ UNCHANGED <<owner, rowOwner, contexts, raced>>
  BY DEF MarkRemote, At, OnTransfer
<1>3. o \in Requests /\ OpenTransfer(o) /\ transfer \in [Requests -> TransferState]
  BY <1>1, <1>2 DEF OnTransfer, Typed, DeskTyped, Fits, TransferPlaces, TransferInv,
     TransferTyped
<1>4. SameOp(p) BY TransferActions DEF TransferActs
<1>5. /\ \A x \in Requests : x # o => transfer'[x] = transfer[x]
      /\ transfer'[o] = FinishTransfer(transfer[o], "processing", "succeeded")
  BY <1>1, <1>3 DEF MarkRemote
<1>6. \A x \in Requests : /\ OpenTransfer(x)' <=> OpenTransfer(x)
                          /\ transfer'[x].old = transfer[x].old
                          /\ transfer'[x].new = transfer[x].new
  <2>1. transfer[o].st \in {"processing", "pending_recovery"} BY <1>3 DEF OpenTransfer
  <2>2. /\ transfer'[o].st \in {"processing", "pending_recovery"}
        /\ transfer'[o].old = transfer[o].old /\ transfer'[o].new = transfer[o].new
    BY <1>3, <1>5, <2>1 DEF FinishTransfer, TransferState
  <2>3. QED BY <1>5, <2>1, <2>2 DEF OpenTransfer
<1>7. clerk'[p].pc = "verify" BY GoAfter DEF MarkRemote
<1>8. rowOwner \in {owner, transfer[o].new, Elsewhere} BY <1>3 DEF TransferInv
<1>9. QED BY <1>1, <1>2, <1>4, <1>6, <1>7, <1>8, TransferMove

(* The transfer of the one clerk at work comes to an end. *)
LEMMA TransferEnds ==
  ASSUME Typed, TransferInv, raced = FALSE, NEW p \in Clerks, OnTransfer(p), SameOp(p),
         ~OnTransfer(p)', UNCHANGED <<rowOwner, raced>>,
         \A o \in Requests : o # clerk[p].op => transfer'[o] = transfer[o],
         transfer'[clerk[p].op].st \notin {"processing", "pending_recovery"},
         rowOwner \in {owner', Elsewhere}, contexts' \subseteq {owner'}
  PROVE  TransferInv'
<1>1. PICK u : u = clerk[p].op OBVIOUS
<1>2. u \in Requests
  BY <1>1 DEF OnTransfer, Typed, DeskTyped, Fits, TransferPlaces
<1>3. OpenTransfer(u) BY <1>1 DEF TransferInv
<1>4. \A o \in Requests : ~OpenTransfer(o)'
  <2>1. \A o \in Requests : o # u => ~OpenTransfer(o) BY <1>2, <1>3 DEF TransferInv
  <2>2. QED BY <1>1, <2>1 DEF OpenTransfer
<1>5. \A q \in Clerks : ~OnTransfer(q)'
  BY DEF TransferInv, SameOp, OnTransfer
<1>6. \A q \in Clerks : clerk'[q].pc \notin {"send", "close", "settle"}
  BY <1>5 DEF OnTransfer
<1>7. QED BY <1>4, <1>5, <1>6 DEF TransferInv

LEMMA SettleKeepsOwners ==
  ASSUME ConsoleAssumption, Typed, TransferInv, raced = FALSE, NEW p \in Clerks,
         SettleTransfer(p)
  PROVE  TransferInv'
<1>1. PICK o : o = clerk[p].op OBVIOUS
<1>2. OnTransfer(p) /\ UNCHANGED <<rowOwner, raced>>
  BY DEF SettleTransfer, At, OnTransfer
<1>3. o \in Requests /\ OpenTransfer(o) /\ transfer \in [Requests -> TransferState]
  BY <1>1, <1>2 DEF OnTransfer, Typed, DeskTyped, Fits, TransferPlaces, TransferInv,
     TransferTyped
<1>4. /\ transfer[o].old = owner /\ contexts \subseteq {owner}
      /\ rowOwner \in {transfer[o].new, Elsewhere}
  BY <1>1, <1>3 DEF TransferInv, SettleTransfer, At
<1>5. SameOp(p) BY TransferActions DEF TransferActs
<1>6. CASE MayMove(transfer[o])
  <2>1. /\ owner' = transfer[o].new /\ contexts' = contexts \ {transfer[o].old}
        /\ transfer' = [transfer EXCEPT ![o].st = "succeeded"] /\ Answer(p, "succeeded")
    BY <1>1, <1>6 DEF SettleTransfer
  <2>2. ~OnTransfer(p)' BY <2>1, AnswerAfter DEF OnTransfer
  <2>3. /\ \A x \in Requests : x # o => transfer'[x] = transfer[x]
        /\ transfer'[o].st = "succeeded"
    BY <1>3, <2>1 DEF TransferState
  <2>4. contexts' \subseteq {owner'} BY <1>4, <2>1
  <2>5. QED BY <1>1, <1>2, <1>4, <1>5, <2>1, <2>2, <2>3, <2>4, TransferEnds
<1>7. CASE ~MayMove(transfer[o])
  <2>1. CloseWith(p, "unsettled") /\ UNCHANGED <<owner, transfer, contexts>>
    BY <1>1, <1>7 DEF SettleTransfer
  <2>2. clerk'[p].pc = "close" /\ clerk'[p].res = "unsettled" BY <2>1, CloseAfter
  <2>3. \A x \in Requests : OpenTransfer(x)' <=> OpenTransfer(x)
    BY <2>1 DEF OpenTransfer
  <2>4. QED BY <1>1, <1>2, <1>4, <1>5, <2>1, <2>2, <2>3, TransferMove
<1>8. QED BY <1>6, <1>7

LEMMA CloseKeepsOwners ==
  ASSUME ConsoleAssumption, Typed, TransferInv, raced = FALSE, NEW p \in Clerks,
         CloseTransfer(p)
  PROVE  TransferInv'
<1>1. PICK o, st, remote :
         /\ o = clerk[p].op /\ st = ClosedStatus(clerk[p].res)
         /\ remote = ClosedRemote(clerk[p].res)
  OBVIOUS
<1>2. OnTransfer(p) /\ UNCHANGED <<owner, rowOwner, contexts, raced>>
  BY DEF CloseTransfer, At, OnTransfer
<1>3. o \in Requests /\ OpenTransfer(o) /\ transfer \in [Requests -> TransferState]
  BY <1>1, <1>2 DEF OnTransfer, Typed, DeskTyped, Fits, TransferPlaces, TransferInv,
     TransferTyped
<1>4. SameOp(p) BY TransferActions DEF TransferActs
<1>5. /\ \A x \in Requests : x # o => transfer'[x] = transfer[x]
      /\ transfer'[o] = FinishTransfer(transfer[o], st, remote)
  BY <1>1, <1>3 DEF CloseTransfer
<1>6. transfer[o].st \in {"processing", "pending_recovery"} BY <1>3 DEF OpenTransfer
<1>7. clerk'[p].pc = "report" BY AnswerAfter DEF CloseTransfer
<1>8. ~OnTransfer(p)' BY <1>7 DEF OnTransfer
<1>9. CASE clerk[p].res = "refused"
  <2>1. st = "remote_failed" BY <1>1, <1>9 DEF ClosedStatus
  <2>2. transfer'[o].st = "remote_failed"
    BY <1>3, <1>5, <1>6, <2>1 DEF FinishTransfer, TransferState
  <2>3. rowOwner \in {owner, Elsewhere} /\ contexts \subseteq {owner}
    BY <1>9 DEF TransferInv, CloseTransfer, At
  <2>4. QED BY <1>1, <1>2, <1>4, <1>5, <1>8, <2>2, <2>3, TransferEnds
<1>10. CASE clerk[p].res # "refused"
  <2>1. st = "pending_recovery" BY <1>1, <1>10 DEF ClosedStatus
  <2>2. /\ transfer'[o].st = "pending_recovery"
        /\ transfer'[o].old = transfer[o].old /\ transfer'[o].new = transfer[o].new
    BY <1>3, <1>5, <1>6, <2>1 DEF FinishTransfer, TransferState
  <2>3. \A x \in Requests : /\ OpenTransfer(x)' <=> OpenTransfer(x)
                            /\ transfer'[x].old = transfer[x].old
                            /\ transfer'[x].new = transfer[x].new
    BY <1>5, <1>6, <2>2 DEF OpenTransfer
  <2>4. rowOwner \in {owner, transfer[o].new, Elsewhere} BY <1>3 DEF TransferInv
  <2>5. QED BY <1>1, <1>2, <1>4, <1>7, <2>3, <2>4, TransferMove
<1>11. QED BY <1>9, <1>10

LEMMA ClaimKeepsOwners ==
  ASSUME ConsoleAssumption, Typed, TransferInv, raced = FALSE, raced' = FALSE,
         NEW p \in Clerks, ClaimTransfer(p)
  PROVE  TransferInv'
<1>1. PICK o : o = clerk[p].op OBVIOUS
<1>2. UNCHANGED <<owner, rowOwner, contexts>> /\ ~OnTransfer(p)
  BY DEF ClaimTransfer, At, OnTransfer
<1>3. o \in Requests /\ transfer \in [Requests -> TransferState]
  BY <1>1 DEF ClaimTransfer, At, Typed, DeskTyped, Fits, TransferPlaces, TransferTyped
<1>4. SameOp(p) BY TransferActions DEF TransferActs
<1>5. CASE (\E res : Answer(p, res)) /\ UNCHANGED <<transfer, raced>>
  <2>1. ~OnTransfer(p)' BY <1>5, AnswerAfter DEF OnTransfer
  <2>2. QED BY <1>2, <1>4, <1>5, <2>1, TransferIdle DEF SameOp, transferVars
<1>6. CASE /\ OpenTransfer(o) /\ Go(p, "read")
           /\ transfer' = [transfer EXCEPT ![o].st = "processing", ![o].fresh = TRUE]
           /\ ~\E q \in Clerks \ {p} : OnTransfer(q) /\ clerk[q].op = o
  <2>1. \A q \in Clerks : ~OnTransfer(q)
    <3>1. \A q \in Clerks : OnTransfer(q) => clerk[q].op \in Requests
      BY DEF OnTransfer, Typed, DeskTyped, Fits, TransferPlaces
    <3>2. \A q \in Clerks : OnTransfer(q) => clerk[q].op = o
      BY <1>3, <1>6, <3>1 DEF TransferInv
    <3>3. QED BY <1>2, <1>6, <3>2
  <2>2. clerk'[p].pc = "read" /\ clerk'[p].op = o
    BY <1>1, <1>4, <1>6, GoAfter DEF SameOp
  <2>3. \A q \in Clerks : q # p => ~OnTransfer(q)' /\ clerk'[q] = clerk[q]
    BY <1>4, <2>1 DEF SameOp, OnTransfer
  <2>4. /\ \A x \in Requests : x # o => transfer'[x] = transfer[x]
        /\ transfer'[o].st = "processing"
        /\ transfer'[o].old = transfer[o].old /\ transfer'[o].new = transfer[o].new
    BY <1>3, <1>6 DEF TransferState
  <2>5. \A x \in Requests : OpenTransfer(x)' <=> x = o
    <3>1. \A x \in Requests : OpenTransfer(x) <=> x = o BY <1>3, <1>6 DEF TransferInv
    <3>2. QED BY <2>4, <3>1 DEF OpenTransfer
  <2>6. transfer[o].old = owner /\ rowOwner \in {owner, transfer[o].new, Elsewhere}
        /\ contexts \subseteq {owner}
    BY <1>3, <1>6 DEF TransferInv
  <2>7. \A q \in Clerks : clerk'[q].pc \notin {"send", "close", "settle"}
    BY <2>2, <2>3 DEF OnTransfer
  <2>8. \A q \in Clerks : OnTransfer(q)' => q = p BY <2>3
  <2>9. \A x, y \in Requests : OpenTransfer(x)' /\ OpenTransfer(y)' => x = y BY <2>5
  <2>10. \A q \in Clerks : OnTransfer(q)' =>
            transfer'[clerk'[q].op].st \in {"processing", "pending_recovery"}
    BY <2>2, <2>4, <2>8
  <2>11. QED
    BY <1>2, <1>3, <2>4, <2>5, <2>6, <2>7, <2>8, <2>9, <2>10 DEF TransferInv, OpenTransfer
<1>7. QED BY <1>1, <1>5, <1>6 DEF ClaimTransfer, Refuse

LEMMA PrepareKeepsOwners ==
  ASSUME ConsoleAssumption, Typed, TransferInv, raced = FALSE, NEW p \in Clerks,
         PrepareTransfer(p)
  PROVE  TransferInv'
<1>1. PICK r : r = clerk[p].req OBVIOUS
<1>2. /\ UNCHANGED <<owner, rowOwner, contexts, raced>> /\ r \in Requests
      /\ clerk \in [Clerks -> ClerkState] /\ clerk[p] \in ClerkState
      /\ transfer \in [Requests -> TransferState]
  BY <1>1 DEF PrepareTransfer, At, Typed, DeskTyped, Fits, TransferTyped
<1>3. CASE Refuse(p) /\ UNCHANGED transfer
  <2>1. /\ ~OnTransfer(p)' /\ \A q \in Clerks : q # p => clerk'[q] = clerk[q]
    BY <1>2, <1>3, AnswerAfter DEF OnTransfer, Refuse, Answer
  <2>2. QED BY <1>2, <1>3, <2>1, TransferIdle DEF transferVars
<1>4. ASSUME NEW o, UNCHANGED transfer,
             clerk' = [clerk EXCEPT ![p].pc = "transfer_reconcile", ![p].op = o]
      PROVE  TransferInv'
  <2>1. /\ clerk'[p].pc = "transfer_reconcile"
        /\ \A q \in Clerks : q # p => clerk'[q] = clerk[q]
    BY <1>2, <1>4 DEF ClerkState
  <2>2. ~OnTransfer(p)' BY <2>1 DEF OnTransfer
  <2>3. QED BY <1>2, <1>4, <2>1, <2>2, TransferIdle DEF transferVars
<1>5. ASSUME \A o \in Requests : ~OpenTransfer(o), NEW n,
             transfer' = [transfer EXCEPT ![r] =
                [st |-> "processing", remote |-> "pending", old |-> owner,
                 new |-> n, fresh |-> TRUE]],
             clerk' = [clerk EXCEPT ![p].pc = "send", ![p].op = r]
      PROVE  TransferInv'
  <2>1. /\ clerk'[p].pc = "send" /\ clerk'[p].op = r
        /\ \A q \in Clerks : q # p => clerk'[q] = clerk[q]
    BY <1>2, <1>5 DEF ClerkState
  <2>2. \A q \in Clerks : ~OnTransfer(q)
    <3>1. \A q \in Clerks : OnTransfer(q) => clerk[q].op \in Requests
      BY DEF OnTransfer, Typed, DeskTyped, Fits, TransferPlaces
    <3>2. QED BY <1>5, <3>1 DEF TransferInv
  <2>3. \A q \in Clerks : q # p => ~OnTransfer(q)' BY <2>1, <2>2 DEF OnTransfer
  <2>4. /\ transfer'[r].st = "processing" /\ transfer'[r].old = owner
        /\ \A x \in Requests : x # r => transfer'[x] = transfer[x]
    BY <1>2, <1>5
  <2>5. \A x \in Requests : OpenTransfer(x)' <=> x = r
    BY <1>5, <2>4 DEF OpenTransfer
  <2>6. rowOwner \in {owner, Elsewhere} /\ contexts \subseteq {owner}
    BY <1>5 DEF TransferInv
  <2>7. \A q \in Clerks : q # p => clerk'[q].pc \notin {"send", "close", "settle"}
    BY <2>3 DEF OnTransfer
  <2>8. \A q \in Clerks : OnTransfer(q)' =>
           transfer'[clerk'[q].op].st \in {"processing", "pending_recovery"}
    BY <2>1, <2>3, <2>4
  <2>9. \A x, y \in Requests : OpenTransfer(x)' /\ OpenTransfer(y)' => x = y BY <2>5
  <2>10. \A q \in Clerks : clerk'[q].pc # "settle" BY <2>1, <2>7
  <2>11. \A x, y \in Clerks : OnTransfer(x)' /\ OnTransfer(y)' => x = y BY <2>3
  <2>12. QED
    BY <1>2, <2>4, <2>5, <2>6, <2>8, <2>9, <2>10, <2>11 DEF TransferInv, OpenTransfer
<1>6. \/ Refuse(p) /\ UNCHANGED transfer
      \/ \E o : UNCHANGED transfer
           /\ clerk' = [clerk EXCEPT ![p].pc = "transfer_reconcile", ![p].op = o]
      \/ /\ \A o \in Requests : ~OpenTransfer(o)
         /\ transfer' = [transfer EXCEPT ![r] =
                [st |-> "processing", remote |-> "pending", old |-> owner,
                 new |-> clerk[p].to, fresh |-> TRUE]]
         /\ clerk' = [clerk EXCEPT ![p].pc = "send", ![p].op = r]
  BY <1>1 DEF PrepareTransfer
<1>7. QED BY <1>3, <1>4, <1>5, <1>6

LEMMA TransferKeepsOwners ==
  ASSUME ConsoleAssumption, Typed, OperationsApart, TransferInv, TransferNext
  PROVE  TransferInv'
<1>1. SUFFICES ASSUME raced' = FALSE PROVE TransferInv'
  BY DEF TransferInv
<1>2. raced = FALSE
  <2>1. raced \in BOOLEAN BY DEF Typed, TransferTyped
  <2>2. ASSUME UNCHANGED raced PROVE raced = FALSE BY <1>1, <2>2
  <2>3. ASSUME NEW p \in Clerks, ClaimTransfer(p) PROVE raced = FALSE
    <3>1. \/ UNCHANGED raced
          \/ raced' = (raced \/ \E q \in Clerks \ {p} : OnTransfer(q) /\ clerk[q].op = clerk[p].op)
      BY <2>3 DEF ClaimTransfer
    <3>2. QED BY <1>1, <2>1, <3>1
  <2>4. ASSUME NEW p \in Clerks,
               \/ PrepareTransfer(p) \/ ReadRow(p) \/ SendOwner(p) \/ MarkRemote(p)
               \/ VerifyPermission(p) \/ SettleTransfer(p) \/ CloseTransfer(p)
        PROVE  UNCHANGED raced
    BY <2>4 DEF PrepareTransfer, ReadRow, SendOwner, MarkRemote, VerifyPermission,
       SettleTransfer, CloseTransfer, transferVars
  <2>5. ASSUME NEW p \in Clerks, NEW x \in Sales, AskTransfer(p, x) PROVE UNCHANGED raced
    BY <2>5 DEF AskTransfer, transferVars
  <2>6. ASSUME NEW p \in Clerks, NEW o \in Requests, AskReconcile(p, o)
        PROVE  UNCHANGED raced
    BY <2>6 DEF AskReconcile, transferVars
  <2>7. ASSUME NEW o \in Requests, LeaseLapses(o) PROVE UNCHANGED raced
    BY <2>7 DEF LeaseLapses
  <2>8. CASE EditOwner BY <2>2, <2>8 DEF EditOwner
  <2>9. QED BY <2>2, <2>3, <2>4, <2>5, <2>6, <2>7, <2>8 DEF TransferNext
<1>3. ASSUME NEW p \in Clerks, NEW k \in {"transfer", "transfer_reconcile"}, NEW o,
             NEW x, Begin(p, k, o, x), UNCHANGED transferVars
      PROVE  TransferInv'
  <2>1. /\ clerk'[p].pc = k /\ \A q \in Clerks : q # p => clerk'[q] = clerk[q]
    BY <1>3, BegunAnew
  <2>2. ~OnTransfer(p)' BY <2>1 DEF OnTransfer
  <2>3. QED BY <1>3, <2>1, <2>2, TransferIdle
<1>4. ASSUME NEW p \in Clerks, NEW x \in Sales, AskTransfer(p, x) PROVE TransferInv'
  BY <1>3, <1>4 DEF AskTransfer
<1>5. ASSUME NEW p \in Clerks, NEW o \in Requests, AskReconcile(p, o) PROVE TransferInv'
  BY <1>3, <1>5 DEF AskReconcile
<1>6. ASSUME NEW p \in Clerks,
             \/ PrepareTransfer(p) \/ ClaimTransfer(p) \/ ReadRow(p) \/ SendOwner(p)
             \/ MarkRemote(p) \/ VerifyPermission(p) \/ SettleTransfer(p)
             \/ CloseTransfer(p)
      PROVE  TransferInv'
  BY <1>1, <1>2, <1>6, PrepareKeepsOwners, ClaimKeepsOwners, ReadKeepsOwners,
     SendKeepsOwners, MarkKeepsOwners, SettleKeepsOwners, CloseKeepsOwners
<1>7. ASSUME NEW o \in Requests, LeaseLapses(o) PROVE TransferInv'
  <2>1. transfer \in [Requests -> TransferState] BY DEF Typed, TransferTyped
  <2>2. \A x \in Requests : /\ transfer'[x].st = transfer[x].st
                            /\ transfer'[x].old = transfer[x].old
                            /\ transfer'[x].new = transfer[x].new
    BY <1>7, <2>1 DEF LeaseLapses, TransferState
  <2>3. \A q \in Clerks : OnTransfer(q) => clerk[q].op \in Requests
    BY DEF OnTransfer, Typed, DeskTyped, Fits, TransferPlaces
  <2>4. UNCHANGED <<clerk, owner, rowOwner, contexts>> BY <1>7 DEF LeaseLapses
  <2>5. \A q \in Clerks : OnTransfer(q)' <=> OnTransfer(q) BY <2>4 DEF OnTransfer
  <2>6. \A x \in Requests : OpenTransfer(x)' <=> OpenTransfer(x)
    BY <2>2 DEF OpenTransfer
  <2>7. \A q \in Clerks : OnTransfer(q) =>
           transfer'[clerk'[q].op].st \in {"processing", "pending_recovery"}
    BY <1>2, <2>2, <2>3, <2>4 DEF TransferInv, OpenTransfer
  <2>8. \A q \in Clerks : clerk[q].pc = "settle" => OnTransfer(q) BY DEF OnTransfer
  <2>9. \A q \in Clerks : OnTransfer(q)' => OpenTransfer(clerk[q].op)'
    BY <2>4, <2>5, <2>7 DEF OpenTransfer
  <2>10. QED
    BY <1>2, <2>2, <2>3, <2>4, <2>5, <2>6, <2>8, <2>9 DEF TransferInv
<1>8. CASE EditOwner
  <2>1. /\ UNCHANGED <<clerk, owner, transfer, contexts>> /\ rowOwner' = Elsewhere
    BY <1>8 DEF EditOwner
  <2>2. QED BY <1>2, <2>1 DEF TransferInv, OnTransfer, OpenTransfer
<1>9. QED BY <1>4, <1>5, <1>6, <1>7, <1>8 DEF TransferNext

-----------------------------------------------------------------------------
(* The theorems *)

LEMMA TypedImpliesTypeOK ==
  ASSUME Typed PROVE TypeOK
<1>1. DeskTypeOK BY DEF Typed, DeskTyped, DeskTypeOK, ClerkState, Fits
<1>2. TransferTypeOK
  BY DEF Typed, TransferTyped, TransferTypeOK, TransferState, Statuses, Remotes
<1>3. CreationTypeOK
  BY DEF Typed, CreationTyped, CreationTypeOK, CreationState, Statuses, Remotes
<1>4. ReviewTypeOK
  <2>1. ASSUME NEW l \in Leads
        PROVE  /\ field[l].cell \in Values \cup {Hand, Blank, Gone}
               /\ {field[l].fact, field[l].val, field[l].synced}
                    \subseteq Values \cup {Blank}
               /\ {field[l].user, field[l].edited, field[l].torn} \subseteq BOOLEAN
    <3>1. field[l] \in FieldState BY DEF Typed, ReviewTyped
    <3>2. QED BY <3>1 DEF FieldState
  <2>2. ASSUME NEW w \in Writers
        PROVE  draft[w].pc \in {"none", "look", "plan", "reread", "replan", "save",
                                "guard", "write", "record", "remake"}
    BY DEF Typed, ReviewTyped, DraftState
  <2>3. QED BY <2>1, <2>2 DEF Typed, ReviewTyped, ReviewTypeOK
<1>5. RetryTypeOK
  <2>1. ASSUME NEW n \in 1..Last
        PROVE  /\ attempt[n].st \in {"processing", "succeeded", "no_target",
                                     "failed_pending_review"}
               /\ attempt[n].lead \in Leads \cup {None}
    <3>1. attempt[n] \in AttemptState BY DEF Typed, RetryTyped, Last
    <3>2. QED BY <3>1 DEF AttemptState
  <2>2. QED BY <2>1 DEF Typed, RetryTyped, RetryTypeOK
<1>6. QED BY <1>1, <1>2, <1>3, <1>4, <1>5 DEF TypeOK

(* The console's records keep their types, whatever requests overlap, die    *)
(* or are recovered: every clerk finds the operation, the attempt and the     *)
(* lead that its place needs (app/console/maintenance.py and the services     *)
(* behind it).                                                               *)
THEOREM TypesHold == Spec => []TypeOK
<1>1. Typed /\ OperationsApart => TypeOK BY TypedImpliesTypeOK
<1>2. QED BY <1>1, TypedAlways, PTL

(* A success of a transfer or of a creation is final, however late and with   *)
(* whatever result another request on the same operation comes back           *)
(* (_finish_operation, _finish), and no request makes its operation over one   *)
(* that is there.                                                             *)
THEOREM SuccessesStay == Spec => SuccessIsFinal
<1>1. ASSUME Typed, OperationsApart, [Next]_vars, NEW r \in Requests
      PROVE  TransferLives(r) /\ CreationLives(r)
  <2>1. ASSUME UNCHANGED transferVars PROVE TransferLives(r)
    BY <2>1 DEF transferVars, TransferLives
  <2>2. ASSUME UNCHANGED creationVars PROVE CreationLives(r)
    BY <2>2 DEF creationVars, CreationLives
  <2>3. CASE UNCHANGED vars BY <2>1, <2>2, <2>3 DEF vars
  <2>4. CASE Next
    BY <1>1, <2>1, <2>2, <2>4, TransferAfter, CreationAfter, ConsoleAssumption DEF Next
  <2>5. QED BY <1>1, <2>3, <2>4
<1>2. Typed /\ OperationsApart /\ [Next]_vars =>
        [\A r \in Requests :
           /\ transfer[r].st = "succeeded" => transfer'[r].st = "succeeded"
           /\ creation[r].st = "succeeded" => creation'[r].st = "succeeded"]_vars
  BY <1>1 DEF TransferLives, CreationLives
<1>3. QED BY <1>2, TypedAlways, PTL DEF Spec, SuccessIsFinal

(* The invariants of transfers and creations survive the steps of all parts. *)
LEMMA OperationsStep ==
  ASSUME ConsoleAssumption, Typed, OperationsApart, [Next]_vars
  PROVE  /\ TransferInv => TransferInv'
         /\ CreationInv => CreationInv'
<1>1. ASSUME TransferInv, TransferSpared PROVE TransferInv'
  <2>1. \A q \in Clerks : clerk'[q] = clerk[q] \/ ~OnTransfer(q)'
    BY <1>1 DEF TransferSpared, OnTransfer, TransferPlaces
  <2>2. QED BY <1>1, <2>1, TransferIdle DEF TransferSpared
<1>2. ASSUME CreationInv, CreationSpared PROVE CreationInv'
  <2>1. \A q \in Clerks : clerk'[q] = clerk[q] \/ ~OnCreation(q)'
    BY <1>2 DEF CreationSpared, OnCreation, CreationPlaces
  <2>2. UNCHANGED <<creation, bound>> BY <1>2 DEF CreationSpared, creationVars
  <2>3. QED BY <1>2, <2>1, <2>2, CreationIdle
<1>3. CASE DeskNext /\ UNCHANGED <<transferVars, creationVars, reviewVars, retryVars>>
  BY <1>1, <1>2, <1>3, DeskStep
<1>4. ASSUME NEW p \in Clerks, ClerkCrashes(p), DropDraft(p),
             UNCHANGED <<transferVars, creationVars, due, retryVars>>
      PROVE  TransferSpared /\ CreationSpared
  BY <1>4, CrashStep
<1>5. CASE TransferNext /\ UNCHANGED <<creationVars, reviewVars, retryVars>>
  BY <1>2, <1>5, TransferStep, TransferKeepsOwners
<1>6. CASE CreationNext /\ UNCHANGED <<transferVars, reviewVars, retryVars>>
  BY <1>1, <1>6, CreationStep, CreationKeepsRows
<1>7. CASE UNCHANGED <<transferVars, creationVars>>
           /\ (RetryNext \/ (ReviewNext /\ UNCHANGED retryVars))
  BY <1>1, <1>2, <1>7, RetryStep
<1>8. CASE UNCHANGED vars
  <2>1. UNCHANGED transferVars /\ UNCHANGED creationVars /\ UNCHANGED clerk
    BY <1>8 DEF vars, deskVars
  <2>2. UNCHANGED <<creation, bound>> BY <2>1 DEF creationVars
  <2>3. QED BY <2>1, <2>2, TransferIdle, CreationIdle
<1>9. QED BY <1>1, <1>2, <1>3, <1>4, <1>5, <1>6, <1>7, <1>8 DEF Next

(* Once no transfer is open the backend and the table name the same owner     *)
(* (ADR 0012), through refusals, lost answers, crashes and reconciliations,    *)
(* as long as the row was not changed by hand and no operation had two         *)
(* requests at work.  What makes it inductive: one transfer is open at most,   *)
(* one clerk is on it, and its place bounds the owners the row may have.       *)
THEOREM OwnersStayTogether == Spec => []OwnersAgree
<1>1. Init => TransferInv
  BY DEF Init, DeskInit, TransferInit, TransferInv, OpenTransfer, OnTransfer, NoTransfer,
     Idle
<1>2. Typed /\ OperationsApart /\ TransferInv /\ [Next]_vars => TransferInv'
  BY ConsoleAssumption, OperationsStep
<1>3. Typed /\ TransferInv => OwnersAgree
  <2>1. SUFFICES ASSUME Typed, TransferInv, \A o \in Requests : ~OpenTransfer(o),
                        ~raced, rowOwner # Elsewhere
                 PROVE  owner = rowOwner /\ contexts \subseteq {owner}
    BY DEF OwnersAgree
  <2>2. raced = FALSE BY <2>1 DEF Typed, TransferTyped
  <2>3. QED BY <2>1, <2>2 DEF TransferInv
<1>4. QED BY <1>1, <1>2, <1>3, TypedAlways, PTL DEF Spec

(* A lead whose creation succeeded has the row its operation keeps, and no    *)
(* other lead has that row (_finalize_local_creation, and the record of an    *)
(* unverified id), however many requests of one company create and recover    *)
(* at once.  It rests on the first call: while it is out nobody else gets     *)
(* the operation, whether or not its lease is over.                           *)
THEOREM CreatedLeadsHaveTheirRows == Spec => []CreatedLeadHasItsRow
<1>1. Init => CreationInv
  BY DEF Init, DeskInit, CreationInit, CreationInv, FirstCall, NoCreation, Idle
<1>2. Typed /\ OperationsApart /\ CreationInv /\ [Next]_vars => CreationInv'
  BY ConsoleAssumption, OperationsStep
<1>3. CreationInv => CreatedLeadHasItsRow
  BY DEF CreationInv, CreatedLeadHasItsRow
<1>4. QED BY <1>1, <1>2, <1>3, TypedAlways, PTL DEF Spec

(* Fields and plans are kept by every step. *)
LEMMA FieldsStep ==
  ASSUME ConsoleAssumption, Typed, PlansFit, CleanFields, [Next]_vars
  PROVE  PlansFit' /\ CleanFields'
<1>1. ASSUME UNCHANGED reviewVars, DeskKept PROVE PlansFit' /\ CleanFields'
  <2>1. UNCHANGED <<field, draft>> /\ discarded \subseteq discarded'
    BY <1>1 DEF reviewVars, DeskKept
  <2>2. QED BY <2>1 DEF PlansFit, CleanFields, Recording
<1>2. CASE DeskNext /\ UNCHANGED <<transferVars, creationVars, reviewVars, retryVars>>
  BY <1>1, <1>2, DeskStep
<1>3. ASSUME NEW p \in Clerks, ClerkCrashes(p), DropDraft(p),
             UNCHANGED <<transferVars, creationVars, due, retryVars>>
      PROVE  PlansFit' /\ CleanFields'
  <2>1. discarded \subseteq discarded' /\ p \in Writers
    BY <1>3 DEF ClerkCrashes, Writers
  <2>2. QED BY <1>3, <2>1, DropKeepsFields
<1>4. CASE TransferNext /\ UNCHANGED <<creationVars, reviewVars, retryVars>>
  BY <1>1, <1>4, TransferStep
<1>5. CASE CreationNext /\ UNCHANGED <<transferVars, reviewVars, retryVars>>
  BY <1>1, <1>5, CreationStep
<1>6. CASE RetryNext BY <1>6, RetryKeepsFields
<1>7. CASE ReviewNext BY <1>7, ReviewKeepsFields
<1>8. CASE UNCHANGED vars
  BY <1>8 DEF vars, deskVars, reviewVars, PlansFit, CleanFields, Recording
<1>9. QED BY <1>2, <1>3, <1>4, <1>5, <1>6, <1>7, <1>8 DEF Next

LEMMA FieldsAlways == Spec => [](Typed /\ PlansFit /\ CleanFields)
<1>1. Init => PlansFit /\ CleanFields
  <2>1. SUFFICES ASSUME Init PROVE PlansFit /\ CleanFields OBVIOUS
  <2>2. draft = [w \in Writers |-> NoDraft] /\ field \in [Leads -> {Empty, Filled}]
    BY <2>1 DEF Init, ReviewInit
  <2>3. PlansFit
    <3>1. PlanFits(NoDraft) BY NoDraftFits
    <3>2. QED BY <2>2, <3>1 DEF PlansFit
  <2>4. NoDraft.lead \notin Leads
    BY ConsoleAssumption DEF ConsoleAssumption, NoDraft
  <2>5. \A f \in {Empty, Filled} :
           f.user = FALSE /\ f.cell # Gone /\ f.cell = f.synced
    <3>1. Empty.user = FALSE /\ Empty.cell = Blank /\ Empty.synced = Blank
      BY DEF Empty
    <3>2. Filled.user = FALSE /\ Filled.cell = First /\ Filled.synced = First
      BY DEF Filled, Empty
    <3>3. Blank # Gone /\ First # Gone
      BY ConsoleAssumption DEF ConsoleAssumption, Values
    <3>4. QED BY <3>1, <3>2, <3>3
  <2>6. CleanFields BY <2>2, <2>4, <2>5 DEF CleanFields
  <2>7. QED BY <2>3, <2>6
<1>2. Typed /\ PlansFit /\ CleanFields /\ [Next]_vars => PlansFit' /\ CleanFields'
  BY ConsoleAssumption, FieldsStep
<1>3. QED BY <1>1, <1>2, TypedAlways, PTL DEF Spec

(* No synchronisation is about to write over what a person put into the cell   *)
(* when it last read the row, and the retry of an old message writes only      *)
(* what it saw empty (_plan_safe_patch after the second read), however many    *)
(* writers, retries and edits overlap.                                         *)
THEOREM SeenValuesAreKept == Spec => []SeenValueKept
<1>1. Typed /\ PlansFit => SeenValueKept
  <2>1. SUFFICES ASSUME Typed, PlansFit, NEW w \in Writers, draft[w].put,
                        draft[w].pc \in {"save", "guard", "write"}
                 PROVE  draft[w].seen # Hand /\ (draft[w].sup => draft[w].seen = Blank)
    BY DEF SeenValueKept
  <2>2. draft[w].put \in BOOLEAN /\ draft[w].sup \in BOOLEAN
    <3>1. Typed BY <2>1
    <3>2. QED BY <3>1 DEF Typed, ReviewTyped, DraftState
  <2>3. draft[w].put = TRUE /\ (draft[w].sup <=> draft[w].sup = TRUE) BY <2>1, <2>2
  <2>4. QED BY <2>1, <2>3 DEF PlansFit, PlanFits
<1>2. QED BY <1>1, FieldsAlways, PTL

(* Only what a person did, or a value the AI could not record, makes a field   *)
(* count as edited by its salesperson (_detect_user_edits): a synchronisation  *)
(* that is alone, lives and gets its answers never takes the AI's own value    *)
(* for a person's.  The invariant follows the one writer of a clean field: it  *)
(* knows the cell from its read to its record.                                 *)
THEOREM EditsComeFromPeople == Spec => []EditsAreHuman
<1>1. Typed /\ CleanFields => EditsAreHuman
  <2>1. SUFFICES ASSUME Typed, CleanFields, NEW l \in Leads, field[l].user
                 PROVE  field[l].edited \/ field[l].torn
    BY DEF EditsAreHuman
  <2>2. /\ field[l].user \in BOOLEAN /\ field[l].edited \in BOOLEAN
        /\ field[l].torn \in BOOLEAN
    <3>1. Typed BY <2>1
    <3>2. QED BY <3>1 DEF Typed, ReviewTyped, FieldState
  <2>3. field[l].user # FALSE BY <2>1
  <2>4. ~Clean(field[l]) BY <2>1, <2>3 DEF CleanFields
  <2>5. field[l].edited # FALSE \/ field[l].torn # FALSE BY <2>4 DEF Clean
  <2>6. QED BY <2>2, <2>5
<1>2. QED BY <1>1, FieldsAlways, PTL
=============================================================================
