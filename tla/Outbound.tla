------------------------------ MODULE Outbound ------------------------------
(***************************************************************************)
(* NotificationRecord rows and the loop of the bot that sends them         *)
(* (app/notifications/outbound.py, app/wecom_bot/runner.py).  Producers     *)
(* add rows under deterministic keys; the loop claims a row under a token   *)
(* and a lease, sends it through the open connection, and records the      *)
(* outcome if the token is still its own.  Which rows are out of date, and  *)
(* what a receipt says, is up to the module that knows the messages.        *)
(***************************************************************************)
EXTENDS Integers, Sequences, FiniteSets

CONSTANTS
    Bots            \* sender loops; two only while a container is replaced

VARIABLES
    note,           \* NotificationRecord rows by key
    bot,            \* sender loops
    faults          \* bound: crashes, refused sends, early lease expiries left

\* A key is a hash of the type and of what the notice is about.
Key(type, of, no) == [type |-> type, of |-> of, no |-> no]

NoKey == Key("none", 0, 0)

\* _SUPPORTED_NOTIFICATION_TYPES: sales_actor_inactive is not among them.
Supported(k) == k.type # "inactive"

Fault == faults > 0 /\ faults' = faults - 1

\* A new row; ids are the messages it lists.
NewNote(ids) ==
    [st |-> "pending", tok |-> 0, lease |-> "none", held |-> FALSE,
     deps |-> {}, ids |-> ids, due |-> 0, sent |-> FALSE, told |-> {}]

\* Rows are only added under a key that is not there yet.
AddNotes(new) ==
    note' = [k \in DOMAIN note \cup DOMAIN new |->
                IF k \in DOMAIN note THEN note[k] ELSE new[k]]

One(k, n) == [x \in {k} |-> n]

IdleBot == [pc |-> "idle", key |-> NoKey, tok |-> 0, ids |-> {}]

Settled == {"succeeded", "failed", "suppressed"}

------------------------------------------------------------------------------

OpenOnly(k) == Supported(k) /\ note[k].st \in {"pending", "retrying"}

\* The rows a pass looks at and the claiming transaction looks at again.
Candidate(k) ==
    /\ Supported(k)
    /\ \/ note[k].st \in {"pending", "retrying"}
       \/ note[k].st = "processing" /\ note[k].lease = "expired"

Present(k) == note[k].deps \subseteq DOMAIN note

\* Every dependency has been delivered.
DependenciesSent(k) ==
    \A d \in note[k].deps : d \in DOMAIN note /\ note[d].st = "succeeded"

\* The claiming transaction goes on with the row.
Claimable(k, now) ==
    /\ Candidate(k) /\ ~note[k].held /\ DependenciesSent(k)
    /\ note[k].due <= now

InHand(b) == bot[b].key

\* A row that lost its reason is closed instead of claimed.
Suppress(k) ==
    /\ note' = [note EXCEPT ![k].st = "suppressed", ![k].tok = 0, ![k].lease = "none"]
    /\ UNCHANGED <<bot, faults>>

\* The claim takes the content with it.
Claim(b, k) ==
    LET held == {bot[c].tok : c \in {d \in Bots : bot[d].key = k}}
        t == CHOOSE x \in 1..(Cardinality(Bots) + 1) : x \notin held
    IN /\ note' = [note EXCEPT ![k].st = "processing", ![k].tok = t, ![k].lease = "live"]
       /\ bot' = [bot EXCEPT ![b] = [pc |-> "claimed", key |-> k, tok |-> t,
                                     ids |-> note[k].ids]]
       /\ UNCHANGED faults

------------------------------------------------------------------------------
(* send_message and what is recorded of it *)

TokenMatches(b) == note[InHand(b)].tok = bot[b].tok

\* Every outcome is written only under the token of the claim.
Close(b, st) ==
    note' = IF TokenMatches(b)
            THEN [note EXCEPT ![InHand(b)].st = st, ![InHand(b)].tok = 0,
                              ![InHand(b)].lease = "none"]
            ELSE note

Rest(b) == bot' = [bot EXCEPT ![b] = IdleBot]

SuppressClaimed(b) == Close(b, "suppressed") /\ Rest(b) /\ UNCHANGED faults

SendSucceeds(b) ==
    /\ bot[b].pc = "claimed"
    /\ note' = [note EXCEPT ![InHand(b)].sent = TRUE, ![InHand(b)].told = bot[b].ids]
    /\ bot' = [bot EXCEPT ![b].pc = "sent"]
    /\ UNCHANGED faults

\* Some provider codes are final, everything else is tried again.
SendFails(b) ==
    /\ bot[b].pc = "claimed" /\ Fault
    /\ \E st \in {"retrying", "failed"} : Close(b, st)
    /\ Rest(b)

RecordSent(b) ==
    /\ bot[b].pc = "sent"
    /\ Close(b, "succeeded") /\ Rest(b) /\ UNCHANGED faults

\* The bot's process ends and is started again.
BotCrashes(b) ==
    /\ bot[b].pc # "idle" /\ Fault
    /\ bot' = [bot EXCEPT ![b] = IdleBot]
    /\ UNCHANGED note

Holders(k) == {b \in Bots : bot[b].pc # "idle" /\ bot[b].key = k
                            /\ bot[b].tok = note[k].tok}

\* Five minutes: certain when the holder is gone, a fault while it works.
NoteLeaseExpires(k) ==
    /\ note[k].st = "processing" /\ note[k].lease = "live"
    /\ IF Holders(k) = {} THEN UNCHANGED faults ELSE Fault
    /\ note' = [note EXCEPT ![k].lease = "expired"]
    /\ UNCHANGED bot
==============================================================================
