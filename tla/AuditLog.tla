------------------------------ MODULE AuditLog ------------------------------
(***************************************************************************)
(* The append-only records of core/audit.py, written by several            *)
(* connections to one database: audit events, each linked to the one       *)
(* before it by that one's digest, and transaction events.  A connection   *)
(* may crash, a statement may fail, and a caller that was not answered may *)
(* call again.                                                             *)
(*                                                                         *)
(* A digest stands for what it is computed from: the events up to its own, *)
(* <<>> for none.  Two events have one digest only if all of that is equal.*)
(***************************************************************************)
EXTENDS Integers, Sequences

CONSTANTS
    Writers,       \* connections
    NoOne,         \* the holder of the write lock when it is free
    Events,        \* [id, body]: what callers append
    Transactions,  \* the transactions of transaction events
    Recorded,      \* those move_transactions has a row of
    States,        \* the states the table admits (the CHECK of schema_v2)
    MaxBatch,      \* bound on audit events of one transaction
    MaxJournal     \* bound on transaction events

ASSUME AuditAssumption ==
    /\ NoOne \notin Writers
    /\ Recorded \subseteq Transactions
    /\ MaxBatch \in Nat \ {0} /\ MaxJournal \in Nat

VARIABLES
    log,       \* the committed rows of audit_events
    journal,   \* the committed rows of move_transaction_events
    lock,      \* who holds the write lock
    phase,     \* "idle", "open" or "linked": a transaction, the digest read in it
    staged,    \* audit events inserted and not committed
    noted,     \* transaction events inserted and not committed
    link,      \* the event to be inserted with the digest that was read for it
    returned   \* the audit events that callers were told of

writing == <<phase, staged, noted, link>>
vars == <<log, journal, lock, writing, returned>>

NoLink == [event |-> "none", previous |-> <<>>]
Row(n, event, previous) ==
    [sequence |-> n, event |-> event, previous |-> previous, digest |-> Append(previous, event)]

Init ==
    /\ log = <<>>
    /\ journal = <<>>
    /\ lock = NoOne
    /\ phase = [w \in Writers |-> "idle"]
    /\ staged = [w \in Writers |-> <<>>]
    /\ noted = [w \in Writers |-> <<>>]
    /\ link = [w \in Writers |-> NoLink]
    /\ returned = {}

-----------------------------------------------------------------------------
\* What a connection sees: what is committed and what it inserted itself.
View(w) == log \o staged[w]

\* Faulty: the transaction begins without the write lock.
BeginDeferred(w) ==
    /\ phase[w] = "idle"
    /\ phase' = [phase EXCEPT ![w] = "open"]
    /\ UNCHANGED <<log, journal, lock, staged, noted, link, returned>>

\* BEGIN IMMEDIATE; while another connection holds the lock it waits, and raises
\* before anything is done when the wait is too long.
Begin(w) ==
    /\ phase[w] = "idle"
    /\ lock = NoOne
    /\ lock' = w
    /\ phase' = [phase EXCEPT ![w] = "open"]
    /\ UNCHANGED <<log, journal, staged, noted, link, returned>>

\* _previous_digest, within insert_audit_event
LastDigest(rows) == IF rows = <<>> THEN <<>> ELSE rows[Len(rows)].digest

ReadPrevious(w, event) ==
    /\ phase[w] = "open"
    /\ Len(staged[w]) < MaxBatch
    /\ phase' = [phase EXCEPT ![w] = "linked"]
    /\ link' = [link EXCEPT ![w] = [event |-> event, previous |-> LastDigest(View(w))]]
    /\ UNCHANGED <<log, journal, lock, staged, noted, returned>>

\* Faulty: a second event with an identifier takes the place of the first.
InsertOrReplace(w) ==
    /\ phase[w] = "linked"
    /\ log' = SelectSeq(log, LAMBDA row : row.event.id # link[w].event.id)
    /\ staged' = [staged EXCEPT ![w] =
           Append(@, Row(Len(View(w)) + 1, link[w].event, link[w].previous))]
    /\ phase' = [phase EXCEPT ![w] = "open"]
    /\ link' = [link EXCEPT ![w] = NoLink]
    /\ UNCHANGED <<journal, lock, noted, returned>>

\* The INSERT of insert_audit_event: event_id and event_digest are unique, and a
\* transaction that is named must have a row; otherwise the insertion fails (Fail).
Insert(w) ==
    /\ phase[w] = "linked"
    /\ \A i \in DOMAIN View(w) : View(w)[i].event.id # link[w].event.id
    /\ staged' = [staged EXCEPT ![w] =
           Append(@, Row(Len(View(w)) + 1, link[w].event, link[w].previous))]
    /\ phase' = [phase EXCEPT ![w] = "open"]
    /\ link' = [link EXCEPT ![w] = NoLink]
    /\ UNCHANGED <<log, journal, lock, noted, returned>>

\* The INSERT of append_transaction_event: any state, of a transaction with a row.
InsertTransactionEvent(w, transaction, state) ==
    /\ phase[w] = "open"
    /\ transaction \in Recorded
    /\ Len(journal) + Len(noted[w]) < MaxJournal
    /\ noted' = [noted EXCEPT ![w] = Append(@, [transaction |-> transaction, state |-> state])]
    /\ UNCHANGED <<log, journal, lock, phase, staged, link, returned>>

Leave(w) ==
    /\ lock' = IF lock = w THEN NoOne ELSE lock
    /\ phase' = [phase EXCEPT ![w] = "idle"]
    /\ staged' = [staged EXCEPT ![w] = <<>>]
    /\ noted' = [noted EXCEPT ![w] = <<>>]
    /\ link' = [link EXCEPT ![w] = NoLink]

Written(w) == log' = View(w) /\ journal' = journal \o noted[w]

StagedRows(w) == {staged[w][i] : i \in DOMAIN staged[w]}

\* connection.commit() and the return of the inserted events.
Commit(w) ==
    /\ phase[w] = "open"
    /\ Written(w)
    /\ returned' = returned \cup StagedRows(w)
    /\ Leave(w)

\* The process ends after the commit: its caller never learns of it.
CommitUnheard(w) ==
    /\ phase[w] = "open"
    /\ Written(w)
    /\ UNCHANGED returned
    /\ Leave(w)

\* Faulty: the error is not raised again after the rollback.
FailSilently(w) ==
    /\ phase[w] # "idle"
    /\ returned' = returned \cup StagedRows(w)
    /\ Leave(w)
    /\ UNCHANGED <<log, journal>>

\* A statement fails, of those after BEGIN: rollback and raise.  A process that ends
\* before its commit leaves the same.
Fail(w) ==
    /\ phase[w] # "idle"
    /\ Leave(w)
    /\ UNCHANGED <<log, journal, returned>>

Step(w) ==
    \/ Begin(w) \/ Insert(w) \/ Commit(w) \/ CommitUnheard(w) \/ Fail(w)
    \/ \E event \in Events : ReadPrevious(w, event)
    \/ \E t \in Transactions, s \in States : InsertTransactionEvent(w, t, s)

Next == \E w \in Writers : Step(w)

Spec == Init /\ [][Next]_vars

-----------------------------------------------------------------------------
(* Properties. *)

IsRow(row) ==
    /\ row.event \in Events
    /\ row.previous \in Seq(Events)
    /\ row.digest \in Seq(Events)

AuditTypeOK ==
    /\ \A i \in DOMAIN log : IsRow(log[i])
    /\ \A w \in Writers : \A i \in DOMAIN staged[w] : IsRow(staged[w][i])
    /\ \A i \in DOMAIN journal : journal[i] \in [transaction : Recorded, state : States]
    /\ lock \in Writers \cup {NoOne}
    /\ \A w \in Writers : phase[w] # "idle" => lock = w

\* The events form one chain without a fork, whoever wrote them: every row carries
\* the digest of the row just before it and the next number (insert_audit_event).
Chained ==
    \A i \in DOMAIN log :
        /\ log[i].sequence = i
        /\ log[i].previous = (IF i = 1 THEN <<>> ELSE log[i - 1].digest)
        /\ log[i].digest = Append(log[i].previous, log[i].event)

\* What a caller was told of stays in the log under the number it was told, through
\* rollbacks, crashes and retries (append_audit_event).
ReturnedStays == \A row \in returned : row.sequence \in DOMAIN log /\ log[row.sequence] = row

\* Rows are neither removed nor changed nor inserted before others.
Extends(old, new) == Len(old) <= Len(new) /\ \A i \in DOMAIN old : new[i] = old[i]

AppendOnly == [][Extends(log, log') /\ Extends(journal, journal')]_vars
=============================================================================
