--------------------------- MODULE AuditLogProofs ---------------------------
(* Theorems about AuditLog, for any connections, events and batches.         *)
EXTENDS AuditLog, SequenceTheorems, TLAPS

Rows == [sequence : Nat, event : Events, previous : Seq(Events), digest : Seq(Events)]
Notes == [transaction : Recorded, state : States]
Links == [event : Events, previous : Seq(Events)]

ChainOf(rows) ==
    \A i \in 1 .. Len(rows) :
        /\ rows[i].sequence = i
        /\ rows[i].previous = (IF i = 1 THEN <<>> ELSE rows[i - 1].digest)
        /\ rows[i].digest = Append(rows[i].previous, rows[i].event)

-----------------------------------------------------------------------------
(* The inductive invariant.  A chain has no fork because only the holder of  *)
(* the lock has inserted anything, what it sees is a chain, and the digest   *)
(* it read is still that of the last event when it inserts the next.         *)

Types ==
    /\ log \in Seq(Rows)
    /\ journal \in Seq(Notes)
    /\ lock \in Writers \cup {NoOne}
    /\ phase \in [Writers -> {"idle", "open", "linked"}]
    /\ staged \in [Writers -> Seq(Rows)]
    /\ noted \in [Writers -> Seq(Notes)]
    /\ link \in [Writers -> Links \cup {NoLink}]

Held ==
    \A w \in Writers : /\ phase[w] # "idle" <=> lock = w
                       /\ phase[w] = "idle" => staged[w] = <<>>

Chains == ChainOf(log) /\ \A w \in Writers : ChainOf(View(w))

Linked ==
    \A w \in Writers : phase[w] = "linked" =>
        link[w] \in Links /\ link[w].previous = LastDigest(View(w))

AuditInv == Types /\ Held /\ Chains /\ Linked /\ ReturnedStays

-----------------------------------------------------------------------------
(* Sequences of rows. *)

(* The digest a row may be linked to, and the row itself, are well formed.   *)
LEMMA RowType ==
    ASSUME NEW n \in Nat, NEW event \in Events, NEW previous \in Seq(Events)
    PROVE  Row(n, event, previous) \in Rows
<1>1. Append(previous, event) \in Seq(Events)
  BY AppendProperties
<1> QED
  BY <1>1 DEF Row, Rows

LEMMA LastDigestType ==
    ASSUME NEW rows \in Seq(Rows)
    PROVE  LastDigest(rows) \in Seq(Events)
<1>1. CASE rows = <<>>
  BY <1>1 DEF LastDigest
<1>2. CASE rows # <<>>
  <2>1. rows[Len(rows)] \in Rows
    BY <1>2
  <2> QED
    BY <1>2, <2>1 DEF LastDigest, Rows
<1> QED
  BY <1>1, <1>2

(* A chain stays one when an event is appended with the digest of the last.  *)
LEMMA ChainGrows ==
    ASSUME NEW rows \in Seq(Rows), ChainOf(rows), NEW event \in Events
    PROVE  ChainOf(Append(rows, Row(Len(rows) + 1, event, LastDigest(rows))))
<1> DEFINE row == Row(Len(rows) + 1, event, LastDigest(rows))
           more == Append(rows, row)
<1>0. Len(rows) \in Nat
  BY LenProperties
<1>1. row \in Rows
  BY <1>0, RowType, LastDigestType
<1>2. /\ Len(more) = Len(rows) + 1
      /\ \A i \in 1 .. Len(rows) : more[i] = rows[i]
      /\ more[Len(rows) + 1] = row
  BY <1>1, AppendProperties
<1> HIDE DEF more
<1> SUFFICES ASSUME NEW i \in 1 .. Len(rows) + 1
             PROVE  /\ more[i].sequence = i
                    /\ more[i].previous = (IF i = 1 THEN <<>> ELSE more[i - 1].digest)
                    /\ more[i].digest = Append(more[i].previous, more[i].event)
  BY <1>0, <1>2 DEF ChainOf, more
<1>3. CASE i \in 1 .. Len(rows)
  <2>1. i = 1 \/ i - 1 \in 1 .. Len(rows)
    BY <1>0, <1>3
  <2> QED
    BY <1>2, <1>3, <2>1 DEF ChainOf
<1>4. CASE i = Len(rows) + 1
  <2>1. more[i] = row
    BY <1>2, <1>4
  <2>2. /\ row.sequence = Len(rows) + 1
        /\ row.previous = LastDigest(rows)
        /\ row.digest = Append(row.previous, row.event)
    BY DEF Row
  <2>3. CASE rows = <<>>
    <3>1. i = 1
      BY <2>3, <1>4
    <3>2. LastDigest(rows) = <<>>
      BY <2>3 DEF LastDigest
    <3> QED
      BY <3>1, <3>2, <2>1, <2>2, <1>4
  <2>4. CASE rows # <<>>
    <3>1. Len(rows) \in 1 .. Len(rows) /\ i # 1 /\ i - 1 = Len(rows)
      BY <2>4, <1>0, <1>4
    <3>2. more[i - 1] = rows[Len(rows)]
      BY <3>1, <1>2
    <3>3. LastDigest(rows) = rows[Len(rows)].digest
      BY <2>4 DEF LastDigest
    <3> QED
      BY <3>1, <3>2, <3>3, <2>1, <2>2, <1>4
  <2> QED
    BY <2>3, <2>4
<1> QED
  BY <1>0, <1>3, <1>4

(* A row appended to what is staged is appended to what is seen.            *)
LEMMA AppendBehind ==
    ASSUME NEW s \in Seq(Rows), NEW t \in Seq(Rows), NEW row \in Rows
    PROVE  s \o Append(t, row) = Append(s \o t, row)
<1> DEFINE both == s \o t
           more == Append(t, row)
           left == s \o Append(t, row)
           right == Append(s \o t, row)
<1>1. Len(s) \in Nat /\ Len(t) \in Nat
  BY LenProperties
<1>2. /\ Append(t, row) \in Seq(Rows)
      /\ Len(Append(t, row)) = Len(t) + 1
      /\ \A i \in 1 .. Len(t) : Append(t, row)[i] = t[i]
      /\ Append(t, row)[Len(t) + 1] = row
  BY AppendProperties
<1>3. /\ s \o t \in Seq(Rows)
      /\ Len(s \o t) = Len(s) + Len(t)
      /\ \A i \in 1 .. Len(s) + Len(t) : (s \o t)[i] =
             IF i <= Len(s) THEN s[i] ELSE t[i - Len(s)]
  BY ConcatProperties
<1>4. /\ left \in Seq(Rows)
      /\ Len(left) = Len(s) + (Len(t) + 1)
      /\ \A i \in 1 .. Len(s) + (Len(t) + 1) : left[i] =
             IF i <= Len(s) THEN s[i] ELSE Append(t, row)[i - Len(s)]
  BY <1>2, ConcatProperties
<1>5. /\ right \in Seq(Rows)
      /\ Len(right) = Len(s) + Len(t) + 1
      /\ \A i \in 1 .. Len(s) + Len(t) : right[i] = (s \o t)[i]
      /\ right[Len(s) + Len(t) + 1] = row
  BY <1>3, AppendProperties
<1>6. ASSUME NEW i \in 1 .. Len(left)
      PROVE  left[i] = right[i]
  <2> HIDE DEF both, more, left, right
  <2>0. i \in 1 .. Len(s) + (Len(t) + 1) /\ Len(s) + (Len(t) + 1) = Len(s) + Len(t) + 1
    BY <1>1, <1>4
  <2>1. CASE i <= Len(s)
    <3>1. i \in 1 .. Len(s) + Len(t)
      BY <1>1, <2>0, <2>1
    <3>2. left[i] = s[i] /\ both[i] = s[i]
      BY <1>3, <1>4, <2>0, <2>1, <3>1 DEF both
    <3> QED
      BY <1>5, <3>1, <3>2 DEF both
  <2>2. CASE i > Len(s) /\ i <= Len(s) + Len(t)
    <3>1. i \in 1 .. Len(s) + Len(t) /\ i - Len(s) \in 1 .. Len(t) /\ ~ (i <= Len(s))
      BY <1>1, <2>0, <2>2
    <3>2. left[i] = more[i - Len(s)] /\ both[i] = t[i - Len(s)]
      BY <1>3, <1>4, <2>0, <3>1 DEF both, more
    <3>3. more[i - Len(s)] = t[i - Len(s)]
      BY <1>2, <3>1 DEF more
    <3> QED
      BY <1>5, <3>1, <3>2, <3>3 DEF both
  <2>3. CASE i = Len(s) + Len(t) + 1
    <3>1. i - Len(s) = Len(t) + 1 /\ ~ (i <= Len(s))
      BY <1>1, <2>3
    <3> QED
      BY <1>1, <1>2, <1>4, <1>5, <2>0, <2>3, <3>1
  <2> QED
    BY <1>1, <2>0, <2>1, <2>2, <2>3
<1> HIDE DEF left, right
<1>7. left = right
  BY <1>1, <1>4, <1>5, <1>6, SeqEqual
<1> QED
  BY <1>7 DEF left, right

(* What a connection sees: the log, and behind it what is staged.            *)
LEMMA ViewType ==
    ASSUME Types, NEW w \in Writers
    PROVE  /\ staged[w] \in Seq(Rows) /\ View(w) \in Seq(Rows)
           /\ Len(log) \in Nat /\ Len(staged[w]) \in Nat
           /\ Len(View(w)) = Len(log) + Len(staged[w])
           /\ \A i \in 1 .. Len(log) : View(w)[i] = log[i]
           /\ \A i \in 1 .. Len(staged[w]) : View(w)[Len(log) + i] = staged[w][i]
<1>1. staged[w] \in Seq(Rows) /\ log \in Seq(Rows)
  BY DEF Types
<1>2. Len(log) \in Nat /\ Len(staged[w]) \in Nat
  BY <1>1, LenProperties
<1>3. /\ log \o staged[w] \in Seq(Rows)
      /\ Len(log \o staged[w]) = Len(log) + Len(staged[w])
      /\ \A i \in 1 .. Len(log) + Len(staged[w]) :
             (log \o staged[w])[i] = IF i <= Len(log) THEN log[i] ELSE staged[w][i - Len(log)]
  BY <1>1, ConcatProperties
<1> QED
  BY <1>1, <1>2, <1>3 DEF View

-----------------------------------------------------------------------------
(* Each action keeps the invariant. *)

LEMMA AuditInit == Init => AuditInv
<1> SUFFICES ASSUME Init PROVE AuditInv
  OBVIOUS
<1>1. Types /\ Held /\ Linked /\ ReturnedStays
  BY AuditAssumption DEF Init, Types, Held, Linked, ReturnedStays
<1>2. ASSUME NEW w \in Writers
      PROVE  View(w) = <<>>
  BY DEF Init, View
<1>3. Chains
  BY <1>2 DEF Init, Chains, ChainOf
<1> QED
  BY <1>1, <1>3 DEF AuditInv

LEMMA BeginKeeps ==
    ASSUME AuditInv, NEW w \in Writers, Begin(w)
    PROVE  AuditInv'
<1> USE DEF AuditInv
<1>1. Types'
  BY DEF Types, Begin
<1>2. Held'
  BY AuditAssumption DEF Types, Held, Begin
<1>3. \A v \in Writers : View(v)' = View(v)
  BY DEF View, Begin
<1>4. Chains'
  BY <1>3 DEF Chains, Begin
<1>5. Linked'
  BY <1>3 DEF Types, Linked, Begin
<1>6. ReturnedStays'
  BY DEF ReturnedStays, Begin
<1> QED
  BY <1>1, <1>2, <1>4, <1>5, <1>6

LEMMA ReadPreviousKeeps ==
    ASSUME AuditInv, NEW w \in Writers, NEW event \in Events, ReadPrevious(w, event)
    PROVE  AuditInv'
<1> USE DEF AuditInv
<1> DEFINE read == [event |-> event, previous |-> LastDigest(View(w))]
<1>0. read \in Links
  BY ViewType, LastDigestType DEF Links
<1>1. Types'
  <2>1. link' = [link EXCEPT ![w] = read]
    BY DEF ReadPrevious
  <2>2. link' \in [Writers -> Links \cup {NoLink}]
    BY <1>0, <2>1 DEF Types
  <2> QED
    BY <2>2 DEF Types, ReadPrevious
<1>2. Held'
  BY DEF Types, Held, ReadPrevious
<1>3. \A v \in Writers : View(v)' = View(v)
  BY DEF View, ReadPrevious
<1>4. Chains'
  BY <1>3 DEF Chains, ReadPrevious
<1>5. Linked'
  <2> SUFFICES ASSUME NEW v \in Writers, phase'[v] = "linked"
               PROVE  link'[v] \in Links /\ link'[v].previous = LastDigest(View(v))
    BY <1>3 DEF Linked
  <2>1. CASE v = w
    BY <2>1, <1>0 DEF Types, ReadPrevious
  <2>2. CASE v # w
    BY <2>2 DEF Types, Linked, ReadPrevious
  <2> QED
    BY <2>1, <2>2
<1>6. ReturnedStays'
  BY DEF ReturnedStays, ReadPrevious
<1> QED
  BY <1>1, <1>2, <1>4, <1>5, <1>6

(* The row is inserted behind the row whose digest was read, because nobody  *)
(* else held the lock meanwhile.                                             *)
LEMMA InsertKeeps ==
    ASSUME AuditInv, NEW w \in Writers, Insert(w)
    PROVE  AuditInv'
<1> USE DEF AuditInv
<1> DEFINE row == Row(Len(View(w)) + 1, link[w].event, link[w].previous)
<1>1. link[w] \in Links /\ link[w].previous = LastDigest(View(w))
  BY DEF Linked, Insert
<1>2. /\ staged[w] \in Seq(Rows) /\ View(w) \in Seq(Rows)
      /\ Len(View(w)) \in Nat
  BY ViewType
<1>3. row \in Rows
  BY <1>1, <1>2, RowType DEF Links
<1>4. staged' = [staged EXCEPT ![w] = Append(staged[w], row)]
  BY DEF Insert
<1>5. Append(staged[w], row) \in Seq(Rows)
  BY <1>2, <1>3, AppendProperties
<1> HIDE DEF row
<1>6. Types'
  <2>1. staged' \in [Writers -> Seq(Rows)]
    BY <1>4, <1>5 DEF Types
  <2> QED
    BY <2>1 DEF Types, Insert
<1>7. Held'
  <2>1. phase[w] # "idle"
    BY DEF Insert
  <2> QED
    BY <2>1, <1>4 DEF Types, Held, Insert
<1>8. View(w)' = Append(View(w), row)
  <2>1. staged'[w] = Append(staged[w], row) /\ log' = log
    BY <1>4 DEF Types, Insert
  <2>2. log \in Seq(Rows)
    BY DEF Types
  <2>3. log \o Append(staged[w], row) = Append(log \o staged[w], row)
    BY <1>2, <1>3, <2>2, AppendBehind
  <2> QED
    BY <2>1, <2>3 DEF View
<1>9. \A v \in Writers \ {w} : View(v)' = View(v)
  BY <1>4 DEF View, Insert, Types
<1>10. Chains'
  <2>1. ChainOf(Append(View(w), row))
    BY <1>1, <1>2, ChainGrows DEF Chains, row, Links
  <2>2. ChainOf(View(w)')
    BY <2>1, <1>8
  <2>3. ASSUME NEW v \in Writers \ {w}
        PROVE  ChainOf(View(v)')
    BY <1>9 DEF Chains
  <2>4. ChainOf(log')
    BY DEF Chains, Insert
  <2>5. \A v \in Writers : ChainOf(View(v)')
    BY <2>2, <2>3, Zenon
  <2> QED
    BY <2>4, <2>5 DEF Chains, ChainOf
<1>11. Linked'
  BY <1>9 DEF Types, Linked, Insert
<1>12. ReturnedStays'
  BY DEF ReturnedStays, Insert
<1> QED
  BY <1>6, <1>7, <1>10, <1>11, <1>12

LEMMA NoteKeeps ==
    ASSUME AuditInv, NEW w \in Writers, NEW t \in Transactions, NEW s \in States,
           InsertTransactionEvent(w, t, s)
    PROVE  AuditInv'
<1> USE DEF AuditInv
<1>1. Types'
  <2>1. [transaction |-> t, state |-> s] \in Notes
    BY DEF Notes, InsertTransactionEvent
  <2>2. Append(noted[w], [transaction |-> t, state |-> s]) \in Seq(Notes)
    BY <2>1, AppendProperties DEF Types
  <2>3. noted' \in [Writers -> Seq(Notes)]
    BY <2>2 DEF Types, InsertTransactionEvent
  <2> QED
    BY <2>3 DEF Types, InsertTransactionEvent
<1>2. \A v \in Writers : View(v)' = View(v)
  BY DEF View, InsertTransactionEvent
<1>3. Held' /\ Chains' /\ Linked' /\ ReturnedStays'
  BY <1>2 DEF Held, Chains, Linked, ReturnedStays, InsertTransactionEvent
<1> QED
  BY <1>1, <1>3

(* The end of a transaction: the lock is free and nothing is staged.         *)
LEMMA LeaveEmpties ==
    ASSUME AuditInv, NEW w \in Writers, phase[w] # "idle", Leave(w)
    PROVE  /\ lock' = NoOne
           /\ \A v \in Writers : /\ phase'[v] = "idle" /\ staged'[v] = <<>>
                                 /\ phase'[v] # "linked"
           /\ phase' \in [Writers -> {"idle", "open", "linked"}]
           /\ staged' \in [Writers -> Seq(Rows)]
           /\ noted' \in [Writers -> Seq(Notes)]
           /\ link' \in [Writers -> Links \cup {NoLink}]
<1>1. lock = w
  BY DEF AuditInv, Held
<1>2. \A v \in Writers \ {w} : phase[v] = "idle" /\ staged[v] = <<>>
  BY <1>1 DEF AuditInv, Held
<1>3. \A v \in Writers : phase'[v] = "idle" /\ staged'[v] = <<>>
  BY <1>2 DEF AuditInv, Types, Leave
<1>4. /\ phase' \in [Writers -> {"idle", "open", "linked"}]
      /\ staged' \in [Writers -> Seq(Rows)]
      /\ noted' \in [Writers -> Seq(Notes)]
      /\ link' \in [Writers -> Links \cup {NoLink}]
  BY DEF AuditInv, Types, Leave
<1> QED
  BY <1>1, <1>3, <1>4 DEF Leave

(* The commit of what w sees, with or without the caller hearing of it.      *)
LEMMA WriteKeeps ==
    ASSUME AuditInv, NEW w \in Writers, phase[w] = "open", Written(w), Leave(w),
           returned' \in {returned, returned \cup StagedRows(w)}
    PROVE  AuditInv'
<1>1. /\ lock' = NoOne
      /\ \A v \in Writers : /\ phase'[v] = "idle" /\ staged'[v] = <<>>
                            /\ phase'[v] # "linked"
      /\ phase' \in [Writers -> {"idle", "open", "linked"}]
      /\ staged' \in [Writers -> Seq(Rows)]
      /\ noted' \in [Writers -> Seq(Notes)]
      /\ link' \in [Writers -> Links \cup {NoLink}]
  BY LeaveEmpties
<1>2. /\ View(w) \in Seq(Rows)
      /\ Len(log) \in Nat /\ Len(staged[w]) \in Nat
      /\ Len(View(w)) = Len(log) + Len(staged[w])
      /\ \A i \in 1 .. Len(log) : View(w)[i] = log[i]
      /\ \A i \in 1 .. Len(staged[w]) : View(w)[Len(log) + i] = staged[w][i]
  BY ViewType DEF AuditInv
<1>3. log' = View(w)
  BY DEF Written
<1>4. Types'
  <2>1. journal' \in Seq(Notes)
    BY ConcatProperties DEF Written, AuditInv, Types
  <2> QED
    BY <1>1, <1>2, <1>3, <2>1 DEF Types
<1>5. Held'
  BY <1>1, AuditAssumption DEF Held
<1>6. Chains'
  <2>1. ChainOf(log')
    BY <1>3 DEF AuditInv, Chains
  <2>2. ASSUME NEW v \in Writers
        PROVE  View(v)' = log'
    BY <1>1, <1>2, <1>3, ConcatEmptySeq DEF View
  <2> QED
    BY <2>1, <2>2 DEF Chains, ChainOf
<1>7. Linked'
  BY <1>1 DEF Linked
<1>8. ReturnedStays'
  <2>0. DOMAIN log' = 1 .. Len(log) + Len(staged[w])
    BY <1>2, <1>3
  <2> SUFFICES ASSUME NEW row \in returned'
               PROVE  row.sequence \in DOMAIN log' /\ log'[row.sequence] = row
    BY DEF ReturnedStays
  <2>1. CASE row \in returned
    <3>1. row.sequence \in DOMAIN log /\ log[row.sequence] = row
      BY <2>1 DEF AuditInv, ReturnedStays
    <3>2. DOMAIN log = 1 .. Len(log)
      BY DEF AuditInv, Types
    <3> QED
      BY <3>1, <3>2, <2>0, <1>2, <1>3
  <2>2. CASE row \in StagedRows(w)
    <3>1. DOMAIN staged[w] = 1 .. Len(staged[w])
      BY ViewType DEF AuditInv
    <3>2. PICK i \in 1 .. Len(staged[w]) : row = staged[w][i]
      BY <2>2, <3>1 DEF StagedRows
    <3>3. Len(log) + i \in 1 .. Len(View(w))
      BY <1>2
    <3>4. View(w)[Len(log) + i].sequence = Len(log) + i
      BY <3>3 DEF AuditInv, Chains, ChainOf
    <3>5. View(w)[Len(log) + i] = row
      BY <1>2, <3>2
    <3> QED
      BY <3>3, <3>4, <3>5, <2>0, <1>2, <1>3
  <2> QED
    BY <2>1, <2>2
<1> QED
  BY <1>4, <1>5, <1>6, <1>7, <1>8 DEF AuditInv

LEMMA FailKeeps ==
    ASSUME AuditInv, NEW w \in Writers, Fail(w)
    PROVE  AuditInv'
<1>1. /\ lock' = NoOne
      /\ \A v \in Writers : /\ phase'[v] = "idle" /\ staged'[v] = <<>>
                            /\ phase'[v] # "linked"
      /\ phase' \in [Writers -> {"idle", "open", "linked"}]
      /\ staged' \in [Writers -> Seq(Rows)]
      /\ noted' \in [Writers -> Seq(Notes)]
      /\ link' \in [Writers -> Links \cup {NoLink}]
  BY LeaveEmpties DEF Fail
<1>2. log' = log /\ journal' = journal /\ returned' = returned
  BY DEF Fail
<1>3. Types'
  BY <1>1, <1>2 DEF AuditInv, Types
<1>4. Held' /\ Linked' /\ ReturnedStays'
  BY <1>1, <1>2, AuditAssumption DEF AuditInv, Held, Linked, ReturnedStays
<1>5. Chains'
  <2>1. ASSUME NEW v \in Writers
        PROVE  View(v)' = log
    BY <1>1, <1>2, ConcatEmptySeq DEF View, AuditInv, Types
  <2> QED
    BY <2>1, <1>2 DEF AuditInv, Chains, ChainOf
<1> QED
  BY <1>3, <1>4, <1>5 DEF AuditInv

LEMMA AuditStep == AuditInv /\ [Next]_vars => AuditInv'
<1> SUFFICES ASSUME AuditInv, [Next]_vars PROVE AuditInv'
  OBVIOUS
<1>1. CASE UNCHANGED vars
  <2>1. \A w \in Writers : View(w)' = View(w)
    BY <1>1 DEF vars, writing, View
  <2> QED
    BY <1>1, <2>1 DEF vars, writing, AuditInv, Types, Held, Chains, Linked, ReturnedStays
<1>2. ASSUME NEW w \in Writers, Step(w)
      PROVE  AuditInv'
  <2>1. CASE Begin(w)
    BY <2>1, BeginKeeps
  <2>2. CASE Insert(w)
    BY <2>2, InsertKeeps
  <2>3. CASE Commit(w)
    BY <2>3, WriteKeeps DEF Commit
  <2>4. CASE CommitUnheard(w)
    BY <2>4, WriteKeeps DEF CommitUnheard
  <2>5. CASE Fail(w)
    BY <2>5, FailKeeps
  <2>6. ASSUME NEW event \in Events, ReadPrevious(w, event)
        PROVE  AuditInv'
    BY <2>6, ReadPreviousKeeps
  <2>7. ASSUME NEW t \in Transactions, NEW s \in States, InsertTransactionEvent(w, t, s)
        PROVE  AuditInv'
    BY <2>7, NoteKeeps
  <2> QED
    BY <1>2, <2>1, <2>2, <2>3, <2>4, <2>5, <2>6, <2>7 DEF Step
<1> QED
  BY <1>1, <1>2 DEF Next

LEMMA AuditInvariant == Spec => []AuditInv
  BY AuditInit, AuditStep, PTL DEF Spec

-----------------------------------------------------------------------------
(* The theorems. *)

(* Types of everything the connections keep, for any number of them; whoever *)
(* is in a transaction holds the write lock.                                 *)
THEOREM AuditTypes == Spec => []AuditTypeOK
<1>1. AuditInv => AuditTypeOK
  <2> SUFFICES ASSUME AuditInv PROVE AuditTypeOK
    OBVIOUS
  <2>1. ASSUME NEW row \in Rows PROVE IsRow(row)
    BY DEF Rows, IsRow
  <2>2. /\ \A i \in DOMAIN log : log[i] \in Rows
        /\ \A i \in DOMAIN journal : journal[i] \in Notes
    BY DEF AuditInv, Types
  <2>3. ASSUME NEW w \in Writers
        PROVE  \A i \in DOMAIN staged[w] : staged[w][i] \in Rows
    BY DEF AuditInv, Types
  <2> QED
    BY <2>1, <2>2, <2>3 DEF AuditInv, Types, Held, AuditTypeOK, Notes
<1> QED
  BY <1>1, AuditInvariant, PTL

(* The audit log is one chain, however many connections append to it and     *)
(* however they fail.                                                        *)
THEOREM OneChain == Spec => []Chained
<1>1. AuditInv => Chained
  <2> SUFFICES ASSUME AuditInv PROVE Chained
    OBVIOUS
  <2>1. DOMAIN log = 1 .. Len(log)
    BY DEF AuditInv, Types
  <2> QED
    BY <2>1 DEF AuditInv, Chains, ChainOf, Chained
<1> QED
  BY <1>1, AuditInvariant, PTL

(* An event a caller was told of is never lost.                              *)
THEOREM ReturnedEventsStay == Spec => []ReturnedStays
<1>1. AuditInv => ReturnedStays
  BY DEF AuditInv
<1> QED
  BY <1>1, AuditInvariant, PTL

(* No step removes or changes a record of either stream.                     *)
THEOREM RecordsAreAppended == Spec => AppendOnly
<1>1. AuditInv /\ [Next]_vars => [Extends(log, log') /\ Extends(journal, journal')]_vars
  <2> SUFFICES ASSUME AuditInv, Next
               PROVE  Extends(log, log') /\ Extends(journal, journal')
    OBVIOUS
  <2>1. PICK w \in Writers : Step(w)
    BY DEF Next
  <2>2. CASE log' = log /\ journal' = journal
    <3>1. Len(log) \in Nat /\ Len(journal) \in Nat
      BY LenProperties DEF AuditInv, Types
    <3> QED
      BY <2>2, <3>1 DEF Extends
  <2>3. CASE Written(w)
    <3>1. Extends(log, log')
      <4>1. DOMAIN log = 1 .. Len(log)
        BY DEF AuditInv, Types
      <4> QED
        BY <4>1, <2>3, ViewType DEF Written, AuditInv, Extends
    <3>2. Extends(journal, journal')
      <4>1. journal \in Seq(Notes) /\ noted[w] \in Seq(Notes)
        BY DEF AuditInv, Types
      <4>2. /\ Len(journal) \in Nat /\ Len(noted[w]) \in Nat
            /\ DOMAIN journal = 1 .. Len(journal)
        BY <4>1, LenProperties
      <4>3. /\ Len(journal \o noted[w]) = Len(journal) + Len(noted[w])
            /\ \A i \in 1 .. Len(journal) + Len(noted[w]) : (journal \o noted[w])[i] =
                   IF i <= Len(journal) THEN journal[i] ELSE noted[w][i - Len(journal)]
        BY <4>1, ConcatProperties
      <4> QED
        BY <4>2, <4>3, <2>3 DEF Written, Extends
    <3> QED
      BY <3>1, <3>2
  <2> QED
    BY <2>1, <2>2, <2>3 DEF Step, Begin, Insert, Commit, CommitUnheard, Fail, ReadPrevious,
                            InsertTransactionEvent
<1> QED
  BY <1>1, AuditInvariant, PTL DEF Spec, AppendOnly
=============================================================================
