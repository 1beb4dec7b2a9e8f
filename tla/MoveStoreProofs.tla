-------------------------- MODULE MoveStoreProofs --------------------------
(* Theorems about MoveStore, for every value of its constants: its types,   *)
(* that it implements MoveLedger, that its audit log has no gaps and tells  *)
(* where every document is, and that its append-only journals tell the same *)
(* story as the rows.                                                       *)
EXTENDS MoveStore, TLAPS

(* Every operation of the store keeps the types.  One step per operation;   *)
(* Plan, Move and Rollback only choose the arguments.                       *)

LEMMA AppendAtType ==
    ASSUME NEW D, NEW S, NEW f \in [D -> Seq(S)], NEW x \in D, NEW e \in S
    PROVE  [f EXCEPT ![x] = Append(@, e)] \in [D -> Seq(S)]
OBVIOUS

LEMMA RecordPlanType ==
    ASSUME TypeOK,
           NEW t \in Transactions, NEW d \in Documents, NEW source \in Paths,
           NEW destination \in Paths, NEW o \in Objects,
           RecordPlan(t, d, source, destination, o)
    PROVE  TypeOK'
<1>1. move_transactions' \in [Transactions -> Rows \cup {NoRow}]
  <2>1. [state |-> "planned", document |-> d, source |-> source,
         destination |-> destination, object |-> o] \in Rows
    BY DEF Rows, ForwardStates
  <2> QED
    BY <2>1 DEF RecordPlan, TypeOK
<1>2. move_transaction_events' \in [Transactions -> Seq(ForwardStates)]
  BY DEF RecordPlan, TypeOK, ForwardStates
<1> QED
  BY <1>1, <1>2 DEF RecordPlan, TypeOK

LEMMA TransitionType ==
    ASSUME TypeOK, NEW ctx \in Contexts, NEW state \in ForwardStates,
           Transition(ctx, state)
    PROVE  TypeOK'
<1> DEFINE t == ctx.transaction
<1>1. t \in Transactions /\ ctx.document \in Documents
  BY DEF Contexts
<1>2. move_transactions[t] \in Rows
  BY <1>1 DEF TypeOK, Transition, MayTransition, Matches
<1>3. move_transactions' \in [Transactions -> Rows \cup {NoRow}]
  <2>1. [move_transactions[t] EXCEPT !.state = state] \in Rows
    BY <1>2 DEF Rows
  <2> QED
    BY <1>1, <2>1 DEF Transition, TypeOK
<1>4. move_transaction_events' \in [Transactions -> Seq(ForwardStates)]
  BY <1>1 DEF Transition, TypeOK
<1>5. CASE state = "committed"
  <2>0. CommitDocumentPath(ctx)
    BY <1>5, Zenon DEF Transition
  <2>1. documents' \in [Documents -> [path : Paths, transaction : Transactions \cup {None}]]
    BY <1>1, <2>0 DEF CommitDocumentPath, TypeOK, Contexts
  <2>2. document_paths' \in [Documents -> Seq(PathEntries)]
    <3>1. [path |-> ctx.destination, reason |-> "automatic_move"] \in PathEntries
      BY DEF PathEntries, Contexts
    <3> QED
      BY <1>1, <2>0, <3>1, AppendAtType DEF CommitDocumentPath, TypeOK
  <2>3. audit_events' \in Seq(AuditEvents)
    <3>1. AuditEvent(ctx, "document_moved") \in AuditEvents
      BY DEF AuditEvent, AuditEvents, AuditTypes, Contexts
    <3> QED
      BY <2>0, <3>1 DEF CommitDocumentPath, TypeOK
  <2> QED
    BY <1>3, <1>4, <2>1, <2>2, <2>3 DEF Transition, TypeOK
<1>6. CASE state # "committed"
  BY <1>3, <1>4, <1>6 DEF Transition, TypeOK
<1> QED
  BY <1>5, <1>6

LEMMA StartRollbackType ==
    ASSUME TypeOK, NEW ctx \in Contexts, StartRollback(ctx)
    PROVE  TypeOK'
<1> DEFINE t == ctx.transaction
<1>1. t \in Transactions /\ ctx.audit \in AuditIds
  BY DEF Contexts
<1>2. CASE RollbackState(t) = "rolling_back"
  BY <1>2 DEF StartRollback, TypeOK
<1>3. CASE RollbackState(t) # "rolling_back"
  <2>1. [state |-> "rolling_back", attempt |-> ctx.audit] \in Rollbacks
    BY <1>1 DEF Rollbacks, RollbackStates
  <2>2. move_rollbacks' \in [Transactions -> Rollbacks \cup {NoRollback}]
    BY <1>1, <1>3, <2>1 DEF StartRollback, TypeOK
  <2>3. move_rollback_events' \in [Transactions -> Seq(RollbackStates)]
    <3>1. "rolling_back" \in RollbackStates
      BY DEF RollbackStates
    <3>2. move_rollback_events' =
              [move_rollback_events EXCEPT ![t] = Append(@, "rolling_back")]
      BY <1>3, Zenon DEF StartRollback
    <3> QED
      BY <1>1, <3>1, <3>2, AppendAtType DEF TypeOK
  <2> QED
    BY <2>2, <2>3 DEF StartRollback, TypeOK
<1> QED
  BY <1>2, <1>3

LEMMA CompleteRollbackType ==
    ASSUME TypeOK, NEW ctx \in Contexts, CompleteRollback(ctx)
    PROVE  TypeOK'
<1> DEFINE t == ctx.transaction
<1>1. t \in Transactions /\ ctx.document \in Documents /\ ctx.audit \in AuditIds
  BY DEF Contexts
<1>2. move_rollbacks' \in [Transactions -> Rollbacks \cup {NoRollback}]
  <2>1. [move_rollbacks[t] EXCEPT !.state = "rolled_back"] \in Rollbacks
    BY <1>1 DEF CompleteRollback, MayCompleteRollback, OwnsRollback, Rollbacks, RollbackStates
  <2> QED
    BY <1>1, <2>1 DEF CompleteRollback, TypeOK
<1>3. move_rollback_events' \in [Transactions -> Seq(RollbackStates)]
  BY <1>1 DEF CompleteRollback, TypeOK, RollbackStates
<1>4. documents' \in [Documents -> [path : Paths, transaction : Transactions \cup {None}]]
  BY <1>1 DEF CompleteRollback, RestoreDocumentPath, TypeOK, Contexts
<1>5. document_paths' \in [Documents -> Seq(PathEntries)]
  <2>1. [path |-> ctx.source, reason |-> "manual_undo"] \in PathEntries
    BY DEF PathEntries, Contexts
  <2> QED
    BY <1>1, <2>1 DEF CompleteRollback, RestoreDocumentPath, TypeOK
<1>6. audit_events' \in Seq(AuditEvents)
  <2>1. \A type \in AuditTypes : AuditEvent(ctx, type) \in AuditEvents
    BY DEF AuditEvent, AuditEvents, Contexts
  <2> QED
    BY <2>1 DEF CompleteRollback, RestoreDocumentPath, TypeOK, AuditTypes
<1> QED
  BY <1>2, <1>3, <1>4, <1>5, <1>6 DEF CompleteRollback, TypeOK

LEMMA FailRollbackType ==
    ASSUME TypeOK, NEW ctx \in Contexts, FailRollback(ctx)
    PROVE  TypeOK'
<1> DEFINE t == ctx.transaction
<1>1. t \in Transactions
  BY DEF Contexts
<1>2. [move_rollbacks[t] EXCEPT !.state = "rollback_failed"] \in Rollbacks
  BY DEF FailRollback, MayFailRollback, OwnsRollback, Rollbacks, RollbackStates, Contexts
<1>3. move_rollbacks' \in [Transactions -> Rollbacks \cup {NoRollback}]
  BY <1>1, <1>2 DEF FailRollback, TypeOK
<1>4. move_rollback_events' \in [Transactions -> Seq(RollbackStates)]
  BY <1>1 DEF FailRollback, TypeOK, RollbackStates
<1> QED
  BY <1>3, <1>4 DEF FailRollback, TypeOK

LEMMA TypeInit == StoreInit => TypeOK
  BY StoreAssumption DEF StoreInit, TypeOK

LEMMA TypeStep == TypeOK /\ [StoreNext]_storeVars => TypeOK'
<1> SUFFICES ASSUME TypeOK, [StoreNext]_storeVars PROVE TypeOK'
  OBVIOUS
<1>1. CASE Plan
  BY <1>1, RecordPlanType DEF Plan
<1>2. CASE Move
  BY <1>2, TransitionType DEF Move
<1>3. CASE Rollback
  BY <1>3, StartRollbackType, CompleteRollbackType, FailRollbackType DEF Rollback
<1>4. CASE UNCHANGED storeVars
  BY <1>4 DEF storeVars, TypeOK
<1> QED
  BY <1>1, <1>2, <1>3, <1>4 DEF StoreNext

(* The tables keep their types, whatever the callers do.                    *)
THEOREM StoreTypeOK == StoreSpec => []TypeOK
  BY TypeInit, TypeStep, PTL DEF StoreSpec
-----------------------------------------------------------------------------
(* PointerSound is not inductive: a commit must know that the transaction   *)
(* it commits has no finished rollback.  SettledRollbacks says why it never *)
(* has: rollbacks start after the forward move has settled.                 *)

SettledRollbacks ==
    \A t \in Transactions :
        RollbackState(t) # "absent"
            => move_transactions[t].state \in {"committed", "rollback_required"}

PointerInv == TypeOK /\ SettledRollbacks /\ PointerSound

(* A plan takes an unused transaction, which no document can name yet.      *)
LEMMA RecordPlanPointer ==
    ASSUME PointerInv,
           NEW t \in Transactions, NEW d \in Documents, NEW source \in Paths,
           NEW destination \in Paths, NEW o \in Objects,
           RecordPlan(t, d, source, destination, o)
    PROVE  SettledRollbacks' /\ PointerSound'
<1> USE DEF PointerInv
<1>1. move_transactions[t].state = "absent"
  BY DEF RecordPlan, MayRecordPlan, NoRow
<1>2. \A u \in Transactions : u # t => move_transactions'[u] = move_transactions[u]
  BY DEF RecordPlan, TypeOK
<1>3. SettledRollbacks'
  BY <1>1, <1>2 DEF SettledRollbacks, RecordPlan, RollbackState
<1>4. PointerSound'
  <2> SUFFICES ASSUME NEW e \in Documents, documents[e].transaction # None
               PROVE  documents[e].transaction \in Transactions \ {t}
    BY <1>2 DEF PointerSound, RecordPlan, RollbackState
  <2> QED
    BY <1>1 DEF PointerSound, TypeOK
<1> QED
  BY <1>3, <1>4

(* A transition leaves from a state no rollback and no document names; the  *)
(* one to "committed" sets the pointer and the state together.              *)
LEMMA TransitionPointer ==
    ASSUME PointerInv, NEW ctx \in Contexts, NEW state \in ForwardStates,
           Transition(ctx, state)
    PROVE  SettledRollbacks' /\ PointerSound'
<1> DEFINE t == ctx.transaction
           d == ctx.document
<1> USE DEF PointerInv
<1>1. t \in Transactions /\ d \in Documents
  BY DEF Contexts
<1>2. /\ move_transactions[t].state \notin {"committed", "rollback_required"}
      /\ move_transactions[t] \in Rows
      /\ move_transactions[t].document = d
      /\ move_transactions[t].destination = ctx.destination
  BY <1>1 DEF Transition, MayTransition, Matches, Allowed, TypeOK
<1>3. RollbackState(t) = "absent"
  BY <1>1, <1>2 DEF SettledRollbacks
<1>4. \A u \in Transactions : u # t => move_transactions'[u] = move_transactions[u]
  BY DEF Transition, TypeOK
<1>5. /\ move_transactions'[t].state = state
      /\ move_transactions'[t].document = d
      /\ move_transactions'[t].destination = ctx.destination
  BY <1>1, <1>2 DEF Transition, TypeOK, Rows
<1>6. UNCHANGED move_rollbacks
  BY DEF Transition
<1>7. SettledRollbacks'
  BY <1>3, <1>4, <1>6 DEF SettledRollbacks, RollbackState
<1>8. ASSUME NEW e \in Documents, documents[e].transaction # None
      PROVE  documents[e].transaction \in Transactions \ {t}
  BY <1>2, <1>8 DEF PointerSound, TypeOK
<1>9. CASE state = "committed"
  <2>1. CommitDocumentPath(ctx)
    BY <1>9, Zenon DEF Transition
  <2>2. documents'[d] = [path |-> ctx.destination, transaction |-> t]
    BY <1>1, <2>1 DEF CommitDocumentPath, TypeOK
  <2>3. \A e \in Documents : e # d => documents'[e] = documents[e]
    BY <1>1, <2>1 DEF CommitDocumentPath, TypeOK
  <2> QED
    BY <1>1, <1>3, <1>4, <1>5, <1>6, <1>7, <1>8, <1>9, <2>2, <2>3
       DEF PointerSound, RollbackState
<1>10. CASE state # "committed"
  <2>1. UNCHANGED documents
    BY <1>10, Zenon DEF Transition
  <2> QED
    BY <1>4, <1>6, <1>7, <1>8, <2>1 DEF PointerSound, RollbackState
<1> QED
  BY <1>9, <1>10

(* Opening an attempt touches no document and undoes nothing yet.           *)
LEMMA StartRollbackPointer ==
    ASSUME PointerInv, NEW ctx \in Contexts, StartRollback(ctx)
    PROVE  SettledRollbacks' /\ PointerSound'
<1> DEFINE t == ctx.transaction
<1> USE DEF PointerInv
<1>1. t \in Transactions
  BY DEF Contexts
<1>2. move_transactions[t].state \in {"committed", "rollback_required"}
  BY DEF StartRollback, MayStartRollback
<1>3. UNCHANGED <<documents, move_transactions>>
  BY DEF StartRollback
<1>4. \A u \in Transactions : u # t => move_rollbacks'[u] = move_rollbacks[u]
  BY DEF StartRollback, TypeOK
<1>5. move_rollbacks'[t].state = "rolling_back"
  BY <1>1 DEF StartRollback, TypeOK, RollbackState
<1>6. SettledRollbacks'
  BY <1>2, <1>3, <1>4 DEF SettledRollbacks, RollbackState
<1>7. PointerSound'
  <2> SUFFICES ASSUME NEW e \in Documents, documents[e].transaction # None
               PROVE  LET u == documents[e].transaction
                      IN  /\ move_transactions[u].state = "committed"
                          /\ move_transactions[u].document = e
                          /\ move_transactions[u].destination = documents[e].path
                          /\ move_rollbacks'[u].state # "rolled_back"
    BY <1>3 DEF PointerSound, RollbackState
  <2>1. documents[e].transaction \in Transactions
    BY DEF TypeOK
  <2> QED
    BY <1>4, <1>5, <2>1 DEF PointerSound, RollbackState
<1> QED
  BY <1>6, <1>7

(* Completing one resets the pointer of the only document whose pointer can *)
(* name the transaction.                                                    *)
LEMMA CompleteRollbackPointer ==
    ASSUME PointerInv, NEW ctx \in Contexts, Loaded(ctx), CompleteRollback(ctx)
    PROVE  SettledRollbacks' /\ PointerSound'
<1> DEFINE t == ctx.transaction
           d == ctx.document
<1> USE DEF PointerInv
<1>1. t \in Transactions /\ d \in Documents
  BY DEF Contexts
<1>2. move_transactions[t].document = d
  BY DEF Loaded, Matches
<1>3. UNCHANGED move_transactions
  BY DEF CompleteRollback
<1>4. \A u \in Transactions : u # t => move_rollbacks'[u] = move_rollbacks[u]
  BY DEF CompleteRollback, TypeOK
<1>5. RollbackState(t) # "absent"
  BY DEF CompleteRollback, MayCompleteRollback, OwnsRollback, RollbackState
<1>6. SettledRollbacks'
  BY <1>1, <1>3, <1>4, <1>5 DEF SettledRollbacks, RollbackState
<1>7. documents'[d] = [path |-> ctx.source, transaction |-> None]
  BY <1>1 DEF CompleteRollback, RestoreDocumentPath, TypeOK
<1>8. \A e \in Documents : e # d => documents'[e] = documents[e]
  BY <1>1 DEF CompleteRollback, RestoreDocumentPath, TypeOK
<1>9. ASSUME NEW e \in Documents, e # d, documents[e].transaction # None
      PROVE  documents[e].transaction \in Transactions \ {t}
  BY <1>2, <1>9 DEF PointerSound, TypeOK
<1>10. PointerSound'
  BY <1>3, <1>4, <1>7, <1>8, <1>9 DEF PointerSound, RollbackState
<1> QED
  BY <1>6, <1>10

(* Giving one up changes no document and undoes nothing.                    *)
LEMMA FailRollbackPointer ==
    ASSUME PointerInv, NEW ctx \in Contexts, FailRollback(ctx)
    PROVE  SettledRollbacks' /\ PointerSound'
<1> DEFINE t == ctx.transaction
<1> USE DEF PointerInv
<1>1. t \in Transactions
  BY DEF Contexts
<1>2. UNCHANGED <<documents, move_transactions>>
  BY DEF FailRollback
<1>3. \A u \in Transactions : u # t => move_rollbacks'[u] = move_rollbacks[u]
  BY DEF FailRollback, TypeOK
<1>4. /\ RollbackState(t) = "rolling_back"
      /\ move_rollbacks[t] \in Rollbacks
  BY <1>1 DEF FailRollback, MayFailRollback, OwnsRollback, RollbackState,
             TypeOK, NoRollback
<1>5. move_rollbacks'[t].state = "rollback_failed"
  BY <1>1, <1>4 DEF FailRollback, TypeOK, Rollbacks
<1>6. SettledRollbacks'
  BY <1>1, <1>2, <1>3, <1>4 DEF SettledRollbacks, RollbackState
<1>7. PointerSound'
  <2> SUFFICES ASSUME NEW e \in Documents, documents[e].transaction # None
               PROVE  LET u == documents[e].transaction
                      IN  /\ move_transactions[u].state = "committed"
                          /\ move_transactions[u].document = e
                          /\ move_transactions[u].destination = documents[e].path
                          /\ move_rollbacks'[u].state # "rolled_back"
    BY <1>2 DEF PointerSound, RollbackState
  <2>1. documents[e].transaction \in Transactions
    BY DEF TypeOK
  <2> QED
    BY <1>3, <1>5, <2>1 DEF PointerSound, RollbackState
<1> QED
  BY <1>6, <1>7

(* No document has a pointer, and no transaction a rollback, at first.      *)
LEMMA PointerInit == StoreInit => PointerInv
<1> SUFFICES ASSUME StoreInit PROVE SettledRollbacks /\ PointerSound
  BY TypeInit DEF PointerInv
<1> QED
  BY DEF StoreInit, SettledRollbacks, PointerSound, RollbackState, NoRollback

(* Every step of an arbitrary caller keeps the strengthened invariant.      *)
LEMMA PointerStep == PointerInv /\ [StoreNext]_storeVars => PointerInv'
<1> SUFFICES ASSUME PointerInv, [StoreNext]_storeVars PROVE PointerInv'
  OBVIOUS
<1>1. TypeOK'
  BY TypeStep DEF PointerInv
<1>2. SettledRollbacks' /\ PointerSound'
  <2>1. CASE Plan
    BY <2>1, RecordPlanPointer DEF Plan
  <2>2. CASE Move
    BY <2>2, TransitionPointer DEF Move
  <2>3. CASE Rollback
    BY <2>3, StartRollbackPointer, CompleteRollbackPointer, FailRollbackPointer DEF Rollback
  <2>4. CASE UNCHANGED storeVars
    BY <2>4 DEF storeVars, PointerInv, SettledRollbacks, PointerSound, RollbackState
  <2> QED
    BY <2>1, <2>2, <2>3, <2>4 DEF StoreNext
<1> QED
  BY <1>1, <1>2 DEF PointerInv

(* The strengthened invariant, for the theorems that rest on it.            *)
LEMMA PointerInvariance == StoreSpec => []PointerInv
  BY PointerInit, PointerStep, PTL DEF StoreSpec

(* The pointer of a document row always names the committed, not undone     *)
(* move that put the document where its row says, whatever moves, undos and *)
(* failed attempts of any callers were interleaved.                         *)
THEOREM StorePointerSound == StoreSpec => []PointerSound
<1>1. PointerInv => PointerSound
  BY DEF PointerInv
<1> QED
  BY <1>1, PointerInvariance, PTL

-----------------------------------------------------------------------------
(* The store implements MoveLedger.                                         *)

(* What the refinement needs to know of a reachable state: no rollback of a *)
(* move that has not settled, and no record of a commit that did not stay.  *)
(* The second lets an undo trust the forward state its caller loaded.       *)

CommittedForGood ==
    \A t \in Transactions :
        \A i \in DOMAIN move_transaction_events[t] :
            move_transaction_events[t][i] = "committed"
                => move_transactions[t].state = "committed"

LedgerInv == PointerInv /\ CommittedForGood

(* Appending to one journal adds its last entry and moves no other.         *)
LEMMA JournalAppendAt ==
    ASSUME NEW S, NEW f \in [Transactions -> Seq(S)], NEW t \in Transactions, NEW e \in S,
           NEW u \in Transactions,
           NEW i \in DOMAIN [f EXCEPT ![t] = Append(@, e)][u]
    PROVE  \/ i \in DOMAIN f[u] /\ [f EXCEPT ![t] = Append(@, e)][u][i] = f[u][i]
           \/ u = t /\ [f EXCEPT ![t] = Append(@, e)][u][i] = e
OBVIOUS

(* No operation moves a transaction away from "committed".                  *)
LEMMA CommittedStep == LedgerInv /\ [StoreNext]_storeVars => CommittedForGood'
<1> SUFFICES ASSUME LedgerInv, [StoreNext]_storeVars PROVE CommittedForGood'
  OBVIOUS
<1> USE DEF LedgerInv, PointerInv
<1>1. ASSUME NEW t \in Transactions, NEW e \in ForwardStates,
             move_transaction_events' =
                 [move_transaction_events EXCEPT ![t] = Append(@, e)],
             move_transactions[t].state # "committed",
             move_transactions'[t].state = e,
             \A u \in Transactions : u # t => move_transactions'[u] = move_transactions[u]
      PROVE  CommittedForGood'
  <2> SUFFICES ASSUME NEW u \in Transactions,
                      NEW i \in DOMAIN move_transaction_events'[u],
                      move_transaction_events'[u][i] = "committed"
               PROVE  move_transactions'[u].state = "committed"
    BY DEF CommittedForGood
  <2>1. \/ i \in DOMAIN move_transaction_events[u]
           /\ move_transaction_events'[u][i] = move_transaction_events[u][i]
        \/ u = t /\ move_transaction_events'[u][i] = e
    <3>1. move_transaction_events \in [Transactions -> Seq(ForwardStates)]
      BY DEF TypeOK
    <3>2. i \in DOMAIN [move_transaction_events EXCEPT ![t] = Append(@, e)][u]
      BY <1>1
    <3> QED
      BY <1>1, <3>1, <3>2, JournalAppendAt
  <2> QED
    BY <1>1, <2>1 DEF CommittedForGood
<1>2. CASE Plan
  <2>1. PICK t \in Transactions, d \in Documents, source \in Paths, destination \in Paths,
             o \in Objects : RecordPlan(t, d, source, destination, o)
    BY <1>2 DEF Plan
  <2>2. "planned" \in ForwardStates
    BY DEF ForwardStates
  <2>3. move_transactions[t].state # "committed"
    BY <2>1 DEF RecordPlan, MayRecordPlan, NoRow
  <2>4. move_transactions'[t].state = "planned"
    BY <2>1 DEF RecordPlan, TypeOK
  <2> QED
    BY <1>1, <2>1, <2>2, <2>3, <2>4 DEF RecordPlan, TypeOK
<1>3. CASE Move
  <2>1. PICK ctx \in Contexts, state \in ForwardStates : Transition(ctx, state)
    BY <1>3 DEF Move
  <2>2. ctx.transaction \in Transactions
    BY DEF Contexts
  <2>3. /\ move_transactions[ctx.transaction].state # "committed"
        /\ move_transactions[ctx.transaction] \in Rows
    BY <2>1, <2>2 DEF Transition, MayTransition, Matches, Allowed, TypeOK
  <2>4. move_transactions'[ctx.transaction].state = state
    BY <2>1, <2>2, <2>3 DEF Transition, TypeOK, Rows
  <2> QED
    BY <1>1, <2>1, <2>2, <2>3, <2>4 DEF Transition, TypeOK
<1>4. CASE Rollback
  BY <1>4 DEF Rollback, StartRollback, CompleteRollback, FailRollback, CommittedForGood
<1>5. CASE UNCHANGED storeVars
  BY <1>5 DEF storeVars, CommittedForGood
<1> QED
  BY <1>2, <1>3, <1>4, <1>5 DEF StoreNext

(* The strengthened invariant of the refinement.                            *)
LEMMA LedgerInvariance == StoreSpec => []LedgerInv
<1>1. StoreInit => LedgerInv
  BY PointerInit DEF LedgerInv, StoreInit, CommittedForGood
<1>2. LedgerInv /\ [StoreNext]_storeVars => LedgerInv'
  BY PointerStep, CommittedStep DEF LedgerInv
<1> QED
  BY <1>1, <1>2, PTL DEF StoreSpec

-----------------------------------------------------------------------------
(* The mapping of one operation, in terms of what it writes.                *)

(* A plan opens the move where its document is.                             *)
LEMMA RecordPlanOpens ==
    ASSUME LedgerInv,
           NEW t \in Transactions, NEW d \in Documents, NEW source \in Paths,
           NEW destination \in Paths, NEW o \in Objects,
           RecordPlan(t, d, source, destination, o)
    PROVE  Ledger!Open(t, d, destination)
<1> USE DEF LedgerInv, PointerInv
<1>1. move_transactions[t].state = "absent" /\ documents[d].path = source
  BY DEF RecordPlan, MayRecordPlan, NoRow
<1>2. RollbackState(t) = "absent"
  BY <1>1 DEF SettledRollbacks
<1>3. move_transactions' = [move_transactions EXCEPT ![t] =
           [state |-> "planned", document |-> d, source |-> source,
            destination |-> destination, object |-> o]]
  BY DEF RecordPlan
<1>4. UNCHANGED <<documents, move_rollbacks>>
  BY DEF RecordPlan
<1>5. Outcome(t) = "none" /\ Outcome(t)' = "open"
  BY <1>1, <1>2, <1>3, <1>4 DEF Outcome, RollbackState, TypeOK
<1>6. \A u \in Transactions : u # t => Outcome(u)' = Outcome(u)
  BY <1>3, <1>4 DEF Outcome, RollbackState, TypeOK
<1> QED
  BY <1>1, <1>3, <1>4, <1>5, <1>6 DEF Ledger!Open, TypeOK

(* A transition closes an open move, commits it or is invisible.            *)
LEMMA TransitionLedger ==
    ASSUME LedgerInv, NEW ctx \in Contexts, NEW state \in ForwardStates,
           Transition(ctx, state)
    PROVE  [Ledger!LedgerNext]_(Ledger!ledgerVars)
<1> DEFINE t == ctx.transaction
           row == move_transactions[t]
<1> USE DEF LedgerInv, PointerInv
<1>1. t \in Transactions /\ ctx.document \in Documents
  BY DEF Contexts
<1>2. /\ row \in Rows
      /\ row.document = ctx.document
      /\ row.source = ctx.source
      /\ row.destination = ctx.destination
      /\ <<row.state, state>> \in Allowed
  BY <1>1 DEF Transition, MayTransition, Matches, TypeOK
<1>3. /\ row.state \in {"planned", "validated", "moving", "moved", "verified"}
      /\ state \in {"validated", "moving", "moved", "verified", "committed",
                    "rollback_required", "failed"}
  BY <1>2 DEF Allowed
<1>4. RollbackState(t) = "absent"
  BY <1>1, <1>3 DEF SettledRollbacks
<1>5. move_transactions' = [move_transactions EXCEPT ![t].state = state]
  BY DEF Transition
<1>6. UNCHANGED move_rollbacks
  BY DEF Transition
<1>7. Outcome(t) = "open"
  BY <1>3, <1>4 DEF Outcome
<1>8. \A u \in Transactions : u # t => Outcome(u)' = Outcome(u)
  BY <1>5, <1>6 DEF Outcome, RollbackState, TypeOK
<1>9. /\ move_transactions'[t].state = state
      /\ \A u \in Transactions :
             /\ move_transactions'[u].document = move_transactions[u].document
             /\ move_transactions'[u].source = move_transactions[u].source
             /\ move_transactions'[u].destination = move_transactions[u].destination
  BY <1>1, <1>2, <1>5 DEF TypeOK, Rows, NoRow
<1>10. RollbackState(t)' = "absent"
  BY <1>4, <1>6 DEF RollbackState
<1>11. CASE state = "committed"
  <2>1. CommitDocumentPath(ctx) /\ MayCommitDocumentPath(ctx)
    BY <1>11, Zenon DEF Transition, MayTransition
  <2>2. Outcome(t)' = "committed"
    BY <1>9, <1>10, <1>11 DEF Outcome
  <2>3. /\ documents[ctx.document].path = ctx.source
        /\ documents' = [documents EXCEPT ![ctx.document] =
               [path |-> ctx.destination, transaction |-> t]]
    BY <2>1 DEF CommitDocumentPath, MayCommitDocumentPath
  <2>4. Ledger!Commit(t)
    BY <1>1, <1>2, <1>7, <1>8, <1>9, <2>2, <2>3 DEF Ledger!Commit, TypeOK
  <2> QED
    BY <1>1, <2>4 DEF Ledger!LedgerNext
<1>12. CASE state # "committed"
  <2>1. UNCHANGED documents
    BY <1>12, Zenon DEF Transition
  <2>2. CASE state \in {"failed", "rollback_required"}
    <3> DEFINE ending == IF state = "failed" THEN "abandoned" ELSE "held"
    <3>1. Outcome(t)' = ending
      BY <1>9, <1>10, <2>2 DEF Outcome
    <3>2. Ledger!Close(t, ending)
      BY <1>1, <1>7, <1>8, <1>9, <2>1, <3>1 DEF Ledger!Close
    <3> QED
      BY <1>1, <3>2 DEF Ledger!LedgerNext
  <2>3. CASE state \notin {"failed", "rollback_required"}
    <3>1. Outcome(t)' = "open"
      BY <1>3, <1>9, <1>10, <1>12, <2>3 DEF Outcome
    <3>2. \A u \in Transactions : Outcome(u)' = Outcome(u)
      BY <1>7, <1>8, <3>1
    <3> QED
      BY <1>9, <2>1, <3>2 DEF Ledger!ledgerVars
  <2> QED
    BY <2>2, <2>3
<1> QED
  BY <1>11, <1>12

(* Opening an attempt, and giving it up, leave the transaction not undone.  *)
LEMMA AttemptStaysOpen ==
    ASSUME TypeOK, NEW ctx \in Contexts, StartRollback(ctx) \/ FailRollback(ctx),
           RollbackState(ctx.transaction) # "rolled_back"
    PROVE  RollbackState(ctx.transaction)' # "rolled_back"
<1> DEFINE t == ctx.transaction
<1>1. t \in Transactions
  BY DEF Contexts
<1>2. CASE StartRollback(ctx)
  BY <1>1, <1>2 DEF StartRollback, RollbackState, TypeOK
<1>3. CASE FailRollback(ctx)
  <2>1. move_rollbacks[t] = [state |-> "rolling_back", attempt |-> ctx.audit]
    BY <1>3 DEF FailRollback, MayFailRollback, OwnsRollback
  <2> QED
    BY <1>1, <1>3, <2>1 DEF FailRollback, RollbackState, TypeOK
<1> QED
  BY <1>2, <1>3

(* Opening an attempt, and giving it up, are invisible.                     *)
LEMMA AttemptLedger ==
    ASSUME LedgerInv, NEW ctx \in Contexts, StartRollback(ctx) \/ FailRollback(ctx)
    PROVE  UNCHANGED Ledger!ledgerVars
<1> DEFINE t == ctx.transaction
<1> USE DEF LedgerInv, PointerInv
<1>1. t \in Transactions
  BY DEF Contexts
<1>2. UNCHANGED <<documents, move_transactions>>
  BY DEF StartRollback, FailRollback
<1>3. \A u \in Transactions : u # t => RollbackState(u)' = RollbackState(u)
  BY DEF StartRollback, FailRollback, RollbackState, TypeOK
<1>4. RollbackState(t) # "rolled_back"
  BY DEF StartRollback, MayStartRollback, AlreadyRolledBack,
         FailRollback, MayFailRollback, OwnsRollback, RollbackState
<1>5. RollbackState(t)' # "rolled_back"
  BY <1>4, AttemptStaysOpen
<1>6. \A u \in Transactions : Outcome(u)' = Outcome(u)
  BY <1>2, <1>3, <1>4, <1>5 DEF Outcome
<1> QED
  BY <1>2, <1>6 DEF Ledger!ledgerVars

(* Completing one undoes a settled move that was not undone before.         *)
LEMMA CompleteRollbackUndoes ==
    ASSUME LedgerInv, NEW ctx \in Contexts, Loaded(ctx), CompleteRollback(ctx)
    PROVE  Ledger!Undo(ctx.transaction)
<1> DEFINE t == ctx.transaction
           row == move_transactions[t]
<1> USE DEF LedgerInv, PointerInv
<1>1. t \in Transactions /\ ctx.document \in Documents
  BY DEF Contexts
<1>2. /\ row.document = ctx.document
      /\ row.source = ctx.source
      /\ row.destination = ctx.destination
  BY DEF Loaded, Matches
<1>3. move_rollbacks[t] = [state |-> "rolling_back", attempt |-> ctx.audit]
  BY DEF CompleteRollback, MayCompleteRollback, OwnsRollback
<1>4. row.state \in {"committed", "rollback_required"}
  BY <1>1, <1>3 DEF SettledRollbacks, RollbackState
<1>5. Outcome(t) = IF row.state = "committed" THEN "committed" ELSE "held"
  BY <1>3, <1>4 DEF Outcome, RollbackState
<1>6. UNCHANGED move_transactions
  BY DEF CompleteRollback
<1>7. move_rollbacks' = [move_rollbacks EXCEPT ![t].state = "rolled_back"]
  BY DEF CompleteRollback
<1>8. Outcome(t)' = "undone"
  <2>1. RollbackState(t)' = "rolled_back"
    BY <1>1, <1>3, <1>7 DEF RollbackState, TypeOK
  <2> QED
    BY <2>1 DEF Outcome
<1>9. \A u \in Transactions : u # t => Outcome(u)' = Outcome(u)
  BY <1>6, <1>7 DEF Outcome, RollbackState, TypeOK
<1>10. ctx.forward = "committed" => row.state = "committed"
  BY <1>1 DEF Loaded, CommittedForGood
<1>11. documents[ctx.document].path =
           IF ctx.forward = "committed" THEN ctx.destination ELSE ctx.source
  BY DEF CompleteRollback, MayCompleteRollback, ExpectedPath
<1>12. documents' = [documents EXCEPT ![ctx.document] =
           [path |-> ctx.source, transaction |-> None]]
  BY DEF CompleteRollback, RestoreDocumentPath
<1> QED
  BY <1>1, <1>2, <1>4, <1>5, <1>6, <1>8, <1>9, <1>10, <1>11, <1>12
     DEF Ledger!Undo, TypeOK

(* Every step of the store is a step of the ledger or invisible to it.      *)
LEMMA LedgerStep ==
    LedgerInv /\ [StoreNext]_storeVars => [Ledger!LedgerNext]_(Ledger!ledgerVars)
<1> SUFFICES ASSUME LedgerInv, [StoreNext]_storeVars
             PROVE  [Ledger!LedgerNext]_(Ledger!ledgerVars)
  OBVIOUS
<1>1. CASE Plan
  BY <1>1, RecordPlanOpens DEF Plan, Ledger!LedgerNext
<1>2. CASE Move
  BY <1>2, TransitionLedger DEF Move
<1>3. CASE Rollback
  <2>1. PICK ctx \in Contexts : Loaded(ctx) /\ \/ StartRollback(ctx)
                                               \/ CompleteRollback(ctx)
                                               \/ FailRollback(ctx)
    BY <1>3 DEF Rollback
  <2>2. CASE StartRollback(ctx) \/ FailRollback(ctx)
    BY <2>2, AttemptLedger
  <2>3. CASE CompleteRollback(ctx)
    <3>1. ctx.transaction \in Transactions
      BY DEF Contexts
    <3> QED
      BY <2>1, <2>3, <3>1, CompleteRollbackUndoes DEF Ledger!LedgerNext
  <2> QED
    BY <2>1, <2>2, <2>3
<1>4. CASE UNCHANGED storeVars
  BY <1>4 DEF storeVars, Ledger!ledgerVars, Outcome, RollbackState
<1> QED
  BY <1>1, <1>2, <1>3, <1>4 DEF StoreNext

(* The store implements the ledger: whatever its callers do, a document     *)
(* changes place only by the commit of an open move or by the undo of a     *)
(* settled one, and each of them happens at most once to a transaction.     *)
THEOREM StoreImplementsLedger == StoreSpec => LedgerSpec
<1>1. ASSUME StoreInit PROVE Ledger!LedgerInit
  <2>1. [d \in Documents |-> documents[d].path] = InitialPath
    BY <1>1, StoreAssumption DEF StoreInit
  <2>2. \A t \in Transactions : move_transactions[t] = NoRow
    BY <1>1 DEF StoreInit
  <2>3. \A t \in Transactions : RollbackState(t) = "absent"
    BY <1>1 DEF StoreInit, RollbackState, NoRollback
  <2>4. \A t \in Transactions : Outcome(t) = "none"
    BY <2>2, <2>3 DEF Outcome, NoRow
  <2> QED
    BY <2>1, <2>2, <2>4 DEF Ledger!LedgerInit, Ledger!NoIntent, NoRow
<1> QED
  BY <1>1, LedgerInvariance, LedgerStep, PTL
     DEF StoreSpec, LedgerSpec, Ledger!LedgerSpec

-----------------------------------------------------------------------------
(* The audit log.                                                           *)

(* What an event appended for document e.document changes of what the log   *)
(* says: nothing about the past or about another document.                  *)
LEMMA AuditSaysAppend ==
    ASSUME NEW log \in Seq(AuditEvents), NEW e \in AuditEvents
    PROVE  LET longer == Append(log, e)
               L == Len(log)
           IN  /\ \A d, p : \A n \in 1 .. L + 1 :
                      AuditSays(log, d, n, p) => AuditSays(longer, d, n, p)
               /\ AuditSays(longer, e.document, L + 2, Target(e))
               /\ \A d, p : d # e.document /\ AuditSays(log, d, L + 1, p)
                                => AuditSays(longer, d, L + 2, p)
<1> DEFINE L == Len(log)
           longer == Append(log, e)
<1>1. L \in Nat /\ DOMAIN log = 1 .. L
  OBVIOUS
<1>2. /\ \A i \in 1 .. L : longer[i] = log[i]
      /\ longer[L + 1] = e
  OBVIOUS
<1> HIDE DEF longer, L
<1>3. ASSUME NEW d, NEW p, NEW n \in 1 .. L + 1, AuditSays(log, d, n, p)
      PROVE  AuditSays(longer, d, n, p)
  <2>1. \A i \in 1 .. n - 1 : longer[i] = log[i]
    BY <1>1, <1>2
  <2>2. CASE (\A i \in 1 .. n - 1 : log[i].document # d) /\ p = InitialPath[d]
    BY <2>1, <2>2 DEF AuditSays
  <2>3. ASSUME NEW i \in 1 .. n - 1, IsLatest(log, i, d, n), p = Target(log[i])
        PROVE  AuditSays(longer, d, n, p)
    <3>1. \A j \in i + 1 .. n - 1 : j \in 1 .. n - 1
      BY <1>1, <2>3
    <3>2. IsLatest(longer, i, d, n)
      BY <2>1, <2>3, <3>1 DEF IsLatest
    <3> QED
      BY <2>1, <2>3, <3>2 DEF AuditSays
  <2> QED
    BY <1>3, <2>2, <2>3 DEF AuditSays
<1>4. AuditSays(longer, e.document, L + 2, Target(e))
  <2>1. L + 1 \in 1 .. (L + 2) - 1 /\ (L + 1) + 1 .. (L + 2) - 1 = {}
    BY <1>1
  <2>2. IsLatest(longer, L + 1, e.document, L + 2)
    BY <1>2, <2>1 DEF IsLatest
  <2> QED
    BY <1>2, <2>1, <2>2 DEF AuditSays
<1>5. ASSUME NEW d, NEW p, d # e.document, AuditSays(log, d, L + 1, p)
      PROVE  AuditSays(longer, d, L + 2, p)
  <2>1. (L + 1) - 1 = L /\ (L + 2) - 1 = L + 1
    BY <1>1
  <2>2. CASE (\A i \in 1 .. L : log[i].document # d) /\ p = InitialPath[d]
    <3>1. \A i \in 1 .. L + 1 : longer[i].document # d
      BY <1>1, <1>2, <1>5, <2>2
    <3> QED
      BY <2>1, <2>2, <3>1 DEF AuditSays
  <2>3. ASSUME NEW i \in 1 .. L, IsLatest(log, i, d, L + 1), p = Target(log[i])
        PROVE  AuditSays(longer, d, L + 2, p)
    <3>1. i \in 1 .. L + 1 /\ longer[i] = log[i]
      BY <1>1, <1>2
    <3>2. \A j \in i + 1 .. L + 1 : longer[j].document # d
      <4> SUFFICES ASSUME NEW j \in i + 1 .. L + 1 PROVE longer[j].document # d
        OBVIOUS
      <4>1. CASE j = L + 1
        BY <1>2, <1>5, <4>1
      <4>2. CASE j # L + 1
        <5>1. j \in 1 .. L /\ j \in i + 1 .. (L + 1) - 1
          BY <1>1, <4>2
        <5> QED
          BY <1>2, <2>3, <5>1 DEF IsLatest
      <4> QED
        BY <4>1, <4>2
    <3>3. IsLatest(longer, i, d, L + 2)
      BY <2>1, <2>3, <3>1, <3>2 DEF IsLatest
    <3> QED
      BY <2>1, <2>3, <3>1, <3>3 DEF AuditSays
  <2> QED
    BY <1>5, <2>1, <2>2, <2>3 DEF AuditSays
<1> QED
  BY <1>3, <1>4, <1>5 DEF longer, L

LogInv == TypeOK /\ LocationKnown /\ AuditContinuous

(* An operation that moves a document from where it is and writes it down.  *)
LEMMA Relocated ==
    ASSUME LogInv, NEW d \in Documents, NEW e \in AuditEvents,
           e.document = d,
           Origin(e) = documents[d].path,
           Target(e) = documents'[d].path,
           audit_events' = Append(audit_events, e),
           documents'[d].path =
               IF document_paths'[d] = <<>> THEN InitialPath[d]
               ELSE Last(document_paths'[d]).path,
           \A c \in Documents : c # d => /\ documents'[c] = documents[c]
                                         /\ document_paths'[c] = document_paths[c]
    PROVE  LocationKnown' /\ AuditContinuous'
<1> DEFINE L == Len(audit_events)
<1> USE DEF LogInv
<1>1. audit_events \in Seq(AuditEvents)
  BY DEF TypeOK
<1>2. /\ L \in Nat
      /\ Len(audit_events') = L + 1
      /\ DOMAIN audit_events' = 1 .. L + 1
      /\ audit_events'[L + 1] = e
      /\ \A n \in 1 .. L : audit_events'[n] = audit_events[n]
  BY <1>1
<1>3. LocationKnown'
  <2> SUFFICES ASSUME NEW c \in Documents
               PROVE  /\ AuditSays(audit_events', c, L + 2, documents'[c].path)
                      /\ documents'[c].path =
                             IF document_paths'[c] = <<>> THEN InitialPath[c]
                             ELSE Last(document_paths'[c]).path
    BY <1>2 DEF LocationKnown
  <2>1. CASE c = d
    BY <1>1, <2>1, AuditSaysAppend
  <2>2. CASE c # d
    <3>1. AuditSays(audit_events, c, L + 1, documents[c].path)
      BY DEF LocationKnown
    <3>2. documents'[c] = documents[c] /\ document_paths'[c] = document_paths[c]
      BY <2>2
    <3>3. AuditSays(audit_events', c, L + 2, documents'[c].path)
      BY <1>1, <2>2, <3>1, <3>2, AuditSaysAppend
    <3> QED
      BY <3>2, <3>3 DEF LocationKnown
  <2> QED
    BY <2>1, <2>2
<1>4. AuditContinuous'
  <2> SUFFICES ASSUME NEW n \in 1 .. L + 1
               PROVE  AuditSays(audit_events', audit_events'[n].document, n,
                                Origin(audit_events'[n]))
    BY <1>2 DEF AuditContinuous
  <2>1. CASE n \in 1 .. L
    <3>1. AuditSays(audit_events, audit_events[n].document, n, Origin(audit_events[n]))
      BY <1>1, <2>1 DEF AuditContinuous
    <3>2. audit_events'[n] = audit_events[n] /\ n \in 1 .. L + 1
      BY <1>2, <2>1
    <3> QED
      BY <1>1, <3>1, <3>2, AuditSaysAppend
  <2>2. CASE n = L + 1
    <3>1. AuditSays(audit_events, d, L + 1, documents[d].path)
      BY DEF LocationKnown
    <3>2. L + 1 \in 1 .. L + 1
      BY <1>2
    <3> QED
      BY <1>1, <1>2, <2>2, <3>1, <3>2, AuditSaysAppend
  <2> QED
    BY <1>2, <2>1, <2>2
<1> QED
  BY <1>3, <1>4

(* A commit takes the document from the source, where the UPDATE found it.  *)
LEMMA CommitRelocates ==
    ASSUME LogInv, NEW ctx \in Contexts,
           MayCommitDocumentPath(ctx), CommitDocumentPath(ctx)
    PROVE  LocationKnown' /\ AuditContinuous'
<1> DEFINE d == ctx.document
           e == AuditEvent(ctx, "document_moved")
<1>1. d \in Documents /\ ctx.source \in Paths /\ ctx.destination \in Paths
  BY DEF Contexts
<1>2. e \in AuditEvents
  BY DEF AuditEvent, AuditEvents, AuditTypes, Contexts
<1>3. e.document = d /\ Origin(e) = ctx.source /\ Target(e) = ctx.destination
  BY DEF AuditEvent, Origin, Target
<1>4. documents'[d].path = ctx.destination
  BY <1>1 DEF LogInv, TypeOK, CommitDocumentPath
<1>5. document_paths'[d] =
          Append(document_paths[d], [path |-> ctx.destination, reason |-> "automatic_move"])
  BY <1>1 DEF LogInv, TypeOK, CommitDocumentPath
<1>6. document_paths[d] \in Seq(PathEntries)
  BY <1>1 DEF LogInv, TypeOK
<1>7. document_paths'[d] # <<>> /\ Last(document_paths'[d]).path = ctx.destination
  BY <1>5, <1>6 DEF Last
<1>8. \A c \in Documents : c # d => /\ documents'[c] = documents[c]
                                    /\ document_paths'[c] = document_paths[c]
  BY <1>1 DEF LogInv, TypeOK, CommitDocumentPath
<1>9. audit_events' = Append(audit_events, e) /\ documents[d].path = ctx.source
  BY DEF CommitDocumentPath, MayCommitDocumentPath
<1> QED
  BY <1>1, <1>2, <1>3, <1>4, <1>7, <1>8, <1>9, Relocated

(* An undo takes it back from the destination; a recovery leaves it at the  *)
(* source, where the path history has it already.                           *)
LEMMA RestoreRelocates ==
    ASSUME LogInv, NEW ctx \in Contexts,
           MayCompleteRollback(ctx), RestoreDocumentPath(ctx)
    PROVE  LocationKnown' /\ AuditContinuous'
<1> DEFINE d == ctx.document
           undo == ctx.forward = "committed"
           e == AuditEvent(ctx, IF undo THEN "move_undone" ELSE "move_recovered")
<1>1. d \in Documents /\ ctx.source \in Paths /\ ctx.destination \in Paths
  BY DEF Contexts
<1>2. e \in AuditEvents
  BY DEF AuditEvent, AuditEvents, AuditTypes, Contexts
<1>3. /\ e.document = d
      /\ Origin(e) = IF undo THEN ctx.destination ELSE ctx.source
      /\ Target(e) = ctx.source
  BY DEF AuditEvent, Origin, Target
<1>4. documents'[d].path = ctx.source
  BY <1>1 DEF LogInv, TypeOK, RestoreDocumentPath
<1>5. documents[d].path = IF undo THEN ctx.destination ELSE ctx.source
  BY DEF MayCompleteRollback, ExpectedPath
<1>6. document_paths[d] \in Seq(PathEntries)
  BY <1>1 DEF LogInv, TypeOK
<1>7. documents'[d].path =
          IF document_paths'[d] = <<>> THEN InitialPath[d]
          ELSE Last(document_paths'[d]).path
  <2>1. CASE undo
    <3>1. document_paths'[d] =
              Append(document_paths[d], [path |-> ctx.source, reason |-> "manual_undo"])
      BY <1>1, <2>1 DEF LogInv, TypeOK, RestoreDocumentPath
    <3> QED
      BY <1>4, <1>6, <3>1 DEF Last
  <2>2. CASE ~undo
    <3>1. document_paths' = document_paths
      BY <2>2 DEF RestoreDocumentPath
    <3> QED
      BY <1>1, <1>4, <1>5, <2>2, <3>1 DEF LogInv, LocationKnown
  <2> QED
    BY <2>1, <2>2
<1>8. \A c \in Documents : c # d => /\ documents'[c] = documents[c]
                                    /\ document_paths'[c] = document_paths[c]
  BY <1>1 DEF LogInv, TypeOK, RestoreDocumentPath
<1>9. audit_events' = Append(audit_events, e)
  BY DEF RestoreDocumentPath
<1> QED
  BY <1>1, <1>2, <1>3, <1>4, <1>5, <1>7, <1>8, <1>9, Relocated

(* Nothing else writes a document, a path history or the audit log.         *)
LEMMA LogStep == LogInv /\ [StoreNext]_storeVars => LogInv'
<1> SUFFICES ASSUME LogInv, [StoreNext]_storeVars PROVE LocationKnown' /\ AuditContinuous'
  BY TypeStep DEF LogInv
<1>1. ASSUME UNCHANGED <<documents, document_paths, audit_events>>
      PROVE  LocationKnown' /\ AuditContinuous'
  BY <1>1 DEF LogInv, LocationKnown, AuditContinuous, AuditSays, IsLatest, Origin, Target, Last
<1>2. CASE Plan
  BY <1>1, <1>2 DEF Plan, RecordPlan
<1>3. CASE Move
  <2>1. PICK ctx \in Contexts, state \in ForwardStates : Transition(ctx, state)
    BY <1>3 DEF Move
  <2>2. CASE state = "committed"
    <3>1. MayCommitDocumentPath(ctx) /\ CommitDocumentPath(ctx)
      BY <2>1, <2>2, Zenon DEF Transition, MayTransition
    <3> QED
      BY <3>1, CommitRelocates
  <2>3. CASE state # "committed"
    <3>1. UNCHANGED <<documents, document_paths, audit_events>>
      BY <2>1, <2>3, Zenon DEF Transition
    <3> QED
      BY <1>1, <3>1
  <2> QED
    BY <2>2, <2>3
<1>4. CASE Rollback
  <2>1. PICK ctx \in Contexts : \/ StartRollback(ctx)
                                \/ CompleteRollback(ctx)
                                \/ FailRollback(ctx)
    BY <1>4 DEF Rollback
  <2>2. CASE StartRollback(ctx) \/ FailRollback(ctx)
    BY <1>1, <2>2 DEF StartRollback, FailRollback
  <2>3. CASE CompleteRollback(ctx)
    BY <2>3, RestoreRelocates DEF CompleteRollback
  <2> QED
    BY <2>1, <2>2, <2>3
<1>5. CASE UNCHANGED storeVars
  BY <1>1, <1>5 DEF storeVars
<1> QED
  BY <1>2, <1>3, <1>4, <1>5 DEF StoreNext

(* The invariant of the log and of the places it gives.                     *)
LEMMA LogInvariance == StoreSpec => []LogInv
<1>1. StoreInit => LogInv
  <2> SUFFICES ASSUME StoreInit PROVE LocationKnown /\ AuditContinuous
    BY TypeInit DEF LogInv
  <2> QED
    BY DEF StoreInit, LocationKnown, AuditContinuous, AuditSays
<1> QED
  BY <1>1, LogStep, PTL DEF StoreSpec

(* The audit log and the path history both lead to the path in the row of   *)
(* every document.                                                          *)
THEOREM StoreLocationKnown == StoreSpec => []LocationKnown
<1>1. LogInv => LocationKnown
  BY DEF LogInv
<1> QED
  BY <1>1, LogInvariance, PTL

(* Every audit event takes its document from where the events before it     *)
(* left it: no two interleaved calls commit a document from one place.      *)
THEOREM StoreAuditContinuous == StoreSpec => []AuditContinuous
<1>1. LogInv => AuditContinuous
  BY DEF LogInv
<1> QED
  BY <1>1, LogInvariance, PTL

-----------------------------------------------------------------------------
(* The log and the transactions.                                            *)

AgreeInv == PointerInv /\ AuditAgrees

(* An event adds its position to the events of its transaction and type.    *)
LEMMA EventsAppend ==
    ASSUME NEW e \in AuditEvents, audit_events \in Seq(AuditEvents),
           audit_events' = Append(audit_events, e),
           NEW t, NEW types
    PROVE  IF e.transaction = t /\ e.type \in types
           THEN EventsOf(t, types)' = EventsOf(t, types) \cup {Len(audit_events) + 1}
           ELSE EventsOf(t, types)' = EventsOf(t, types)
<1> DEFINE L == Len(audit_events)
<1>1. /\ L \in Nat
      /\ DOMAIN audit_events = 1 .. L
      /\ DOMAIN audit_events' = 1 .. L + 1
      /\ audit_events'[L + 1] = e
      /\ \A n \in 1 .. L : audit_events'[n] = audit_events[n]
  OBVIOUS
<1>2. 1 .. L + 1 = (1 .. L) \cup {L + 1}
  BY <1>1
<1> QED
  BY <1>1, <1>2 DEF EventsOf

(* The identifier of an appended event was not used before.                 *)
LEMMA IdsAppend ==
    ASSUME NEW e \in AuditEvents, audit_events \in Seq(AuditEvents), AuditIdsDiffer,
           audit_events' = Append(audit_events, e), UnusedAuditId(e.id)
    PROVE  AuditIdsDiffer'
<1> DEFINE L == Len(audit_events)
<1>1. /\ L \in Nat
      /\ DOMAIN audit_events = 1 .. L
      /\ DOMAIN audit_events' = 1 .. L + 1
      /\ audit_events'[L + 1] = e
      /\ \A n \in 1 .. L : audit_events'[n] = audit_events[n]
  OBVIOUS
<1>2. \A n \in 1 .. L + 1 : n \in 1 .. L \/ n = L + 1
  BY <1>1
<1> QED
  BY <1>1, <1>2 DEF AuditIdsDiffer, UnusedAuditId

(* A transition adds an event exactly when it commits.                      *)
LEMMA TransitionAgrees ==
    ASSUME AgreeInv, NEW ctx \in Contexts, NEW state \in ForwardStates,
           Transition(ctx, state)
    PROVE  AuditAgrees'
<1> DEFINE t == ctx.transaction
           e == AuditEvent(ctx, "document_moved")
<1> USE DEF AgreeInv, PointerInv
<1>1. t \in Transactions
  BY DEF Contexts
<1>2. /\ move_transactions[t] \in Rows
      /\ move_transactions[t].state # "committed"
  BY <1>1 DEF Transition, MayTransition, Matches, Allowed, TypeOK
<1>3. /\ move_transactions'[t].state = state
      /\ \A u \in Transactions : u # t => move_transactions'[u] = move_transactions[u]
  BY <1>1, <1>2 DEF Transition, TypeOK, Rows
<1>4. UNCHANGED move_rollbacks
  BY DEF Transition
<1>5. EventsOf(t, {"document_moved"}) = {}
  BY <1>1, <1>2 DEF AuditAgrees, MovedOnce
<1>6. CASE state = "committed"
  <2>1. CommitDocumentPath(ctx) /\ MayCommitDocumentPath(ctx)
    BY <1>6, Zenon DEF Transition, MayTransition
  <2>2. e \in AuditEvents
    BY DEF AuditEvent, AuditEvents, AuditTypes, Contexts
  <2>3. e.transaction = t /\ e.type = "document_moved" /\ e.id = ctx.audit
    BY DEF AuditEvent
  <2>4. audit_events \in Seq(AuditEvents) /\ audit_events' = Append(audit_events, e)
    BY <2>1 DEF TypeOK, CommitDocumentPath
  <2>5. AuditIdsDiffer'
    BY <2>1, <2>2, <2>3, <2>4, IdsAppend DEF MayCommitDocumentPath, AuditAgrees
  <2>6. ASSUME NEW u \in Transactions PROVE MovedOnce(u)'
    <3> DEFINE moved == EventsOf(u, {"document_moved"})
    <3>1. IF u = t THEN moved' = moved \cup {Len(audit_events) + 1} ELSE moved' = moved
      BY <2>2, <2>3, <2>4, EventsAppend
    <3> HIDE DEF moved
    <3>2. CASE u = t
      <4>1. moved' = {Len(audit_events) + 1}
        BY <1>5, <3>1, <3>2 DEF moved
      <4> QED
        BY <1>3, <1>6, <3>2, <4>1 DEF MovedOnce, One, moved
    <3>3. CASE u # t
      BY <1>3, <3>1, <3>3 DEF AuditAgrees, MovedOnce, One, moved
    <3> QED
      BY <3>2, <3>3
  <2>7. ASSUME NEW u \in Transactions PROVE UndoneOnce(u)'
    <3>1. EventsOf(u, {"move_undone", "move_recovered"})' =
              EventsOf(u, {"move_undone", "move_recovered"})
      BY <2>2, <2>3, <2>4, EventsAppend
    <3> QED
      BY <1>4, <3>1 DEF AuditAgrees, UndoneOnce, RollbackState
  <2> QED
    BY <2>5, <2>6, <2>7 DEF AuditAgrees
<1>7. CASE state # "committed"
  <2>1. UNCHANGED audit_events
    BY <1>7, Zenon DEF Transition
  <2> QED
    BY <1>2, <1>3, <1>4, <1>7, <2>1
       DEF AuditAgrees, MovedOnce, UndoneOnce, AuditIdsDiffer, EventsOf, RollbackState
<1> QED
  BY <1>6, <1>7

(* Completing a rollback adds the one event that says so.                   *)
LEMMA CompleteRollbackAgrees ==
    ASSUME AgreeInv, NEW ctx \in Contexts, CompleteRollback(ctx)
    PROVE  AuditAgrees'
<1> DEFINE t == ctx.transaction
           e == AuditEvent(ctx, IF ctx.forward = "committed" THEN "move_undone"
                                                             ELSE "move_recovered")
<1> USE DEF AgreeInv, PointerInv
<1>1. t \in Transactions
  BY DEF Contexts
<1>2. e \in AuditEvents
  BY DEF AuditEvent, AuditEvents, AuditTypes, Contexts
<1>3. /\ e.transaction = t
      /\ e.type \in {"move_undone", "move_recovered"}
      /\ e.type # "document_moved"
      /\ e.id = ctx.audit
  BY DEF AuditEvent
<1>4. audit_events \in Seq(AuditEvents) /\ audit_events' = Append(audit_events, e)
  BY DEF TypeOK, CompleteRollback, RestoreDocumentPath
<1>5. move_rollbacks[t] = [state |-> "rolling_back", attempt |-> ctx.audit]
  BY DEF CompleteRollback, MayCompleteRollback, OwnsRollback
<1>6. /\ RollbackState(t)' = "rolled_back"
      /\ \A u \in Transactions : u # t => RollbackState(u)' = RollbackState(u)
  BY <1>1, <1>5 DEF CompleteRollback, RollbackState, TypeOK
<1>7. EventsOf(t, {"move_undone", "move_recovered"}) = {}
  BY <1>1, <1>5 DEF AuditAgrees, UndoneOnce, RollbackState
<1>8. UNCHANGED move_transactions
  BY DEF CompleteRollback
<1>9. AuditIdsDiffer'
  BY <1>2, <1>3, <1>4, IdsAppend DEF AuditAgrees, CompleteRollback, MayCompleteRollback
<1>10. ASSUME NEW u \in Transactions PROVE MovedOnce(u)'
  <2>1. EventsOf(u, {"document_moved"})' = EventsOf(u, {"document_moved"})
    BY <1>2, <1>3, <1>4, EventsAppend
  <2> QED
    BY <1>8, <2>1 DEF AuditAgrees, MovedOnce
<1>11. ASSUME NEW u \in Transactions PROVE UndoneOnce(u)'
  <2> DEFINE undone == EventsOf(u, {"move_undone", "move_recovered"})
  <2>1. IF u = t THEN undone' = undone \cup {Len(audit_events) + 1} ELSE undone' = undone
    BY <1>2, <1>3, <1>4, EventsAppend
  <2> HIDE DEF undone
  <2>2. CASE u = t
    <3>1. undone' = {Len(audit_events) + 1}
      BY <1>7, <2>1, <2>2 DEF undone
    <3> QED
      BY <1>6, <2>2, <3>1 DEF UndoneOnce, One, undone
  <2>3. CASE u # t
    BY <1>6, <2>1, <2>3 DEF AuditAgrees, UndoneOnce, One, undone
  <2> QED
    BY <2>2, <2>3
<1> QED
  BY <1>9, <1>10, <1>11 DEF AuditAgrees

(* Opening an attempt or giving it up writes no event and ends no rollback. *)
LEMMA AttemptAgrees ==
    ASSUME AgreeInv, NEW ctx \in Contexts, StartRollback(ctx) \/ FailRollback(ctx)
    PROVE  AuditAgrees'
<1> DEFINE t == ctx.transaction
<1> USE DEF AgreeInv, PointerInv
<1>1. t \in Transactions
  BY DEF Contexts
<1>2. UNCHANGED <<move_transactions, audit_events>>
  BY DEF StartRollback, FailRollback
<1>3. \A u \in Transactions : u # t => RollbackState(u)' = RollbackState(u)
  BY DEF StartRollback, FailRollback, RollbackState, TypeOK
<1>4. RollbackState(t) # "rolled_back"
  BY DEF StartRollback, MayStartRollback, AlreadyRolledBack,
         FailRollback, MayFailRollback, OwnsRollback, RollbackState
<1>5. RollbackState(t)' # "rolled_back"
  BY <1>1, <1>4, AttemptStaysOpen
<1>6. \A u \in Transactions :
          (RollbackState(u)' = "rolled_back") <=> (RollbackState(u) = "rolled_back")
  BY <1>3, <1>4, <1>5
<1>7. /\ \A u \in Transactions :
             \A types : EventsOf(u, types)' = EventsOf(u, types)
      /\ AuditIdsDiffer'
  BY <1>2 DEF EventsOf, AuditAgrees, AuditIdsDiffer
<1> QED
  BY <1>2, <1>6, <1>7 DEF AuditAgrees, MovedOnce, UndoneOnce

(* A plan takes a transaction that has no event yet.                        *)
LEMMA RecordPlanAgrees ==
    ASSUME AgreeInv,
           NEW t \in Transactions, NEW d \in Documents, NEW source \in Paths,
           NEW destination \in Paths, NEW o \in Objects,
           RecordPlan(t, d, source, destination, o)
    PROVE  AuditAgrees'
<1> USE DEF AgreeInv, PointerInv
<1>1. /\ move_transactions[t].state # "committed"
      /\ move_transactions'[t].state # "committed"
  BY DEF RecordPlan, MayRecordPlan, NoRow, TypeOK
<1>2. \A u \in Transactions : u # t => move_transactions'[u] = move_transactions[u]
  BY DEF RecordPlan, TypeOK
<1>3. UNCHANGED <<move_rollbacks, audit_events>>
  BY DEF RecordPlan
<1> QED
  BY <1>1, <1>2, <1>3
     DEF AuditAgrees, MovedOnce, UndoneOnce, AuditIdsDiffer, EventsOf, RollbackState

(* A committed transaction has one document_moved event and an undone one   *)
(* one event that says so, and no other transaction has any, however often  *)
(* calls are retried, resumed or raced.                                     *)
THEOREM StoreAuditAgrees == StoreSpec => []AuditAgrees
<1>1. StoreInit => AuditAgrees
  BY DEF StoreInit, AuditAgrees, MovedOnce, UndoneOnce, AuditIdsDiffer, EventsOf,
         RollbackState, NoRow, NoRollback
<1>2. PointerInv /\ AuditAgrees /\ [StoreNext]_storeVars => AuditAgrees'
  <2> SUFFICES ASSUME AgreeInv, [StoreNext]_storeVars PROVE AuditAgrees'
    BY DEF AgreeInv
  <2>1. CASE Plan
    BY <2>1, RecordPlanAgrees DEF Plan
  <2>2. CASE Move
    BY <2>2, TransitionAgrees DEF Move
  <2>3. CASE Rollback
    BY <2>3, AttemptAgrees, CompleteRollbackAgrees DEF Rollback
  <2>4. CASE UNCHANGED storeVars
    BY <2>4 DEF storeVars, AgreeInv, AuditAgrees, MovedOnce, UndoneOnce, AuditIdsDiffer,
                EventsOf, RollbackState
  <2> QED
    BY <2>1, <2>2, <2>3, <2>4 DEF StoreNext
<1> QED
  BY <1>1, <1>2, PointerInvariance, PTL DEF StoreSpec

-----------------------------------------------------------------------------
(* The two journals.                                                        *)

(* JournalsAgree needs the types only: each operation checks the row, and   *)
(* the row is where the journal ends.                                       *)
JournalInv == TypeOK /\ JournalsAgree

(* What one appended entry changes of a journal.                            *)
LEMMA JournalAppend ==
    ASSUME NEW S, NEW s \in Seq(S), NEW e \in S
    PROVE  LET longer == Append(s, e)
           IN  /\ Len(longer) = Len(s) + 1
               /\ Len(s) \in Nat
               /\ longer # <<>>
               /\ Last(longer) = e
               /\ \A i \in 1 .. Len(s) : longer[i] = s[i]
               /\ longer[Len(s) + 1] = e
               /\ s # <<>> => Len(s) \in 1 .. Len(s) /\ Last(s) = s[Len(s)]
               /\ s = <<>> => Len(s) = 0
<1>1. s # <<>> => Len(s) # 0
  OBVIOUS
<1>2. /\ Len(s) \in Nat
      /\ Len(Append(s, e)) = Len(s) + 1
      /\ Append(s, e)[Len(s) + 1] = e
      /\ \A i \in 1 .. Len(s) : Append(s, e)[i] = s[i]
      /\ Append(s, e) # <<>>
      /\ s = <<>> => Len(s) = 0
  OBVIOUS
<1> QED
  BY <1>1, <1>2 DEF Last

(* Appending a state _ALLOWED lets follow the last one keeps the journal a  *)
(* path of _ALLOWED.                                                        *)
LEMMA ForwardAppend ==
    ASSUME TypeOK, NEW t \in Transactions, NEW e \in ForwardStates,
           ForwardJournalAgrees(t),
           IF move_transaction_events[t] = <<>>
           THEN e = "planned"
           ELSE <<move_transactions[t].state, e>> \in Allowed,
           move_transaction_events'[t] = Append(move_transaction_events[t], e),
           move_transactions'[t].state = e
    PROVE  ForwardJournalAgrees(t)'
<1> DEFINE s == move_transaction_events[t]
           longer == Append(s, e)
           L == Len(s)
<1>1. s \in Seq(ForwardStates)
  BY DEF TypeOK
<1>2. /\ Len(longer) = L + 1 /\ L \in Nat /\ longer # <<>> /\ Last(longer) = e
      /\ \A i \in 1 .. L : longer[i] = s[i]
      /\ longer[L + 1] = e
      /\ s # <<>> => L \in 1 .. L /\ Last(s) = s[L]
      /\ s = <<>> => L = 0
  BY <1>1, JournalAppend
<1>3. /\ move_transactions[t].state = IF s = <<>> THEN "absent" ELSE Last(s)
      /\ s # <<>> => s[1] = "planned"
      /\ \A i \in 1 .. L - 1 : <<s[i], s[i + 1]>> \in Allowed
  BY DEF ForwardJournalAgrees
<1>4. move_transaction_events'[t] = longer
  OBVIOUS
<1> HIDE DEF s, longer, L
<1>5. longer[1] = "planned"
  <2>1. CASE s = <<>>
    BY <1>2, <2>1 DEF s
  <2>2. CASE s # <<>>
    BY <1>2, <1>3, <2>2
  <2> QED
    BY <2>1, <2>2
<1>6. ASSUME NEW i \in 1 .. (L + 1) - 1 PROVE <<longer[i], longer[i + 1]>> \in Allowed
  <2>1. s # <<>>
    BY <1>2, <1>6
  <2>2. CASE i = L
    BY <1>2, <1>3, <2>1, <2>2 DEF s
  <2>3. CASE i # L
    <3>1. i \in 1 .. L - 1 /\ i \in 1 .. L /\ i + 1 \in 1 .. L
      BY <1>2, <2>3
    <3> QED
      BY <1>2, <1>3, <3>1
  <2> QED
    BY <2>2, <2>3
<1> QED
  BY <1>2, <1>4, <1>5, <1>6 DEF ForwardJournalAgrees

(* The entries alternate: an attempt opens only when the last one has been  *)
(* given up, and only the open one ends.                                    *)
LEMMA RollbackAppend ==
    ASSUME TypeOK, NEW t \in Transactions, NEW e \in RollbackStates,
           RollbackJournalAgrees(t),
           IF e = "rolling_back" THEN RollbackState(t) \notin {"rolling_back", "rolled_back"}
                                 ELSE RollbackState(t) = "rolling_back",
           move_transactions'[t].state \in {"committed", "rollback_required"},
           move_rollback_events'[t] = Append(move_rollback_events[t], e),
           move_rollbacks'[t].state = e
    PROVE  RollbackJournalAgrees(t)'
<1> DEFINE s == move_rollback_events[t]
           longer == Append(s, e)
           L == Len(s)
           Fits(i, state) == IF i % 2 = 1 THEN state = "rolling_back"
                             ELSE state \in {"rolled_back", "rollback_failed"}
<1>1. s \in Seq(RollbackStates)
  BY DEF TypeOK
<1>2. /\ Len(longer) = L + 1 /\ L \in Nat /\ longer # <<>> /\ Last(longer) = e
      /\ \A i \in 1 .. L : longer[i] = s[i]
      /\ longer[L + 1] = e
      /\ s # <<>> => L \in 1 .. L /\ Last(s) = s[L]
      /\ s = <<>> => L = 0
  BY <1>1, JournalAppend
<1>3. /\ RollbackState(t) = IF s = <<>> THEN "absent" ELSE Last(s)
      /\ \A i \in 1 .. L : Fits(i, s[i])
      /\ \A i \in 1 .. L - 1 : s[i] # "rolled_back"
  BY DEF RollbackJournalAgrees
<1>4. move_rollback_events'[t] = longer
  OBVIOUS
<1>5. e \in {"rolling_back", "rolled_back", "rollback_failed"}
  BY DEF RollbackStates
<1> HIDE DEF s, longer, L
<1>6. Fits(L + 1, e)
  <2>1. CASE e = "rolling_back"
    <3>1. L # 0 => Last(s) # "rolling_back" /\ Fits(L, Last(s))
      BY <1>2, <1>3, <2>1
    <3>2. L % 2 # 1
      <4>1. CASE L = 0
        BY <4>1
      <4>2. CASE L # 0
        BY <3>1, <4>2
      <4> QED
        BY <4>1, <4>2
    <3>3. (L + 1) % 2 = 1
      BY <1>2, <3>2
    <3> QED
      BY <2>1, <3>3
  <2>2. CASE e # "rolling_back"
    <3>1. s # <<>> /\ Last(s) = "rolling_back" /\ Fits(L, "rolling_back")
      BY <1>2, <1>3, <2>2
    <3>2. L % 2 = 1
      BY <3>1
    <3>3. (L + 1) % 2 # 1
      BY <1>2, <3>2
    <3> QED
      BY <1>5, <2>2, <3>3
  <2> QED
    BY <2>1, <2>2
<1>7. \A i \in 1 .. L + 1 : i = L + 1 \/ i \in 1 .. L
  BY <1>2
<1>8. \A i \in 1 .. L + 1 : Fits(i, longer[i])
  BY <1>2, <1>3, <1>6, <1>7
<1>9. ASSUME NEW i \in 1 .. (L + 1) - 1 PROVE longer[i] # "rolled_back"
  <2>1. i \in 1 .. L /\ s # <<>>
    BY <1>2, <1>9
  <2>2. CASE i = L
    BY <1>2, <1>3, <1>5, <2>1, <2>2
  <2>3. CASE i # L
    <3>1. i \in 1 .. L - 1
      BY <1>2, <2>3
    <3> QED
      BY <1>2, <1>3, <2>1, <3>1
  <2> QED
    BY <2>2, <2>3
<1> QED
  BY <1>2, <1>4, <1>8, <1>9 DEF RollbackJournalAgrees, RollbackState

(* An operation that leaves a transaction alone leaves its journals alone.  *)
LEMMA OthersAgree ==
    ASSUME JournalsAgree, NEW u \in Transactions
    PROVE  /\ /\ move_transactions'[u] = move_transactions[u]
              /\ move_transaction_events'[u] = move_transaction_events[u]
              => ForwardJournalAgrees(u)'
           /\ /\ move_transactions'[u].state = move_transactions[u].state
              /\ move_rollbacks'[u] = move_rollbacks[u]
              /\ move_rollback_events'[u] = move_rollback_events[u]
              => RollbackJournalAgrees(u)'
BY DEF JournalsAgree, ForwardJournalAgrees, RollbackJournalAgrees, RollbackState

(* A forward operation: the rollback journal of its transaction is empty.   *)
LEMMA ForwardOperation ==
    ASSUME JournalInv, NEW t \in Transactions, NEW e \in ForwardStates,
           move_transactions[t].state \notin {"committed", "rollback_required"},
           IF move_transactions[t].state = "absent"
           THEN e = "planned"
           ELSE <<move_transactions[t].state, e>> \in Allowed,
           move_transactions'[t].state = e,
           \A u \in Transactions : u # t => move_transactions'[u] = move_transactions[u],
           move_transaction_events' =
               [move_transaction_events EXCEPT ![t] = Append(@, e)],
           UNCHANGED <<move_rollbacks, move_rollback_events>>
    PROVE  JournalsAgree'
<1> USE DEF JournalInv
<1>1. ForwardJournalAgrees(t) /\ RollbackJournalAgrees(t)
  BY DEF JournalsAgree
<1>2. move_transaction_events[t] = <<>> <=> move_transactions[t].state = "absent"
  <2>1. move_transaction_events[t] \in Seq(ForwardStates)
    BY DEF TypeOK
  <2>2. move_transaction_events[t] # <<>> => Last(move_transaction_events[t]) \in ForwardStates
    BY <2>1 DEF Last
  <2> QED
    BY <1>1, <2>2 DEF ForwardJournalAgrees, ForwardStates
<1>3. ForwardJournalAgrees(t)'
  <2>1. move_transaction_events'[t] = Append(move_transaction_events[t], e)
    BY DEF TypeOK
  <2> QED
    BY <1>1, <1>2, <2>1, ForwardAppend
<1>4. RollbackJournalAgrees(t)'
  <2>1. move_rollback_events[t] = <<>>
    BY <1>1 DEF RollbackJournalAgrees
  <2> QED
    BY <1>1, <2>1 DEF RollbackJournalAgrees, RollbackState
<1>5. ASSUME NEW u \in Transactions, u # t
      PROVE  ForwardJournalAgrees(u)' /\ RollbackJournalAgrees(u)'
  <2>1. move_transaction_events'[u] = move_transaction_events[u]
    BY <1>5 DEF TypeOK
  <2>2. move_transactions'[u] = move_transactions[u]
    BY <1>5
  <2> QED
    BY <2>1, <2>2, OthersAgree
<1> QED
  BY <1>3, <1>4, <1>5 DEF JournalsAgree

(* A rollback operation: the forward journal of its transaction is over.    *)
LEMMA RollbackOperation ==
    ASSUME JournalInv, NEW t \in Transactions, NEW e \in RollbackStates,
           IF e = "rolling_back" THEN RollbackState(t) \notin {"rolling_back", "rolled_back"}
                                 ELSE RollbackState(t) = "rolling_back",
           move_transactions[t].state \in {"committed", "rollback_required"},
           move_rollbacks'[t].state = e,
           \A u \in Transactions : u # t => move_rollbacks'[u] = move_rollbacks[u],
           move_rollback_events' = [move_rollback_events EXCEPT ![t] = Append(@, e)],
           UNCHANGED <<move_transactions, move_transaction_events>>
    PROVE  JournalsAgree'
<1> USE DEF JournalInv
<1>1. ASSUME NEW u \in Transactions PROVE ForwardJournalAgrees(u)'
  BY OthersAgree
<1>2. RollbackJournalAgrees(t)'
  <2>1. move_rollback_events'[t] = Append(move_rollback_events[t], e)
    BY DEF TypeOK
  <2>2. RollbackJournalAgrees(t)
    BY DEF JournalsAgree
  <2> QED
    BY <2>1, <2>2, RollbackAppend
<1>3. ASSUME NEW u \in Transactions, u # t PROVE RollbackJournalAgrees(u)'
  <2>1. move_rollback_events'[u] = move_rollback_events[u]
    BY <1>3 DEF TypeOK
  <2>2. move_rollbacks'[u] = move_rollbacks[u]
    BY <1>3
  <2> QED
    BY <2>1, <2>2, OthersAgree
<1> QED
  BY <1>1, <1>2, <1>3 DEF JournalsAgree

(* Every step of an arbitrary caller keeps the journals.                    *)
LEMMA JournalStep == JournalInv /\ [StoreNext]_storeVars => JournalInv'
<1> SUFFICES ASSUME JournalInv, [StoreNext]_storeVars PROVE JournalsAgree'
  BY TypeStep DEF JournalInv
<1> USE DEF JournalInv
<1>1. CASE Plan
  <2>1. PICK t \in Transactions, d \in Documents, source \in Paths, destination \in Paths,
             o \in Objects : RecordPlan(t, d, source, destination, o)
    BY <1>1 DEF Plan
  <2>2. "planned" \in ForwardStates /\ move_transactions[t].state = "absent"
    BY <2>1 DEF RecordPlan, MayRecordPlan, NoRow, ForwardStates
  <2>3. /\ move_transactions'[t].state = "planned"
        /\ \A u \in Transactions : u # t => move_transactions'[u] = move_transactions[u]
    BY <2>1 DEF RecordPlan, TypeOK
  <2> QED
    BY <2>1, <2>2, <2>3, ForwardOperation DEF RecordPlan
<1>2. CASE Move
  <2>1. PICK ctx \in Contexts, state \in ForwardStates : Transition(ctx, state)
    BY <1>2 DEF Move
  <2> DEFINE t == ctx.transaction
  <2>2. t \in Transactions
    BY DEF Contexts
  <2>3. /\ move_transactions[t] \in Rows
        /\ <<move_transactions[t].state, state>> \in Allowed
    BY <2>1, <2>2 DEF Transition, MayTransition, Matches, TypeOK
  <2>4. move_transactions[t].state \notin {"committed", "rollback_required", "absent"}
    BY <2>3 DEF Allowed
  <2>5. /\ move_transactions'[t].state = state
        /\ \A u \in Transactions : u # t => move_transactions'[u] = move_transactions[u]
    BY <2>1, <2>2, <2>3 DEF Transition, TypeOK, Rows
  <2> QED
    BY <2>1, <2>2, <2>3, <2>4, <2>5, ForwardOperation DEF Transition
<1>3. CASE Rollback
  <2>1. PICK ctx \in Contexts : Loaded(ctx) /\ \/ StartRollback(ctx)
                                               \/ CompleteRollback(ctx)
                                               \/ FailRollback(ctx)
    BY <1>3 DEF Rollback
  <2> DEFINE t == ctx.transaction
  <2>2. t \in Transactions
    BY DEF Contexts
  <2>3. CASE StartRollback(ctx) /\ RollbackState(t) = "rolling_back"
    <3>1. UNCHANGED <<move_transactions, move_transaction_events,
                      move_rollbacks, move_rollback_events>>
      BY <2>3 DEF StartRollback
    <3> QED
      BY <3>1, OthersAgree DEF JournalsAgree
  <2>4. CASE StartRollback(ctx) /\ RollbackState(t) # "rolling_back"
    <3>1. /\ move_rollbacks' = [move_rollbacks EXCEPT ![t] =
                [state |-> "rolling_back", attempt |-> ctx.audit]]
          /\ move_rollback_events' =
                [move_rollback_events EXCEPT ![t] = Append(@, "rolling_back")]
          /\ UNCHANGED <<move_transactions, move_transaction_events>>
      BY <2>4, Zenon DEF StartRollback
    <3>2. /\ move_transactions[t].state \in {"committed", "rollback_required"}
          /\ RollbackState(t) \notin {"rolling_back", "rolled_back"}
      BY <2>4 DEF StartRollback, MayStartRollback, AlreadyRolledBack
    <3>3. /\ move_rollbacks'[t].state = "rolling_back"
          /\ \A u \in Transactions : u # t => move_rollbacks'[u] = move_rollbacks[u]
      BY <2>2, <3>1 DEF TypeOK
    <3>4. "rolling_back" \in RollbackStates
      BY DEF RollbackStates
    <3> QED
      BY <2>2, <3>1, <3>2, <3>3, <3>4, RollbackOperation
  <2>5. ASSUME NEW e \in {"rolled_back", "rollback_failed"}, OwnsRollback(ctx),
               move_rollbacks' = [move_rollbacks EXCEPT ![t].state = e],
               move_rollback_events' = [move_rollback_events EXCEPT ![t] = Append(@, e)],
               UNCHANGED <<move_transactions, move_transaction_events>>
        PROVE  JournalsAgree'
    <3>1. move_rollbacks[t] = [state |-> "rolling_back", attempt |-> ctx.audit]
      BY <2>5 DEF OwnsRollback
    <3>2. RollbackState(t) = "rolling_back"
      BY <3>1 DEF RollbackState
    <3>3. move_transactions[t].state \in {"committed", "rollback_required"}
      BY <2>2, <3>2 DEF JournalsAgree, RollbackJournalAgrees
    <3>4. /\ move_rollbacks'[t].state = e
          /\ \A u \in Transactions : u # t => move_rollbacks'[u] = move_rollbacks[u]
      BY <2>2, <2>5, <3>1 DEF TypeOK
    <3>5. e \in RollbackStates /\ e # "rolling_back"
      BY <2>5 DEF RollbackStates
    <3> QED
      BY <2>2, <2>5, <3>2, <3>3, <3>4, <3>5, RollbackOperation
  <2>6. CASE CompleteRollback(ctx)
    BY <2>5, <2>6 DEF CompleteRollback, MayCompleteRollback
  <2>7. CASE FailRollback(ctx)
    BY <2>5, <2>7 DEF FailRollback, MayFailRollback
  <2> QED
    BY <2>1, <2>3, <2>4, <2>6, <2>7
<1>4. CASE UNCHANGED storeVars
  BY <1>4, OthersAgree DEF storeVars, JournalsAgree
<1> QED
  BY <1>1, <1>2, <1>3, <1>4 DEF StoreNext

(* The rows and their append-only journals never disagree, every forward    *)
(* journal is a path of _ALLOWED, and every rollback journal is a sequence  *)
(* of attempts of which only the last can have succeeded.                   *)
THEOREM StoreJournalsAgree == StoreSpec => []JournalsAgree
<1>1. StoreInit => JournalInv
  <2> SUFFICES ASSUME StoreInit PROVE JournalsAgree
    BY TypeInit DEF JournalInv
  <2> QED
    BY DEF StoreInit, JournalsAgree, ForwardJournalAgrees, RollbackJournalAgrees,
           RollbackState, NoRow, NoRollback
<1>2. JournalInv => JournalsAgree
  BY DEF JournalInv
<1> QED
  BY <1>1, <1>2, JournalStep, PTL DEF StoreSpec
=============================================================================
