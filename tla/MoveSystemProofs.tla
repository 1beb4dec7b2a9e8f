-------------------------- MODULE MoveSystemProofs --------------------------
(* Theorems about MoveSystem, for any calls, transactions and documents: the *)
(* system implements the store, so the theorems about MoveStore hold of it.  *)
EXTENDS MoveSystem, MoveStoreProofs

CallStates == [at : Places, record : Records \cup {NoRecord},
               existing : RollbackStates \cup {"absent"}]

Undoing == {"undo_read", "undo_start", "undo_classify", "undo_verify_destination",
            "undo_rename", "undo_verify_source", "undo_complete", "undo_fail"}

(* The inductive invariant.  A call that runs holds the evidence of a real   *)
(* move, and what an undo has loaded was written for its transaction once.   *)

Holds ==
    \A c \in Calls :
        /\ ~ At(c, "idle") => call[c].record \in Records
        /\ At(c, "ticketed") => call[c].record.document = Request[c].document

UndosLoaded == \A c \in Calls : call[c].at \in Undoing => Loaded(Ctx(c))

SystemInv == SystemTypeOK /\ Holds /\ UndosLoaded /\ JournalsAgree

LEMMA SystemInit == Init => SystemInv
<1> SUFFICES ASSUME Init
             PROVE  SystemInv
  OBVIOUS
<1>1. TypeOK
  BY TypeInit DEF Init
<1>2. Idle \in CallStates /\ Idle.at = "idle"
  BY DEF Idle, CallStates, Places
<1>3. call \in [Calls -> CallStates] /\ \A c \in Calls : call[c] = Idle
  BY <1>2 DEF Init
<1>4. SystemTypeOK
  BY <1>1, <1>3, SystemAssumption DEF Init, SystemTypeOK, CallStates
<1>5. JournalsAgree
  BY DEF Init, StoreInit, JournalsAgree, ForwardJournalAgrees, RollbackJournalAgrees,
         RollbackState, NoRow, NoRollback
<1> QED
  BY <1>2, <1>3, <1>4, <1>5 DEF SystemInv, Holds, At, UndosLoaded, Undoing

-----------------------------------------------------------------------------
(* Every step is one of the store.                                           *)

LEMMA ContextType ==
    ASSUME SystemInv, NEW c \in Calls, ~ At(c, "idle")
    PROVE  Ctx(c) \in Contexts
BY SystemAssumption DEF SystemInv, Holds, Ctx, Contexts, Records, Source, Destination

LEMMA PersistIsStore ==
    ASSUME SystemInv, NEW c \in Calls, ~ At(c, "idle"), NEW state \in ForwardStates, NEW place,
           Persist(c, state, place)
    PROVE  [StoreNext]_storeVars
<1>1. CASE UNCHANGED storeVars
  BY <1>1
<1>2. CASE Transition(Ctx(c), state)
  <2> DEFINE ctx == [Ctx(c) EXCEPT !.forward = "planned"]
  <2>1. ctx \in Contexts /\ ctx.forward = "planned"
    BY ContextType DEF Contexts, ForwardStates
  <2>2. /\ ctx.transaction = Ctx(c).transaction /\ ctx.document = Ctx(c).document
        /\ ctx.source = Ctx(c).source /\ ctx.destination = Ctx(c).destination
        /\ ctx.audit = Ctx(c).audit
    BY DEF Ctx
  <2> HIDE DEF ctx
  <2>3. Transition(ctx, state)
    BY <1>2, <2>2 DEF Transition, MayTransition, Matches, MayCommitDocumentPath,
                      CommitDocumentPath, AuditEvent
  <2> QED
    BY <2>1, <2>3 DEF StoreNext, Move
<1> QED
  BY <1>1, <1>2 DEF Persist

LEMMA PlanIsStore ==
    ASSUME SystemInv, NEW c \in Calls, PlanMove(c)
    PROVE  [StoreNext]_storeVars
<1>1. CASE UNCHANGED storeVars
  BY <1>1
<1>2. CASE RecordPlan(Request[c].transaction, Request[c].document, Source(c), Destination(c), Object(c))
  <2>1. call[c].record \in Records /\ Request[c].transaction \in Transactions
    BY SystemAssumption DEF SystemInv, Holds, PlanMove, At
  <2>2. Source(c) \in Paths /\ Destination(c) \in Paths /\ Object(c) \in Objects
    BY <2>1 DEF Records, Source, Destination, Object
  <2>3. Request[c].document \in Documents
    BY <2>1 DEF SystemInv, Holds, PlanMove, Records
  <2> QED
    BY <1>2, <2>1, <2>2, <2>3 DEF StoreNext, Plan
<1> QED
  BY <1>1, <1>2 DEF PlanMove

LEMMA RollbackIsStore ==
    ASSUME SystemInv, NEW c \in Calls, call[c].at \in Undoing,
           \/ RoomToStart(c) /\ StartRollback(Ctx(c))
           \/ CompleteRollback(Ctx(c))
           \/ FailRollback(Ctx(c))
    PROVE  StoreNext
<1>1. Ctx(c) \in Contexts /\ Loaded(Ctx(c)) /\ Ctx(c).transaction = Request[c].transaction
  BY ContextType DEF SystemInv, UndosLoaded, At, Undoing, Ctx
<1> QED
  BY <1>1 DEF StoreNext, Rollback, RoomToStart

(* Only six kinds of steps touch the database.                               *)
LEMMA StepIsStore == SystemInv /\ [Next]_vars => [StoreNext]_storeVars
<1> SUFFICES ASSUME SystemInv, [Next]_vars
             PROVE  [StoreNext]_storeVars
  OBVIOUS
<1>1. ASSUME NEW c \in Calls, Begin(c) \/ Crash(c)
      PROVE  UNCHANGED storeVars
  BY <1>1 DEF Begin, Ticket, BeginRecovery, BeginUndo, Crash
<1>2. ASSUME NEW c \in Calls, MoveStep(c) \/ ForwardStep(c)
      PROVE  [StoreNext]_storeVars
  <2>1. CASE RenameNoReplace(c) \/ VerifyDestination(c)
    BY <2>1 DEF RenameNoReplace, TryRename, VerifyDestination, Check
  <2>2. CASE \/ Validate(c) \/ BeginMoving(c) \/ RecordFailure(c) \/ RecordMoved(c)
             \/ RecordRollbackRequired(c) \/ RecordVerified(c) \/ Commit(c)
    <3>1. PICK state \in ForwardStates, place \in Places : Persist(c, state, place) /\ ~ At(c, "idle")
      BY <2>2 DEF Validate, BeginMoving, RecordFailure, RecordMoved, RecordRollbackRequired,
                  RecordVerified, Commit, ForwardStates, Places, At
    <3> QED
      BY <3>1, PersistIsStore
  <2> QED
    BY <1>2, <2>1, <2>2 DEF MoveStep, ForwardStep
<1>3. ASSUME NEW c \in Calls, UndoStep(c)
      PROVE  [StoreNext]_storeVars
  <2>1. CASE \/ ReadRollbackState(c) \/ UndoClassify(c) \/ UndoVerifyDestination(c)
             \/ RollbackNoReplace(c) \/ UndoVerifySource(c)
    BY <2>1 DEF ReadRollbackState, UndoClassify, UndoVerifyDestination, RollbackNoReplace,
                UndoVerifySource, TryRename, Check
  <2>2. CASE BeginRollback(c) \/ UndoComplete(c) \/ UndoFail(c)
    <3>1. call[c].at \in Undoing
      BY <2>2 DEF BeginRollback, UndoComplete, UndoFail, At, Undoing
    <3>2. \/ UNCHANGED storeVars
          \/ RoomToStart(c) /\ StartRollback(Ctx(c))
          \/ CompleteRollback(Ctx(c))
          \/ FailRollback(Ctx(c))
      BY <2>2 DEF BeginRollback, UndoComplete, UndoFail
    <3> QED
      BY <3>1, <3>2, RollbackIsStore
  <2> QED
    BY <1>3, <2>1, <2>2 DEF UndoStep
<1>4. ASSUME NEW c \in Calls, Classify(c)
      PROVE  UNCHANGED storeVars
  BY <1>4 DEF Classify
<1>5. CASE User
  BY <1>5 DEF User, UserRename, UserCreate, UserEdit, Meddle
<1>6. CASE UNCHANGED vars
  BY <1>6 DEF vars
<1> QED
  BY <1>1, <1>2, <1>3, <1>4, <1>5, <1>6, PlanIsStore DEF Next, Step

-----------------------------------------------------------------------------
(* The evidence of the calls stays good.                                     *)

(* What was loaded stays true: rows keep what they are about, journals grow. *)
LEMMA LoadedStays ==
    ASSUME TypeOK, [StoreNext]_storeVars, NEW k, k.transaction \in Transactions, Loaded(k)
    PROVE  Loaded(k)'
<1> DEFINE t == k.transaction
<1>1. ASSUME NEW u \in Transactions, NEW e \in ForwardStates,
             move_transaction_events' = [move_transaction_events EXCEPT ![u] = Append(@, e)]
      PROVE  \A i \in DOMAIN move_transaction_events[t] :
                 /\ i \in DOMAIN move_transaction_events'[t]
                 /\ move_transaction_events'[t][i] = move_transaction_events[t][i]
  <2>1. move_transaction_events \in [Transactions -> Seq(ForwardStates)]
    BY DEF TypeOK
  <2>2. CASE u = t
    <3>1. move_transaction_events'[t] = Append(move_transaction_events[t], e)
      BY <1>1, <2>1, <2>2
    <3> QED
      BY <2>1, <3>1
  <2>3. CASE u # t
    BY <1>1, <2>1, <2>3
  <2> QED
    BY <2>2, <2>3
<1>2. CASE Plan
  <2>1. PICK u \in Transactions, d \in Documents, source \in Paths, destination \in Paths,
             o \in Objects : RecordPlan(u, d, source, destination, o)
    BY <1>2 DEF Plan
  <2>2. u # t
    BY <2>1 DEF RecordPlan, MayRecordPlan, Loaded, Matches
  <2>3. move_transactions'[t] = move_transactions[t]
    BY <2>1, <2>2 DEF RecordPlan, TypeOK
  <2>4. "planned" \in ForwardStates
    BY DEF ForwardStates
  <2> QED
    BY <1>1, <2>1, <2>3, <2>4 DEF RecordPlan, Loaded, Matches
<1>3. CASE Move
  <2>1. PICK ctx \in Contexts, state \in ForwardStates : Transition(ctx, state)
    BY <1>3 DEF Move
  <2>2. ctx.transaction \in Transactions
    BY DEF Contexts
  <2>3. /\ move_transactions'[t] # NoRow
        /\ move_transactions'[t].document = move_transactions[t].document
        /\ move_transactions'[t].source = move_transactions[t].source
        /\ move_transactions'[t].destination = move_transactions[t].destination
    <3>1. move_transactions[t] \in Rows
      BY DEF Loaded, Matches, TypeOK
    <3>2. CASE ctx.transaction = t
      BY <2>1, <3>1, <3>2 DEF Transition, TypeOK, Rows, NoRow, ForwardStates
    <3>3. CASE ctx.transaction # t
      BY <2>1, <3>3 DEF Transition, TypeOK, Loaded, Matches
    <3> QED
      BY <3>2, <3>3
  <2> QED
    BY <1>1, <2>1, <2>2, <2>3 DEF Transition, Loaded, Matches
<1>4. CASE Rollback
  BY <1>4 DEF Rollback, StartRollback, CompleteRollback, FailRollback, Loaded, Matches
<1>5. CASE UNCHANGED storeVars
  BY <1>5 DEF storeVars, Loaded, Matches
<1> QED
  BY <1>2, <1>3, <1>4, <1>5 DEF StoreNext

CallsOK == call \in [Calls -> CallStates] /\ Holds /\ UndosLoaded

\* A call goes on with the evidence it has, or ends.
Advances(c) ==
    \E m \in CallStates :
        /\ call' = [call EXCEPT ![c] = m]
        /\ \/ m.at = "idle"
           \/ /\ m.record = call[c].record
              /\ ~ At(c, "idle")
              /\ m.at # "ticketed"
              /\ m.at \in Undoing => call[c].at \in Undoing

LEMMA StopAdvances ==
    ASSUME SystemInv, NEW c \in Calls, Stop(c)
    PROVE  Advances(c)
<1>1. Idle \in CallStates /\ Idle.at = "idle"
  BY DEF Idle, CallStates, Places
<1> QED
  BY <1>1 DEF Stop, Advances

LEMMA GoAdvances ==
    ASSUME SystemInv, NEW c \in Calls, ~ At(c, "idle"),
           NEW place \in Places \ {"ticketed"}, Go(c, place),
           place \in Undoing => call[c].at \in Undoing
    PROVE  Advances(c)
<1>1. CASE place = "idle"
  BY <1>1, StopAdvances DEF Go, Stop
<1>2. CASE place # "idle"
  <2> DEFINE m == [call[c] EXCEPT !.at = place]
  <2>1. call[c] \in CallStates /\ call \in [Calls -> CallStates]
    BY DEF SystemInv, SystemTypeOK, CallStates
  <2>2. call' = [call EXCEPT ![c] = m]
    BY <1>2, <2>1 DEF Go
  <2>3. m \in CallStates /\ m.at = place /\ m.record = call[c].record
    BY <2>1 DEF CallStates
  <2> QED
    BY <2>2, <2>3 DEF Advances
<1> QED
  BY <1>1, <1>2

LEMMA CheckAdvances ==
    ASSUME SystemInv, NEW c \in Calls, ~ At(c, "idle"), NEW p, NEW q,
           NEW yes \in Places \ {"ticketed"}, NEW no \in Places \ {"ticketed"},
           yes \in Undoing \/ no \in Undoing => call[c].at \in Undoing,
           Check(c, p, q, yes, no) \/ TryRename(c, p, q, yes, no)
    PROVE  Advances(c)
<1>1. Go(c, yes) \/ Go(c, no)
  BY DEF Check, TryRename
<1> QED
  BY <1>1, GoAdvances

LEMMA StepAdvances ==
    ASSUME SystemInv, NEW c \in Calls, Step(c) \/ Crash(c)
    PROVE  Advances(c)
<1>1. CASE Crash(c)
  BY <1>1, StopAdvances DEF Crash
<1>2. CASE PlanMove(c)
  <2>1. ~ At(c, "idle") /\ "planned" \in Places \ {"ticketed"} /\ "planned" \notin Undoing
    BY <1>2 DEF PlanMove, At, Places, Undoing
  <2>2. Go(c, "planned") \/ Stop(c)
    BY <1>2 DEF PlanMove
  <2> QED
    BY <2>1, <2>2, GoAdvances, StopAdvances
<1>3. ASSUME \/ Validate(c) \/ BeginMoving(c) \/ RecordFailure(c) \/ RecordMoved(c)
             \/ RecordRollbackRequired(c) \/ RecordVerified(c) \/ Commit(c)
      PROVE  Advances(c)
  <2>1. ~ At(c, "idle")
    BY <1>3 DEF Validate, BeginMoving, RecordFailure, RecordMoved, RecordRollbackRequired,
                RecordVerified, Commit, At
  <2>2. \E place \in {"validated", "moving", "moved", "verified", "idle"} : Go(c, place) \/ Stop(c)
    BY <1>3 DEF Validate, BeginMoving, RecordFailure, RecordMoved, RecordRollbackRequired,
                RecordVerified, Commit, Persist
  <2>3. \A place \in {"validated", "moving", "moved", "verified", "idle"} :
            place \in Places \ {"ticketed"} /\ place \notin Undoing
    BY DEF Places, Undoing
  <2> QED
    BY <2>1, <2>2, <2>3, GoAdvances, StopAdvances
<1>4. CASE RenameNoReplace(c)
  <2>1. ~ At(c, "idle") /\ TryRename(c, Source(c), Destination(c), "renamed", "refused")
    BY <1>4 DEF RenameNoReplace, At
  <2>2. \A place \in {"renamed", "refused"} : place \in Places \ {"ticketed"} /\ place \notin Undoing
    BY DEF Places, Undoing
  <2> QED
    BY <2>1, <2>2, CheckAdvances
<1>5. CASE VerifyDestination(c)
  <2>1. ~ At(c, "idle") /\ Check(c, Destination(c), Source(c), "checked", "unverified")
    BY <1>5 DEF VerifyDestination, At
  <2>2. \A place \in {"checked", "unverified"} : place \in Places \ {"ticketed"} /\ place \notin Undoing
    BY DEF Places, Undoing
  <2> QED
    BY <2>1, <2>2, CheckAdvances
<1>6. CASE Classify(c)
  <2>1. ~ At(c, "idle") /\ \E place \in {"refused", "renamed", "unverified"} : Go(c, place)
    BY <1>6 DEF Classify, At
  <2>2. \A place \in {"refused", "renamed", "unverified"} :
            place \in Places \ {"ticketed"} /\ place \notin Undoing
    BY DEF Places, Undoing
  <2> QED
    BY <2>1, <2>2, GoAdvances
<1>7. CASE UndoStep(c)
  <2>1. Undoing \subseteq Places \ {"ticketed"}
    BY DEF Undoing, Places
  <2>2. ~ At(c, "idle") /\ call[c].at \in Undoing
    BY <1>7 DEF UndoStep, ReadRollbackState, BeginRollback, UndoClassify, UndoVerifyDestination,
                RollbackNoReplace, UndoVerifySource, UndoComplete, UndoFail, At, Undoing
  <2>3. CASE ReadRollbackState(c)
    <3> DEFINE state == RollbackState(Request[c].transaction)
               m == [call[c] EXCEPT !.at = "undo_start", !.existing = state]
    <3>1. call[c] \in CallStates /\ call \in [Calls -> CallStates]
      BY DEF SystemInv, SystemTypeOK, CallStates
    <3>2. CASE Stop(c)
      BY <3>2, StopAdvances
    <3>3. CASE call' = [call EXCEPT ![c] = m]
      <4>1. state \in RollbackStates \cup {"absent"}
        BY SystemAssumption DEF SystemInv, SystemTypeOK, TypeOK, RollbackState, Rollbacks, NoRollback
      <4>2. m \in CallStates /\ m.at = "undo_start" /\ m.record = call[c].record
        BY <3>1, <4>1 DEF CallStates, Places
      <4> QED
        BY <2>2, <3>3, <4>2 DEF Advances
    <3> QED
      BY <2>3, <3>1, <3>2, <3>3 DEF ReadRollbackState, Stop
  <2>4. CASE BeginRollback(c)
    <3>1. Go(c, "undo_classify") \/ Stop(c)
      BY <2>4 DEF BeginRollback
    <3>2. "undo_classify" \in Undoing
      BY DEF Undoing
    <3> QED
      BY <2>1, <2>2, <3>1, <3>2, GoAdvances, StopAdvances
  <2>5. CASE UndoClassify(c)
    <3>1. \E place \in Undoing : Go(c, place)
      BY <2>5 DEF UndoClassify, Undoing
    <3> QED
      BY <2>1, <2>2, <3>1, GoAdvances
  <2>6. CASE UndoVerifyDestination(c)
    BY <2>1, <2>2, <2>6, CheckAdvances DEF UndoVerifyDestination, Undoing
  <2>7. CASE RollbackNoReplace(c)
    BY <2>1, <2>2, <2>7, CheckAdvances DEF RollbackNoReplace, Undoing
  <2>8. CASE UndoVerifySource(c)
    BY <2>1, <2>2, <2>8, CheckAdvances DEF UndoVerifySource, Undoing
  <2>9. CASE UndoComplete(c) \/ UndoFail(c)
    BY <2>9, StopAdvances DEF UndoComplete, UndoFail
  <2> QED
    BY <1>7, <2>3, <2>4, <2>5, <2>6, <2>7, <2>8, <2>9 DEF UndoStep
<1> QED
  BY <1>1, <1>2, <1>3, <1>4, <1>5, <1>6, <1>7 DEF Step, MoveStep, ForwardStep

LEMMA AdvanceKeeps ==
    ASSUME SystemInv, [StoreNext]_storeVars, NEW c \in Calls, Advances(c)
    PROVE  CallsOK'
<1>1. PICK m \in CallStates :
          /\ call' = [call EXCEPT ![c] = m]
          /\ \/ m.at = "idle"
             \/ /\ m.record = call[c].record
                /\ ~ At(c, "idle")
                /\ m.at # "ticketed"
                /\ m.at \in Undoing => call[c].at \in Undoing
  BY DEF Advances
<1>2. call \in [Calls -> CallStates]
  BY DEF SystemInv, SystemTypeOK, CallStates
<1>3. call' \in [Calls -> CallStates] /\ call'[c] = m
      /\ \A d \in Calls \ {c} : call'[d] = call[d]
  BY <1>1, <1>2
<1>4. Holds'
  BY <1>1, <1>3 DEF SystemInv, Holds, At
<1>5. ASSUME NEW d \in Calls, call'[d].at \in Undoing
      PROVE  Loaded(Ctx(d))'
  <2>1. call[d].at \in Undoing /\ call'[d].record = call[d].record
    BY <1>1, <1>3, <1>5 DEF Undoing
  <2>2. PICK k : k = Ctx(d)
    OBVIOUS
  <2>3. Loaded(k) /\ k.transaction \in Transactions
    BY <2>1, <2>2, SystemAssumption DEF SystemInv, UndosLoaded, Ctx
  <2>4. Loaded(k)'
    BY <2>3, LoadedStays DEF SystemInv, SystemTypeOK
  <2>5. Ctx(d)' = k
    BY <2>1, <2>2 DEF Ctx, Source, Destination
  <2> QED
    BY <2>4, <2>5
<1> QED
  BY <1>3, <1>4, <1>5 DEF CallsOK, UndosLoaded

\* What a new call holds is a row of the database, or the file and the request.
LEMMA HoldingKeeps ==
    ASSUME SystemInv, UNCHANGED storeVars, NEW c \in Calls, NEW place \in Places,
           NEW record \in Records, Holding(c, place, record),
           place = "ticketed" => record.document = Request[c].document,
           place \in Undoing => Loaded([transaction |-> Request[c].transaction,
                document |-> record.document, source |-> record.source,
                destination |-> record.destination, audit |-> Request[c].audit,
                forward |-> record.forward])
    PROVE  CallsOK'
<1> DEFINE m == [at |-> place, record |-> record, existing |-> "absent"]
<1>1. m \in CallStates /\ m.at = place /\ m.record = record
  BY DEF CallStates
<1>2. call \in [Calls -> CallStates] /\ call' = [call EXCEPT ![c] = m]
  BY DEF SystemInv, SystemTypeOK, CallStates, Holding
<1> HIDE DEF m
<1>3. call' \in [Calls -> CallStates] /\ call'[c] = m
      /\ \A d \in Calls \ {c} : call'[d] = call[d]
  BY <1>1, <1>2
<1>4. Holds'
  BY <1>1, <1>3 DEF SystemInv, Holds, At
<1>5. ASSUME NEW d \in Calls, call'[d].at \in Undoing
      PROVE  Loaded(Ctx(d))'
  <2>1. PICK k : k = Ctx(d)'
    OBVIOUS
  <2>2. Loaded(k)
    <3>1. CASE d = c
      BY <1>1, <1>3, <1>5, <2>1, <3>1 DEF Ctx, Source, Destination
    <3>2. CASE d # c
      BY <1>3, <1>5, <2>1, <3>2 DEF SystemInv, UndosLoaded, Ctx, Source, Destination
    <3> QED
      BY <3>1, <3>2
  <2>3. Loaded(k)'
    BY <2>2 DEF Loaded, Matches, storeVars
  <2> QED
    BY <2>1, <2>3
<1> QED
  BY <1>3, <1>4, <1>5 DEF CallsOK, UndosLoaded

\* The state of a row is the last one journaled for it.
LEMMA RowIsLoaded ==
    ASSUME SystemInv, NEW c \in Calls, move_transactions[Request[c].transaction] # NoRow
    PROVE  /\ LoadRecord(Request[c].transaction) \in Records
           /\ Loaded([transaction |-> Request[c].transaction,
                document |-> LoadRecord(Request[c].transaction).document,
                source |-> LoadRecord(Request[c].transaction).source,
                destination |-> LoadRecord(Request[c].transaction).destination,
                audit |-> Request[c].audit,
                forward |-> LoadRecord(Request[c].transaction).forward])
<1> DEFINE t == Request[c].transaction
           events == move_transaction_events[t]
<1>1. t \in Transactions
  BY SystemAssumption
<1>2. move_transactions[t] \in Rows /\ events \in Seq(ForwardStates)
  BY <1>1 DEF SystemInv, SystemTypeOK, TypeOK
<1>3. events # <<>> /\ move_transactions[t].state = events[Len(events)]
  BY <1>1, <1>2 DEF SystemInv, JournalsAgree, ForwardJournalAgrees, Last, Rows, ForwardStates
<1>4. Len(events) \in DOMAIN events
  BY <1>2, <1>3
<1> QED
  BY <1>2, <1>3, <1>4 DEF LoadRecord, Records, Rows, Loaded, Matches

LEMMA BeginKeeps ==
    ASSUME SystemInv, NEW c \in Calls, Begin(c)
    PROVE  CallsOK'
<1> DEFINE t == Request[c].transaction
<1>1. CASE Ticket(c)
  <2> DEFINE d == Request[c].document
             p == documents[d].path
             record == [document |-> d, source |-> p, object |-> fs[p],
                        destination |-> Request[c].destination, forward |-> "planned"]
  <2>1. d \in Documents /\ Request[c].destination \in Paths
    BY <1>1, SystemAssumption DEF Ticket
  <2>2. p \in Paths
    BY <2>1 DEF SystemInv, SystemTypeOK, TypeOK
  <2>3. fs[p] \in Objects
    BY <1>1, <2>2 DEF SystemInv, SystemTypeOK, Ticket
  <2>4. record \in Records /\ record.document = Request[c].document
    BY <2>1, <2>2, <2>3 DEF Records, ForwardStates
  <2>5. Holding(c, "ticketed", record) /\ UNCHANGED storeVars
    BY <1>1 DEF Ticket
  <2>6. "ticketed" \in Places /\ "ticketed" \notin Undoing
    BY DEF Places, Undoing
  <2> HIDE DEF record
  <2> QED
    BY <2>4, <2>5, <2>6, HoldingKeeps
<1>2. CASE BeginRecovery(c)
  <2>1. move_transactions[t] # NoRow
    BY <1>2 DEF BeginRecovery, NoRow
  <2>2. \E place \in {"classify", "moved", "verified"} : Holding(c, place, LoadRecord(t))
    BY <1>2 DEF BeginRecovery
  <2>3. \A place \in {"classify", "moved", "verified"} :
            place \in Places /\ place \notin Undoing /\ place # "ticketed"
    BY DEF Places, Undoing
  <2>4. UNCHANGED storeVars
    BY <1>2 DEF BeginRecovery
  <2>5. LoadRecord(t) \in Records
    BY <2>1, RowIsLoaded
  <2> QED
    BY <2>2, <2>3, <2>4, <2>5, HoldingKeeps
<1>3. CASE BeginUndo(c)
  <2>1. /\ move_transactions[t] # NoRow
        /\ Holding(c, "undo_read", LoadRecord(t))
        /\ UNCHANGED storeVars
    BY <1>3 DEF BeginUndo
  <2>2. "undo_read" \in Places
    BY DEF Places
  <2> QED
    BY <2>1, <2>2, RowIsLoaded, HoldingKeeps
<1> QED
  BY <1>1, <1>2, <1>3 DEF Begin

-----------------------------------------------------------------------------
(* The files.                                                                *)

WorldOK ==
    /\ fs \in [Paths -> Objects \cup {Vacant}]
    /\ edited \subseteq Objects
    /\ touched \subseteq Objects
    /\ faults \in 0 .. MaxFaults
    /\ meddling \in 0 .. MaxMeddling

LEMMA FaultType ==
    ASSUME WorldOK, Fault \/ NoFault
    PROVE  faults' \in 0 .. MaxFaults
<1>1. CASE Fault
  BY <1>1, SystemAssumption DEF WorldOK, Fault
<1>2. CASE NoFault
  BY <1>2 DEF WorldOK, NoFault
<1> QED
  BY <1>1, <1>2

LEMMA RenameType ==
    ASSUME WorldOK, SystemInv, NEW c \in Calls, ~ At(c, "idle"), NEW p, NEW q, Rename(c, p, q)
    PROVE  fs' \in [Paths -> Objects \cup {Vacant}]
<1>1. Object(c) \in Objects
  BY DEF SystemInv, Holds, Object, Records
<1> QED
  BY <1>1 DEF WorldOK, Rename

LEMMA WorldStep ==
    ASSUME SystemInv, [Next]_vars
    PROVE  WorldOK'
<1>0. WorldOK
  BY DEF SystemInv, SystemTypeOK, WorldOK
<1>1. ASSUME Fault \/ NoFault, UNCHANGED worldVars
      PROVE  WorldOK'
  BY <1>0, <1>1, FaultType DEF WorldOK, worldVars
<1>2. ASSUME NEW c \in Calls, ~ At(c, "idle"), NEW p, NEW q, NEW done, NEW refused,
             TryRename(c, p, q, done, refused)
      PROVE  WorldOK'
  <2>1. faults' \in 0 .. MaxFaults
    BY <1>0, <1>2, FaultType DEF TryRename
  <2>2. fs' \in [Paths -> Objects \cup {Vacant}]
    <3>1. Rename(c, p, q) \/ UNCHANGED fs
      BY <1>2 DEF TryRename
    <3> QED
      BY <1>0, <1>2, <3>1, RenameType DEF WorldOK
  <2> QED
    BY <1>0, <1>2, <2>1, <2>2 DEF TryRename, WorldOK
<1>3. ASSUME NEW c \in Calls, Begin(c) \/ Crash(c)
      PROVE  WorldOK'
  BY <1>1, <1>3 DEF Begin, Ticket, BeginRecovery, BeginUndo, Crash
<1>4. ASSUME NEW c \in Calls, RenameNoReplace(c) \/ RollbackNoReplace(c)
      PROVE  WorldOK'
  <2>1. ~ At(c, "idle")
    BY <1>4 DEF RenameNoReplace, RollbackNoReplace, At
  <2> QED
    BY <1>2, <1>4, <2>1 DEF RenameNoReplace, RollbackNoReplace
<1>5. ASSUME NEW c \in Calls, PlanMove(c) \/ MoveStep(c) \/ Classify(c) \/ ForwardStep(c),
             ~ RenameNoReplace(c)
      PROVE  WorldOK'
  <2>1. (Fault \/ NoFault) /\ UNCHANGED worldVars
    BY <1>5 DEF PlanMove, MoveStep, Classify, ForwardStep, Validate, BeginMoving, RecordFailure,
                RecordMoved, VerifyDestination, RecordRollbackRequired, RecordVerified, Commit,
                Persist, Check
  <2> QED
    BY <1>1, <2>1
<1>6. ASSUME NEW c \in Calls, UndoStep(c), ~ RollbackNoReplace(c)
      PROVE  WorldOK'
  <2>1. (Fault \/ NoFault) /\ UNCHANGED worldVars
    BY <1>6 DEF UndoStep, ReadRollbackState, BeginRollback, UndoClassify, UndoVerifyDestination,
                UndoVerifySource, UndoComplete, UndoFail, Check
  <2> QED
    BY <1>1, <2>1
<1>7. ASSUME NEW o \in Objects, Meddle(o)
      PROVE  touched' \subseteq Objects /\ faults' \in 0 .. MaxFaults /\ meddling' \in 0 .. MaxMeddling
  BY <1>0, <1>7, SystemAssumption DEF WorldOK, Meddle
<1>8. ASSUME NEW p \in Paths, NEW q \in Paths, UserRename(p, q)
      PROVE  WorldOK'
  <2>1. fs[p] \in Objects
    BY <1>0, <1>8 DEF WorldOK, UserRename
  <2>2. fs' \in [Paths -> Objects \cup {Vacant}]
    BY <1>0, <1>8, <2>1 DEF WorldOK, UserRename
  <2> QED
    BY <1>0, <1>7, <1>8, <2>1, <2>2 DEF WorldOK, UserRename
<1>9. ASSUME NEW p \in Paths, NEW o \in Objects, UserCreate(p, o)
      PROVE  WorldOK'
  <2>1. fs' \in [Paths -> Objects \cup {Vacant}]
    BY <1>0, <1>9 DEF WorldOK, UserCreate
  <2> QED
    BY <1>0, <1>7, <1>9, <2>1 DEF WorldOK, UserCreate
<1>10. ASSUME NEW p \in Paths, UserEdit(p)
       PROVE  WorldOK'
  BY <1>0, <1>7, <1>10 DEF WorldOK, UserEdit
<1>11. CASE UNCHANGED vars
  BY <1>0, <1>11 DEF WorldOK, vars
<1> QED
  BY <1>3, <1>4, <1>5, <1>6, <1>8, <1>9, <1>10, <1>11 DEF Next, Step, User

-----------------------------------------------------------------------------
(* The system.                                                               *)

LEMMA SystemStep == SystemInv /\ [Next]_vars => SystemInv'
<1> SUFFICES ASSUME SystemInv, [Next]_vars
             PROVE  SystemInv'
  OBVIOUS
<1>1. [StoreNext]_storeVars
  BY StepIsStore
<1>2. TypeOK' /\ JournalsAgree'
  BY <1>1, TypeStep, JournalStep DEF SystemInv, SystemTypeOK, JournalInv
<1>3. CallsOK'
  <2>1. ASSUME UNCHANGED <<call, storeVars>>
        PROVE  CallsOK'
    <3>1. Holds' /\ call' \in [Calls -> CallStates]
      BY <2>1 DEF SystemInv, SystemTypeOK, CallStates, Holds, At
    <3>2. ASSUME NEW c \in Calls, call'[c].at \in Undoing
          PROVE  Loaded(Ctx(c))'
      BY <2>1, <3>2 DEF SystemInv, UndosLoaded, Loaded, Matches, Ctx, Source, Destination, storeVars
    <3> QED
      BY <3>1, <3>2 DEF CallsOK, UndosLoaded
  <2>2. User => UNCHANGED <<call, storeVars>>
    BY DEF User, UserRename, UserCreate, UserEdit, Meddle
  <2>3. UNCHANGED vars => UNCHANGED <<call, storeVars>>
    BY DEF vars
  <2> QED
    BY <1>1, <2>1, <2>2, <2>3, StepAdvances, AdvanceKeeps, BeginKeeps DEF Next
<1>4. WorldOK'
  BY WorldStep
<1> QED
  BY <1>2, <1>3, <1>4 DEF SystemInv, SystemTypeOK, CallsOK, WorldOK, CallStates

LEMMA SystemInvariance == Spec => []SystemInv
<1>1. SystemInv /\ [Next]_vars => SystemInv'
  BY SystemStep
<1> QED
  BY <1>1, SystemInit, PTL DEF Spec

(* Whatever the calls, the crashes and the user do, every variable stays of  *)
(* its type: a call that runs holds the record of a real move.               *)
THEOREM SystemTypes == Spec => []SystemTypeOK
<1>1. SystemInv => SystemTypeOK
  BY DEF SystemInv
<1> QED
  BY <1>1, SystemInvariance, PTL

(* execute_atomic_move, recover_interrupted_move and undo_move, interleaved  *)
(* and crashing in any way, do to the database what a caller of the stores   *)
(* may do: a move starts from evidence its plan recorded, and an undo brings *)
(* a state the transaction is or was in.                                     *)
THEOREM SystemImplementsStore == Spec => ImplementsStore
<1>1. Init => StoreInit
  BY DEF Init
<1>2. SystemInv /\ [Next]_vars => [UNCHANGED storeVars \/ StoreNext]_storeVars
  BY StepIsStore
<1> QED
  BY <1>1, <1>2, SystemInvariance, PTL DEF Spec, ImplementsStore

LEMMA StoreOfTheSystem == Spec => StoreSpec
<1>1. [UNCHANGED storeVars \/ StoreNext]_storeVars => [StoreNext]_storeVars
  OBVIOUS
<1> QED
  BY <1>1, SystemImplementsStore, PTL DEF ImplementsStore, StoreSpec

(* So what the stores promise for arbitrary callers holds of the moves, the  *)
(* recoveries and the undos of the system, through crashes and meddling: the *)
(* records of where documents are and went agree.                            *)
THEOREM SystemRecordsAgree ==
    Spec => [](PointerSound /\ LocationKnown /\ AuditContinuous /\ AuditAgrees /\ JournalsAgree)
BY StoreOfTheSystem, StorePointerSound, StoreLocationKnown, StoreAuditContinuous,
   StoreAuditAgrees, StoreJournalsAgree, PTL

(* And the system implements the ledger: a document changes place only by    *)
(* the commit of an open move or the undo of a settled one.                  *)
THEOREM SystemImplementsLedger == Spec => LedgerSpec
BY StoreOfTheSystem, StoreImplementsLedger, PTL

-----------------------------------------------------------------------------
(* Who may take a file back.                                                 *)

\* Every undo of a transaction is a new attempt.
DistinctAttempts ==
    \A c, d \in Calls :
        /\ Request[c].kind = "undo" /\ Request[d].kind = "undo"
        /\ Request[c].transaction = Request[d].transaction
        /\ Request[c].audit = Request[d].audit
        => c = d

Owning == Undoing \ {"undo_read", "undo_start"}

\* Only undos are at an undo's steps, and past its start an undo owns the rollback.
OwnerInv ==
    /\ SystemInv
    /\ \A c \in Calls : call[c].at \in Undoing => Request[c].kind = "undo"
    /\ \A c \in Calls : call[c].at \in Owning => OwnsRollback(Ctx(c))

\* What an undo writes is about its own transaction and attempt.
LEMMA RollbackWrites ==
    ASSUME TypeOK, NEW k, k.transaction \in Transactions,
           StartRollback(k) \/ CompleteRollback(k) \/ FailRollback(k)
    PROVE  /\ \A t \in Transactions \ {k.transaction} : move_rollbacks'[t] = move_rollbacks[t]
           /\ RollbackState(k.transaction) = "rolling_back"
                  => move_rollbacks[k.transaction].attempt = k.audit
           /\ StartRollback(k) => OwnsRollback(k)'
<1> DEFINE u == k.transaction
<1>1. move_rollbacks \in [Transactions -> Rollbacks \cup {NoRollback}]
  BY DEF TypeOK
<1>2. \A t \in Transactions \ {u} : move_rollbacks'[t] = move_rollbacks[t]
  <2>1. CASE StartRollback(k)
    BY <1>1, <2>1 DEF StartRollback
  <2>2. CASE CompleteRollback(k)
    BY <1>1, <2>2 DEF CompleteRollback
  <2>3. CASE FailRollback(k)
    BY <1>1, <2>3 DEF FailRollback
  <2> QED
    BY <2>1, <2>2, <2>3
<1>3. RollbackState(u) = "rolling_back" => move_rollbacks[u].attempt = k.audit
  <2>1. CASE StartRollback(k)
    BY <2>1 DEF StartRollback, MayStartRollback
  <2>2. CASE CompleteRollback(k) \/ FailRollback(k)
    <3>1. OwnsRollback(k)
      BY <2>2 DEF CompleteRollback, MayCompleteRollback, FailRollback, MayFailRollback
    <3> QED
      BY <3>1 DEF OwnsRollback
  <2> QED
    BY <2>1, <2>2
<1>4. ASSUME StartRollback(k)
      PROVE  OwnsRollback(k)'
  <2>1. CASE RollbackState(u) = "rolling_back"
    <3>1. move_rollbacks[u] \in Rollbacks
      BY <1>1, <2>1 DEF RollbackState, NoRollback
    <3>2. move_rollbacks[u].state = "rolling_back" /\ move_rollbacks[u].attempt = k.audit
      BY <1>3, <2>1 DEF RollbackState
    <3>3. move_rollbacks[u] = [state |-> "rolling_back", attempt |-> k.audit]
      BY <3>1, <3>2 DEF Rollbacks
    <3>4. UNCHANGED move_rollbacks
      BY <1>4, <2>1 DEF StartRollback
    <3> QED
      BY <3>3, <3>4 DEF OwnsRollback
  <2>2. CASE RollbackState(u) # "rolling_back"
    <3>1. move_rollbacks' = [move_rollbacks EXCEPT ![u] =
                                [state |-> "rolling_back", attempt |-> k.audit]]
      BY <1>4, <2>2 DEF StartRollback
    <3> QED
      BY <1>1, <3>1 DEF OwnsRollback
  <2> QED
    BY <2>1, <2>2
<1> QED
  BY <1>2, <1>3, <1>4

\* A step of a call leaves the other calls where they are.
LEMMA OthersStay ==
    ASSUME SystemInv, NEW c \in Calls, Begin(c) \/ Step(c) \/ Crash(c), NEW d \in Calls \ {c}
    PROVE  call'[d] = call[d]
<1>1. call \in [Calls -> CallStates]
  BY DEF SystemInv, SystemTypeOK, CallStates
<1>2. CASE Begin(c)
  BY <1>1, <1>2 DEF Begin, Ticket, BeginRecovery, BeginUndo, Holding
<1>3. CASE Step(c) \/ Crash(c)
  BY <1>1, <1>3, StepAdvances DEF Advances
<1> QED
  BY <1>2, <1>3

\* Only an undo enters its first step, and only start_rollback leads past it.
LEMMA UndoingStep ==
    ASSUME SystemInv, [Next]_vars, NEW c \in Calls, call'[c].at \in Undoing
    PROVE  \/ BeginUndo(c) /\ call'[c].at \notin Owning
           \/ /\ call[c].at \in Undoing
              /\ call'[c].record = call[c].record
              /\ call'[c].at \in Owning =>
                     \/ call[c].at \in Owning
                     \/ At(c, "undo_start") /\ StartRollback(Ctx(c))
<1>1. call \in [Calls -> CallStates]
  BY DEF SystemInv, SystemTypeOK, CallStates
<1>2. CASE call'[c] = call[c]
  BY <1>2 DEF Undoing, Owning
<1>3. CASE Begin(c)
  <2>1. CASE Ticket(c)
    BY <1>1, <2>1 DEF Ticket, Holding, Undoing
  <2>2. CASE BeginRecovery(c)
    BY <1>1, <2>2 DEF BeginRecovery, Holding, Undoing
  <2>3. CASE BeginUndo(c)
    BY <1>1, <2>3 DEF BeginUndo, Holding, Owning
  <2> QED
    BY <1>3, <2>1, <2>2, <2>3 DEF Begin
<1>4. CASE Step(c) \/ Crash(c)
  <2>1. Advances(c)
    BY <1>4, StepAdvances
  <2>2. call[c].at \in Undoing /\ call'[c].record = call[c].record
    BY <1>1, <2>1 DEF Advances, Undoing
  <2>3. ASSUME call'[c].at \in Owning, call[c].at \notin Owning
        PROVE  At(c, "undo_start") /\ StartRollback(Ctx(c))
    <3>1. call[c].at \in {"undo_read", "undo_start"}
      BY <2>2, <2>3 DEF Owning
    <3>2. ~ Stop(c)
      BY <1>1, <2>3 DEF Stop, Idle, Owning, Undoing
    <3>3. ~ Crash(c)
      BY <3>2 DEF Crash
    <3>4. ReadRollbackState(c) \/ BeginRollback(c)
      BY <1>4, <3>1, <3>3 DEF Step, PlanMove, MoveStep, Validate, BeginMoving, RenameNoReplace,
             Classify, ForwardStep, RecordFailure, RecordMoved, VerifyDestination,
             RecordRollbackRequired, RecordVerified, Commit, UndoStep, UndoClassify,
             UndoVerifyDestination, RollbackNoReplace, UndoVerifySource, UndoComplete, UndoFail, At
    <3>5. ~ ReadRollbackState(c)
      <4>1. ReadRollbackState(c) => Stop(c) \/ call'[c].at = "undo_start"
        BY <1>1 DEF ReadRollbackState, Stop, CallStates
      <4> QED
        BY <2>3, <3>2, <4>1 DEF Owning
    <3> QED
      BY <3>2, <3>4, <3>5 DEF BeginRollback
  <2> QED
    BY <2>2, <2>3
<1>5. User \/ UNCHANGED vars => call'[c] = call[c]
  BY DEF User, UserRename, UserCreate, UserEdit, Meddle, vars
<1> QED
  BY <1>2, <1>3, <1>4, <1>5, OthersStay DEF Next

\* A rollback row changes by the undo of its transaction that it admits.
LEMMA RollbackChange ==
    ASSUME SystemInv, [Next]_vars, NEW t \in Transactions,
           move_rollbacks'[t] # move_rollbacks[t]
    PROVE  \E c \in Calls :
               /\ call[c].at \in Undoing /\ Request[c].transaction = t
               /\ RollbackState(t) = "rolling_back"
                      => move_rollbacks[t].attempt = Request[c].audit
               /\ At(c, "undo_start") \/ Stop(c)
<1>1. PICK c \in Calls : BeginRollback(c) \/ UndoComplete(c) \/ UndoFail(c)
  <2>1. move_rollbacks' # move_rollbacks
    OBVIOUS
  <2>2. ASSUME NEW d \in Calls, Begin(d) \/ Crash(d) \/ PlanMove(d) \/ Classify(d)
        PROVE  UNCHANGED move_rollbacks
    BY <2>2 DEF Begin, Ticket, BeginRecovery, BeginUndo, Crash, PlanMove, RecordPlan,
                Classify, storeVars
  <2>3. ASSUME NEW d \in Calls, MoveStep(d) \/ ForwardStep(d)
        PROVE  UNCHANGED move_rollbacks
    <3>1. CASE RenameNoReplace(d) \/ VerifyDestination(d)
      BY <3>1 DEF RenameNoReplace, TryRename, VerifyDestination, Check, storeVars
    <3>2. ASSUME NEW state, NEW place, Persist(d, state, place)
          PROVE  UNCHANGED move_rollbacks
      BY <3>2 DEF Persist, Transition, storeVars
    <3> QED
      BY <2>3, <3>1, <3>2 DEF MoveStep, ForwardStep, Validate, BeginMoving, RecordFailure,
             RecordMoved, RecordRollbackRequired, RecordVerified, Commit
  <2>4. ASSUME NEW d \in Calls, \/ ReadRollbackState(d) \/ UndoClassify(d)
               \/ UndoVerifyDestination(d) \/ RollbackNoReplace(d) \/ UndoVerifySource(d)
        PROVE  UNCHANGED move_rollbacks
    BY <2>4 DEF ReadRollbackState, UndoClassify, UndoVerifyDestination, RollbackNoReplace,
                UndoVerifySource, TryRename, Check, storeVars
  <2>5. User \/ UNCHANGED vars => UNCHANGED move_rollbacks
    BY DEF User, UserRename, UserCreate, UserEdit, Meddle, vars, storeVars
  <2> QED
    BY <2>1, <2>2, <2>3, <2>4, <2>5 DEF Next, Step, UndoStep
<1>2. call[c].at \in Undoing
  BY <1>1 DEF BeginRollback, UndoComplete, UndoFail, At, Undoing
<1>3. At(c, "undo_start") \/ Stop(c)
  BY <1>1 DEF BeginRollback, UndoComplete, UndoFail
<1>4. StartRollback(Ctx(c)) \/ CompleteRollback(Ctx(c)) \/ FailRollback(Ctx(c))
  BY <1>1 DEF BeginRollback, UndoComplete, UndoFail, storeVars
<1>5. PICK k : k = Ctx(c)
  OBVIOUS
<1>6. k.transaction = Request[c].transaction /\ k.audit = Request[c].audit
      /\ k.transaction \in Transactions
  BY <1>5, SystemAssumption DEF Ctx
<1>7. /\ \A u \in Transactions \ {k.transaction} : move_rollbacks'[u] = move_rollbacks[u]
      /\ RollbackState(k.transaction) = "rolling_back"
             => move_rollbacks[k.transaction].attempt = k.audit
  BY <1>4, <1>5, <1>6, RollbackWrites DEF SystemInv, SystemTypeOK
<1> QED
  BY <1>2, <1>3, <1>6, <1>7

LEMMA OwnerStep ==
    ASSUME DistinctAttempts, OwnerInv, [Next]_vars
    PROVE  OwnerInv'
<1>1. SystemInv /\ SystemInv'
  BY SystemStep DEF OwnerInv
<1>2. ASSUME NEW c \in Calls, call'[c].at \in Undoing
      PROVE  Request[c].kind = "undo"
  BY <1>1, <1>2, UndoingStep DEF OwnerInv, BeginUndo
<1>3. ASSUME NEW c \in Calls, call'[c].at \in Owning
      PROVE  OwnsRollback(Ctx(c))'
  <2> DEFINE t == Request[c].transaction
  <2>0. call'[c].at \in Undoing /\ t \in Transactions
    BY <1>3, SystemAssumption DEF Owning
  <2>1. /\ call[c].at \in Undoing
        /\ call'[c].record = call[c].record
        /\ \/ call[c].at \in Owning
           \/ At(c, "undo_start") /\ StartRollback(Ctx(c))
    BY <1>1, <1>3, <2>0, UndoingStep
  <2>2. PICK k : k = Ctx(c)
    OBVIOUS
  <2>3. Ctx(c)' = k /\ k.transaction = t /\ k.audit = Request[c].audit
    BY <2>1, <2>2 DEF Ctx, Source, Destination
  <2>4. CASE StartRollback(k)
    <3>1. OwnsRollback(k)'
      BY <1>1, <2>0, <2>3, <2>4, RollbackWrites DEF SystemInv, SystemTypeOK
    <3> QED
      BY <2>3, <3>1
  <2>5. CASE call[c].at \in Owning
    <3>1. OwnsRollback(k)
      BY <2>2, <2>5 DEF OwnerInv
    <3>2. move_rollbacks'[t] = move_rollbacks[t]
      <4>1. SUFFICES ASSUME move_rollbacks'[t] # move_rollbacks[t]
                     PROVE  FALSE
        OBVIOUS
      <4>2. RollbackState(t) = "rolling_back" /\ move_rollbacks[t].attempt = Request[c].audit
        BY <2>3, <3>1 DEF OwnsRollback, RollbackState
      <4>3. PICK d \in Calls :
                /\ call[d].at \in Undoing /\ Request[d].transaction = t
                /\ Request[c].audit = Request[d].audit
                /\ At(d, "undo_start") \/ Stop(d)
        BY <1>1, <2>0, <4>1, <4>2, RollbackChange
      <4>4. d = c
        BY <1>2, <2>0, <4>3 DEF OwnerInv, DistinctAttempts
      <4>5. ~ At(c, "undo_start")
        BY <2>5 DEF At, Owning
      <4>6. ~ Stop(c)
        BY <1>1, <1>3 DEF Stop, Idle, Owning, Undoing, SystemInv, SystemTypeOK
      <4> QED
        BY <4>3, <4>4, <4>5, <4>6
    <3> QED
      BY <2>3, <3>1, <3>2 DEF OwnsRollback
  <2> QED
    BY <2>1, <2>2, <2>4, <2>5
<1> QED
  BY <1>1, <1>2, <1>3 DEF OwnerInv

(* An undo renames only while the rollback row names its attempt, however    *)
(* many undos of one transaction start, fail, crash and start again, if each *)
(* is an attempt of its own: a transaction has one owner at a time, and only *)
(* the owner changes the row.                                                *)
THEOREM OnlyOwnersRestore == ASSUME DistinctAttempts PROVE Spec => RestoreByOwner
<1>1. Init => OwnerInv
  BY SystemInit DEF Init, Idle, OwnerInv, Undoing, Owning
<1>2. OwnerInv /\ [Next]_vars => OwnerInv'
  BY OwnerStep
<1>3. OwnerInv => \A c \in Calls : At(c, "undo_rename") => OwnsRollback(Ctx(c))
  BY DEF OwnerInv, Owning, Undoing, At
<1>4. OwnerInv /\ [Next]_vars =>
          [\A c \in Calls : At(c, "undo_rename") /\ call'[c] # call[c] /\ fs' # fs
                               => OwnsRollback(Ctx(c))]_vars
  BY <1>3
<1> QED
  BY <1>1, <1>2, <1>4, PTL DEF Spec, RestoreByOwner

-----------------------------------------------------------------------------
(***************************************************************************)
(* Where the files are: what MoveSystem promises of moves that are kept    *)
(* apart, for any number of documents, moves, recoveries and undos,        *)
(* through crashes and whatever the user does to the files.                *)
(***************************************************************************)

(* What the caller has to see to: recovery waits for the move it recovers,   *)
(* every undo of a transaction is an attempt of its own, two transactions do *)
(* not move to one place, nor to where a document is at first, and documents *)
(* are different files at different places.                                  *)
MovesApart ==
    /\ Exclusive
    /\ DistinctAttempts
    /\ \A c, e \in Calls :
          /\ Request[c].kind = "move" /\ Request[e].kind = "move"
          /\ Request[c].destination = Request[e].destination
          => Request[c].transaction = Request[e].transaction
    /\ \A c \in Calls, d \in Documents :
          Request[c].kind = "move" => Request[c].destination # InitialPath[d]
    /\ \A d, e \in Documents : InitialPath[d] = InitialPath[e] => d = e
    /\ \A d \in Documents : FileOf(d) \in Objects
    /\ \A p, q \in Paths : InitialFiles[p] = InitialFiles[q] /\ InitialFiles[p] # Vacant => p = q

Planned(t) == move_transactions[t] # NoRow

State(t) == move_transactions[t].state

Subject(t) == move_transactions[t].object

From(t) == move_transactions[t].source

To(t) == move_transactions[t].destination

-----------------------------------------------------------------------------
(* The calls of one transaction.                                             *)

Waiting == {"idle", "ticketed"}

MovePlaces == {"planned", "validated", "moving", "refused", "renamed", "moved", "checked",
               "unverified", "verified"}

RecoverPlaces == {"classify", "refused", "renamed", "moved", "checked", "unverified", "verified"}

Kinds ==
    \A c \in Calls :
        /\ Request[c].kind = "move" => call[c].at \in Waiting \cup MovePlaces
        /\ Request[c].kind = "recover" => call[c].at \in {"idle"} \cup RecoverPlaces
        /\ Request[c].kind = "undo" => call[c].at \in {"idle"} \cup Undoing

\* A call past its ticket works on the row of its transaction.
Bound ==
    \A c \in Calls :
        /\ call[c].at \notin Waiting =>
              /\ Planned(Request[c].transaction)
              /\ Object(c) = Subject(Request[c].transaction)
              /\ Source(c) = From(Request[c].transaction)
              /\ Destination(c) = To(Request[c].transaction)
              /\ call[c].record.document = move_transactions[Request[c].transaction].document
        /\ At(c, "ticketed") => Destination(c) = Request[c].destination

\* A move that was planned has its transaction to itself until it ends.
Alone ==
    \A c, e \in Calls :
        /\ Request[c].kind = "move" /\ call[c].at \in MovePlaces
        /\ Request[e].transaction = Request[c].transaction
        /\ e # c
        => /\ Request[e].kind = "move" => call[e].at \in Waiting
           /\ Request[e].kind = "recover" => call[e].at = "idle"

\* So its row is in the state the move has journaled.
Pace ==
    \A c \in Calls :
        Request[c].kind = "move" /\ call[c].at \in MovePlaces =>
            LET state == State(Request[c].transaction)
            IN  CASE call[c].at = "planned"                          -> state = "planned"
                  [] call[c].at = "validated"                        -> state = "validated"
                  [] call[c].at \in {"moving", "refused", "renamed"} -> state = "moving"
                  [] call[c].at \in {"moved", "checked", "unverified"} -> state = "moved"
                  [] call[c].at = "verified"                         -> state = "verified"

\* Rows are those of the moves that were asked for.
Asked ==
    \A t \in Transactions :
        Planned(t) =>
            \E c \in Calls :
                /\ Request[c].kind = "move" /\ Request[c].transaction = t
                /\ Request[c].destination = To(t)

-----------------------------------------------------------------------------
(* Where files are moved from.                                               *)

\* A document was there at first, or a move to there has committed.
Reached(p) ==
    \/ \E d \in Documents : p = InitialPath[d]
    \/ \E t \in Transactions : State(t) = "committed" /\ To(t) = p

Sourced ==
    /\ \A d \in Documents : Reached(documents[d].path)
    /\ \A t \in Transactions : Planned(t) => Reached(From(t))

OnePlace == \A p, q \in Paths : fs[p] = fs[q] /\ fs[p] # Vacant => p = q

\* A call that found or put the file at the destination is right as long as it counts.
Arrived ==
    \A c \in Calls :
        LET t == Request[c].transaction
        IN  At(c, "renamed") /\ State(t) = "moving" /\ Subject(t) \notin touched =>
                fs[To(t)] = Subject(t)

PlacesInv ==
    /\ OwnerInv
    /\ Kinds /\ Bound /\ Alone /\ Pace /\ Asked
    /\ Sourced /\ OnePlace /\ Arrived /\ VerifiedStays

-----------------------------------------------------------------------------
(* Which side of a move a file is on.                                        *)

\* Sets of paths that t alone leads into, from the one side to the other.
Sides(t) ==
    {S \in SUBSET Paths :
        /\ To(t) \in S /\ From(t) \notin S
        /\ \A u \in Transactions \ {t} : Planned(u) => (From(u) \in S <=> To(u) \in S)}

Outside(t) == \E S \in Sides(t) : \A p \in S : fs[p] # Subject(t)

\* A document is at first, or a move of it leads, to p.
HomeOf(d, p) ==
    \/ p = InitialPath[d]
    \/ \E t \in Transactions :
          Planned(t) /\ move_transactions[t].document = d /\ To(t) = p

\* Documents, their moves and their files do not mix.
Housed ==
    /\ \A d \in Documents :
          /\ HomeOf(d, documents[d].path)
          /\ FileOf(d) \notin touched => \E p \in Paths : fs[p] = FileOf(d) /\ HomeOf(d, p)
    /\ \A t \in Transactions :
          Planned(t) =>
              /\ HomeOf(move_transactions[t].document, From(t))
              /\ \A d \in Documents : Subject(t) = FileOf(d) /\ FileOf(d) \notin touched =>
                                      move_transactions[t].document = d
    /\ \A c \in Calls : At(c, "ticketed") =>
          \A d \in Documents : Object(c) = FileOf(d) /\ FileOf(d) \notin touched =>
                                  Request[c].document = d

Divided == \A t \in Transactions : Planned(t) => Sides(t) # {}

Own(t) == Subject(t) = FileOf(move_transactions[t].document) /\ Subject(t) \notin touched

\* Before a move has renamed, and after its undo has, its file is on the near side.
Before ==
    \A t \in Transactions :
        State(t) \in {"planned", "validated"} /\ Own(t) => Outside(t)

Apart ==
    \A c \in Calls :
        LET t == Request[c].transaction
        IN  /\ \/ At(c, "moving")
               \/ At(c, "refused") /\ State(t) = "moving"
               \/ At(c, "undo_verify_source")
               \/ At(c, "undo_complete")
            /\ Own(t)
            => Outside(t)

\* Every move of d was planned for the file of d.
NoStrangersFor(d) ==
    \A t \in Transactions :
        Planned(t) /\ move_transactions[t].document = d => Subject(t) = FileOf(d)

NoStrangers == \A d \in Documents : NoStrangersFor(d)

\* The transaction that accounts for a file: it took it to its destination and has
\* not committed, or took it back to its source and has not finished.
Accounts(t, p) ==
    \/ p = To(t) /\ State(t) \in {"moving", "moved", "verified", "rollback_required"}
                 /\ RollbackState(t) # "rolled_back"
    \/ p = From(t) /\ RollbackState(t) \in {"rolling_back", "rollback_failed"}

Found ==
    \A d \in Documents :
        NoStrangersFor(d) /\ FileOf(d) \notin touched =>
            \E p \in Paths :
                /\ fs[p] = FileOf(d)
                /\ \/ p = documents[d].path
                   \/ \E t \in Transactions : Planned(t) /\ Subject(t) = FileOf(d) /\ Accounts(t, p)

FilesInv == PlacesInv /\ Housed /\ Divided /\ Before /\ Apart /\ Found
-----------------------------------------------------------------------------
(* What a step does.                                                         *)

\* Where a call is says what it does next.
LEMMA StepAt ==
    ASSUME NEW c \in Calls, Step(c)
    PROVE  /\ ~ At(c, "idle")
           /\ At(c, "ticketed") => PlanMove(c)
           /\ At(c, "planned") => Validate(c)
           /\ At(c, "validated") => BeginMoving(c)
           /\ At(c, "moving") => RenameNoReplace(c)
           /\ At(c, "classify") => Classify(c)
           /\ At(c, "refused") => RecordFailure(c)
           /\ At(c, "renamed") => RecordMoved(c)
           /\ At(c, "moved") => VerifyDestination(c)
           /\ At(c, "unverified") => RecordRollbackRequired(c)
           /\ At(c, "checked") => RecordVerified(c)
           /\ At(c, "verified") => Commit(c)
           /\ call[c].at \in Undoing => UndoStep(c)
           /\ UndoStep(c) => call[c].at \in Undoing
BY DEF Step, PlanMove, MoveStep, Validate, BeginMoving, RenameNoReplace, Classify, ForwardStep,
       RecordFailure, RecordMoved, VerifyDestination, RecordRollbackRequired, RecordVerified,
       Commit, UndoStep, ReadRollbackState, BeginRollback, UndoClassify, UndoVerifyDestination,
       RollbackNoReplace, UndoVerifySource, UndoComplete, UndoFail, At, Undoing

\* Where a call journals a state, and where it goes then.
Journaling ==
    { <<"planned", "validated", "validated">>, <<"validated", "moving", "moving">>,
      <<"refused", "failed", "idle">>, <<"renamed", "moved", "moved">>,
      <<"unverified", "rollback_required", "idle">>, <<"checked", "verified", "verified">>,
      <<"verified", "committed", "idle">> }

LEMMA RowChange ==
    ASSUME SystemInv, [Next]_vars, move_transactions' # move_transactions
    PROVE  \E c \in Calls :
              /\ UNCHANGED worldVars
              /\ \/ /\ At(c, "ticketed")
                    /\ RecordPlan(Request[c].transaction, Request[c].document, Source(c),
                                  Destination(c), Object(c))
                    /\ Go(c, "planned")
                 \/ \E state, place : /\ <<call[c].at, state, place>> \in Journaling
                                      /\ Transition(Ctx(c), state)
                                      /\ Go(c, place)
<1>1. ASSUME NEW c \in Calls, Begin(c) \/ Crash(c)
      PROVE  UNCHANGED move_transactions
  BY <1>1 DEF Begin, Ticket, BeginRecovery, BeginUndo, Crash, storeVars
<1>2. User \/ UNCHANGED vars => UNCHANGED move_transactions
  BY DEF User, UserRename, UserCreate, UserEdit, Meddle, vars, storeVars
<1>3. PICK c \in Calls : Step(c)
  BY <1>1, <1>2 DEF Next
<1>4. ~ UndoStep(c)
  BY DEF UndoStep, ReadRollbackState, BeginRollback, UndoClassify, UndoVerifyDestination,
         RollbackNoReplace, UndoVerifySource, UndoComplete, UndoFail, TryRename, Check,
         StartRollback, CompleteRollback, FailRollback, storeVars
<1>5. ~ (RenameNoReplace(c) \/ VerifyDestination(c) \/ Classify(c))
  BY DEF RenameNoReplace, VerifyDestination, Classify, TryRename, Check, storeVars
<1>6. CASE PlanMove(c)
  BY <1>6 DEF PlanMove, storeVars
<1>7. CASE \/ Validate(c) \/ BeginMoving(c) \/ RecordFailure(c) \/ RecordMoved(c)
           \/ RecordRollbackRequired(c) \/ RecordVerified(c) \/ Commit(c)
  <2>1. PICK state, place : <<call[c].at, state, place>> \in Journaling /\ Persist(c, state, place)
    BY <1>7 DEF Validate, BeginMoving, RecordFailure, RecordMoved, RecordRollbackRequired,
                RecordVerified, Commit, Journaling, At
  <2>2. Transition(Ctx(c), state) /\ Go(c, place) /\ UNCHANGED worldVars
    BY <2>1 DEF Persist, storeVars
  <2> QED
    BY <2>1, <2>2
<1> QED
  BY <1>3, <1>4, <1>5, <1>6, <1>7 DEF Step, MoveStep, ForwardStep

\* A transition changes the state of a row and nothing else of it.
LEMMA TransitionRow ==
    ASSUME SystemInv, NEW k, k.transaction \in Transactions, NEW state \in ForwardStates,
           Transition(k, state)
    PROVE  LET t == k.transaction
           IN  /\ Planned(t) /\ <<State(t), state>> \in Allowed
               /\ State(t)' = state
               /\ move_transactions'[t] # NoRow
               /\ move_transactions'[t].document = move_transactions[t].document
               /\ Subject(t)' = Subject(t) /\ From(t)' = From(t) /\ To(t)' = To(t)
               /\ \A u \in Transactions \ {t} : move_transactions'[u] = move_transactions[u]
<1> DEFINE t == k.transaction
           row == move_transactions[t]
<1>1. /\ MayTransition(k, state)
      /\ move_transactions' = [move_transactions EXCEPT ![t].state = state]
  BY DEF Transition
<1>2. /\ Planned(t) /\ <<State(t), state>> \in Allowed
  BY <1>1 DEF MayTransition, Matches, Planned, State
<1>3. move_transactions \in [Transactions -> Rows \cup {NoRow}] /\ row \in Rows
  BY <1>2 DEF SystemInv, SystemTypeOK, TypeOK, Planned
<1>4. /\ move_transactions'[t] = [row EXCEPT !.state = state]
      /\ \A u \in Transactions \ {t} : move_transactions'[u] = move_transactions[u]
  BY <1>1, <1>3
<1>5. move_transactions'[t] \in Rows /\ move_transactions'[t].state = state
  BY <1>3, <1>4 DEF Rows
<1> QED
  BY <1>2, <1>3, <1>4, <1>5 DEF Rows, NoRow, ForwardStates, State, Subject, From, To

LEMMA PlanRow ==
    ASSUME SystemInv, NEW t \in Transactions, NEW d, NEW p, NEW q, NEW o,
           RecordPlan(t, d, p, q, o)
    PROVE  /\ ~ Planned(t) /\ documents[d].path = p
           /\ State(t)' = "planned" /\ move_transactions'[t] # NoRow
           /\ move_transactions'[t].document = d
           /\ Subject(t)' = o /\ From(t)' = p /\ To(t)' = q
           /\ \A u \in Transactions \ {t} : move_transactions'[u] = move_transactions[u]
           /\ UNCHANGED documents
<1> DEFINE row == [state |-> "planned", document |-> d, source |-> p, destination |-> q,
                   object |-> o]
<1>1. /\ move_transactions[t] = NoRow /\ documents[d].path = p
      /\ move_transactions' = [move_transactions EXCEPT ![t] = row]
      /\ UNCHANGED documents
  BY DEF RecordPlan, MayRecordPlan
<1>2. move_transactions \in [Transactions -> Rows \cup {NoRow}]
  BY DEF SystemInv, SystemTypeOK, TypeOK
<1>3. /\ move_transactions'[t] = row
      /\ \A u \in Transactions \ {t} : move_transactions'[u] = move_transactions[u]
  BY <1>1, <1>2
<1>4. row.state = "planned" /\ row # NoRow
  BY DEF NoRow
<1> QED
  BY <1>1, <1>3, <1>4 DEF Planned, State, Subject, From, To

\* Once planned, a move keeps its document, its file and its endpoints.
LEMMA RowsKeep ==
    ASSUME SystemInv, [Next]_vars, NEW t \in Transactions, Planned(t)
    PROVE  /\ Planned(t)'
           /\ move_transactions'[t].document = move_transactions[t].document
           /\ Subject(t)' = Subject(t) /\ From(t)' = From(t) /\ To(t)' = To(t)
           /\ State(t) = "committed" => State(t)' = "committed"
<1>1. CASE move_transactions' = move_transactions
  BY <1>1 DEF Planned, Subject, From, To, State
<1>2. CASE move_transactions' # move_transactions
  <2>1. PICK c \in Calls :
           \/ RecordPlan(Request[c].transaction, Request[c].document, Source(c),
                         Destination(c), Object(c))
           \/ \E state, place : /\ <<call[c].at, state, place>> \in Journaling
                                /\ Transition(Ctx(c), state)
    BY <1>2, RowChange
  <2>2. Request[c].transaction \in Transactions
    BY SystemAssumption
  <2>3. CASE RecordPlan(Request[c].transaction, Request[c].document, Source(c),
                        Destination(c), Object(c))
    BY <2>2, <2>3, PlanRow DEF Planned, Subject, From, To, State
  <2>4. ASSUME NEW state, NEW place, <<call[c].at, state, place>> \in Journaling,
               Transition(Ctx(c), state)
        PROVE  /\ Planned(t)'
               /\ move_transactions'[t].document = move_transactions[t].document
               /\ Subject(t)' = Subject(t) /\ From(t)' = From(t) /\ To(t)' = To(t)
               /\ State(t) = "committed" => State(t)' = "committed"
    <3>1. state \in ForwardStates
      BY <2>4 DEF Journaling, ForwardStates
    <3>2. PICK k : k = Ctx(c)
      OBVIOUS
    <3>3. k.transaction = Request[c].transaction
      BY <3>2 DEF Ctx
    <3>4. CASE t = k.transaction
      BY <2>2, <2>4, <3>1, <3>2, <3>3, <3>4, TransitionRow DEF Planned, Allowed
    <3>5. CASE t # k.transaction
      <4>1. move_transactions'[t] = move_transactions[t]
        BY <2>2, <2>4, <3>1, <3>2, <3>3, <3>5, TransitionRow
      <4> QED
        BY <4>1 DEF Planned, Subject, From, To, State
    <3> QED
      BY <3>4, <3>5
  <2> QED
    BY <2>1, <2>3, <2>4
<1> QED
  BY <1>1, <1>2

\* A call changes by a step of its own.
LEMMA CallChange ==
    ASSUME SystemInv, [Next]_vars, NEW c \in Calls, call'[c] # call[c]
    PROVE  /\ Begin(c) \/ Step(c) \/ Crash(c)
           /\ \A e \in Calls \ {c} : call'[e] = call[e]
<1>1. User \/ UNCHANGED vars => UNCHANGED call
  BY DEF User, UserRename, UserCreate, UserEdit, Meddle, vars
<1>2. PICK e \in Calls : Begin(e) \/ Step(e) \/ Crash(e)
  BY <1>1 DEF Next
<1>3. \A f \in Calls \ {e} : call'[f] = call[f]
  BY <1>2, OthersStay
<1> QED
  BY <1>2, <1>3

\* Where a step of a call leads.
Leads ==
    { <<"ticketed", "planned">>, <<"planned", "validated">>, <<"validated", "moving">>,
      <<"moving", "renamed">>, <<"moving", "refused">>, <<"classify", "refused">>,
      <<"classify", "renamed">>, <<"classify", "unverified">>, <<"renamed", "moved">>,
      <<"moved", "checked">>, <<"moved", "unverified">>, <<"checked", "verified">>,
      <<"undo_read", "undo_start">>, <<"undo_start", "undo_classify">>,
      <<"undo_classify", "undo_verify_destination">>, <<"undo_classify", "undo_verify_source">>,
      <<"undo_classify", "undo_fail">>, <<"undo_verify_destination", "undo_rename">>,
      <<"undo_verify_destination", "undo_fail">>, <<"undo_rename", "undo_verify_source">>,
      <<"undo_rename", "undo_fail">>, <<"undo_verify_source", "undo_complete">>,
      <<"undo_verify_source", "undo_fail">> }

LEMMA GoLeads ==
    ASSUME SystemInv, NEW c \in Calls, NEW place, Go(c, place)
    PROVE  \/ call'[c].at = "idle"
           \/ call'[c].at = place /\ call'[c].record = call[c].record
<1>1. call \in [Calls -> CallStates]
  BY DEF SystemInv, SystemTypeOK, CallStates
<1>2. CASE place = "idle"
  BY <1>1, <1>2 DEF Go, Idle
<1>3. CASE place # "idle"
  <2>1. call'[c] = [call[c] EXCEPT !.at = place]
    BY <1>1, <1>3 DEF Go
  <2> QED
    BY <1>1, <2>1 DEF CallStates
<1> QED
  BY <1>2, <1>3

LEMMA StepLeads ==
    ASSUME SystemInv, NEW c \in Calls, Step(c)
    PROVE  \/ call'[c].at = "idle"
           \/ <<call[c].at, call'[c].at>> \in Leads /\ call'[c].record = call[c].record
<1>1. call \in [Calls -> CallStates]
  BY DEF SystemInv, SystemTypeOK, CallStates
<1>2. ASSUME NEW place, Go(c, place), <<call[c].at, place>> \in Leads
      PROVE  \/ call'[c].at = "idle"
             \/ <<call[c].at, call'[c].at>> \in Leads /\ call'[c].record = call[c].record
  <2>1. \/ call'[c].at = "idle"
        \/ call'[c].at = place /\ call'[c].record = call[c].record
    BY <1>2, GoLeads
  <2> QED
    BY <1>2, <2>1
<1>3. Stop(c) => call'[c].at = "idle"
  BY <1>1 DEF Stop, Idle
<1>4. CASE PlanMove(c) \/ MoveStep(c) \/ Classify(c) \/ ForwardStep(c)
  <2>1. \/ Stop(c) \/ Go(c, "idle")
        \/ \E place : Go(c, place) /\ <<call[c].at, place>> \in Leads
    <3>1. CASE PlanMove(c)
      BY <3>1 DEF PlanMove, At, Leads
    <3>2. CASE MoveStep(c)
      BY <3>2 DEF MoveStep, Validate, BeginMoving, RenameNoReplace, TryRename, Persist, At, Leads
    <3>3. CASE Classify(c)
      BY <3>3 DEF Classify, At, Leads
    <3>4. CASE ForwardStep(c)
      BY <3>4 DEF ForwardStep, RecordFailure, RecordMoved, VerifyDestination, Check,
                  RecordRollbackRequired, RecordVerified, Commit, Persist, At, Leads
    <3> QED
      BY <1>4, <3>1, <3>2, <3>3, <3>4
  <2>2. Go(c, "idle") => call'[c].at = "idle"
    BY GoLeads
  <2> QED
    BY <1>2, <1>3, <2>1, <2>2
<1>5. CASE UndoStep(c)
  <2>1. CASE ReadRollbackState(c)
    <3>1. \/ call'[c] = Idle
          \/ call'[c] = [call[c] EXCEPT !.at = "undo_start",
                                        !.existing = RollbackState(Request[c].transaction)]
      BY <1>1, <2>1 DEF ReadRollbackState
    <3>2. Idle.at = "idle"
      BY DEF Idle
    <3>3. PICK state : state = RollbackState(Request[c].transaction)
      OBVIOUS
    <3>4. PICK m : m = call[c]
      OBVIOUS
    <3>5. m \in CallStates
      BY <1>1, <3>4
    <3>6. LET n == [m EXCEPT !.at = "undo_start", !.existing = state]
          IN  n.at = "undo_start" /\ n.record = m.record
      BY <3>5 DEF CallStates
    <3>7. \/ call'[c].at = "idle"
          \/ call'[c].at = "undo_start" /\ call'[c].record = call[c].record
      BY <3>1, <3>2, <3>3, <3>4, <3>6
    <3> QED
      BY <2>1, <3>7 DEF ReadRollbackState, At, Leads
  <2>2. CASE ~ ReadRollbackState(c)
    <3>1. \/ Stop(c)
          \/ \E place : Go(c, place) /\ <<call[c].at, place>> \in Leads
      BY <1>5, <2>2 DEF UndoStep, BeginRollback, UndoClassify, UndoVerifyDestination,
                 RollbackNoReplace, UndoVerifySource, UndoComplete, UndoFail, TryRename, Check,
                 At, Leads
    <3> QED
      BY <1>2, <1>3, <3>1
  <2> QED
    BY <2>1, <2>2
<1> QED
  BY <1>4, <1>5 DEF Step
-----------------------------------------------------------------------------
(* Calls and the rows they work on.                                          *)

LEMMA KindsStep ==
    ASSUME PlacesInv, [Next]_vars
    PROVE  Kinds'
<1>0. SystemInv /\ Kinds /\ call \in [Calls -> CallStates]
  BY DEF PlacesInv, OwnerInv, SystemInv, SystemTypeOK, CallStates
<1> DEFINE Right(c) ==
        /\ Request[c].kind = "move" => call[c].at \in Waiting \cup MovePlaces
        /\ Request[c].kind = "recover" => call[c].at \in {"idle"} \cup RecoverPlaces
        /\ Request[c].kind = "undo" => call[c].at \in {"idle"} \cup Undoing
<1>1. ASSUME NEW c \in Calls
      PROVE  Right(c)'
  <2>0. Right(c) /\ Request[c].kind \in {"move", "recover", "undo"}
    BY <1>0, SystemAssumption DEF Kinds
  <2>1. CASE call'[c] = call[c]
    BY <2>0, <2>1
  <2>2. CASE call'[c].at = "idle"
    BY <2>2 DEF Waiting
  <2>3. CASE Begin(c)
    <3>1. CASE Ticket(c)
      BY <1>0, <3>1 DEF Ticket, Holding, Waiting
    <3>2. CASE BeginRecovery(c)
      BY <1>0, <3>2 DEF BeginRecovery, Holding, RecoverPlaces
    <3>3. CASE BeginUndo(c)
      BY <1>0, <3>3 DEF BeginUndo, Holding, Undoing
    <3> QED
      BY <2>3, <3>1, <3>2, <3>3 DEF Begin
  <2>4. CASE <<call[c].at, call'[c].at>> \in Leads
    BY <2>0, <2>4 DEF Leads, Waiting, MovePlaces, RecoverPlaces, Undoing
  <2>5. CASE Crash(c)
    BY <1>0, <2>5 DEF Crash, Stop, Idle, Waiting
  <2> QED
    BY <1>0, <2>1, <2>2, <2>3, <2>4, <2>5, CallChange, StepLeads
<1> QED
  BY <1>1 DEF Kinds

\* What a call does that has begun.
LEMMA BeginHolds ==
    ASSUME SystemInv, NEW c \in Calls, Begin(c)
    PROVE  LET t == Request[c].transaction
           IN  /\ UNCHANGED <<storeVars, worldVars>>
               /\ At(c, "idle")
               /\ \/ /\ Ticket(c) /\ call'[c].at = "ticketed" /\ Request[c].kind = "move"
                     /\ call'[c].record.destination = Request[c].destination
                     /\ call'[c].record.document = Request[c].document
                     /\ call'[c].record.source = documents[Request[c].document].path
                     /\ call'[c].record.object = fs[documents[Request[c].document].path]
                  \/ /\ BeginRecovery(c) /\ call'[c].at \in {"classify", "moved", "verified"}
                     /\ Request[c].kind = "recover" /\ call'[c].record = LoadRecord(t)
                     /\ Planned(t)
                  \/ /\ BeginUndo(c) /\ call'[c].at = "undo_read"
                     /\ Request[c].kind = "undo" /\ call'[c].record = LoadRecord(t)
                     /\ Planned(t)
<1>1. call \in [Calls -> CallStates]
  BY DEF SystemInv, SystemTypeOK, CallStates
<1>2. CASE Ticket(c)
  BY <1>1, <1>2 DEF Ticket, Holding
<1>3. CASE BeginRecovery(c)
  BY <1>1, <1>3 DEF BeginRecovery, Holding, Planned, NoRow
<1>4. CASE BeginUndo(c)
  BY <1>1, <1>4 DEF BeginUndo, Holding, Planned
<1> QED
  BY <1>2, <1>3, <1>4 DEF Begin

LEMMA BoundStep ==
    ASSUME PlacesInv, [Next]_vars
    PROVE  Bound'
<1>0. SystemInv /\ Bound /\ Kinds /\ call \in [Calls -> CallStates]
  BY DEF PlacesInv, OwnerInv, SystemInv, SystemTypeOK, CallStates
<1> DEFINE Good(c) ==
        /\ call[c].at \notin Waiting =>
              /\ Planned(Request[c].transaction)
              /\ Object(c) = Subject(Request[c].transaction)
              /\ Source(c) = From(Request[c].transaction)
              /\ Destination(c) = To(Request[c].transaction)
              /\ call[c].record.document = move_transactions[Request[c].transaction].document
        /\ At(c, "ticketed") => Destination(c) = Request[c].destination
<1>1. ASSUME NEW c \in Calls
      PROVE  Good(c)'
  <2> DEFINE t == Request[c].transaction
  <2>0. Good(c) /\ t \in Transactions
    BY <1>0, SystemAssumption DEF Bound
  <2>1. ASSUME call'[c].record = call[c].record, call[c].at \notin Waiting,
               call'[c].at \notin Waiting
        PROVE  Good(c)'
    <3>1. Planned(t)
      BY <2>0, <2>1
    <3>2. /\ Planned(t)'
          /\ move_transactions'[t].document = move_transactions[t].document
          /\ Subject(t)' = Subject(t) /\ From(t)' = From(t) /\ To(t)' = To(t)
      BY <1>0, <2>0, <3>1, RowsKeep
    <3> QED
      BY <2>0, <2>1, <3>2 DEF Object, Source, Destination, At, Waiting
  <2>2. CASE call'[c] = call[c]
    <3>1. CASE call[c].at \in Waiting
      BY <2>0, <2>2, <3>1 DEF At, Destination
    <3>2. CASE call[c].at \notin Waiting
      BY <2>1, <2>2, <3>2
    <3> QED
      BY <3>1, <3>2
  <2>3. CASE call'[c].at = "idle"
    BY <2>3 DEF Waiting, At
  <2>4. CASE Begin(c)
    <3>1. CASE call'[c].at = "ticketed" /\ call'[c].record.destination = Request[c].destination
      BY <3>1 DEF Waiting, At, Destination
    <3>2. CASE call'[c].record = LoadRecord(t) /\ Planned(t) /\ call'[c].at # "ticketed"
      <4>1. move_transactions' = move_transactions
        BY <1>0, <2>4, BeginHolds DEF storeVars
      <4> QED
        BY <3>2, <4>1 DEF LoadRecord, Planned, Subject, From, To, Object, Source, Destination, At
    <3> QED
      BY <1>0, <2>4, <3>1, <3>2, BeginHolds
  <2>5. CASE /\ Step(c) /\ <<call[c].at, call'[c].at>> \in Leads
             /\ call'[c].record = call[c].record
    <3>1. CASE At(c, "ticketed")
      <4>1. PlanMove(c) /\ call'[c].at = "planned"
        BY <2>5, <3>1, StepAt DEF Leads, At
      <4>2. RecordPlan(t, Request[c].document, Source(c), Destination(c), Object(c))
        BY <1>0, <4>1 DEF PlanMove, Stop, Idle
      <4>3. Request[c].document = call[c].record.document
        BY <1>0, <3>1 DEF SystemInv, Holds
      <4>4. /\ Planned(t)' /\ move_transactions'[t].document = Request[c].document
            /\ Subject(t)' = Object(c) /\ From(t)' = Source(c) /\ To(t)' = Destination(c)
        BY <1>0, <2>0, <4>2, PlanRow DEF Planned
      <4> QED
        BY <2>5, <4>1, <4>3, <4>4 DEF Object, Source, Destination, At
    <3>2. CASE ~ At(c, "ticketed")
      <4>1. call[c].at \notin Waiting /\ call'[c].at \notin Waiting
        BY <2>5, <3>2 DEF Leads, Waiting, At
      <4> QED
        BY <2>1, <2>5, <4>1
    <3> QED
      BY <3>1, <3>2
  <2>6. CASE Crash(c)
    BY <1>0, <2>6 DEF Crash, Stop, Idle, Waiting, At
  <2> QED
    BY <1>0, <2>2, <2>3, <2>4, <2>5, <2>6, CallChange, StepLeads
<1> QED
  BY <1>1 DEF Bound

LEMMA AloneStep ==
    ASSUME MovesApart, PlacesInv, [Next]_vars
    PROVE  Alone'
<1>0. /\ SystemInv /\ Bound /\ Kinds /\ Alone /\ call \in [Calls -> CallStates]
      /\ Kinds' /\ Bound'
  BY KindsStep, BoundStep DEF PlacesInv, OwnerInv, SystemInv, SystemTypeOK, CallStates
<1> SUFFICES ASSUME NEW c \in Calls, NEW e \in Calls, Request[c].kind = "move",
                    call'[c].at \in MovePlaces, e # c,
                    Request[e].transaction = Request[c].transaction
             PROVE  /\ Request[e].kind = "move" => call'[e].at \in Waiting
                    /\ Request[e].kind = "recover" => call'[e].at = "idle"
  BY DEF Alone
<1> DEFINE t == Request[c].transaction
           Quiet == /\ Request[e].kind = "move" => call[e].at \in Waiting
                    /\ Request[e].kind = "recover" => call[e].at = "idle"
<1>1. t \in Transactions
  BY SystemAssumption
<1>2. CASE call'[c] # call[c]
  <2>1. call'[e] = call[e]
    BY <1>0, <1>2, CallChange
  <2>2. CASE call[c].at \in MovePlaces
    BY <1>0, <2>1, <2>2 DEF Alone
  <2>3. CASE call[c].at \notin MovePlaces
    <3>1. call'[c].at # "idle" /\ call'[c].at # "ticketed"
      BY DEF MovePlaces
    <3>2. ~ Begin(c)
      BY <1>0, <3>1, BeginHolds
    <3>3. ~ Crash(c)
      BY <1>0, <3>1 DEF Crash, Stop, Idle
    <3>4. Step(c) /\ <<call[c].at, call'[c].at>> \in Leads
      BY <1>0, <1>2, <3>1, <3>2, <3>3, CallChange, StepLeads
    <3>5. call[c].at \in Waiting
      BY <1>0, <2>3 DEF Kinds
    <3>6. At(c, "ticketed") /\ call'[c].at = "planned"
      BY <3>4, <3>5 DEF Leads, Waiting, At
    <3>7. PlanMove(c)
      BY <3>4, <3>6, StepAt
    <3>8. RecordPlan(t, Request[c].document, Source(c), Destination(c), Object(c))
      BY <1>0, <3>6, <3>7 DEF PlanMove, Stop, Idle
    <3>9. ~ Planned(t)
      BY <1>0, <1>1, <3>8, PlanRow
    <3>10. call[e].at \in Waiting
      BY <1>0, <3>9 DEF Bound
    <3> QED
      BY <1>0, <2>1, <3>10 DEF Kinds, Waiting, RecoverPlaces
  <2> QED
    BY <2>2, <2>3
<1>3. CASE call'[c] = call[c]
  <2>1. call[c].at \in MovePlaces /\ Quiet /\ Planned(t)
    BY <1>0, <1>3 DEF Alone, Bound, MovePlaces, Waiting
  <2>2. CASE call'[e] = call[e]
    BY <2>1, <2>2
  <2>3. CASE call'[e].at = "idle"
    BY <2>3 DEF Waiting
  <2>4. CASE Begin(e)
    <3>1. ~ BeginRecovery(e)
      <4>1. Live(t) /\ Exclusive
        BY <2>1 DEF Live, MovesApart, MovePlaces
      <4> QED
        BY <4>1 DEF BeginRecovery
    <3> QED
      BY <1>0, <2>4, <3>1, BeginHolds DEF Waiting
  <2>5. CASE Step(e) /\ <<call[e].at, call'[e].at>> \in Leads
    <3>1. ASSUME Request[e].kind = "move"
          PROVE  FALSE
      <4>1. At(e, "ticketed") /\ call'[e].at = "planned"
        BY <2>1, <2>5, <3>1 DEF Leads, Waiting, At
      <4>2. PlanMove(e)
        BY <2>5, <4>1, StepAt
      <4>3. RecordPlan(t, Request[e].document, Source(e), Destination(e), Object(e))
        BY <1>0, <4>1, <4>2 DEF PlanMove, Stop, Idle
      <4> QED
        BY <1>0, <1>1, <2>1, <4>3, PlanRow
    <3>2. ASSUME Request[e].kind = "recover"
          PROVE  FALSE
      BY <2>1, <2>5, <3>2, StepAt DEF At
    <3> QED
      BY <3>1, <3>2
  <2>6. CASE Crash(e)
    BY <1>0, <2>6 DEF Crash, Stop, Idle, Waiting
  <2> QED
    BY <1>0, <2>2, <2>3, <2>4, <2>5, <2>6, CallChange, StepLeads
<1> QED
  BY <1>2, <1>3
\* A row is planned, or goes to a new state, by a call that journals it.
LEMMA StateChange ==
    ASSUME SystemInv, [Next]_vars, NEW t \in Transactions, State(t)' # State(t)
    PROVE  \E c \in Calls :
              /\ Request[c].transaction = t
              /\ UNCHANGED worldVars
              /\ \/ /\ At(c, "ticketed") /\ State(t)' = "planned" /\ ~ Planned(t)
                    /\ Go(c, "planned")
                 \/ \E state, place : /\ <<call[c].at, state, place>> \in Journaling
                                      /\ <<State(t), state>> \in Allowed
                                      /\ State(t)' = state
                                      /\ Transition(Ctx(c), state)
                                      /\ Go(c, place)
<1>1. move_transactions' # move_transactions
  BY DEF State
<1>2. PICK c \in Calls :
              /\ UNCHANGED worldVars
              /\ \/ /\ At(c, "ticketed")
                    /\ RecordPlan(Request[c].transaction, Request[c].document, Source(c),
                                  Destination(c), Object(c))
                    /\ Go(c, "planned")
                 \/ \E state, place : /\ <<call[c].at, state, place>> \in Journaling
                                      /\ Transition(Ctx(c), state)
                                      /\ Go(c, place)
  BY <1>1, RowChange
<1>3. Request[c].transaction \in Transactions
  BY SystemAssumption
<1>4. CASE /\ At(c, "ticketed")
           /\ RecordPlan(Request[c].transaction, Request[c].document, Source(c),
                         Destination(c), Object(c))
           /\ Go(c, "planned")
  BY <1>2, <1>3, <1>4, PlanRow DEF State
<1>5. ASSUME NEW state, NEW place, <<call[c].at, state, place>> \in Journaling,
             Transition(Ctx(c), state), Go(c, place)
      PROVE  /\ Request[c].transaction = t /\ State(t)' = state
             /\ <<State(t), state>> \in Allowed
  <2>1. state \in ForwardStates
    BY <1>5 DEF Journaling, ForwardStates
  <2>2. PICK k : k = Ctx(c)
    OBVIOUS
  <2>3. k.transaction = Request[c].transaction
    BY <2>2 DEF Ctx
  <2>4. \A u \in Transactions \ {k.transaction} : move_transactions'[u] = move_transactions[u]
    BY <1>3, <1>5, <2>1, <2>2, <2>3, TransitionRow
  <2>5. k.transaction = t
    BY <2>4 DEF State
  <2> QED
    BY <1>3, <1>5, <2>1, <2>2, <2>3, <2>5, TransitionRow
<1> QED
  BY <1>2, <1>4, <1>5

LEMMA PaceStep ==
    ASSUME MovesApart, PlacesInv, [Next]_vars
    PROVE  Pace'
<1>0. /\ SystemInv /\ Bound /\ Kinds /\ Alone /\ Pace /\ call \in [Calls -> CallStates]
  BY DEF PlacesInv, OwnerInv, SystemInv, SystemTypeOK, CallStates
<1> DEFINE Paced(c) ==
            LET state == State(Request[c].transaction)
            IN  CASE call[c].at = "planned"                          -> state = "planned"
                  [] call[c].at = "validated"                        -> state = "validated"
                  [] call[c].at \in {"moving", "refused", "renamed"} -> state = "moving"
                  [] call[c].at \in {"moved", "checked", "unverified"} -> state = "moved"
                  [] call[c].at = "verified"                         -> state = "verified"
<1>1. ASSUME NEW c \in Calls, Request[c].kind = "move", call'[c].at \in MovePlaces
      PROVE  Paced(c)'
  <2> DEFINE t == Request[c].transaction
  <2>0. t \in Transactions
    BY SystemAssumption
  <2>1. CASE call'[c] = call[c]
    <3>1. call[c].at \in MovePlaces /\ Planned(t)
      BY <1>0, <1>1, <2>1 DEF Bound, MovePlaces, Waiting
    <3>2. Paced(c)
      BY <1>0, <1>1, <3>1 DEF Pace
    <3>3. State(t)' = State(t)
      <4>1. SUFFICES ASSUME State(t)' # State(t) PROVE FALSE
        OBVIOUS
      <4>2. PICK e \in Calls :
                /\ Request[e].transaction = t
                /\ \/ ~ Planned(t)
                   \/ \E state, place : <<call[e].at, state, place>> \in Journaling /\ Go(e, place)
        BY <1>0, <2>0, <4>1, StateChange
      <4>3. PICK state, place : <<call[e].at, state, place>> \in Journaling /\ Go(e, place)
        BY <3>1, <4>2
      <4>4. e # c
        <5>1. place # call[e].at
          BY <4>3 DEF Journaling
        <5>2. call'[e].at \in {place, "idle"}
          BY <1>0, <4>3, GoLeads
        <5>3. call[e].at # "idle"
          BY <4>3 DEF Journaling
        <5> QED
          BY <2>1, <5>1, <5>2, <5>3
      <4>5. /\ Request[e].kind = "move" => call[e].at \in Waiting
            /\ Request[e].kind = "recover" => call[e].at = "idle"
        BY <1>0, <1>1, <3>1, <4>2, <4>4 DEF Alone
      <4>6. call[e].at \notin Waiting /\ call[e].at # "idle" /\ call[e].at \notin Undoing
        BY <4>3 DEF Journaling, Waiting, Undoing
      <4>7. Request[e].kind \in {"move", "recover", "undo"}
        BY SystemAssumption
      <4> QED
        BY <1>0, <4>5, <4>6, <4>7 DEF Kinds
    <3> QED
      BY <2>1, <3>2, <3>3
  <2>2. CASE call'[c] # call[c]
    <3>1. call'[c].at # "idle" /\ call'[c].at # "ticketed"
      BY <1>1 DEF MovePlaces
    <3>2. ~ Begin(c)
      BY <1>0, <1>1, <3>1, BeginHolds
    <3>3. ~ Crash(c)
      BY <1>0, <3>1 DEF Crash, Stop, Idle
    <3>4. Step(c) /\ <<call[c].at, call'[c].at>> \in Leads
      BY <1>0, <2>2, <3>1, <3>2, <3>3, CallChange, StepLeads
    <3>5. call[c].at \in Waiting \cup MovePlaces
      BY <1>0, <1>1 DEF Kinds
    <3>6. ~ Stop(c)
      BY <1>0, <3>1 DEF Stop, Idle
    <3>7. PICK k : k = Ctx(c)
      OBVIOUS
    <3>8. k.transaction = t
      BY <3>7 DEF Ctx
    <3>9. ASSUME NEW state \in ForwardStates, NEW place, Persist(c, state, place)
          PROVE  State(t)' = state
      BY <1>0, <2>0, <3>6, <3>7, <3>8, <3>9, TransitionRow DEF Persist
    <3>10. CASE At(c, "ticketed")
      <4>1. PlanMove(c) /\ call'[c].at = "planned"
        BY <3>4, <3>10, StepAt DEF Leads, At
      <4>2. RecordPlan(t, Request[c].document, Source(c), Destination(c), Object(c))
        BY <3>6, <4>1 DEF PlanMove
      <4> QED
        BY <1>0, <2>0, <4>1, <4>2, PlanRow DEF State
    <3>11. CASE At(c, "planned") \/ At(c, "validated") \/ At(c, "renamed") \/ At(c, "checked")
      <4>1. \E state \in ForwardStates : \E place :
                /\ Persist(c, state, place)
                /\ <<call[c].at, state, place>> \in Journaling
        BY <3>4, <3>11, StepAt DEF Validate, BeginMoving, RecordMoved, RecordVerified,
                                   ForwardStates, Journaling, At
      <4>2. \E state : State(t)' = state /\ \E place : <<call[c].at, state, place>> \in Journaling
        BY <3>9, <4>1
      <4> QED
        BY <3>4, <3>11, <4>2 DEF Leads, Journaling, At
    <3>12. CASE At(c, "moving") \/ At(c, "moved")
      <4>1. UNCHANGED move_transactions
        BY <3>4, <3>12, StepAt DEF RenameNoReplace, VerifyDestination, TryRename, Check, storeVars
      <4>2. call[c].at \in MovePlaces /\ Paced(c)
        BY <1>0, <1>1, <3>12 DEF Pace, MovePlaces, At
      <4>3. State(t)' = State(t)
        BY <4>1 DEF State
      <4> QED
        BY <3>4, <3>12, <4>2, <4>3 DEF Leads, At
    <3>13. call[c].at \notin {"idle", "refused", "unverified", "verified"}
      BY <3>4 DEF Leads
    <3> QED
      BY <3>5, <3>10, <3>11, <3>12, <3>13 DEF Waiting, MovePlaces, At
  <2> QED
    BY <2>1, <2>2
<1> QED
  BY <1>1 DEF Pace

\* A row that is new was planned by the move that asked for it.
LEMMA NewRow ==
    ASSUME PlacesInv, [Next]_vars, NEW t \in Transactions, ~ Planned(t), Planned(t)'
    PROVE  \E c \in Calls :
              /\ Request[c].kind = "move" /\ Request[c].transaction = t
              /\ UNCHANGED worldVars /\ UNCHANGED documents
              /\ Request[c].destination = To(t)' /\ To(t)' \in Paths
              /\ Request[c].document = move_transactions'[t].document
              /\ Request[c].document \in Documents
              /\ From(t)' = documents[Request[c].document].path
              /\ Subject(t)' = Object(c) /\ At(c, "ticketed")
              /\ State(t)' = "planned"
              /\ \A u \in Transactions \ {t} : move_transactions'[u] = move_transactions[u]
<1>0. SystemInv /\ Bound /\ Kinds
  BY DEF PlacesInv, OwnerInv
<1>1. move_transactions' # move_transactions
  BY DEF Planned
<1>2. PICK c \in Calls :
              /\ UNCHANGED worldVars
              /\ \/ /\ At(c, "ticketed")
                    /\ RecordPlan(Request[c].transaction, Request[c].document, Source(c),
                                  Destination(c), Object(c))
                    /\ Go(c, "planned")
                 \/ \E state, place : /\ <<call[c].at, state, place>> \in Journaling
                                      /\ Transition(Ctx(c), state)
  BY <1>0, <1>1, RowChange
<1>3. Request[c].transaction \in Transactions
  BY SystemAssumption
<1>4. ASSUME NEW state, NEW place, <<call[c].at, state, place>> \in Journaling,
             Transition(Ctx(c), state)
      PROVE  FALSE
  <2>1. state \in ForwardStates
    BY <1>4 DEF Journaling, ForwardStates
  <2>2. PICK k : k = Ctx(c)
    OBVIOUS
  <2>3. k.transaction = Request[c].transaction
    BY <2>2 DEF Ctx
  <2>4. Planned(k.transaction)
        /\ \A u \in Transactions \ {k.transaction} : move_transactions'[u] = move_transactions[u]
    BY <1>0, <1>3, <1>4, <2>1, <2>2, <2>3, TransitionRow
  <2> QED
    BY <2>4 DEF Planned
<1>5. /\ At(c, "ticketed")
      /\ RecordPlan(Request[c].transaction, Request[c].document, Source(c),
                    Destination(c), Object(c))
  BY <1>2, <1>4
<1>6. Request[c].transaction = t
  BY <1>0, <1>3, <1>5, PlanRow DEF Planned
<1>7. Request[c].kind = "move"
  BY <1>0, <1>5, SystemAssumption DEF Kinds, At, RecoverPlaces, Undoing
<1>8. Destination(c) = Request[c].destination
  BY <1>0, <1>5 DEF Bound
<1>9. Request[c].destination \in Paths /\ Request[c].document \in Documents
  BY <1>7, SystemAssumption
<1> QED
  BY <1>0, <1>2, <1>3, <1>5, <1>6, <1>7, <1>8, <1>9, PlanRow

LEMMA AskedStep ==
    ASSUME PlacesInv, [Next]_vars
    PROVE  Asked'
<1> SUFFICES ASSUME NEW t \in Transactions, Planned(t)'
             PROVE  \E c \in Calls :
                       /\ Request[c].kind = "move" /\ Request[c].transaction = t
                       /\ Request[c].destination = To(t)'
  BY DEF Asked
<1>1. CASE Planned(t)
  BY <1>1, RowsKeep DEF PlacesInv, OwnerInv, Asked
<1>2. CASE ~ Planned(t)
  BY <1>2, NewRow
<1> QED
  BY <1>1, <1>2
-----------------------------------------------------------------------------
(* What moves files.                                                         *)

\* A file goes from p, where nothing is left, to q, where nothing was.
Goes(o, p, q) ==
    /\ fs[p] = o /\ fs[q] = Vacant
    /\ fs' = [fs EXCEPT ![p] = Vacant, ![q] = o]

Forth(c) ==
    LET u == Request[c].transaction
    IN  /\ Request[c].kind = "move" /\ At(c, "moving")
        /\ Planned(u) /\ State(u) = "moving"
        /\ Goes(Subject(u), From(u), To(u))
        /\ UNCHANGED <<storeVars, touched>>
        /\ call'[c].at = "renamed"

Back(c) ==
    LET u == Request[c].transaction
    IN  /\ At(c, "undo_rename")
        /\ Planned(u) /\ State(u) \in {"committed", "rollback_required"}
        /\ RollbackState(u) = "rolling_back"
        /\ Goes(Subject(u), To(u), From(u))
        /\ UNCHANGED <<storeVars, touched>>
        /\ call'[c].at = "undo_verify_source"

ByUser ==
    /\ UNCHANGED <<storeVars, call>>
    /\ \/ \E p, q \in Paths : fs[p] # Vacant /\ Goes(fs[p], p, q) /\ touched' = touched \cup {fs[p]}
       \/ \E p \in Paths, o \in Objects :
             /\ fs[p] = Vacant /\ \A q \in Paths : fs[q] # o
             /\ fs' = [fs EXCEPT ![p] = o]
             /\ touched' = touched \cup {o}

\* A rollback that is not over is one of a move that settled.
LEMMA SettledFirst ==
    ASSUME SystemInv, NEW t \in Transactions, RollbackState(t) # "absent"
    PROVE  State(t) \in {"committed", "rollback_required"}
BY DEF SystemInv, JournalsAgree, RollbackJournalAgrees, State

LEMMA FilesChange ==
    ASSUME PlacesInv, [Next]_vars, fs' # fs
    PROVE  (\E c \in Calls : Forth(c) \/ Back(c)) \/ ByUser
<1>0. /\ SystemInv /\ Bound /\ Kinds /\ Pace /\ OwnerInv
      /\ call \in [Calls -> CallStates]
  BY DEF PlacesInv, OwnerInv, SystemInv, SystemTypeOK, CallStates
<1>1. ASSUME NEW c \in Calls, Begin(c) \/ Crash(c)
      PROVE  UNCHANGED fs
  BY <1>1 DEF Begin, Ticket, BeginRecovery, BeginUndo, Crash, worldVars
<1>2. ASSUME NEW c \in Calls, Step(c), ~ RenameNoReplace(c), ~ RollbackNoReplace(c)
      PROVE  UNCHANGED fs
  BY <1>2 DEF Step, PlanMove, MoveStep, Validate, BeginMoving, Classify, ForwardStep,
       RecordFailure, RecordMoved, VerifyDestination, RecordRollbackRequired, RecordVerified,
       Commit, UndoStep, ReadRollbackState, BeginRollback, UndoClassify, UndoVerifyDestination,
       UndoVerifySource, UndoComplete, UndoFail, Persist, Check, worldVars
<1>3. UNCHANGED vars => UNCHANGED fs
  BY DEF vars
<1>4. CASE User
  <2>1. CASE \E p, q \in Paths : UserRename(p, q)
    BY <2>1 DEF UserRename, Meddle, ByUser, Goes, storeVars
  <2>2. CASE \E p \in Paths, o \in Objects : UserCreate(p, o)
    BY <2>2 DEF UserCreate, Meddle, ByUser, storeVars
  <2>3. CASE \E p \in Paths : UserEdit(p)
    BY <2>3 DEF UserEdit
  <2> QED
    BY <1>4, <2>1, <2>2, <2>3 DEF User
<1>5. ASSUME NEW c \in Calls, RenameNoReplace(c)
      PROVE  Forth(c)
  <2>1. /\ At(c, "moving") /\ ObjectAt(c, Source(c), Destination(c))
        /\ Rename(c, Source(c), Destination(c)) /\ Go(c, "renamed")
        /\ UNCHANGED <<storeVars, touched>>
    BY <1>5 DEF RenameNoReplace, TryRename
  <2>2. Request[c].kind = "move"
    BY <1>0, <2>1, SystemAssumption DEF Kinds, At, RecoverPlaces, Undoing
  <2>3. State(Request[c].transaction) = "moving"
    BY <1>0, <2>1, <2>2 DEF Pace, At, MovePlaces
  <2>4. call'[c].at = "renamed"
    BY <1>0, <2>1 DEF Go, CallStates
  <2>5. /\ Planned(Request[c].transaction)
        /\ Object(c) = Subject(Request[c].transaction)
        /\ Source(c) = From(Request[c].transaction)
        /\ Destination(c) = To(Request[c].transaction)
    BY <1>0, <2>1 DEF Bound, At, Waiting
  <2> QED
    BY <2>1, <2>2, <2>3, <2>4, <2>5 DEF Forth, Goes, ObjectAt, OnlyAt, Rename
<1>6. ASSUME NEW c \in Calls, RollbackNoReplace(c)
      PROVE  Back(c)
  <2>1. /\ At(c, "undo_rename") /\ ObjectAt(c, Destination(c), Source(c))
        /\ Rename(c, Destination(c), Source(c)) /\ Go(c, "undo_verify_source")
        /\ UNCHANGED <<storeVars, touched>>
    BY <1>6 DEF RollbackNoReplace, TryRename
  <2>2. OwnsRollback(Ctx(c)) /\ Ctx(c).transaction = Request[c].transaction
    BY <1>0, <2>1 DEF OwnerInv, Owning, Undoing, At, Ctx
  <2>3. RollbackState(Request[c].transaction) = "rolling_back"
    BY <2>2 DEF OwnsRollback, RollbackState
  <2>4. State(Request[c].transaction) \in {"committed", "rollback_required"}
    BY <1>0, <2>3, SettledFirst, SystemAssumption
  <2>5. call'[c].at = "undo_verify_source"
    BY <1>0, <2>1 DEF Go, CallStates
  <2>6. /\ Planned(Request[c].transaction)
        /\ Object(c) = Subject(Request[c].transaction)
        /\ Source(c) = From(Request[c].transaction)
        /\ Destination(c) = To(Request[c].transaction)
    BY <1>0, <2>1 DEF Bound, At, Waiting
  <2> QED
    BY <2>1, <2>3, <2>4, <2>5, <2>6 DEF Back, Goes, ObjectAt, OnlyAt, Rename
<1> QED
  BY <1>1, <1>2, <1>3, <1>4, <1>5, <1>6 DEF Next

LEMMA PlannedType ==
    ASSUME SystemInv, NEW t \in Transactions, Planned(t)
    PROVE  /\ move_transactions[t] \in Rows
           /\ Subject(t) \in Objects /\ From(t) \in Paths /\ To(t) \in Paths
           /\ move_transactions[t].document \in Documents /\ Subject(t) # Vacant
BY SystemAssumption DEF SystemInv, SystemTypeOK, TypeOK, Planned, Subject, From, To, Rows

LEMMA StateIsPlanned ==
    ASSUME NEW t, State(t) # "absent"
    PROVE  Planned(t)
BY DEF State, Planned, NoRow

\* Where a file that goes was and is, and that the others stay.
LEMMA GoesTo ==
    ASSUME SystemInv, NEW o \in Objects, NEW p \in Paths, NEW q \in Paths, Goes(o, p, q)
    PROVE  /\ p # q /\ fs'[p] = Vacant /\ fs'[q] = o
           /\ \A r \in Paths \ {p, q} : fs'[r] = fs[r]
<1>1. fs \in [Paths -> Objects \cup {Vacant}] /\ Vacant \notin Objects
  BY SystemAssumption DEF SystemInv, SystemTypeOK
<1>2. p # q
  BY <1>1 DEF Goes
<1> QED
  BY <1>1, <1>2 DEF Goes

LEMMA OnePlaceStep ==
    ASSUME PlacesInv, [Next]_vars
    PROVE  OnePlace'
<1>0. SystemInv /\ OnePlace /\ fs \in [Paths -> Objects \cup {Vacant}]
  BY DEF PlacesInv, OwnerInv, SystemInv, SystemTypeOK
<1>1. ASSUME NEW o \in Objects, NEW p \in Paths, NEW q \in Paths, Goes(o, p, q)
      PROVE  OnePlace'
  <2>1. /\ p # q /\ fs'[p] = Vacant /\ fs'[q] = o /\ fs[p] = o
        /\ \A r \in Paths \ {p, q} : fs'[r] = fs[r]
    BY <1>0, <1>1, GoesTo DEF Goes
  <2>2. o # Vacant
    BY SystemAssumption
  <2>3. \A r \in Paths \ {p, q} : fs'[r] # o
    BY <1>0, <2>1, <2>2 DEF OnePlace
  <2> SUFFICES ASSUME NEW r \in Paths, NEW s \in Paths, fs'[r] = fs'[s], fs'[r] # Vacant
               PROVE  r = s
    BY DEF OnePlace
  <2>4. CASE r = q \/ s = q
    BY <2>1, <2>2, <2>3, <2>4
  <2>5. CASE r # q /\ s # q
    BY <1>0, <2>1, <2>5 DEF OnePlace
  <2> QED
    BY <2>4, <2>5
<1>2. ASSUME NEW p \in Paths, NEW o \in Objects, fs[p] = Vacant, \A q \in Paths : fs[q] # o,
             fs' = [fs EXCEPT ![p] = o]
      PROVE  OnePlace'
  BY <1>0, <1>2 DEF OnePlace
<1>3. ASSUME NEW c \in Calls, Forth(c) \/ Back(c)
      PROVE  OnePlace'
  <2>1. PICK u \in Transactions : u = Request[c].transaction
    BY SystemAssumption
  <2>2. Planned(u) /\ (Goes(Subject(u), From(u), To(u)) \/ Goes(Subject(u), To(u), From(u)))
    BY <1>3, <2>1 DEF Forth, Back
  <2> QED
    BY <1>0, <1>1, <2>2, PlannedType
<1>4. CASE ByUser
  <2>1. ASSUME NEW p \in Paths, NEW q \in Paths, fs[p] # Vacant, Goes(fs[p], p, q)
        PROVE  OnePlace'
    BY <1>0, <1>1, <2>1
  <2> QED
    BY <1>2, <1>4, <2>1 DEF ByUser
<1>5. CASE fs' = fs
  BY <1>0, <1>5 DEF OnePlace
<1> QED
  BY <1>3, <1>4, <1>5, FilesChange

\* Two moves to one place are one move.
LEMMA OneWayIn ==
    ASSUME MovesApart, Asked, NEW t \in Transactions, Planned(t), NEW u \in Transactions, Planned(u),
           To(t) = To(u)
    PROVE  t = u
<1>1. PICK c \in Calls : /\ Request[c].kind = "move" /\ Request[c].transaction = t
                         /\ Request[c].destination = To(t)
  BY DEF Asked
<1>2. PICK e \in Calls : /\ Request[e].kind = "move" /\ Request[e].transaction = u
                         /\ Request[e].destination = To(u)
  BY DEF Asked
<1> QED
  BY <1>1, <1>2 DEF MovesApart

\* Nor does a move lead to where a document was at first.
LEMMA NewPlaces ==
    ASSUME MovesApart, Asked, NEW t \in Transactions, Planned(t), NEW d \in Documents
    PROVE  To(t) # InitialPath[d]
BY DEF MovesApart, Asked

\* So a file is moved on from where a move took it only once that move has committed.
LEMMA MovedOn ==
    ASSUME MovesApart, PlacesInv, NEW t \in Transactions, Planned(t), Reached(To(t))
    PROVE  State(t) = "committed"
<1>1. Asked
  BY DEF PlacesInv
<1>2. PICK u \in Transactions : State(u) = "committed" /\ To(u) = To(t)
  BY <1>1, NewPlaces DEF Reached
<1> QED
  BY <1>1, <1>2, OneWayIn, StateIsPlanned

LEMMA ReachedStays ==
    ASSUME PlacesInv, [Next]_vars, NEW p, Reached(p)
    PROVE  Reached(p)'
<1>1. SystemInv
  BY DEF PlacesInv, OwnerInv
<1>2. ASSUME NEW t \in Transactions, State(t) = "committed", To(t) = p
      PROVE  State(t)' = "committed" /\ To(t)' = p
  BY <1>1, <1>2, RowsKeep, StateIsPlanned
<1> QED
  BY <1>2 DEF Reached

\* Documents change place by a commit or an undo, to where their move leads.
LEMMA DocumentChange ==
    ASSUME PlacesInv, [Next]_vars, NEW d \in Documents, documents'[d].path # documents[d].path
    PROVE  \E c \in Calls :
              LET t == Request[c].transaction
              IN  /\ t \in Transactions /\ Planned(t) /\ move_transactions[t].document = d
                  /\ UNCHANGED worldVars
                  /\ \/ /\ At(c, "verified") /\ State(t) = "verified" /\ State(t)' = "committed"
                        /\ documents'[d].path = To(t)
                     \/ /\ At(c, "undo_complete") /\ CompleteRollback(Ctx(c))
                        /\ documents'[d].path = From(t)
<1>0. /\ SystemInv /\ Bound /\ Kinds /\ call \in [Calls -> CallStates]
      /\ documents \in [Documents -> [path : Paths, transaction : Transactions \cup {None}]]
  BY DEF PlacesInv, OwnerInv, SystemInv, SystemTypeOK, TypeOK, CallStates
<1>1. ASSUME NEW c \in Calls, Begin(c) \/ Crash(c)
      PROVE  UNCHANGED documents
  BY <1>1 DEF Begin, Ticket, BeginRecovery, BeginUndo, Crash, storeVars
<1>2. User \/ UNCHANGED vars => UNCHANGED documents
  BY DEF User, UserRename, UserCreate, UserEdit, Meddle, vars, storeVars
<1>3. PICK c \in Calls : Step(c)
  BY <1>1, <1>2 DEF Next
<1>4. PICK t \in Transactions : t = Request[c].transaction
  BY SystemAssumption
<1>5. PICK k : k = Ctx(c)
  OBVIOUS
<1>6. k.transaction = t /\ k.document = call[c].record.document
      /\ k.source = Source(c) /\ k.destination = Destination(c)
  BY <1>4, <1>5 DEF Ctx
<1>7. CASE \E state, place : Persist(c, state, place) /\ <<call[c].at, state, place>> \in Journaling
  <2>1. PICK state, place : Persist(c, state, place) /\ <<call[c].at, state, place>> \in Journaling
    BY <1>7
  <2>2. Transition(k, state) /\ UNCHANGED worldVars
    BY <1>5, <2>1 DEF Persist, storeVars
  <2>3. state = "committed" /\ CommitDocumentPath(k)
    BY <2>2 DEF Transition
  <2>4. documents' = [documents EXCEPT ![k.document] =
                         [path |-> k.destination, transaction |-> k.transaction]]
    BY <2>3 DEF CommitDocumentPath
  <2>5. k.document = d /\ documents'[d].path = k.destination
    BY <1>0, <2>4
  <2>6. At(c, "verified")
    BY <2>1, <2>3 DEF Journaling, At
  <2>7. <<State(t), "committed">> \in Allowed /\ State(t)' = "committed"
    BY <1>0, <1>6, <2>2, <2>3, TransitionRow DEF ForwardStates
  <2>8. State(t) = "verified"
    BY <2>7 DEF Allowed
  <2>9. Planned(t) /\ Destination(c) = To(t) /\ call[c].record.document = move_transactions[t].document
    BY <1>0, <1>4, <2>6 DEF Bound, At, Waiting
  <2> QED
    BY <1>4, <1>6, <2>2, <2>5, <2>6, <2>7, <2>8, <2>9
<1>8. CASE UndoComplete(c)
  <2>1. CompleteRollback(k) /\ UNCHANGED worldVars /\ At(c, "undo_complete")
    BY <1>5, <1>8 DEF UndoComplete, storeVars
  <2>2. documents' = [documents EXCEPT ![k.document] = [path |-> k.source, transaction |-> None]]
    BY <2>1 DEF CompleteRollback, RestoreDocumentPath
  <2>3. k.document = d /\ documents'[d].path = k.source
    BY <1>0, <2>2
  <2>4. Planned(t) /\ Source(c) = From(t) /\ call[c].record.document = move_transactions[t].document
    BY <1>0, <1>4, <2>1 DEF Bound, At, Waiting
  <2> QED
    BY <1>4, <1>5, <1>6, <2>1, <2>3, <2>4
<1>9. CASE UNCHANGED documents
  BY <1>9
<1>10. \/ \E state, place : Persist(c, state, place) /\ <<call[c].at, state, place>> \in Journaling
       \/ UndoComplete(c)
       \/ UNCHANGED documents
  <2>1. CASE PlanMove(c) \/ Classify(c) \/ RenameNoReplace(c) \/ VerifyDestination(c)
    BY <2>1 DEF PlanMove, RecordPlan, Classify, RenameNoReplace, VerifyDestination, TryRename,
                Check, storeVars
  <2>2. CASE \/ Validate(c) \/ BeginMoving(c) \/ RecordFailure(c) \/ RecordMoved(c)
             \/ RecordRollbackRequired(c) \/ RecordVerified(c) \/ Commit(c)
    BY <2>2 DEF Validate, BeginMoving, RecordFailure, RecordMoved, RecordRollbackRequired,
                RecordVerified, Commit, Journaling, At
  <2>3. CASE UndoStep(c) /\ ~ UndoComplete(c)
    BY <2>3 DEF UndoStep, ReadRollbackState, BeginRollback, UndoClassify, UndoVerifyDestination,
                RollbackNoReplace, UndoVerifySource, UndoFail, TryRename, Check, StartRollback,
                FailRollback, storeVars
  <2> QED
    BY <1>3, <2>1, <2>2, <2>3 DEF Step, MoveStep, ForwardStep
<1> QED
  BY <1>7, <1>8, <1>9, <1>10

LEMMA SourcedStep ==
    ASSUME PlacesInv, [Next]_vars
    PROVE  Sourced'
<1>0. SystemInv /\ Sourced
  BY DEF PlacesInv, OwnerInv
<1>1. ASSUME NEW d \in Documents
      PROVE  Reached(documents[d].path)'
  <2>1. PICK p : p = documents'[d].path
    OBVIOUS
  <2>2. CASE documents'[d].path = documents[d].path
    <3>1. Reached(p)
      BY <1>0, <2>1, <2>2 DEF Sourced
    <3> QED
      BY <2>1, <3>1, ReachedStays DEF Reached
  <2>3. CASE documents'[d].path # documents[d].path
    <3>1. PICK t \in Transactions :
              /\ Planned(t)
              /\ \/ State(t)' = "committed" /\ p = To(t)
                 \/ p = From(t)
      BY <2>1, <2>3, DocumentChange
    <3>2. CASE State(t)' = "committed" /\ p = To(t)
      <4>1. To(t)' = To(t)
        BY <1>0, <3>1, RowsKeep
      <4> QED
        BY <2>1, <3>2, <4>1 DEF Reached
    <3>3. CASE p = From(t)
      <4>1. Reached(p)
        BY <1>0, <3>1, <3>3 DEF Sourced
      <4> QED
        BY <2>1, <4>1, ReachedStays DEF Reached
    <3> QED
      BY <3>1, <3>2, <3>3
  <2> QED
    BY <2>2, <2>3
<1>2. ASSUME NEW t \in Transactions, Planned(t)'
      PROVE  Reached(From(t))'
  <2>1. PICK p : p = From(t)'
    OBVIOUS
  <2>2. Reached(p)
    <3>1. CASE Planned(t)
      BY <1>0, <2>1, <3>1, RowsKeep DEF Sourced
    <3>2. CASE ~ Planned(t)
      BY <1>0, <1>2, <2>1, <3>2, NewRow DEF Sourced
    <3> QED
      BY <3>1, <3>2
  <2> QED
    BY <2>1, <2>2, ReachedStays DEF Reached
<1> QED
  BY <1>1, <1>2 DEF Sourced
-----------------------------------------------------------------------------
(* Nobody takes a file from where a move in flight has put it.               *)

LEMMA FileKept ==
    ASSUME MovesApart, PlacesInv, [Next]_vars, NEW t \in Transactions,
           State(t) \in {"moving", "moved", "verified"}, fs[To(t)] = Subject(t),
           Subject(t) \notin touched'
    PROVE  fs'[To(t)] = Subject(t)
<1>0. SystemInv /\ Asked /\ Sourced /\ fs \in [Paths -> Objects \cup {Vacant}]
  BY DEF PlacesInv, OwnerInv, SystemInv, SystemTypeOK
<1>1. Planned(t)
  BY StateIsPlanned
<1>2. Subject(t) \in Objects /\ Subject(t) # Vacant /\ To(t) \in Paths
  BY <1>0, <1>1, PlannedType
<1>3. ASSUME NEW c \in Calls, Forth(c)
      PROVE  fs'[To(t)] = Subject(t)
  <2>1. PICK u \in Transactions : u = Request[c].transaction
    BY SystemAssumption
  <2>2. Planned(u) /\ Goes(Subject(u), From(u), To(u))
    BY <1>3, <2>1 DEF Forth
  <2>3. From(u) # To(t)
    <3>1. Reached(From(u))
      BY <1>0, <2>2 DEF Sourced
    <3> QED
      BY <1>1, <3>1, MovedOn
  <2>4. To(u) # To(t)
    BY <1>2, <2>2 DEF Goes
  <2>5. /\ Subject(u) \in Objects /\ From(u) \in Paths /\ To(u) \in Paths
    BY <1>0, <2>2, PlannedType
  <2> QED
    BY <1>0, <1>2, <2>2, <2>3, <2>4, <2>5, GoesTo
<1>4. ASSUME NEW c \in Calls, Back(c)
      PROVE  fs'[To(t)] = Subject(t)
  <2>1. PICK u \in Transactions : u = Request[c].transaction
    BY SystemAssumption
  <2>2. /\ Planned(u) /\ Goes(Subject(u), To(u), From(u))
        /\ State(u) \in {"committed", "rollback_required"}
    BY <1>4, <2>1 DEF Back
  <2>3. To(u) # To(t)
    BY <1>0, <1>1, <2>2, OneWayIn
  <2>4. From(u) # To(t)
    BY <1>2, <2>2 DEF Goes
  <2>5. /\ Subject(u) \in Objects /\ From(u) \in Paths /\ To(u) \in Paths
    BY <1>0, <2>2, PlannedType
  <2> QED
    BY <1>0, <1>2, <2>2, <2>3, <2>4, <2>5, GoesTo
<1>5. CASE ByUser
  <2>1. ASSUME NEW p \in Paths, NEW q \in Paths, fs[p] # Vacant, Goes(fs[p], p, q),
               touched' = touched \cup {fs[p]}
        PROVE  fs'[To(t)] = Subject(t)
    <3>1. p # To(t) /\ q # To(t) /\ fs[p] \in Objects
      BY <1>0, <1>2, <2>1 DEF Goes
    <3> QED
      BY <1>0, <1>2, <2>1, <3>1, GoesTo
  <2>2. ASSUME NEW p \in Paths, NEW o \in Objects, fs[p] = Vacant, fs' = [fs EXCEPT ![p] = o]
        PROVE  fs'[To(t)] = Subject(t)
    BY <1>0, <1>2, <2>2
  <2> QED
    BY <1>5, <2>1, <2>2 DEF ByUser
<1> QED
  BY <1>3, <1>4, <1>5, FilesChange

LEMMA TouchedGrows == [Next]_vars => touched \subseteq touched'
<1> SUFFICES ASSUME [Next]_vars
             PROVE  touched \subseteq touched'
  OBVIOUS
<1>1. ASSUME NEW c \in Calls, Begin(c) \/ Crash(c)
      PROVE  UNCHANGED touched
  BY <1>1 DEF Begin, Ticket, BeginRecovery, BeginUndo, Crash, worldVars
<1>2. ASSUME NEW c \in Calls, Step(c)
      PROVE  UNCHANGED touched
  BY <1>2 DEF Step, PlanMove, MoveStep, Validate, BeginMoving, RenameNoReplace, Classify,
       ForwardStep, RecordFailure, RecordMoved, VerifyDestination, RecordRollbackRequired,
       RecordVerified, Commit, UndoStep, ReadRollbackState, BeginRollback, UndoClassify,
       UndoVerifyDestination, RollbackNoReplace, UndoVerifySource, UndoComplete, UndoFail,
       Persist, Check, TryRename, worldVars
<1>3. User => touched \subseteq touched'
  BY DEF User, UserRename, UserCreate, UserEdit, Meddle
<1>4. UNCHANGED vars => UNCHANGED touched
  BY DEF vars
<1> QED
  BY <1>1, <1>2, <1>3, <1>4 DEF Next

\* No move begins to rename under a call that is past it.
LEMMA StillMoving ==
    ASSUME PlacesInv, [Next]_vars, NEW c \in Calls, call[c].at \in RecoverPlaces,
           NEW t \in Transactions, t = Request[c].transaction, State(t)' = "moving"
    PROVE  State(t) = "moving"
<1>0. SystemInv /\ Alone /\ Kinds /\ Planned(t)
  BY DEF PlacesInv, OwnerInv, Bound, RecoverPlaces, Waiting
<1> SUFFICES ASSUME State(t) # "moving"
             PROVE  FALSE
  OBVIOUS
<1>1. PICK e \in Calls :
          /\ Request[e].transaction = t
          /\ \E state, place : <<call[e].at, state, place>> \in Journaling /\ state = "moving"
  BY <1>0, StateChange
<1>2. call[e].at = "validated"
  BY <1>1 DEF Journaling
<1>3. Request[e].kind = "move" /\ e # c
  BY <1>0, <1>2, SystemAssumption DEF Kinds, RecoverPlaces, Undoing
<1>5. Request[c].kind # "undo"
  BY <1>0 DEF Kinds, RecoverPlaces, Undoing
<1>4. /\ Request[c].kind = "move" => call[c].at \in Waiting
      /\ Request[c].kind = "recover" => call[c].at = "idle"
  BY <1>0, <1>1, <1>2, <1>3 DEF Alone, MovePlaces
<1> QED
  BY <1>4, <1>5, SystemAssumption DEF Waiting, RecoverPlaces

LEMMA ArrivedStep ==
    ASSUME MovesApart, PlacesInv, [Next]_vars
    PROVE  Arrived'
<1>0. /\ SystemInv /\ Bound /\ Arrived /\ Kinds /\ call \in [Calls -> CallStates]
      /\ touched \subseteq touched'
  BY TouchedGrows DEF PlacesInv, OwnerInv, SystemInv, SystemTypeOK, CallStates
<1> SUFFICES ASSUME NEW c \in Calls, call'[c].at = "renamed",
                    NEW t \in Transactions, t = Request[c].transaction,
                    State(t)' = "moving", Subject(t)' \notin touched'
             PROVE  fs'[To(t)'] = Subject(t)'
  BY SystemAssumption DEF Arrived, At
<1>1. CASE call'[c] = call[c]
  <2>1. call[c].at \in RecoverPlaces /\ Planned(t)
    BY <1>0, <1>1 DEF RecoverPlaces, Bound, Waiting
  <2>2. State(t) = "moving"
    BY <2>1, StillMoving
  <2>3. Subject(t)' = Subject(t) /\ To(t)' = To(t)
    BY <1>0, <2>1, RowsKeep
  <2>4. fs[To(t)] = Subject(t)
    BY <1>0, <1>1, <2>2, <2>3 DEF Arrived, At
  <2> QED
    BY <2>2, <2>3, <2>4, FileKept
<1>2. CASE call'[c] # call[c]
  <2>1. ~ Begin(c) /\ ~ Crash(c)
    BY <1>0, BeginHolds DEF Crash, Stop, Idle
  <2>2. Step(c) /\ <<call[c].at, call'[c].at>> \in Leads
    BY <1>0, <1>2, <2>1, CallChange, StepLeads
  <2>3. At(c, "moving") \/ At(c, "classify")
    BY <2>2 DEF Leads, At
  <2>4. /\ Planned(t) /\ Object(c) = Subject(t) /\ Source(c) = From(t) /\ Destination(c) = To(t)
    BY <1>0, <2>3 DEF Bound, At, Waiting
  <2>5. Subject(t)' = Subject(t) /\ To(t)' = To(t)
    BY <1>0, <2>4, RowsKeep
  <2>6. Subject(t) \in Objects /\ From(t) \in Paths /\ To(t) \in Paths
    BY <1>0, <2>4, PlannedType
  <2>7. CASE At(c, "moving")
    <3>1. RenameNoReplace(c)
      BY <2>2, <2>7, StepAt
    <3>2. Go(c, "refused") => call'[c].at # "renamed"
      BY <1>0, GoLeads
    <3>3. ObjectAt(c, From(t), To(t)) /\ Rename(c, From(t), To(t))
      BY <2>4, <3>1, <3>2 DEF RenameNoReplace, TryRename
    <3>4. Goes(Subject(t), From(t), To(t))
      BY <2>4, <3>3 DEF ObjectAt, OnlyAt, Rename, Goes
    <3> QED
      BY <1>0, <2>5, <2>6, <3>4, GoesTo
  <2>8. CASE At(c, "classify")
    <3>1. Classify(c)
      BY <2>2, <2>8, StepAt
    <3>2. \A place \in {"refused", "unverified"} : Go(c, place) => call'[c].at # "renamed"
      BY <1>0, GoLeads
    <3>3. Disposition(c) = "destination"
      BY <3>1, <3>2 DEF Classify
    <3>4. fs[To(t)] = Subject(t) /\ fs' = fs
      BY <2>4, <3>1, <3>3 DEF Disposition, ObjectAt, OnlyAt, Classify, worldVars
    <3> QED
      BY <2>5, <3>4
  <2> QED
    BY <2>3, <2>7, <2>8
<1> QED
  BY <1>1, <1>2

LEMMA VerifiedStep ==
    ASSUME MovesApart, PlacesInv, [Next]_vars
    PROVE  VerifiedStays'
<1>0. /\ SystemInv /\ Arrived /\ VerifiedStays /\ touched \subseteq touched'
  BY TouchedGrows DEF PlacesInv, OwnerInv
<1> SUFFICES ASSUME NEW t \in Transactions, State(t)' \in {"moved", "verified"},
                    Subject(t)' \notin touched'
             PROVE  fs'[To(t)'] = Subject(t)'
  BY DEF VerifiedStays, State, Subject, To
<1>1. State(t) \in {"moving", "moved", "verified"} /\ fs[To(t)] = Subject(t)
      /\ To(t)' = To(t) /\ Subject(t)' = Subject(t)
  <2>1. CASE State(t)' = State(t)
    <3>1. Planned(t)
      BY <2>1, StateIsPlanned
    <3>2. To(t)' = To(t) /\ Subject(t)' = Subject(t)
      BY <1>0, <3>1, RowsKeep
    <3>3. Subject(t) \notin touched
      BY <1>0, <3>2
    <3> QED
      BY <1>0, <2>1, <3>2, <3>3 DEF VerifiedStays, State, Subject, To
  <2>2. CASE State(t)' # State(t)
    <3>0. PICK c \in Calls :
              /\ Request[c].transaction = t
              /\ \E state, place : /\ <<call[c].at, state, place>> \in Journaling
                                  /\ <<State(t), state>> \in Allowed
                                  /\ State(t)' = state
      BY <1>0, <2>2, StateChange
    <3>1. PICK state, place : /\ <<call[c].at, state, place>> \in Journaling
                              /\ <<State(t), state>> \in Allowed
                              /\ State(t)' = state
      BY <3>0
    <3>2. State(t) # "absent"
      BY <3>1 DEF Allowed
    <3>3. Planned(t)
      BY <3>2, StateIsPlanned
    <3>4. To(t)' = To(t) /\ Subject(t)' = Subject(t)
      BY <1>0, <3>3, RowsKeep
    <3>5. Subject(t) \notin touched
      BY <1>0, <3>4
    <3>6. CASE state = "moved"
      <4>1. At(c, "renamed") /\ State(t) = "moving"
        BY <3>1, <3>6 DEF Journaling, Allowed, At
      <4> QED
        BY <1>0, <3>0, <3>4, <3>5, <4>1 DEF Arrived
    <3>7. CASE state = "verified"
      <4>1. State(t) = "moved"
        BY <3>1, <3>7 DEF Allowed
      <4> QED
        BY <1>0, <3>4, <3>5, <4>1 DEF VerifiedStays, State, Subject, To
    <3> QED
      BY <3>1, <3>6, <3>7
  <2> QED
    BY <2>1, <2>2
<1> QED
  BY <1>1, FileKept

LEMMA PlacesStep ==
    ASSUME MovesApart, PlacesInv, [Next]_vars
    PROVE  PlacesInv'
<1>1. OwnerInv'
  BY OwnerStep DEF PlacesInv, MovesApart
<1> QED
  BY <1>1, KindsStep, BoundStep, AloneStep, PaceStep, AskedStep, SourcedStep, OnePlaceStep,
     ArrivedStep, VerifiedStep DEF PlacesInv

LEMMA PlacesInit ==
    ASSUME MovesApart, Init
    PROVE  PlacesInv
<1>1. /\ \A c \in Calls : call[c].at = "idle"
      /\ \A t \in Transactions : move_transactions[t] = NoRow /\ move_transactions[t].state = "absent"
      /\ \A d \in Documents : documents[d].path = InitialPath[d]
      /\ fs = InitialFiles
  BY DEF Init, StoreInit, Idle, NoRow
<1>2. OwnerInv
  BY <1>1, SystemInit DEF OwnerInv, Undoing, Owning
<1>3. Kinds /\ Bound /\ Alone /\ Pace /\ Arrived
  BY <1>1 DEF Kinds, Bound, Alone, Pace, Arrived, At, Waiting, MovePlaces
<1>4. Asked /\ Sourced /\ VerifiedStays
  BY <1>1 DEF Asked, Sourced, Reached, Planned, VerifiedStays
<1>5. OnePlace
  BY <1>1 DEF OnePlace, MovesApart
<1> QED
  BY <1>2, <1>3, <1>4, <1>5 DEF PlacesInv

LEMMA PlacesInvariance == ASSUME MovesApart PROVE Spec => []PlacesInv
<1>1. Init => PlacesInv
  BY PlacesInit
<1>2. PlacesInv /\ [Next]_vars => PlacesInv'
  BY PlacesStep
<1> QED
  BY <1>1, <1>2, PTL DEF Spec

(* What the journal says of a move in flight stays true until it is settled, *)
(* whatever other moves, recoveries and undos do between its steps and       *)
(* whoever crashes: a file that it calls moved or verified is at the         *)
(* destination, unless the user took it.                                     *)
THEOREM MovedFilesStay == ASSUME MovesApart PROVE Spec => []VerifiedStays
<1>1. PlacesInv => VerifiedStays
  BY DEF PlacesInv
<1> QED
  BY <1>1, PlacesInvariance, PTL
-----------------------------------------------------------------------------
(* The two sides of a move.                                                  *)

LEMMA HomeStays ==
    ASSUME SystemInv, [Next]_vars, NEW d, NEW p, HomeOf(d, p)
    PROVE  HomeOf(d, p)'
<1>1. ASSUME NEW t \in Transactions, Planned(t), move_transactions[t].document = d, To(t) = p
      PROVE  Planned(t)' /\ move_transactions'[t].document = d /\ To(t)' = p
  BY <1>1, RowsKeep
<1> QED
  BY <1>1 DEF HomeOf

\* A move that is new leads to where nothing led.
LEMMA NewHome ==
    ASSUME MovesApart, PlacesInv, [Next]_vars, NEW t \in Transactions, ~ Planned(t), Planned(t)',
           NEW d \in Documents
    PROVE  ~ HomeOf(d, To(t)')
<1>0. SystemInv /\ Asked'
  BY AskedStep DEF PlacesInv, OwnerInv
<1>1. ASSUME NEW u \in Transactions, Planned(u), To(u) = To(t)'
      PROVE  FALSE
  <2>1. Planned(u)' /\ To(u)' = To(t)'
    BY <1>0, <1>1, RowsKeep
  <2>2. PICK c \in Calls : /\ Request[c].kind = "move" /\ Request[c].transaction = t
                           /\ Request[c].destination = To(t)'
    BY <1>0 DEF Asked
  <2>3. PICK e \in Calls : /\ Request[e].kind = "move" /\ Request[e].transaction = u
                           /\ Request[e].destination = To(t)'
    BY <1>0, <2>1 DEF Asked
  <2>4. t = u
    BY <2>2, <2>3 DEF MovesApart
  <2> QED
    BY <1>1, <2>4
<1>2. To(t)' # InitialPath[d]
  BY <1>0 DEF Asked, MovesApart
<1> QED
  BY <1>1, <1>2 DEF HomeOf

\* Documents have no place in common.
LEMMA OneHome ==
    ASSUME MovesApart, Asked, NEW d \in Documents, NEW e \in Documents, NEW p,
           HomeOf(d, p), HomeOf(e, p)
    PROVE  d = e
<1>1. CASE p = InitialPath[d] /\ p = InitialPath[e]
  BY <1>1 DEF MovesApart
<1>2. CASE p # InitialPath[d]
  <2>1. PICK t \in Transactions : Planned(t) /\ move_transactions[t].document = d /\ To(t) = p
    BY <1>2 DEF HomeOf
  <2>2. p # InitialPath[e]
    BY <2>1, NewPlaces
  <2>3. PICK u \in Transactions : Planned(u) /\ move_transactions[u].document = e /\ To(u) = p
    BY <2>2 DEF HomeOf
  <2> QED
    BY <2>1, <2>3, OneWayIn
<1>3. CASE p # InitialPath[e]
  <2>1. PICK t \in Transactions : Planned(t) /\ move_transactions[t].document = e /\ To(t) = p
    BY <1>3 DEF HomeOf
  <2>2. p # InitialPath[d]
    BY <2>1, NewPlaces
  <2>3. PICK u \in Transactions : Planned(u) /\ move_transactions[u].document = d /\ To(u) = p
    BY <2>2 DEF HomeOf
  <2> QED
    BY <2>1, <2>3, OneWayIn
<1> QED
  BY <1>1, <1>2, <1>3

\* The side of a move grows by new destinations only.
LEMMA SidesStay ==
    ASSUME MovesApart, PlacesInv, Housed, [Next]_vars, NEW t \in Transactions, Planned(t),
           NEW S \in Sides(t)
    PROVE  \E T \in Sides(t)' : \A p \in T : p \in S \/ \A d \in Documents : ~ HomeOf(d, p)
<1>0. SystemInv /\ SystemInv'
  BY SystemStep DEF PlacesInv, OwnerInv
<1>1. /\ S \in SUBSET Paths /\ To(t) \in S /\ From(t) \notin S
      /\ \A u \in Transactions \ {t} : Planned(u) => (From(u) \in S <=> To(u) \in S)
  BY DEF Sides
<1>2. From(t)' = From(t) /\ To(t)' = To(t)
  BY <1>0, RowsKeep
<1>3. CASE \A u \in Transactions : Planned(u)' => Planned(u)
  <2>1. \A u \in Transactions \ {t} : Planned(u)' => (From(u)' \in S <=> To(u)' \in S)
    BY <1>0, <1>1, <1>3, RowsKeep
  <2>2. S \in Sides(t)'
    BY <1>1, <1>2, <2>1 DEF Sides
  <2> QED
    BY <2>2
<1>4. ASSUME NEW n \in Transactions, ~ Planned(n), Planned(n)'
      PROVE  \E T \in Sides(t)' : \A p \in T : p \in S \/ \A d \in Documents : ~ HomeOf(d, p)
  <2>1. PICK p : p = From(n)'
    OBVIOUS
  <2>2. PICK q : q = To(n)'
    OBVIOUS
  <2>3. \A d \in Documents : ~ HomeOf(d, q)
    BY <1>4, <2>2, NewHome
  <2>4. /\ \A u \in Transactions \ {n} : move_transactions'[u] = move_transactions[u]
        /\ \E d \in Documents : p = documents[d].path
        /\ q \in Paths
    BY <1>4, <2>1, <2>2, NewRow
  <2>5. p # q
    BY <2>3, <2>4 DEF Housed
  <2>6. \A u \in Transactions : Planned(u) => From(u) # q /\ To(u) # q
    <3>1. ASSUME NEW u \in Transactions, Planned(u)
          PROVE  From(u) # q /\ To(u) # q
      <4>1. move_transactions[u].document \in Documents
        BY <1>0, <3>1, PlannedType
      <4>2. /\ HomeOf(move_transactions[u].document, From(u))
            /\ HomeOf(move_transactions[u].document, To(u))
        BY <3>1 DEF Housed, HomeOf
      <4> QED
        BY <2>3, <4>1, <4>2
    <3> QED
      BY <3>1
  <2>7. PICK T : T = IF p \in S THEN S \cup {q} ELSE S \ {q}
    OBVIOUS
  <2>8. T \in SUBSET Paths /\ To(t) \in T /\ From(t) \notin T /\ (p \in T <=> q \in T)
    BY <1>1, <2>4, <2>5, <2>6, <2>7
  <2>9. \A u \in Transactions \ {t, n} : Planned(u) => (From(u) \in T <=> To(u) \in T)
    <3>1. ASSUME NEW u \in Transactions \ {t, n}, Planned(u)
          PROVE  From(u) \in T <=> To(u) \in T
      <4>1. From(u) \in S <=> To(u) \in S
        BY <1>1, <3>1
      <4>2. From(u) # q /\ To(u) # q
        BY <2>6, <3>1
      <4> QED
        BY <2>7, <4>1, <4>2
    <3> QED
      BY <3>1
  <2>10. \A u \in Transactions \ {t, n} : Planned(u)' => (From(u)' \in T <=> To(u)' \in T)
    BY <2>4, <2>9 DEF Planned, From, To
  <2>11. T \in Sides(t)'
    BY <1>2, <2>1, <2>2, <2>8, <2>10 DEF Sides
  <2>12. \A r \in T : r \in S \/ r = q
    BY <2>7
  <2> QED
    BY <2>3, <2>11, <2>12
<1> QED
  BY <1>3, <1>4

LEMMA NewSide ==
    ASSUME MovesApart, PlacesInv, Housed, [Next]_vars, NEW t \in Transactions, ~ Planned(t),
           Planned(t)'
    PROVE  {To(t)'} \in Sides(t)'
<1>0. SystemInv
  BY DEF PlacesInv, OwnerInv
<1>1. PICK p : p = From(t)'
  OBVIOUS
<1>2. PICK q : q = To(t)'
  OBVIOUS
<1>3. \A d \in Documents : ~ HomeOf(d, q)
  BY <1>2, NewHome
<1>4. /\ \A u \in Transactions \ {t} : move_transactions'[u] = move_transactions[u]
      /\ \E d \in Documents : p = documents[d].path
      /\ q \in Paths
  BY <1>1, <1>2, NewRow
<1>5. p # q
  BY <1>3, <1>4 DEF Housed
<1>6. ASSUME NEW u \in Transactions \ {t}, Planned(u)'
      PROVE  From(u)' # q /\ To(u)' # q
  <2>1. Planned(u) /\ From(u)' = From(u) /\ To(u)' = To(u)
    BY <1>4, <1>6 DEF Planned, From, To
  <2>2. move_transactions[u].document \in Documents
    BY <1>0, <2>1, PlannedType
  <2>3. /\ HomeOf(move_transactions[u].document, From(u))
        /\ HomeOf(move_transactions[u].document, To(u))
    BY <2>1 DEF Housed, HomeOf
  <2> QED
    BY <1>3, <2>1, <2>2, <2>3
<1> QED
  BY <1>1, <1>2, <1>4, <1>5, <1>6 DEF Sides

LEMMA DividedStep ==
    ASSUME MovesApart, PlacesInv, Housed, Divided, [Next]_vars
    PROVE  Divided'
<1> SUFFICES ASSUME NEW t \in Transactions, Planned(t)'
             PROVE  Sides(t)' # {}
  BY DEF Divided
<1>1. CASE Planned(t)
  <2>1. PICK S : S \in Sides(t)
    BY <1>1 DEF Divided
  <2> QED
    BY <1>1, <2>1, SidesStay
<1>2. CASE ~ Planned(t)
  BY <1>2, NewSide
<1> QED
  BY <1>1, <1>2

\* It stays there until its own move renames.
LEMMA OutsideStays ==
    ASSUME MovesApart, PlacesInv, Housed, Divided, [Next]_vars,
           NEW t \in Transactions, Planned(t), Own(t)', Outside(t),
           \A c \in Calls : Request[c].transaction = t => ~ Forth(c)
    PROVE  Own(t) /\ Outside(t)'
<1>0. /\ SystemInv /\ OnePlace /\ fs \in [Paths -> Objects \cup {Vacant}]
      /\ touched \subseteq touched'
  BY TouchedGrows DEF PlacesInv, OwnerInv, SystemInv, SystemTypeOK
<1>1. PICK d \in Documents : d = move_transactions[t].document
  BY <1>0, PlannedType
<1>2. /\ Subject(t)' = Subject(t) /\ From(t)' = From(t) /\ To(t)' = To(t)
      /\ move_transactions'[t].document = d
  BY <1>0, <1>1, RowsKeep
<1>3. Subject(t) = FileOf(d) /\ FileOf(d) \notin touched' /\ FileOf(d) \notin touched
  BY <1>0, <1>2 DEF Own, FileOf
<1>4. Own(t)
  BY <1>1, <1>3 DEF Own
<1>5. Subject(t) \in Objects /\ Subject(t) # Vacant
  BY <1>0, PlannedType
<1>6. PICK S \in Sides(t) : \A p \in S : fs[p] # Subject(t)
  BY DEF Outside
<1>7. /\ S \in SUBSET Paths /\ To(t) \in S /\ From(t) \notin S
      /\ \A u \in Transactions \ {t} : Planned(u) => (From(u) \in S <=> To(u) \in S)
  BY DEF Sides
<1>8. CASE fs' = fs
  <2>1. PICK T \in Sides(t)' : \A p \in T : p \in S \/ \A e \in Documents : ~ HomeOf(e, p)
    BY SidesStay
  <2>2. T \in SUBSET Paths
    BY <2>1 DEF Sides
  <2>3. ASSUME NEW p \in T
        PROVE  fs'[p] # Subject(t)
    <3>1. CASE p \in S
      BY <1>6, <1>8, <3>1
    <3>2. CASE ~ HomeOf(d, p)
      <4>1. PICK q \in Paths : fs[q] = FileOf(d) /\ HomeOf(d, q)
        BY <1>3 DEF Housed
      <4>2. q # p
        BY <3>2, <4>1
      <4> QED
        BY <1>0, <1>3, <1>5, <1>8, <2>2, <4>1, <4>2 DEF OnePlace
    <3> QED
      BY <2>1, <3>1, <3>2
  <2> QED
    BY <1>2, <1>4, <2>1, <2>3 DEF Outside
<1>9. ASSUME \A p \in S : fs'[p] # Subject(t), UNCHANGED storeVars
      PROVE  Outside(t)'
  <2>1. UNCHANGED move_transactions
    BY <1>9 DEF storeVars
  <2>2. S \in Sides(t)'
    BY <1>7, <2>1 DEF Sides, Planned, From, To
  <2> QED
    BY <1>2, <1>9, <2>2 DEF Outside
<1>10. ASSUME NEW p \in Paths, NEW q \in Paths, NEW o \in Objects, Goes(o, p, q),
              p \in S <=> q \in S
       PROVE  \A r \in S : fs'[r] # Subject(t)
  <2>1. /\ p # q /\ fs'[p] = Vacant /\ fs'[q] = o /\ fs[p] = o
        /\ \A r \in Paths \ {p, q} : fs'[r] = fs[r]
    BY <1>0, <1>10, GoesTo DEF Goes
  <2>2. ASSUME NEW r \in S
        PROVE  fs'[r] # Subject(t)
    <3>1. CASE r = p
      BY <1>5, <2>1, <3>1
    <3>2. CASE r = q
      BY <1>6, <1>10, <2>1, <3>2
    <3>3. CASE r \notin {p, q}
      BY <1>6, <1>7, <2>1, <3>3
    <3> QED
      BY <3>1, <3>2, <3>3
  <2> QED
    BY <2>2
<1>11. ASSUME NEW c \in Calls, Forth(c) \/ Back(c)
       PROVE  Outside(t)'
  <2>1. PICK u \in Transactions : u = Request[c].transaction
    BY SystemAssumption
  <2>2. /\ Planned(u) /\ UNCHANGED storeVars
        /\ \/ Forth(c) /\ Goes(Subject(u), From(u), To(u))
           \/ Goes(Subject(u), To(u), From(u))
    BY <1>11, <2>1 DEF Forth, Back
  <2>3. Subject(u) \in Objects /\ From(u) \in Paths /\ To(u) \in Paths
    BY <1>0, <2>2, PlannedType
  <2>4. u # t
    <3>1. Forth(c) => u # t
      BY <2>1
    <3>2. ASSUME u = t, Goes(Subject(u), To(u), From(u))
          PROVE  FALSE
      BY <1>6, <1>7, <3>2 DEF Goes
    <3> QED
      BY <2>2, <3>1, <3>2
  <2>5. From(u) \in S <=> To(u) \in S
    BY <1>7, <2>2, <2>4
  <2>6. \A r \in S : fs'[r] # Subject(t)
    BY <1>10, <2>2, <2>3, <2>5
  <2> QED
    BY <1>9, <2>2, <2>6
<1>12. CASE ByUser
  <2>1. UNCHANGED storeVars
    BY <1>12 DEF ByUser
  <2>2. ASSUME NEW p \in Paths, NEW q \in Paths, fs[p] # Vacant, Goes(fs[p], p, q),
               touched' = touched \cup {fs[p]}
        PROVE  \A r \in S : fs'[r] # Subject(t)
    <3>1. fs[p] \in Objects /\ fs[p] # Subject(t)
      BY <1>0, <1>3, <2>2
    <3>2. /\ fs'[p] = Vacant /\ fs'[q] = fs[p]
          /\ \A r \in Paths \ {p, q} : fs'[r] = fs[r]
      BY <1>0, <2>2, <3>1, GoesTo
    <3> QED
      BY <1>5, <1>6, <1>7, <3>1, <3>2
  <2>3. ASSUME NEW p \in Paths, NEW o \in Objects, fs' = [fs EXCEPT ![p] = o],
               touched' = touched \cup {o}
        PROVE  \A r \in S : fs'[r] # Subject(t)
    BY <1>0, <1>3, <1>6, <1>7, <2>3
  <2>4. \A r \in S : fs'[r] # Subject(t)
    BY <1>12, <2>2, <2>3 DEF ByUser
  <2> QED
    BY <1>4, <1>9, <2>1, <2>4
<1> QED
  BY <1>4, <1>8, <1>11, <1>12, FilesChange
-----------------------------------------------------------------------------
(* Files stay where the moves of their documents lead.                       *)

\* A file goes by its own rename, or by the user's hand.
LEMMA FileGoes ==
    ASSUME PlacesInv, [Next]_vars, NEW d \in Documents, FileOf(d) \in Objects,
           FileOf(d) \notin touched', NEW p \in Paths, fs[p] = FileOf(d)
    PROVE  \/ fs'[p] = FileOf(d)
           \/ \E c \in Calls :
                 LET u == Request[c].transaction
                 IN  /\ u \in Transactions /\ Planned(u) /\ Subject(u) = FileOf(d)
                     /\ UNCHANGED storeVars /\ FileOf(d) \notin touched
                     /\ \/ Forth(c) /\ p = From(u) /\ fs'[To(u)] = FileOf(d)
                        \/ Back(c) /\ p = To(u) /\ fs'[From(u)] = FileOf(d)
<1>0. /\ SystemInv /\ OnePlace /\ fs \in [Paths -> Objects \cup {Vacant}]
      /\ touched \subseteq touched'
  BY TouchedGrows DEF PlacesInv, OwnerInv, SystemInv, SystemTypeOK
<1>1. FileOf(d) # Vacant /\ FileOf(d) \notin touched
  BY <1>0, SystemAssumption
<1>2. ASSUME NEW o \in Objects, NEW a \in Paths, NEW b \in Paths, Goes(o, a, b)
      PROVE  \/ fs'[p] = FileOf(d)
             \/ p = a /\ o = FileOf(d) /\ fs'[b] = FileOf(d)
  <2>1. /\ a # b /\ fs'[a] = Vacant /\ fs'[b] = o /\ fs[a] = o /\ fs[b] = Vacant
        /\ \A r \in Paths \ {a, b} : fs'[r] = fs[r]
    BY <1>0, <1>2, GoesTo DEF Goes
  <2>2. CASE o = FileOf(d)
    BY <1>0, <1>1, <2>1, <2>2 DEF OnePlace
  <2>3. CASE o # FileOf(d)
    BY <1>1, <2>1, <2>3
  <2> QED
    BY <2>2, <2>3
<1>3. ASSUME NEW c \in Calls, Forth(c) \/ Back(c), fs'[p] # FileOf(d)
      PROVE  \E e \in Calls :
                 LET u == Request[e].transaction
                 IN  /\ u \in Transactions /\ Planned(u) /\ Subject(u) = FileOf(d)
                     /\ UNCHANGED storeVars /\ FileOf(d) \notin touched
                     /\ \/ Forth(e) /\ p = From(u) /\ fs'[To(u)] = FileOf(d)
                        \/ Back(e) /\ p = To(u) /\ fs'[From(u)] = FileOf(d)
  <2>1. PICK u \in Transactions : u = Request[c].transaction
    BY SystemAssumption
  <2>2. /\ Planned(u) /\ UNCHANGED storeVars
        /\ \/ Forth(c) /\ Goes(Subject(u), From(u), To(u))
           \/ Back(c) /\ Goes(Subject(u), To(u), From(u))
    BY <1>3, <2>1 DEF Forth, Back
  <2>3. Subject(u) \in Objects /\ From(u) \in Paths /\ To(u) \in Paths
    BY <1>0, <2>2, PlannedType
  <2>4. /\ Subject(u) = FileOf(d)
        /\ \/ Forth(c) /\ p = From(u) /\ fs'[To(u)] = FileOf(d)
           \/ Back(c) /\ p = To(u) /\ fs'[From(u)] = FileOf(d)
    BY <1>2, <1>3, <2>2, <2>3
  <2> QED
    BY <1>1, <2>1, <2>2, <2>4
<1>4. ASSUME ByUser
      PROVE  fs'[p] = FileOf(d)
  <2>1. ASSUME NEW a \in Paths, NEW b \in Paths, fs[a] # Vacant, Goes(fs[a], a, b),
               touched' = touched \cup {fs[a]}
        PROVE  fs'[p] = FileOf(d)
    <3>1. fs[a] \in Objects /\ fs[a] # FileOf(d)
      BY <1>0, <2>1
    <3> QED
      BY <1>2, <2>1, <3>1
  <2>2. ASSUME NEW a \in Paths, NEW o \in Objects, fs[a] = Vacant, fs' = [fs EXCEPT ![a] = o]
        PROVE  fs'[p] = FileOf(d)
    BY <1>0, <1>1, <2>2
  <2> QED
    BY <1>4, <2>1, <2>2 DEF ByUser
<1> QED
  BY <1>3, <1>4, FilesChange

LEMMA HousedStep ==
    ASSUME MovesApart, PlacesInv, Housed, [Next]_vars
    PROVE  Housed'
<1>0. /\ SystemInv /\ SystemInv' /\ OnePlace /\ Asked /\ Bound /\ touched \subseteq touched'
      /\ call \in [Calls -> CallStates]
  BY TouchedGrows, SystemStep DEF PlacesInv, OwnerInv, SystemInv, SystemTypeOK, CallStates
<1>1. ASSUME NEW d \in Documents
      PROVE  HomeOf(d, documents[d].path)'
  <2>1. PICK p : p = documents'[d].path
    OBVIOUS
  <2>2. HomeOf(d, p)
    <3>1. CASE p = documents[d].path
      BY <3>1 DEF Housed
    <3>2. CASE p # documents[d].path
      <4>1. PICK t \in Transactions :
                /\ Planned(t) /\ move_transactions[t].document = d
                /\ p = To(t) \/ p = From(t)
        BY <2>1, <3>2, DocumentChange
      <4> QED
        BY <4>1 DEF Housed, HomeOf
    <3> QED
      BY <3>1, <3>2
  <2> QED
    BY <1>0, <2>1, <2>2, HomeStays DEF HomeOf
<1>2. ASSUME NEW d \in Documents, FileOf(d) \notin touched'
      PROVE  \E p \in Paths : fs'[p] = FileOf(d) /\ HomeOf(d, p)'
  <2>1. PICK p \in Paths : fs[p] = FileOf(d) /\ HomeOf(d, p)
    BY <1>0, <1>2 DEF Housed
  <2>2. CASE fs'[p] = FileOf(d)
    BY <1>0, <2>1, <2>2, HomeStays
  <2>3. ASSUME NEW u \in Transactions, Planned(u), Subject(u) = FileOf(d), FileOf(d) \notin touched,
               fs'[To(u)] = FileOf(d) \/ fs'[From(u)] = FileOf(d)
        PROVE  \E q \in Paths : fs'[q] = FileOf(d) /\ HomeOf(d, q)'
    <3>1. move_transactions[u].document = d
      BY <2>3 DEF Housed
    <3>2. HomeOf(d, To(u)) /\ HomeOf(d, From(u))
      BY <2>3, <3>1 DEF Housed, HomeOf
    <3>3. To(u) \in Paths /\ From(u) \in Paths
      BY <1>0, <2>3, PlannedType
    <3>4. PICK q \in Paths : fs'[q] = FileOf(d) /\ HomeOf(d, q)
      BY <2>3, <3>2, <3>3
    <3> QED
      BY <1>0, <3>4, HomeStays
  <2>4. FileOf(d) \in Objects
    BY DEF MovesApart
  <2> QED
    BY <1>2, <2>1, <2>2, <2>3, <2>4, FileGoes
<1>3. ASSUME NEW t \in Transactions, Planned(t)'
      PROVE  /\ HomeOf(move_transactions[t].document, From(t))'
             /\ \A d \in Documents : Subject(t)' = FileOf(d) /\ FileOf(d) \notin touched' =>
                                     move_transactions'[t].document = d
  <2>1. CASE Planned(t)
    <3>1. PICK e : e = move_transactions[t].document
      OBVIOUS
    <3>2. PICK p : p = From(t)
      OBVIOUS
    <3>3. /\ move_transactions'[t].document = e /\ Subject(t)' = Subject(t) /\ From(t)' = p
      BY <1>0, <2>1, <3>1, <3>2, RowsKeep
    <3>4. HomeOf(e, p)
      BY <2>1, <3>1, <3>2 DEF Housed
    <3>5. HomeOf(e, p)'
      BY <1>0, <3>4, HomeStays
    <3>6. HomeOf(move_transactions[t].document, From(t))'
      BY <3>3, <3>5 DEF HomeOf
    <3> QED
      BY <1>0, <2>1, <3>1, <3>3, <3>6 DEF Housed
  <2>2. CASE ~ Planned(t)
    <3>1. PICK c \in Calls :
              /\ Request[c].document = move_transactions'[t].document
              /\ Request[c].document \in Documents
              /\ From(t)' = documents[Request[c].document].path
              /\ Subject(t)' = Object(c) /\ At(c, "ticketed")
      BY <1>3, <2>2, NewRow
    <3>2. PICK e \in Documents : e = Request[c].document
      BY <3>1
    <3>3. PICK p : p = documents[e].path
      OBVIOUS
    <3>4. HomeOf(e, p)'
      BY <1>0, <3>3, HomeStays DEF Housed
    <3>5. HomeOf(move_transactions[t].document, From(t))'
      BY <3>1, <3>2, <3>3, <3>4 DEF HomeOf
    <3> QED
      BY <1>0, <3>1, <3>5 DEF Housed
  <2> QED
    BY <2>1, <2>2
<1>4. ASSUME NEW c \in Calls, At(c, "ticketed")', NEW d \in Documents, Object(c)' = FileOf(d),
             FileOf(d) \notin touched'
      PROVE  Request[c].document = d
  <2>1. CASE call'[c] = call[c]
    BY <1>0, <1>4, <2>1 DEF Housed, At, Object
  <2>2. CASE call'[c] # call[c]
    <3>1. call'[c].at = "ticketed"
      BY <1>4 DEF At
    <3>2. ~ Crash(c)
      BY <1>0, <3>1 DEF Crash, Stop, Idle
    <3>3. ~ Step(c)
      BY <1>0, <3>1, StepLeads DEF Leads
    <3>4. Begin(c)
      BY <1>0, <2>2, <3>2, <3>3, CallChange
    <3>5. /\ Request[c].kind = "move"
          /\ call'[c].record.object = fs[documents[Request[c].document].path]
      BY <1>0, <3>1, <3>4, BeginHolds
    <3>6. PICK e \in Documents : e = Request[c].document
      BY <3>5, SystemAssumption
    <3>7. PICK p \in Paths : p = documents[e].path
      BY <1>0 DEF SystemInv, SystemTypeOK, TypeOK
    <3>8. fs[p] = FileOf(d) /\ HomeOf(e, p)
      BY <1>4, <3>5, <3>6, <3>7 DEF Object, Housed
    <3>9. PICK q \in Paths : fs[q] = FileOf(d) /\ HomeOf(d, q)
      BY <1>0, <1>4 DEF Housed
    <3>10. FileOf(d) # Vacant
      BY SystemAssumption DEF MovesApart
    <3>11. p = q
      BY <1>0, <3>8, <3>9, <3>10 DEF OnePlace
    <3> QED
      BY <1>0, <3>6, <3>8, <3>9, <3>11, OneHome
  <2> QED
    BY <2>1, <2>2
<1> QED
  BY <1>1, <1>2, <1>3, <1>4 DEF Housed, FileOf
-----------------------------------------------------------------------------
(* Before its rename, and after its undo, a file is on the near side.        *)

LEMMA BeforeStep ==
    ASSUME MovesApart, PlacesInv, Housed, Divided, Before, [Next]_vars
    PROVE  Before'
<1>0. /\ SystemInv /\ OnePlace' /\ SystemInv' /\ Housed' /\ Asked'
  BY OnePlaceStep, SystemStep, HousedStep, AskedStep DEF PlacesInv, OwnerInv
<1> SUFFICES ASSUME NEW t \in Transactions, State(t)' \in {"planned", "validated"}, Own(t)'
             PROVE  Outside(t)'
  BY DEF Before
<1>1. Planned(t)'
  BY StateIsPlanned DEF State, Planned, NoRow
<1>2. CASE Planned(t)
  <2>1. State(t) \in {"planned", "validated"}
    <3>1. CASE State(t)' = State(t)
      BY <3>1
    <3>2. CASE State(t)' # State(t)
      <4>1. \E state : <<State(t), state>> \in Allowed /\ State(t)' = state
        BY <1>0, <1>2, <3>2, StateChange
      <4> QED
        BY <4>1 DEF Allowed
    <3> QED
      BY <3>1, <3>2
  <2>2. ASSUME NEW c \in Calls, Request[c].transaction = t, Forth(c)
        PROVE  FALSE
    BY <2>1, <2>2 DEF Forth
  <2>3. Own(t)
    <3>1. /\ Subject(t)' = Subject(t) /\ move_transactions'[t].document = move_transactions[t].document
          /\ touched \subseteq touched'
      BY <1>0, <1>2, RowsKeep, TouchedGrows
    <3> QED
      BY <3>1 DEF Own, FileOf
  <2>4. Outside(t)
    BY <2>1, <2>3 DEF Before
  <2> QED
    BY <1>2, <2>2, <2>4, OutsideStays
<1>3. CASE ~ Planned(t)
  <2>1. {To(t)'} \in Sides(t)'
    BY <1>1, <1>3, NewSide
  <2>2. PICK d \in Documents : d = move_transactions'[t].document
    BY <1>1, <1>3, NewRow
  <2>3. ~ HomeOf(d, To(t)')
    BY <1>1, <1>3, NewHome
  <2>4. Subject(t)' = FileOf(d) /\ FileOf(d) \notin touched'
    BY <2>2 DEF Own, FileOf
  <2>5. fs' = fs /\ To(t)' \in Paths
    BY <1>1, <1>3, NewRow DEF worldVars
  <2>6. FileOf(d) \notin touched
    BY <2>4, TouchedGrows
  <2>7. PICK p \in Paths : fs[p] = FileOf(d) /\ HomeOf(d, p)
    BY <2>6 DEF Housed
  <2>8. fs[To(t)'] # FileOf(d)
    BY <2>3, <2>5, <2>7, SystemAssumption DEF PlacesInv, OnePlace, MovesApart
  <2> QED
    BY <2>1, <2>4, <2>5, <2>8 DEF Outside
<1> QED
  BY <1>2, <1>3

\* A call at these places is the only one that could rename, or it is too late to.
Parted(c) ==
    \/ At(c, "moving")
    \/ At(c, "refused") /\ State(Request[c].transaction) = "moving"
    \/ At(c, "undo_verify_source")
    \/ At(c, "undo_complete")

LEMMA NoRenameThen ==
    ASSUME PlacesInv, [Next]_vars, NEW c \in Calls, Parted(c), NEW e \in Calls,
           Request[e].transaction = Request[c].transaction, Forth(e)
    PROVE  e = c
<1>0. SystemInv /\ OwnerInv /\ Alone /\ Kinds
  BY DEF PlacesInv, OwnerInv
<1>1. /\ Request[e].kind = "move" /\ At(e, "moving") /\ State(Request[c].transaction) = "moving"
  BY DEF Forth
<1>2. CASE At(c, "moving") \/ At(c, "refused")
  <2>1. /\ Request[c].kind = "move" /\ c # e => call[c].at \in Waiting
        /\ Request[c].kind = "recover" /\ c # e => call[c].at = "idle"
    BY <1>0, <1>1 DEF Alone, At, MovePlaces
  <2> QED
    BY <1>0, <1>2, <2>1, SystemAssumption DEF Kinds, At, Waiting, Undoing
<1>3. CASE At(c, "undo_verify_source") \/ At(c, "undo_complete")
  <2>1. OwnsRollback(Ctx(c)) /\ Ctx(c).transaction = Request[c].transaction
    BY <1>0, <1>3 DEF OwnerInv, Owning, Undoing, At, Ctx
  <2>2. RollbackState(Request[c].transaction) = "rolling_back"
    BY <2>1 DEF OwnsRollback, RollbackState
  <2> QED
    BY <1>0, <1>1, <2>2, SettledFirst, SystemAssumption
<1> QED
  BY <1>2, <1>3 DEF Parted

LEMMA ApartStep ==
    ASSUME MovesApart, PlacesInv, Housed, Divided, Before, Apart, [Next]_vars
    PROVE  Apart'
<1>0. /\ SystemInv /\ OnePlace' /\ SystemInv' /\ Divided' /\ OnePlace /\ Pace /\ Kinds /\ Kinds'
      /\ Bound /\ call \in [Calls -> CallStates] /\ PlacesInv'
  BY PlacesStep, DividedStep DEF PlacesInv, OwnerInv, SystemInv, SystemTypeOK, CallStates
<1> SUFFICES ASSUME NEW c \in Calls, NEW t \in Transactions, t = Request[c].transaction,
                    Parted(c)', Own(t)'
             PROVE  Outside(t)'
  BY SystemAssumption DEF Apart, Parted
<1>1. call'[c].at \in {"moving", "refused", "undo_verify_source", "undo_complete"}
  BY DEF Parted, At
<1>2. ASSUME Parted(c), Planned(t), \/ call'[c] = call[c] \/ call'[c].at # "renamed"
      PROVE  Outside(t)'
  <2>1. Own(t)
    <3>1. /\ Subject(t)' = Subject(t) /\ move_transactions'[t].document = move_transactions[t].document
          /\ touched \subseteq touched'
      BY <1>0, <1>2, RowsKeep, TouchedGrows
    <3> QED
      BY <3>1 DEF Own, FileOf
  <2>2. Outside(t)
    BY <1>2, <2>1 DEF Apart, Parted
  <2>3. ASSUME NEW e \in Calls, Request[e].transaction = t, Forth(e)
        PROVE  FALSE
    <3>1. e = c
      BY <1>2, <2>3, NoRenameThen
    <3> QED
      BY <1>1, <2>3, <3>1 DEF Forth
  <2> QED
    BY <1>2, <2>2, <2>3, OutsideStays
<1>3. CASE call'[c] = call[c]
  <2>1. call[c].at \notin Waiting /\ Planned(t)
    BY <1>0, <1>1, <1>3 DEF Waiting, Bound
  <2>2. Parted(c)
    <3>1. CASE At(c, "refused")
      <4>1. State(t)' = "moving"
        BY <1>3, <3>1 DEF Parted, At
      <4>2. State(t) = "moving"
        BY <3>1, <4>1, StillMoving DEF RecoverPlaces, At
      <4> QED
        BY <3>1, <4>2 DEF Parted
    <3>2. CASE ~ At(c, "refused")
      BY <1>3, <3>2 DEF Parted, At
    <3> QED
      BY <3>1, <3>2
  <2> QED
    BY <1>2, <1>3, <2>1, <2>2
<1>4. CASE call'[c] # call[c]
  <2>1. ~ Begin(c)
    BY <1>0, <1>1, BeginHolds
  <2>2. ~ Crash(c)
    BY <1>0, <1>1 DEF Crash, Stop, Idle
  <2>3. Step(c) /\ <<call[c].at, call'[c].at>> \in Leads
    BY <1>0, <1>1, <1>4, <2>1, <2>2, CallChange, StepLeads
  <2>4. /\ call[c].at \in {"validated", "moving", "classify", "undo_classify", "undo_rename",
                           "undo_verify_source"}
        /\ call[c].at = "moving" => call'[c].at = "refused"
    BY <1>1, <2>3 DEF Leads
  <2>5. /\ Planned(t) /\ Object(c) = Subject(t) /\ Source(c) = From(t) /\ Destination(c) = To(t)
    BY <1>0, <2>4 DEF Bound, Waiting
  <2>6. Subject(t)' = Subject(t) /\ To(t)' = To(t) /\ From(t)' = From(t) /\ Planned(t)'
    BY <1>0, <2>5, RowsKeep
  <2>7. Subject(t) \in Objects /\ From(t) \in Paths /\ To(t) \in Paths
    BY <1>0, <2>5, PlannedType
  <2>8. ASSUME fs'[From(t)] = Subject(t)
        PROVE  Outside(t)'
    <3>1. PICK S : S \in Sides(t)'
      BY <1>0, <2>6 DEF Divided
    <3>2. S \in SUBSET Paths /\ From(t) \notin S
      BY <2>6, <3>1 DEF Sides
    <3>3. Subject(t) # Vacant
      BY <2>7, SystemAssumption
    <3>4. \A p \in S : fs'[p] # Subject(t)
      BY <1>0, <2>7, <2>8, <3>2, <3>3 DEF OnePlace
    <3> QED
      BY <2>6, <3>1, <3>4 DEF Outside
  <2>9. CASE At(c, "validated")
    <3>1. Request[c].kind = "move"
      BY <1>0, <2>9, SystemAssumption DEF Kinds, At, RecoverPlaces, Undoing
    <3>2. State(t) = "validated"
      BY <1>0, <2>9, <3>1 DEF Pace, At, MovePlaces
    <3>3. Own(t)
      <4>1. /\ move_transactions'[t].document = move_transactions[t].document
            /\ touched \subseteq touched'
        BY <1>0, <2>5, RowsKeep, TouchedGrows
      <4> QED
        BY <2>6, <4>1 DEF Own, FileOf
    <3>4. Outside(t)
      BY <3>2, <3>3 DEF Before
    <3>5. \A e \in Calls : Request[e].transaction = t => ~ Forth(e)
      BY <3>2 DEF Forth
    <3> QED
      BY <2>5, <3>4, <3>5, OutsideStays
  <2>10. CASE At(c, "moving") \/ At(c, "undo_verify_source")
    BY <1>1, <1>2, <2>5, <2>10 DEF Parted
  <2>11. CASE At(c, "classify")
    <3>1. Classify(c)
      BY <2>3, <2>11, StepAt
    <3>2. call'[c].at = "refused"
      BY <2>3, <1>1, <2>11 DEF Leads, At
    <3>3. \A place \in {"renamed", "unverified"} : Go(c, place) => call'[c].at # "refused"
      BY <1>0, GoLeads
    <3>4. Disposition(c) = "source"
      BY <3>1, <3>2, <3>3 DEF Classify
    <3>5. fs[From(t)] = Subject(t) /\ fs' = fs
      BY <2>5, <3>1, <3>4 DEF Disposition, ObjectAt, OnlyAt, Classify, worldVars
    <3> QED
      BY <2>8, <3>5
  <2>12. CASE At(c, "undo_classify")
    <3>1. UndoStep(c)
      BY <2>3, <2>12, StepAt DEF Undoing, At
    <3>2. UndoClassify(c)
      BY <2>12, <3>1 DEF UndoStep, ReadRollbackState, BeginRollback, UndoVerifyDestination,
                RollbackNoReplace, UndoVerifySource, UndoComplete, UndoFail, At
    <3>3. call'[c].at = "undo_verify_source"
      BY <2>3, <1>1, <2>12 DEF Leads, At
    <3>4. \A place \in {"undo_verify_destination", "undo_fail"} :
              Go(c, place) => call'[c].at # "undo_verify_source"
      BY <1>0, GoLeads
    <3>5. Disposition(c) = "source"
      BY <3>2, <3>3, <3>4 DEF UndoClassify
    <3>6. fs[From(t)] = Subject(t) /\ fs' = fs
      BY <2>5, <3>2, <3>5 DEF Disposition, ObjectAt, OnlyAt, UndoClassify, worldVars
    <3> QED
      BY <2>8, <3>6
  <2>13. CASE At(c, "undo_rename")
    <3>1. UndoStep(c)
      BY <2>3, <2>13, StepAt DEF Undoing, At
    <3>2. RollbackNoReplace(c)
      BY <2>13, <3>1 DEF UndoStep, ReadRollbackState, BeginRollback, UndoVerifyDestination,
                UndoClassify, UndoVerifySource, UndoComplete, UndoFail, At
    <3>3. call'[c].at = "undo_verify_source"
      BY <2>3, <1>1, <2>13 DEF Leads, At
    <3>4. Go(c, "undo_fail") => call'[c].at # "undo_verify_source"
      BY <1>0, GoLeads
    <3>5. ObjectAt(c, To(t), From(t)) /\ Rename(c, To(t), From(t))
      BY <2>5, <3>2, <3>3, <3>4 DEF RollbackNoReplace, TryRename
    <3>6. Goes(Subject(t), To(t), From(t))
      BY <2>5, <3>5 DEF ObjectAt, OnlyAt, Rename, Goes
    <3>7. fs'[From(t)] = Subject(t)
      BY <1>0, <2>7, <3>6, GoesTo
    <3> QED
      BY <2>8, <3>7
  <2> QED
    BY <2>4, <2>9, <2>10, <2>11, <2>12, <2>13 DEF At
<1> QED
  BY <1>3, <1>4
-----------------------------------------------------------------------------
(* A file is where the database says.                                        *)

\* A rollback ends by its own undo, which puts the document back.
LEMMA RollbackEnds ==
    ASSUME PlacesInv, [Next]_vars, NEW t \in Transactions, Planned(t),
           RollbackState(t)' \notin {RollbackState(t), "rolling_back", "rollback_failed"}
    PROVE  \E c \in Calls :
              /\ Request[c].transaction = t /\ At(c, "undo_complete")
              /\ RollbackState(t)' = "rolled_back" /\ fs' = fs
              /\ documents'[move_transactions[t].document].path = From(t)
<1>0. /\ SystemInv /\ Bound /\ Planned(t)
      /\ documents \in [Documents -> [path : Paths, transaction : Transactions \cup {None}]]
      /\ move_rollbacks \in [Transactions -> Rollbacks \cup {NoRollback}]
  BY DEF PlacesInv, OwnerInv, SystemInv, SystemTypeOK, TypeOK
<1>1. move_rollbacks'[t] # move_rollbacks[t]
  BY DEF RollbackState
<1>2. PICK c \in Calls : /\ call[c].at \in Undoing /\ Request[c].transaction = t
                         /\ At(c, "undo_start") \/ Stop(c)
  BY <1>0, <1>1, RollbackChange
<1>3. \E e \in Calls : \/ BeginRollback(e) \/ UndoComplete(e) \/ UndoFail(e)
  <2>1. ASSUME NEW e \in Calls, Begin(e) \/ Crash(e) \/ PlanMove(e) \/ Classify(e)
        PROVE  UNCHANGED move_rollbacks
    BY <2>1 DEF Begin, Ticket, BeginRecovery, BeginUndo, Crash, PlanMove, RecordPlan,
                Classify, storeVars
  <2>2. ASSUME NEW e \in Calls, MoveStep(e) \/ ForwardStep(e)
        PROVE  UNCHANGED move_rollbacks
    <3>1. CASE RenameNoReplace(e) \/ VerifyDestination(e)
      BY <3>1 DEF RenameNoReplace, TryRename, VerifyDestination, Check, storeVars
    <3>2. ASSUME NEW state, NEW place, Persist(e, state, place)
          PROVE  UNCHANGED move_rollbacks
      BY <3>2 DEF Persist, Transition, storeVars
    <3> QED
      BY <2>2, <3>1, <3>2 DEF MoveStep, ForwardStep, Validate, BeginMoving, RecordFailure,
             RecordMoved, RecordRollbackRequired, RecordVerified, Commit
  <2>3. ASSUME NEW e \in Calls, UndoStep(e), ~ BeginRollback(e), ~ UndoComplete(e), ~ UndoFail(e)
        PROVE  UNCHANGED move_rollbacks
    BY <2>3 DEF UndoStep, ReadRollbackState, UndoClassify, UndoVerifyDestination,
                RollbackNoReplace, UndoVerifySource, TryRename, Check, storeVars
  <2>4. User \/ UNCHANGED vars => UNCHANGED move_rollbacks
    BY DEF User, UserRename, UserCreate, UserEdit, Meddle, vars, storeVars
  <2> QED
    BY <1>1, <2>1, <2>2, <2>3, <2>4 DEF Next, Step
<1>4. PICK e \in Calls : BeginRollback(e) \/ UndoComplete(e) \/ UndoFail(e)
  BY <1>3
<1>5. PICK u \in Transactions : u = Request[e].transaction
  BY SystemAssumption
<1>6. PICK k : k = Ctx(e)
  OBVIOUS
<1>7. k.transaction = u /\ k.document = call[e].record.document /\ k.source = Source(e)
  BY <1>5, <1>6 DEF Ctx
<1>8. \/ StartRollback(k)
      \/ CompleteRollback(k) /\ At(e, "undo_complete") /\ UNCHANGED worldVars
      \/ FailRollback(k)
  BY <1>1, <1>4, <1>6 DEF BeginRollback, UndoComplete, UndoFail, storeVars
<1>9. u = t
  BY <1>0, <1>1, <1>5, <1>7, <1>8, RollbackWrites DEF SystemInv, SystemTypeOK
<1>10. ~ StartRollback(k)
  <2>1. ASSUME StartRollback(k)
        PROVE  FALSE
    <3>1. OwnsRollback(k)'
      BY <1>0, <1>5, <1>7, <2>1, RollbackWrites DEF SystemInv, SystemTypeOK
    <3>2. RollbackState(t)' = "rolling_back"
      BY <1>7, <1>9, <3>1 DEF OwnsRollback, RollbackState
    <3> QED
      BY <3>2
  <2> QED
    BY <2>1
<1>11. ~ FailRollback(k)
  <2>1. ASSUME FailRollback(k)
        PROVE  FALSE
    <3>1. move_rollbacks' = [move_rollbacks EXCEPT ![t].state = "rollback_failed"]
      BY <1>7, <1>9, <2>1 DEF FailRollback
    <3>2. move_rollbacks'[t].state = "rollback_failed"
      BY <1>0, <3>1 DEF Rollbacks, NoRollback
    <3> QED
      BY <3>2 DEF RollbackState
  <2> QED
    BY <2>1
<1>12. CompleteRollback(k) /\ At(e, "undo_complete") /\ fs' = fs
  BY <1>8, <1>10, <1>11 DEF worldVars
<1>13. RollbackState(t)' = "rolled_back"
  <2>1. move_rollbacks' = [move_rollbacks EXCEPT ![t].state = "rolled_back"]
    BY <1>7, <1>9, <1>12 DEF CompleteRollback
  <2>2. move_rollbacks'[t].state = "rolled_back"
    BY <1>0, <2>1 DEF Rollbacks, NoRollback
  <2> QED
    BY <2>2 DEF RollbackState
<1>14. k.document = move_transactions[t].document /\ k.source = From(t)
  BY <1>0, <1>5, <1>7, <1>9, <1>12 DEF Bound, At, Waiting
<1>15. documents' = [documents EXCEPT ![k.document] = [path |-> k.source, transaction |-> None]]
  BY <1>12 DEF CompleteRollback, RestoreDocumentPath
<1>16. k.document \in Documents
  BY <1>0, <1>14, PlannedType
<1>17. documents'[k.document].path = k.source
  BY <1>0, <1>15, <1>16
<1> QED
  BY <1>5, <1>9, <1>12, <1>13, <1>14, <1>17

\* A move ends with its document at the destination, or where its file is not there.
LEMMA MoveEnds ==
    ASSUME MovesApart, PlacesInv, Apart, [Next]_vars, NEW t \in Transactions,
           State(t) \in {"moving", "moved", "verified", "rollback_required"}, Own(t),
           State(t)' \notin {"moving", "moved", "verified", "rollback_required"}
    PROVE  /\ fs' = fs
           /\ \/ documents'[move_transactions[t].document].path = To(t)
              \/ Outside(t)
<1>0. /\ SystemInv /\ Bound /\ Planned(t)
      /\ documents \in [Documents -> [path : Paths, transaction : Transactions \cup {None}]]
  BY StateIsPlanned DEF PlacesInv, OwnerInv, SystemInv, SystemTypeOK, TypeOK
<1>1. PICK c \in Calls :
              /\ Request[c].transaction = t
              /\ UNCHANGED worldVars
              /\ \E state, place : /\ <<call[c].at, state, place>> \in Journaling
                                  /\ <<State(t), state>> \in Allowed
                                  /\ State(t)' = state
                                  /\ Transition(Ctx(c), state)
  BY <1>0, StateChange
<1>2. PICK state, place : /\ <<call[c].at, state, place>> \in Journaling
                          /\ <<State(t), state>> \in Allowed
                          /\ State(t)' = state
                          /\ Transition(Ctx(c), state)
  BY <1>1
<1>3. state \in {"failed", "committed"}
  BY <1>2 DEF Allowed
<1>4. fs' = fs
  BY <1>1 DEF worldVars
<1>5. CASE state = "failed"
  <2>1. At(c, "refused") /\ State(t) = "moving"
    BY <1>2, <1>5 DEF Journaling, Allowed, At
  <2> QED
    BY <1>1, <1>4, <2>1 DEF Apart
<1>6. CASE state = "committed"
  <2>1. PICK k : k = Ctx(c)
    OBVIOUS
  <2>2. At(c, "verified")
    BY <1>2, <1>6 DEF Journaling, At
  <2>3. k.document = move_transactions[t].document /\ k.destination = To(t)
    BY <1>0, <1>1, <2>1, <2>2 DEF Ctx, Bound, At, Waiting
  <2>4. documents' = [documents EXCEPT ![k.document] =
                         [path |-> k.destination, transaction |-> k.transaction]]
    BY <1>2, <1>6, <2>1 DEF Transition, CommitDocumentPath
  <2>5. k.document \in Documents
    BY <1>0, <2>3, PlannedType
  <2>6. documents'[k.document].path = k.destination
    BY <1>0, <2>4, <2>5
  <2> QED
    BY <1>4, <2>3, <2>6
<1> QED
  BY <1>3, <1>5, <1>6

\* The far side is where a move leads.
LEMMA NotThere ==
    ASSUME NEW t, Outside(t)
    PROVE  fs[To(t)] # Subject(t)
BY DEF Outside, Sides

LEMMA FoundStep ==
    ASSUME MovesApart, FilesInv, [Next]_vars
    PROVE  Found'
<1>0. /\ SystemInv /\ PlacesInv /\ Housed /\ Apart /\ Found /\ touched \subseteq touched' /\ Bound
      /\ VerifiedStays /\ OnePlace
  BY TouchedGrows DEF FilesInv, PlacesInv, OwnerInv
<1> SUFFICES ASSUME NEW d \in Documents, NoStrangersFor(d)', FileOf(d) \notin touched'
             PROVE  \E p \in Paths :
                       /\ fs'[p] = FileOf(d)
                       /\ \/ p = documents'[d].path
                          \/ \E t \in Transactions :
                                Planned(t)' /\ Subject(t)' = FileOf(d) /\ Accounts(t, p)'
  BY DEF Found, FileOf
<1>1. FileOf(d) \notin touched /\ FileOf(d) \in Objects
  BY <1>0 DEF MovesApart
<1>2. NoStrangersFor(d)
  <2>1. ASSUME NEW t \in Transactions, Planned(t), move_transactions[t].document = d
        PROVE  Subject(t) = FileOf(d)
    <3>1. /\ Planned(t)' /\ move_transactions'[t].document = d /\ Subject(t)' = Subject(t)
      BY <1>0, <2>1, RowsKeep
    <3> QED
      BY <3>1 DEF NoStrangersFor, FileOf
  <2> QED
    BY <2>1 DEF NoStrangersFor
<1>3. PICK p \in Paths :
          /\ fs[p] = FileOf(d)
          /\ \/ p = documents[d].path
             \/ \E t \in Transactions : Planned(t) /\ Subject(t) = FileOf(d) /\ Accounts(t, p)
  BY <1>0, <1>1, <1>2 DEF Found
<1>4. CASE fs'[p] # FileOf(d)
  <2>1. PICK c \in Calls :
           LET u == Request[c].transaction
           IN  /\ u \in Transactions /\ Planned(u) /\ Subject(u) = FileOf(d)
               /\ UNCHANGED storeVars
               /\ \/ Forth(c) /\ p = From(u) /\ fs'[To(u)] = FileOf(d)
                  \/ Back(c) /\ p = To(u) /\ fs'[From(u)] = FileOf(d)
    BY <1>0, <1>1, <1>3, <1>4, FileGoes
  <2>2. PICK u \in Transactions : u = Request[c].transaction
    BY <2>1
  <2>3. Planned(u)' /\ Subject(u)' = FileOf(d)
    BY <1>0, <2>1, <2>2, RowsKeep
  <2>4. UNCHANGED <<move_transactions, move_rollbacks>>
    BY <2>1 DEF storeVars
  <2>5. From(u) \in Paths /\ To(u) \in Paths
    BY <1>0, <2>1, <2>2, PlannedType
  <2>6. CASE Forth(c)
    <3>1. State(u) = "moving"
      BY <2>2, <2>6 DEF Forth
    <3>2. RollbackState(u) # "rolled_back"
      BY <1>0, <3>1, SettledFirst
    <3>3. Accounts(u, To(u))
      BY <3>1, <3>2 DEF Accounts
    <3>4. PICK q \in Paths : q = To(u)
      BY <2>5
    <3>5. Accounts(u, q)'
      BY <2>4, <3>3, <3>4 DEF Accounts, State, RollbackState, To, From
    <3>6. fs'[q] = FileOf(d)
      <4>1. ~ Back(c)
        BY <2>6 DEF Forth, Back, At
      <4> QED
        BY <2>1, <2>2, <3>4, <4>1
    <3> QED
      BY <2>3, <3>5, <3>6
  <2>7. CASE Back(c)
    <3>1. RollbackState(u) = "rolling_back"
      BY <2>2, <2>7 DEF Back
    <3>2. Accounts(u, From(u))
      BY <3>1 DEF Accounts
    <3>3. PICK q \in Paths : q = From(u)
      BY <2>5
    <3>4. Accounts(u, q)'
      BY <2>4, <3>2, <3>3 DEF Accounts, State, RollbackState, To, From
    <3>5. fs'[q] = FileOf(d)
      <4>1. ~ Forth(c)
        BY <2>7 DEF Forth, Back, At
      <4> QED
        BY <2>1, <2>2, <3>3, <4>1
    <3> QED
      BY <2>3, <3>4, <3>5
  <2> QED
    BY <2>1, <2>6, <2>7
<1>5. CASE fs'[p] = FileOf(d)
  <2>1. CASE p = documents[d].path
    <3>1. CASE documents'[d].path = documents[d].path
      BY <1>5, <2>1, <3>1
    <3>2. CASE documents'[d].path # documents[d].path
      <4>1. PICK c \in Calls :
              LET t == Request[c].transaction
              IN  /\ t \in Transactions /\ Planned(t) /\ move_transactions[t].document = d
                  /\ UNCHANGED worldVars
                  /\ \/ /\ At(c, "verified") /\ State(t) = "verified"
                        /\ documents'[d].path = To(t)
                     \/ /\ At(c, "undo_complete") /\ CompleteRollback(Ctx(c))
                        /\ documents'[d].path = From(t)
        BY <1>0, <3>2, DocumentChange
      <4>2. PICK t \in Transactions : t = Request[c].transaction
        BY <4>1
      <4>3. Subject(t) = FileOf(d) /\ Own(t)
        BY <1>1, <1>2, <4>1, <4>2 DEF NoStrangersFor, Own
      <4>4. From(t) \in Paths /\ To(t) \in Paths /\ fs' = fs
        BY <1>0, <4>1, <4>2, PlannedType DEF worldVars
      <4>5. CASE State(t) = "verified" /\ documents'[d].path = To(t)
        <5>1. fs[To(t)] = FileOf(d)
          BY <1>0, <1>1, <4>3, <4>5 DEF VerifiedStays, State, Subject, To
        <5> QED
          BY <4>4, <4>5, <5>1
      <4>6. CASE /\ At(c, "undo_complete") /\ CompleteRollback(Ctx(c))
                 /\ documents'[d].path = From(t)
        <5>1. Outside(t)
          BY <1>0, <4>2, <4>3, <4>6 DEF Apart
        <5>2. p # To(t)
          BY <1>3, <4>3, <5>1, NotThere
        <5>3. PICK k : k = Ctx(c)
          OBVIOUS
        <5>4. k.document = d /\ k.source = From(t) /\ k.destination = To(t)
          BY <1>0, <4>1, <4>2, <4>6, <5>3 DEF Ctx, Bound, At, Waiting
        <5>5. documents[d].path \in {From(t), To(t)}
          BY <4>6, <5>3, <5>4 DEF CompleteRollback, MayCompleteRollback, ExpectedPath
        <5> QED
          BY <1>5, <2>1, <4>6, <5>2, <5>5
      <4> QED
        BY <4>1, <4>2, <4>5, <4>6
    <3> QED
      BY <3>1, <3>2
  <2>2. ASSUME NEW t \in Transactions, Planned(t), Subject(t) = FileOf(d), Accounts(t, p)
        PROVE  \/ p = documents'[d].path
               \/ Planned(t)' /\ Subject(t)' = FileOf(d) /\ Accounts(t, p)'
    <3>1. move_transactions[t].document = d /\ Own(t)
      BY <1>0, <1>1, <2>2 DEF Housed, Own
    <3>2. Planned(t)' /\ Subject(t)' = FileOf(d) /\ From(t)' = From(t) /\ To(t)' = To(t)
      BY <1>0, <2>2, RowsKeep
    <3>3. ASSUME RollbackState(t)' = "rolled_back", RollbackState(t) # "rolled_back"
          PROVE  p = documents'[d].path
      <4>1. PICK c \in Calls :
              /\ Request[c].transaction = t /\ At(c, "undo_complete")
              /\ documents'[move_transactions[t].document].path = From(t)
        BY <1>0, <2>2, <3>3, RollbackEnds
      <4>2. fs[To(t)] # FileOf(d)
        BY <1>0, <2>2, <3>1, <4>1, NotThere DEF Apart
      <4>3. p = From(t)
        BY <1>3, <2>2, <4>2 DEF Accounts
      <4> QED
        BY <3>1, <4>1, <4>3
    <3>4. CASE /\ p = To(t) /\ RollbackState(t) # "rolled_back"
               /\ State(t) \in {"moving", "moved", "verified", "rollback_required"}
      <4>1. CASE State(t)' \in {"moving", "moved", "verified", "rollback_required"}
        BY <3>2, <3>3, <3>4, <4>1 DEF Accounts
      <4>2. CASE State(t)' \notin {"moving", "moved", "verified", "rollback_required"}
        <5>1. documents'[d].path = To(t) \/ Outside(t)
          BY <1>0, <3>1, <3>4, <4>2, MoveEnds
        <5> QED
          BY <1>3, <2>2, <3>4, <5>1, NotThere
      <4> QED
        BY <4>1, <4>2
    <3>5. CASE p = From(t) /\ RollbackState(t) \in {"rolling_back", "rollback_failed"}
      <4>1. CASE RollbackState(t)' \in {"rolling_back", "rollback_failed"}
        BY <3>2, <3>5, <4>1 DEF Accounts
      <4>2. CASE RollbackState(t)' \notin {"rolling_back", "rollback_failed"}
        <5>1. RollbackState(t)' = "rolled_back"
          BY <1>0, <2>2, <3>5, <4>2, RollbackEnds
        <5> QED
          BY <3>3, <3>5, <5>1
      <4> QED
        BY <4>1, <4>2
    <3> QED
      BY <2>2, <3>4, <3>5 DEF Accounts
  <2> QED
    BY <1>3, <1>5, <2>1, <2>2
<1> QED
  BY <1>4, <1>5

LEMMA FilesStep ==
    ASSUME MovesApart, FilesInv, [Next]_vars
    PROVE  FilesInv'
BY PlacesStep, HousedStep, DividedStep, BeforeStep, ApartStep, FoundStep DEF FilesInv

LEMMA FilesInit ==
    ASSUME MovesApart, Init
    PROVE  FilesInv
<1>1. /\ \A c \in Calls : call[c].at = "idle"
      /\ \A t \in Transactions : /\ move_transactions[t] = NoRow
                                  /\ move_transactions[t].state = "absent"
      /\ \A d \in Documents : documents[d].path = InitialPath[d]
      /\ fs = InitialFiles
  BY DEF Init, StoreInit, Idle, NoRow
<1>2. \A d \in Documents : InitialPath[d] \in Paths /\ fs[InitialPath[d]] = FileOf(d)
  BY <1>1, StoreAssumption DEF FileOf
<1>3. Housed
  BY <1>1, <1>2 DEF Housed, HomeOf, Planned, At
<1>4. Divided /\ Before /\ Apart
  BY <1>1 DEF Divided, Before, Apart, Planned, State, At
<1>5. Found
  BY <1>1, <1>2 DEF Found
<1> QED
  BY <1>3, <1>4, <1>5, PlacesInit DEF FilesInv

LEMMA FilesInvariance == ASSUME MovesApart PROVE Spec => []FilesInv
<1>1. Init => FilesInv
  BY FilesInit
<1>2. FilesInv /\ [Next]_vars => FilesInv'
  BY FilesStep
<1> QED
  BY <1>1, <1>2, PTL DEF Spec

\* A transaction that accounts for a file journals the place as one of its own.
LEMMA AccountsJournaled ==
    ASSUME SystemInv, NEW t \in Transactions, NEW p, Accounts(t, p)
    PROVE  p \in JournaledPlaces(t)
<1>1. CASE RollbackState(t) \in {"rolling_back", "rollback_failed"}
  <2>1. State(t) \in {"committed", "rollback_required"}
    BY <1>1, SettledFirst
  <2>2. p \in {From(t), To(t)}
    BY DEF Accounts
  <2> QED
    BY <1>1, <2>1, <2>2 DEF JournaledPlaces, State, From, To
<1>2. CASE RollbackState(t) \notin {"rolling_back", "rollback_failed"}
  <2>1. /\ p = To(t) /\ RollbackState(t) # "rolled_back"
        /\ State(t) \in {"moving", "moved", "verified", "rollback_required"}
    BY <1>2 DEF Accounts
  <2>2. CASE State(t) \in {"moving", "rollback_required"}
    BY <2>1, <2>2 DEF JournaledPlaces, State, From, To
  <2>3. CASE State(t) \in {"moved", "verified"}
    BY <2>1, <2>3 DEF JournaledPlaces, State, From, To
  <2> QED
    BY <2>1, <2>2, <2>3
<1> QED
  BY <1>1, <1>2

LEMMA FoundIsFindable == FilesInv /\ NoStrangers => FindableFile
<1> SUFFICES ASSUME FilesInv, NoStrangers
             PROVE  FindableFile
  OBVIOUS
<1>0. SystemInv /\ Found
  BY DEF FilesInv, PlacesInv, OwnerInv
<1> SUFFICES ASSUME NEW d \in Documents, FileOf(d) \notin touched
             PROVE  \E p \in Paths :
                       /\ fs[p] = FileOf(d)
                       /\ \/ p = documents[d].path
                          \/ \E t \in Transactions : /\ move_transactions[t].object = FileOf(d)
                                                      /\ p \in JournaledPlaces(t)
  BY DEF FindableFile
<1>1. PICK p \in Paths :
          /\ fs[p] = FileOf(d)
          /\ \/ p = documents[d].path
             \/ \E t \in Transactions : Planned(t) /\ Subject(t) = FileOf(d) /\ Accounts(t, p)
  BY <1>0 DEF Found, NoStrangers
<1> QED
  BY <1>0, <1>1, AccountsJournaled DEF Subject

(* A file that only this program moved is where the database says, at the    *)
(* path of its document or at an endpoint of a move or rollback that is not  *)
(* over, for any number of moves, recoveries and undos that crash anywhere   *)
(* and are made again, and whatever the user does to other files: as long as *)
(* no move was planned for a file the user had put in a document's place.    *)
THEOREM FilesAreFound == ASSUME MovesApart PROVE Spec => [](NoStrangers => FindableFile)
<1>1. FilesInv => (NoStrangers => FindableFile)
  BY FoundIsFindable
<1> QED
  BY <1>1, FilesInvariance, PTL
-----------------------------------------------------------------------------
(* If the user leaves the files alone, no move takes a stranger.             *)

\* A file that is no document's.
Stranger(o) == o # Vacant /\ \A d \in Documents : o # FileOf(d)

HandsOff ==
    /\ FilesInv
    /\ touched = {} /\ meddling = 0
    /\ \A p \in Paths : Stranger(fs[p]) \/ Stranger(InitialFiles[p]) => fs[p] = InitialFiles[p]
    /\ \A t \in Transactions : State(t) = "committed" => ~ Stranger(InitialFiles[To(t)])
    /\ \A c \in Calls : At(c, "ticketed") => Object(c) = FileOf(Request[c].document)
    /\ NoStrangers

LEMMA HandsOffStep ==
    ASSUME MovesApart, MaxMeddling = 0, HandsOff, [Next]_vars
    PROVE  HandsOff'
<1>0. /\ SystemInv /\ PlacesInv /\ Housed /\ OnePlace /\ VerifiedStays /\ NoStrangers
      /\ Sourced /\ Asked /\ call \in [Calls -> CallStates]
  BY DEF HandsOff, FilesInv, PlacesInv, OwnerInv, SystemInv, SystemTypeOK, CallStates
<1>1. FilesInv'
  BY FilesStep DEF HandsOff
<1>2. touched' = {} /\ meddling' = 0 /\ ~ User
  <2>1. ASSUME NEW c \in Calls, Begin(c) \/ Step(c) \/ Crash(c)
        PROVE  UNCHANGED <<touched, meddling>>
    BY <2>1 DEF Begin, Ticket, BeginRecovery, BeginUndo, Crash, Step, PlanMove, MoveStep, Validate,
       BeginMoving, RenameNoReplace, Classify, ForwardStep, RecordFailure, RecordMoved,
       VerifyDestination, RecordRollbackRequired, RecordVerified, Commit, UndoStep,
       ReadRollbackState, BeginRollback, UndoClassify, UndoVerifyDestination, RollbackNoReplace,
       UndoVerifySource, UndoComplete, UndoFail, Persist, Check, TryRename, worldVars
  <2>2. ~ User
    BY DEF HandsOff, User, UserRename, UserCreate, UserEdit, Meddle
  <2>3. UNCHANGED vars => UNCHANGED <<touched, meddling>>
    BY DEF vars
  <2> QED
    BY <2>1, <2>2, <2>3 DEF Next, HandsOff
<1>3. ASSUME NEW t \in Transactions, Planned(t)
      PROVE  /\ Subject(t) = FileOf(move_transactions[t].document)
             /\ move_transactions[t].document \in Documents
             /\ Subject(t) \in Objects /\ From(t) \in Paths /\ To(t) \in Paths
  BY <1>0, <1>3, PlannedType DEF NoStrangers, NoStrangersFor
<1>4. ASSUME NEW p \in Paths, Stranger(fs'[p]) \/ Stranger(InitialFiles[p])
      PROVE  fs'[p] = InitialFiles[p]
  <2>1. CASE fs' = fs
    BY <1>4, <2>1 DEF HandsOff
  <2>2. ASSUME NEW c \in Calls, Forth(c) \/ Back(c)
        PROVE  fs'[p] = InitialFiles[p]
    <3>1. PICK u \in Transactions : u = Request[c].transaction
      BY SystemAssumption
    <3>2. Planned(u) /\ (Goes(Subject(u), From(u), To(u)) \/ Goes(Subject(u), To(u), From(u)))
      BY <2>2, <3>1 DEF Forth, Back
    <3>3. PICK a \in Paths, b \in Paths : Goes(Subject(u), a, b)
      BY <1>3, <3>2
    <3>7. Subject(u) \in Objects
      BY <1>3, <3>2
    <3>8. fs[a] = Subject(u) /\ fs[b] = Vacant
      BY <3>3 DEF Goes
    <3>4. /\ a # b /\ fs'[a] = Vacant /\ fs'[b] = Subject(u)
          /\ \A r \in Paths \ {a, b} : fs'[r] = fs[r]
          /\ fs[a] = Subject(u) /\ fs[b] = Vacant
      BY <1>0, <3>3, <3>7, <3>8, GoesTo
    <3>5. ~ Stranger(Subject(u)) /\ ~ Stranger(Vacant)
      BY <1>3, <3>2 DEF Stranger
    <3>6. /\ Stranger(InitialFiles[a]) => fs[a] = InitialFiles[a]
          /\ Stranger(InitialFiles[b]) => fs[b] = InitialFiles[b]
          /\ Stranger(fs[p]) \/ Stranger(InitialFiles[p]) => fs[p] = InitialFiles[p]
      BY DEF HandsOff
    <3> QED
      BY <1>4, <3>4, <3>5, <3>6
  <2>3. ~ ByUser \/ fs' = fs
    <3>1. ASSUME ByUser
          PROVE  fs' = fs
      <4>1. CASE \E a, b \in Paths : fs[a] # Vacant /\ Goes(fs[a], a, b) /\ touched' = touched \cup {fs[a]}
        BY <1>2, <4>1
      <4>2. CASE \E a \in Paths, o \in Objects : touched' = touched \cup {o}
        BY <1>2, <4>2
      <4> QED
        BY <3>1, <4>1, <4>2 DEF ByUser
    <3> QED
      BY <3>1
  <2> QED
    BY <1>0, <2>1, <2>2, <2>3, FilesChange
<1>5. ASSUME NEW t \in Transactions, State(t)' = "committed"
      PROVE  ~ Stranger(InitialFiles[To(t)'])
  <2>1. State(t) \in {"committed", "verified"}
    <3>1. CASE State(t)' = State(t)
      BY <1>5, <3>1
    <3>2. CASE State(t)' # State(t)
      <4>1. PICK c \in Calls :
                 \/ State(t)' = "planned"
                 \/ \E state : <<State(t), state>> \in Allowed /\ State(t)' = state
        BY <1>0, <3>2, StateChange
      <4> QED
        BY <1>5, <4>1 DEF Allowed
    <3> QED
      BY <3>1, <3>2
  <2>2. Planned(t)
    BY <2>1, StateIsPlanned
  <2>3. To(t)' = To(t)
    BY <1>0, <2>2, RowsKeep
  <2>4. CASE State(t) = "committed"
    BY <2>3, <2>4 DEF HandsOff
  <2>5. CASE State(t) = "verified"
    <3>1. fs[To(t)] = Subject(t)
      BY <1>0, <2>5 DEF HandsOff, VerifiedStays, State, Subject, To
    <3>2. ~ Stranger(Subject(t)) /\ To(t) \in Paths
      BY <1>3, <2>2 DEF Stranger
    <3> QED
      BY <2>3, <3>1, <3>2 DEF HandsOff
  <2> QED
    BY <2>1, <2>4, <2>5
<1>6. ASSUME NEW c \in Calls, At(c, "ticketed")'
      PROVE  Object(c)' = FileOf(Request[c].document)
  <2>1. CASE call'[c] = call[c]
    BY <1>6, <2>1 DEF HandsOff, At, Object
  <2>2. CASE call'[c] # call[c]
    <3>1. call'[c].at = "ticketed"
      BY <1>6 DEF At
    <3>2. ~ Crash(c)
      BY <1>0, <3>1 DEF Crash, Stop, Idle
    <3>3. ~ Step(c)
      BY <1>0, <3>1, StepLeads DEF Leads
    <3>4. Begin(c)
      BY <1>0, <2>2, <3>2, <3>3, CallChange
    <3>5. /\ Request[c].kind = "move" /\ Ticket(c)
          /\ call'[c].record.object = fs[documents[Request[c].document].path]
      BY <1>0, <3>1, <3>4, BeginHolds
    <3>6. PICK e \in Documents : e = Request[c].document
      BY <3>5, SystemAssumption
    <3>7. PICK p \in Paths : p = documents[e].path
      BY <1>0 DEF SystemInv, SystemTypeOK, TypeOK
    <3>8. fs[p] # Vacant /\ HomeOf(e, p) /\ Reached(p) /\ Object(c)' = fs[p]
      BY <1>0, <3>5, <3>6, <3>7 DEF Ticket, Housed, Sourced, Object
    <3>9. ~ Stranger(InitialFiles[p])
      <4>1. CASE \E d \in Documents : p = InitialPath[d]
        BY <4>1 DEF Stranger, FileOf
      <4>2. CASE \E t \in Transactions : State(t) = "committed" /\ To(t) = p
        BY <4>2 DEF HandsOff
      <4> QED
        BY <3>8, <4>1, <4>2 DEF Reached
    <3>10. ~ Stranger(fs[p])
      BY <3>9 DEF HandsOff
    <3>11. PICK d \in Documents : fs[p] = FileOf(d)
      BY <3>8, <3>10 DEF Stranger
    <3>12. PICK q \in Paths : fs[q] = FileOf(d) /\ HomeOf(d, q)
      BY <1>0 DEF HandsOff, Housed
    <3>13. p = q
      BY <1>0, <3>8, <3>11, <3>12 DEF OnePlace
    <3> QED
      BY <1>0, <3>6, <3>8, <3>11, <3>12, <3>13, OneHome
  <2> QED
    BY <2>1, <2>2
<1>7. NoStrangers'
  <2>1. ASSUME NEW t \in Transactions, Planned(t)'
        PROVE  Subject(t)' = FileOf(move_transactions'[t].document)
    <3>1. CASE Planned(t)
      BY <1>0, <1>3, <3>1, RowsKeep
    <3>2. CASE ~ Planned(t)
      BY <1>0, <2>1, <3>2, NewRow DEF HandsOff
    <3> QED
      BY <3>1, <3>2
  <2> QED
    BY <2>1 DEF NoStrangers, NoStrangersFor, FileOf
<1> QED
  BY <1>1, <1>2, <1>4, <1>5, <1>6, <1>7 DEF HandsOff, FileOf, Stranger

(* So while the user leaves the files alone, none is ever lost: whatever     *)
(* crashes, races and retries do, the index and the journals lead to it.     *)
THEOREM NoFileIsLost == ASSUME MovesApart, MaxMeddling = 0 PROVE Spec => []FindableFile
<1>1. Init => HandsOff
  <2> SUFFICES ASSUME Init
               PROVE  HandsOff
    OBVIOUS
  <2>1. /\ \A c \in Calls : call[c].at = "idle"
        /\ \A t \in Transactions : /\ move_transactions[t] = NoRow
                                    /\ move_transactions[t].state = "absent"
        /\ fs = InitialFiles /\ touched = {} /\ meddling = 0
    BY DEF Init, StoreInit, Idle, NoRow
  <2> QED
    BY <2>1, FilesInit DEF HandsOff, State, At, NoStrangers, NoStrangersFor, Planned
<1>2. HandsOff /\ [Next]_vars => HandsOff'
  BY HandsOffStep
<1>3. HandsOff => FindableFile
  BY FoundIsFindable DEF HandsOff
<1> QED
  BY <1>1, <1>2, <1>3, PTL DEF Spec
=============================================================================
