----------------------- MODULE TicketPipeline_proofs -----------------------
(***************************************************************************)
(* What holds of the scheduled-ticket pipeline for every number of runs,   *)
(* tickets and workers.                                                    *)
(***************************************************************************)
EXTENDS TicketPipeline, TLAPS

(* A process that ends leaves its registers in their types.                 *)
LEMMA ExitTypes ==
  ASSUME WorkerTypeOK, NEW w \in Workers, Exit(w)
  PROVE  /\ pc' \in [Workers -> ProgramPoint]
         /\ batch' \in [Workers -> SUBSET Runs]
         /\ cur' \in [Workers -> Runs \cup {NoRun}]
         /\ \A v \in Workers : pc'[v] \in Processing => cur'[v] \in Runs
         /\ result' \in [Workers -> {"none"} \cup Reply \cup Outcome]
         /\ found' \in [Workers -> Tickets \cup {NoTicket}]
BY DEF WorkerTypeOK, Exit, Goto, ProgramPoint, Processing

(* The columns, the workers' registers and the operators' decisions stay in *)
(* their types under every step of worker, fault, environment and operator. *)
LEMMA TypeStep == TypeOK /\ [Next]_vars => TypeOK'
<1> USE RunsAssumption, WorkerAssumption
<1> USE DEF TypeOK, TablesTypeOK, WorkerTypeOK, ReviewTypeOK, tables, runVars,
        attemptVars, znunyVars, workerVars, schedulerVars, localVars
<1> SUFFICES ASSUME TypeOK, [Next]_vars PROVE TypeOK'
  OBVIOUS
<1>1. ASSUME NEW w \in Workers, Work(w), UNCHANGED checked PROVE TypeOK'
  <2> USE <1>1 DEF Goto, Report, Continue, Exit, Release, ProgramPoint,
          Processing, Reply, Outcome, RunStatus, AttemptStatus, RequestState
  <2>1. CASE Acquire(w)
    BY <2>1 DEF Acquire
  <2>2. CASE Materialize(w)
    BY <2>2 DEF Materialize
  <2>3. CASE TakeBatch(w)
    BY <2>3 DEF TakeBatch, FirstPending, PendingRuns
  <2>4. CASE SwitchedOff(w)
    BY <2>4 DEF SwitchedOff
  <2>5. CASE EndBatch(w)
    BY <2>5 DEF EndBatch
  <2>6. CASE Claim(w)
    BY <2>6 DEF Claim
  <2>7. CASE SkipClaimed(w)
    BY <2>7 DEF SkipClaimed
  <2>8. CASE PreflightRefuses(w)
    BY <2>8 DEF PreflightRefuses
  <2>9. CASE DuplicateGuard(w)
    BY <2>9 DEF DuplicateGuard, HasTicket
  <2>10. CASE CreateAttempt(w)
    BY <2>10 DEF CreateAttempt
  <2>11. CASE SendCreate(w)
    BY <2>11 DEF SendCreate
  <2>12. CASE ReplyCreated(w) \/ ReplyMissing(w) \/ ReplyUnclear(w)
    BY <2>12 DEF ReplyCreated, ReplyMissing, ReplyUnclear, GetReply, TicketsOf
  <2>13. CASE RecordCreated(w)
    BY <2>13 DEF RecordCreated
  <2>14. CASE RecordMissing(w) \/ RecordUnclear(w)
    <3>1. CASE RecordMissing(w)
      BY <3>1 DEF RecordMissing
    <3>2. CASE RecordUnclear(w)
      BY <3>2 DEF RecordUnclear
    <3> QED
      BY <2>14, <3>1, <3>2
  <2>15. CASE Reconcile(w)
    <3>1. TablesTypeOK' /\ UNCHANGED <<schedulerVars, holder, batch, cur>>
      BY <2>15 DEF Reconcile, HasTicket
    <3>2. /\ pc' \in [Workers -> ProgramPoint] /\ cur[w] \in Runs
          /\ \A v \in Workers \ {w} : pc'[v] = pc[v]
      BY <2>15 DEF Reconcile
    <3>3. result' \in [Workers -> {"none"} \cup Reply \cup Outcome]
      BY <2>15 DEF Reconcile
    <3>4. found' \in [Workers -> Tickets \cup {NoTicket}]
      BY <2>15 DEF Reconcile
    <3>5. WorkerTypeOK'
      BY <3>1, <3>2, <3>3, <3>4
    <3> QED
      BY <3>1, <3>5, <1>1
  <2>16. CASE SettleReconciled(w)
    <3>1. TablesTypeOK'
      BY <2>16 DEF SettleReconciled, HasTicket
    <3>2. /\ UNCHANGED <<schedulerVars, holder, batch, cur>> /\ cur[w] \in Runs
          /\ \E what \in Outcome, t \in Tickets \cup {NoTicket} : Report(w, what, t)
      BY <2>16 DEF SettleReconciled, HasTicket
    <3>3. WorkerTypeOK'
      BY <3>2
    <3> QED
      BY <3>1, <3>3, <1>1
  <2>17. CASE FinishSuccess(w)
    <3>1. failures' \in 0 .. Threshold
      BY <2>17 DEF FinishSuccess
    <3> QED
      BY <3>1, <2>17 DEF FinishSuccess
  <2>18. CASE FinishNotSent(w)
    BY <2>18 DEF FinishNotSent
  <2>19. CASE FinishFailed(w)
    <3>1. failures' \in 0 .. Threshold
      BY <2>19 DEF FinishFailed, AtThreshold
    <3>2. CASE AutoDisable /\ AtThreshold
      <4>1. TablesTypeOK'
        BY <3>2, <2>19 DEF FinishFailed
      <4>2. Exit(w) /\ Release(w) /\ enabled' = FALSE /\ UNCHANGED paused
        BY <3>2, <2>19 DEF FinishFailed
      <4>3. WorkerTypeOK'
        BY <3>1, <4>2, ExitTypes
      <4> QED
        BY <4>1, <4>3, <1>1
    <3>3. CASE ~(AutoDisable /\ AtThreshold)
      BY <3>1, <3>3, <2>19 DEF FinishFailed
    <3> QED
      BY <3>2, <3>3
  <2>20. CASE FinishUncertain(w)
    <3>1. TablesTypeOK'
      BY <2>20 DEF FinishUncertain
    <3>2. Exit(w) /\ Release(w) /\ enabled' \in BOOLEAN /\ UNCHANGED <<paused, failures>>
      BY <2>20 DEF FinishUncertain
    <3>3. WorkerTypeOK'
      BY <3>2, ExitTypes
    <3> QED
      BY <3>1, <3>3, <1>1
  <2> QED
    BY <2>1, <2>2, <2>3, <2>4, <2>5, <2>6, <2>7, <2>8, <2>9, <2>10, <2>11,
       <2>12, <2>13, <2>14, <2>15, <2>16, <2>17, <2>18, <2>19, <2>20 DEF Work
<1>2. ASSUME NEW w \in Workers, Fault(w), UNCHANGED checked PROVE TypeOK'
  <2> USE <1>2 DEF Goto, Report, Continue, Exit, Release, ProgramPoint,
          Processing, Reply, Outcome, AttemptStatus
  <2>1. CASE DbFails(w)
    BY <2>1 DEF DbFails
  <2>6. CASE ReconcileFails(w)
    BY <2>6 DEF ReconcileFails
  <2>2. CASE StartFails(w)
    BY <2>2 DEF StartFails
  <2>3. CASE SuccessUnsaved(w)
    BY <2>3 DEF SuccessUnsaved
  <2>4. CASE BatchAborted(w)
    BY <2>4 DEF BatchAborted
  <2>5. CASE Crash(w)
    BY <2>5 DEF Crash
  <2> QED
    BY <2>1, <2>2, <2>3, <2>4, <2>5, <2>6 DEF Fault
<1>3. ASSUME Environment PROVE TypeOK'
  <2>1. CASE LockExpires /\ UNCHANGED checked
    BY <2>1 DEF LockExpires
  <2>2. CASE SafetyStep /\ UNCHANGED checked
    BY <2>2 DEF SafetyStep, PauseScheduler, PauseEnds, DisableScheduler,
                EnableScheduler
  <2>3. CASE ZnunyStep /\ UNCHANGED <<workerVars, checked>>
    BY <2>3 DEF ZnunyStep, ZnunyCreates, ZnunyRefuses, RequestState
  <2> QED
    BY <1>3, <2>1, <2>2, <2>3 DEF Environment
<1>4. ASSUME ReviewStep, UNCHANGED workerVars PROVE TypeOK'
  <2> USE <1>4 DEF Decision, RunStatus, AttemptStatus, Resolution
  <2>1. ASSUME NEW r \in Runs, CheckRetry(r) PROVE TypeOK'
    BY <2>1 DEF CheckRetry
  <2>2. ASSUME NEW r \in Runs, NEW t \in Tickets, CheckLink(r, t) PROVE TypeOK'
    BY <2>2 DEF CheckLink
  <2>3. ASSUME NEW r \in Runs, Close(r) PROVE TypeOK'
    BY <2>3 DEF Close
  <2>4. ASSUME NEW d \in checked, Retry(d) PROVE TypeOK'
    BY <2>4 DEF Retry, Members, RootOf
  <2>5. ASSUME NEW d \in checked, Link(d) PROVE TypeOK'
    BY <2>5 DEF Link
  <2>6. CASE QueueRun
    BY <2>6 DEF QueueRun, IsNext, Present
  <2> QED
    BY <1>4, <2>1, <2>2, <2>3, <2>4, <2>5, <2>6 DEF ReviewStep
<1>5. CASE UNCHANGED vars
  BY <1>5 DEF vars
<1> QED
  BY <1>1, <1>2, <1>3, <1>4, <1>5 DEF Next, Worker, Faulty, Operator

(* ExclusiveClaim: a claim is taken from pending and given up only by the   *)
(* claimant's final write or its end.                                       *)
LEMMA ClaimStep == PipelineInv /\ [Next]_vars => ExclusiveClaim'
<1> USE RunsAssumption, WorkerAssumption
<1> USE DEF ExclusiveClaim, Processing, PipelineInv, TypeOK, TablesTypeOK, WorkerTypeOK,
        tables, runVars, attemptVars, znunyVars, workerVars, schedulerVars, localVars
<1> SUFFICES ASSUME PipelineInv, [Next]_vars PROVE ExclusiveClaim'
  OBVIOUS
<1>1. ASSUME NEW w \in Workers, Work(w), UNCHANGED checked PROVE ExclusiveClaim'
  <2> USE <1>1 DEF Goto, Report, Continue, Exit
  <2>1. CASE Acquire(w)
    BY <2>1 DEF Acquire
  <2>2. CASE Materialize(w)
    BY <2>2 DEF Materialize, IsNext, Present
  <2>3. CASE TakeBatch(w)
    BY <2>3 DEF TakeBatch
  <2>4. CASE SwitchedOff(w)
    BY <2>4 DEF SwitchedOff
  <2>5. CASE EndBatch(w)
    BY <2>5 DEF EndBatch
  <2>6. CASE Claim(w)
    BY <2>6 DEF Claim
  <2>7. CASE SkipClaimed(w)
    BY <2>7 DEF SkipClaimed
  <2>8. CASE PreflightRefuses(w)
    BY <2>8 DEF PreflightRefuses
  <2>9. CASE DuplicateGuard(w)
    BY <2>9 DEF DuplicateGuard, HasTicket
  <2>10. CASE CreateAttempt(w)
    BY <2>10 DEF CreateAttempt
  <2>11. CASE SendCreate(w)
    BY <2>11 DEF SendCreate
  <2>12. CASE ReplyCreated(w)
    BY <2>12 DEF ReplyCreated, GetReply, TicketsOf
  <2>13. CASE ReplyMissing(w)
    BY <2>13 DEF ReplyMissing, GetReply
  <2>14. CASE ReplyUnclear(w)
    BY <2>14 DEF ReplyUnclear, GetReply
  <2>15. CASE RecordCreated(w)
    BY <2>15 DEF RecordCreated
  <2>16. CASE RecordMissing(w)
    BY <2>16 DEF RecordMissing
  <2>17. CASE RecordUnclear(w)
    BY <2>17 DEF RecordUnclear
  <2>18. CASE Reconcile(w)
    BY <2>18 DEF Reconcile, HasTicket, Lookups, TicketsOf
  <2>19. CASE SettleReconciled(w)
    BY <2>19 DEF SettleReconciled, HasTicket
  <2>20. CASE FinishSuccess(w)
    BY <2>20 DEF FinishSuccess
  <2>21. CASE FinishNotSent(w)
    BY <2>21 DEF FinishNotSent
  <2>22. CASE FinishFailed(w)
    <3>1. /\ pc' \in [Workers -> ProgramPoint] /\ pc'[w] \in {"next", "idle"}
          /\ \A v \in Workers \ {w} : pc'[v] = pc[v] /\ cur'[v] = cur[v]
      BY <2>22, <1>1 DEF FinishFailed, ProgramPoint
    <3>2. /\ pc[w] \in Processing
          /\ \A r \in Runs \ {cur[w]} : status'[r] = status[r]
      BY <2>22 DEF FinishFailed
    <3> QED
      BY <3>1, <3>2
  <2>23. CASE FinishUncertain(w)
    BY <2>23 DEF FinishUncertain
  <2> QED
    BY <2>1, <2>2, <2>3, <2>4, <2>5, <2>6, <2>7, <2>8, <2>9, <2>10, <2>11, <2>12, <2>13, <2>14, <2>15, <2>16, <2>17, <2>18, <2>19, <2>20, <2>21, <2>22, <2>23 DEF Work
<1>2. ASSUME NEW w \in Workers, Fault(w), UNCHANGED checked PROVE ExclusiveClaim'
  <2> USE <1>2 DEF Goto, Report, Continue, Exit
  <2>1. CASE DbFails(w)
    BY <2>1 DEF DbFails
  <2>2. CASE StartFails(w)
    BY <2>2 DEF StartFails
  <2>3. CASE SuccessUnsaved(w)
    BY <2>3 DEF SuccessUnsaved
  <2>4. CASE ReconcileFails(w)
    BY <2>4 DEF ReconcileFails
  <2>5. CASE BatchAborted(w)
    BY <2>5 DEF BatchAborted
  <2>6. CASE Crash(w)
    BY <2>6 DEF Crash
  <2> QED
    BY <2>1, <2>2, <2>3, <2>4, <2>5, <2>6 DEF Fault
<1>3. ASSUME Environment PROVE ExclusiveClaim'
  <2>1. CASE LockExpires /\ UNCHANGED checked
    BY <2>1 DEF LockExpires
  <2>2. CASE SafetyStep /\ UNCHANGED checked
    BY <2>2 DEF SafetyStep
  <2>3. CASE ZnunyStep /\ UNCHANGED <<workerVars, checked>>
    BY <2>3 DEF ZnunyStep, ZnunyCreates, ZnunyRefuses
  <2> QED
    BY <1>3, <2>1, <2>2, <2>3 DEF Environment
<1>4. ASSUME ReviewStep, UNCHANGED workerVars PROVE ExclusiveClaim'
  <2> USE <1>4
  <2>1. ASSUME NEW r \in Runs, CheckRetry(r) PROVE ExclusiveClaim'
    BY <2>1 DEF CheckRetry
  <2>2. ASSUME NEW r \in Runs, NEW t \in Tickets, CheckLink(r, t) PROVE ExclusiveClaim'
    BY <2>2 DEF CheckLink
  <2>3. ASSUME NEW r \in Runs, Close(r) PROVE ExclusiveClaim'
    BY <2>3 DEF Close, Closable, OpenLeaf
  <2>4. ASSUME NEW d \in checked, Retry(d) PROVE ExclusiveClaim'
    BY <2>4 DEF Retry, IsNext, Present, Members, OpenLeaf
  <2>5. ASSUME NEW d \in checked, Link(d) PROVE ExclusiveClaim'
    BY <2>5 DEF Link, Decision
  <2>6. CASE QueueRun
    BY <2>6 DEF QueueRun, IsNext, Present
  <2> QED
    BY <1>4, <2>1, <2>2, <2>3, <2>4, <2>5, <2>6 DEF ReviewStep
<1>5. CASE UNCHANGED vars
  BY <1>5 DEF vars
<1> QED
  BY <1>1, <1>2, <1>3, <1>4, <1>5 DEF Next, Worker, Faulty, Operator

(* RequestFollowsClaim: a request is sent by the claimant only, and Znuny     *)
(* gives a ticket the marker only of a request that is under way.           *)
LEMMA RequestStep == PipelineInv /\ [Next]_vars => RequestFollowsClaim'
<1> USE RunsAssumption, WorkerAssumption
<1> USE DEF RequestFollowsClaim, ExclusiveClaim, Processing, PipelineInv, TypeOK, TablesTypeOK, WorkerTypeOK,
        tables, runVars, attemptVars, znunyVars, workerVars, schedulerVars, localVars
<1> SUFFICES ASSUME PipelineInv, [Next]_vars PROVE RequestFollowsClaim'
  OBVIOUS
<1>1. ASSUME NEW w \in Workers, Work(w), UNCHANGED checked PROVE RequestFollowsClaim'
  <2> USE <1>1 DEF Goto, Report, Continue, Exit
  <2>1. CASE Acquire(w)
    BY <2>1 DEF Acquire
  <2>2. CASE Materialize(w)
    BY <2>2 DEF Materialize, IsNext, Present
  <2>3. CASE TakeBatch(w)
    BY <2>3 DEF TakeBatch
  <2>4. CASE SwitchedOff(w)
    BY <2>4 DEF SwitchedOff
  <2>5. CASE EndBatch(w)
    BY <2>5 DEF EndBatch
  <2>6. CASE Claim(w)
    BY <2>6 DEF Claim
  <2>7. CASE SkipClaimed(w)
    BY <2>7 DEF SkipClaimed
  <2>8. CASE PreflightRefuses(w)
    BY <2>8 DEF PreflightRefuses
  <2>9. CASE DuplicateGuard(w)
    BY <2>9 DEF DuplicateGuard, HasTicket
  <2>10. CASE CreateAttempt(w)
    BY <2>10 DEF CreateAttempt
  <2>11. CASE SendCreate(w)
    BY <2>11 DEF SendCreate
  <2>12. CASE ReplyCreated(w)
    BY <2>12 DEF ReplyCreated, GetReply, TicketsOf
  <2>13. CASE ReplyMissing(w)
    BY <2>13 DEF ReplyMissing, GetReply
  <2>14. CASE ReplyUnclear(w)
    BY <2>14 DEF ReplyUnclear, GetReply
  <2>15. CASE RecordCreated(w)
    BY <2>15 DEF RecordCreated
  <2>16. CASE RecordMissing(w)
    BY <2>16 DEF RecordMissing
  <2>17. CASE RecordUnclear(w)
    BY <2>17 DEF RecordUnclear
  <2>18. CASE Reconcile(w)
    BY <2>18 DEF Reconcile, HasTicket, Lookups, TicketsOf
  <2>19. CASE SettleReconciled(w)
    BY <2>19 DEF SettleReconciled, HasTicket
  <2>20. CASE FinishSuccess(w)
    BY <2>20 DEF FinishSuccess
  <2>21. CASE FinishNotSent(w)
    BY <2>21 DEF FinishNotSent
  <2>22. CASE FinishFailed(w)
    BY <2>22 DEF FinishFailed
  <2>23. CASE FinishUncertain(w)
    BY <2>23 DEF FinishUncertain
  <2> QED
    BY <2>1, <2>2, <2>3, <2>4, <2>5, <2>6, <2>7, <2>8, <2>9, <2>10, <2>11, <2>12, <2>13, <2>14, <2>15, <2>16, <2>17, <2>18, <2>19, <2>20, <2>21, <2>22, <2>23 DEF Work
<1>2. ASSUME NEW w \in Workers, Fault(w), UNCHANGED checked PROVE RequestFollowsClaim'
  <2> USE <1>2 DEF Goto, Report, Continue, Exit
  <2>1. CASE DbFails(w)
    BY <2>1 DEF DbFails
  <2>2. CASE StartFails(w)
    BY <2>2 DEF StartFails
  <2>3. CASE SuccessUnsaved(w)
    BY <2>3 DEF SuccessUnsaved
  <2>4. CASE ReconcileFails(w)
    BY <2>4 DEF ReconcileFails
  <2>5. CASE BatchAborted(w)
    BY <2>5 DEF BatchAborted
  <2>6. CASE Crash(w)
    BY <2>6 DEF Crash
  <2> QED
    BY <2>1, <2>2, <2>3, <2>4, <2>5, <2>6 DEF Fault
<1>3. ASSUME Environment PROVE RequestFollowsClaim'
  <2>1. CASE LockExpires /\ UNCHANGED checked
    BY <2>1 DEF LockExpires
  <2>2. CASE SafetyStep /\ UNCHANGED checked
    BY <2>2 DEF SafetyStep
  <2>3. CASE ZnunyStep /\ UNCHANGED <<workerVars, checked>>
    BY <2>3 DEF ZnunyStep, ZnunyCreates, ZnunyRefuses
  <2> QED
    BY <1>3, <2>1, <2>2, <2>3 DEF Environment
<1>4. ASSUME ReviewStep, UNCHANGED workerVars PROVE RequestFollowsClaim'
  <2> USE <1>4
  <2>1. ASSUME NEW r \in Runs, CheckRetry(r) PROVE RequestFollowsClaim'
    BY <2>1 DEF CheckRetry
  <2>2. ASSUME NEW r \in Runs, NEW t \in Tickets, CheckLink(r, t) PROVE RequestFollowsClaim'
    BY <2>2 DEF CheckLink
  <2>3. ASSUME NEW r \in Runs, Close(r) PROVE RequestFollowsClaim'
    BY <2>3 DEF Close, Closable, OpenLeaf
  <2>4. ASSUME NEW d \in checked, Retry(d) PROVE RequestFollowsClaim'
    BY <2>4 DEF Retry, IsNext, Present, Members, OpenLeaf
  <2>5. ASSUME NEW d \in checked, Link(d) PROVE RequestFollowsClaim'
    BY <2>5 DEF Link, Decision
  <2>6. CASE QueueRun
    BY <2>6 DEF QueueRun, IsNext, Present
  <2> QED
    BY <1>4, <2>1, <2>2, <2>3, <2>4, <2>5, <2>6 DEF ReviewStep
<1>5. CASE UNCHANGED vars
  BY <1>5 DEF vars
<1> QED
  BY <1>1, <1>2, <1>3, <1>4, <1>5 DEF Next, Worker, Faulty, Operator

(* OneTicketPerMarker: while a request is under way no ticket has its marker. *)
LEMMA MarkerStep == PipelineInv /\ [Next]_vars => OneTicketPerMarker'
<1> USE RunsAssumption, WorkerAssumption
<1> USE DEF OneTicketPerMarker, RequestFollowsClaim, PipelineInv, TypeOK, TablesTypeOK, WorkerTypeOK,
        tables, runVars, attemptVars, znunyVars, workerVars, schedulerVars, localVars
<1> SUFFICES ASSUME PipelineInv, [Next]_vars PROVE OneTicketPerMarker'
  OBVIOUS
<1>1. ASSUME NEW w \in Workers, Work(w), UNCHANGED checked PROVE OneTicketPerMarker'
  <2> USE <1>1 DEF Goto, Report, Continue, Exit
  <2>1. CASE Acquire(w)
    BY <2>1 DEF Acquire
  <2>2. CASE Materialize(w)
    BY <2>2 DEF Materialize, IsNext, Present
  <2>3. CASE TakeBatch(w)
    BY <2>3 DEF TakeBatch
  <2>4. CASE SwitchedOff(w)
    BY <2>4 DEF SwitchedOff
  <2>5. CASE EndBatch(w)
    BY <2>5 DEF EndBatch
  <2>6. CASE Claim(w)
    BY <2>6 DEF Claim
  <2>7. CASE SkipClaimed(w)
    BY <2>7 DEF SkipClaimed
  <2>8. CASE PreflightRefuses(w)
    BY <2>8 DEF PreflightRefuses
  <2>9. CASE DuplicateGuard(w)
    BY <2>9 DEF DuplicateGuard, HasTicket
  <2>10. CASE CreateAttempt(w)
    BY <2>10 DEF CreateAttempt
  <2>11. CASE SendCreate(w)
    BY <2>11 DEF SendCreate
  <2>12. CASE ReplyCreated(w)
    BY <2>12 DEF ReplyCreated, GetReply, TicketsOf
  <2>13. CASE ReplyMissing(w)
    BY <2>13 DEF ReplyMissing, GetReply
  <2>14. CASE ReplyUnclear(w)
    BY <2>14 DEF ReplyUnclear, GetReply
  <2>15. CASE RecordCreated(w)
    BY <2>15 DEF RecordCreated
  <2>16. CASE RecordMissing(w)
    BY <2>16 DEF RecordMissing
  <2>17. CASE RecordUnclear(w)
    BY <2>17 DEF RecordUnclear
  <2>18. CASE Reconcile(w)
    BY <2>18 DEF Reconcile, HasTicket, Lookups, TicketsOf
  <2>19. CASE SettleReconciled(w)
    BY <2>19 DEF SettleReconciled, HasTicket
  <2>20. CASE FinishSuccess(w)
    BY <2>20 DEF FinishSuccess
  <2>21. CASE FinishNotSent(w)
    BY <2>21 DEF FinishNotSent
  <2>22. CASE FinishFailed(w)
    BY <2>22 DEF FinishFailed
  <2>23. CASE FinishUncertain(w)
    BY <2>23 DEF FinishUncertain
  <2> QED
    BY <2>1, <2>2, <2>3, <2>4, <2>5, <2>6, <2>7, <2>8, <2>9, <2>10, <2>11, <2>12, <2>13, <2>14, <2>15, <2>16, <2>17, <2>18, <2>19, <2>20, <2>21, <2>22, <2>23 DEF Work
<1>2. ASSUME NEW w \in Workers, Fault(w), UNCHANGED checked PROVE OneTicketPerMarker'
  <2> USE <1>2 DEF Goto, Report, Continue, Exit
  <2>1. CASE DbFails(w)
    BY <2>1 DEF DbFails
  <2>2. CASE StartFails(w)
    BY <2>2 DEF StartFails
  <2>3. CASE SuccessUnsaved(w)
    BY <2>3 DEF SuccessUnsaved
  <2>4. CASE ReconcileFails(w)
    BY <2>4 DEF ReconcileFails
  <2>5. CASE BatchAborted(w)
    BY <2>5 DEF BatchAborted
  <2>6. CASE Crash(w)
    BY <2>6 DEF Crash
  <2> QED
    BY <2>1, <2>2, <2>3, <2>4, <2>5, <2>6 DEF Fault
<1>3. ASSUME Environment PROVE OneTicketPerMarker'
  <2>1. CASE LockExpires /\ UNCHANGED checked
    BY <2>1 DEF LockExpires
  <2>2. CASE SafetyStep /\ UNCHANGED checked
    BY <2>2 DEF SafetyStep
  <2>3. CASE ZnunyStep /\ UNCHANGED <<workerVars, checked>>
    BY <2>3 DEF ZnunyStep, ZnunyCreates, ZnunyRefuses
  <2> QED
    BY <1>3, <2>1, <2>2, <2>3 DEF Environment
<1>4. ASSUME ReviewStep, UNCHANGED workerVars PROVE OneTicketPerMarker'
  <2> USE <1>4
  <2>1. ASSUME NEW r \in Runs, CheckRetry(r) PROVE OneTicketPerMarker'
    BY <2>1 DEF CheckRetry
  <2>2. ASSUME NEW r \in Runs, NEW t \in Tickets, CheckLink(r, t) PROVE OneTicketPerMarker'
    BY <2>2 DEF CheckLink
  <2>3. ASSUME NEW r \in Runs, Close(r) PROVE OneTicketPerMarker'
    BY <2>3 DEF Close, Closable, OpenLeaf
  <2>4. ASSUME NEW d \in checked, Retry(d) PROVE OneTicketPerMarker'
    BY <2>4 DEF Retry, IsNext, Present, Members, OpenLeaf
  <2>5. ASSUME NEW d \in checked, Link(d) PROVE OneTicketPerMarker'
    BY <2>5 DEF Link, Decision
  <2>6. CASE QueueRun
    BY <2>6 DEF QueueRun, IsNext, Present
  <2> QED
    BY <1>4, <2>1, <2>2, <2>3, <2>4, <2>5, <2>6 DEF ReviewStep
<1>5. CASE UNCHANGED vars
  BY <1>5 DEF vars
<1> QED
  BY <1>1, <1>2, <1>3, <1>4, <1>5 DEF Next, Worker, Faulty, Operator

(* TicketsInHand: every ticket id in a register, an attempt or a decision     *)
(* comes from a reply or a lookup, and markers never move.                  *)
LEMMA HandStep == PipelineInv /\ [Next]_vars => TicketsInHand'
<1> USE RunsAssumption, WorkerAssumption
<1> USE DEF TicketsInHand, HoldsTicket, Confirmed, Finished, ExclusiveClaim, Processing,
        PipelineInv, TypeOK, TablesTypeOK, WorkerTypeOK,
        tables, runVars, attemptVars, znunyVars, workerVars, schedulerVars, localVars
<1> SUFFICES ASSUME PipelineInv, [Next]_vars PROVE TicketsInHand'
  OBVIOUS
<1>1. ASSUME NEW w \in Workers, Work(w), UNCHANGED checked PROVE TicketsInHand'
  <2> USE <1>1 DEF Goto, Report, Continue, Exit
  <2>1. CASE Acquire(w)
    BY <2>1 DEF Acquire
  <2>2. CASE Materialize(w)
    BY <2>2 DEF Materialize, IsNext, Present
  <2>3. CASE TakeBatch(w)
    BY <2>3 DEF TakeBatch
  <2>4. CASE SwitchedOff(w)
    BY <2>4 DEF SwitchedOff
  <2>5. CASE EndBatch(w)
    BY <2>5 DEF EndBatch
  <2>6. CASE Claim(w)
    BY <2>6 DEF Claim
  <2>7. CASE SkipClaimed(w)
    BY <2>7 DEF SkipClaimed
  <2>8. CASE PreflightRefuses(w)
    BY <2>8 DEF PreflightRefuses
  <2>9. CASE DuplicateGuard(w)
    BY <2>9 DEF DuplicateGuard, HasTicket
  <2>10. CASE CreateAttempt(w)
    BY <2>10 DEF CreateAttempt
  <2>11. CASE SendCreate(w)
    BY <2>11 DEF SendCreate
  <2>12. CASE ReplyCreated(w)
    BY <2>12 DEF ReplyCreated, GetReply, TicketsOf
  <2>13. CASE ReplyMissing(w)
    BY <2>13 DEF ReplyMissing, GetReply
  <2>14. CASE ReplyUnclear(w)
    BY <2>14 DEF ReplyUnclear, GetReply
  <2>15. CASE RecordCreated(w)
    BY <2>15 DEF RecordCreated
  <2>16. CASE RecordMissing(w)
    BY <2>16 DEF RecordMissing
  <2>17. CASE RecordUnclear(w)
    BY <2>17 DEF RecordUnclear
  <2>18. CASE Reconcile(w)
    BY <2>18 DEF Reconcile, HasTicket, Lookups, TicketsOf
  <2>19. CASE SettleReconciled(w)
    <3>1. CASE attempt[cur[w]] = "uncertain"
      <4>1. /\ cur' = cur /\ marker' = marker /\ status' = status /\ cur[w] \in Runs
            /\ pc'[w] = "finish" /\ result'[w] = "success" /\ found'[w] = found[w]
            /\ \A v \in Workers \ {w} :
                 pc'[v] = pc[v] /\ result'[v] = result[v] /\ found'[v] = found[v]
        BY <2>19, <3>1 DEF SettleReconciled
      <4>2. /\ attempt'[cur[w]] = "recovered" /\ attemptTicket'[cur[w]] = found[w]
            /\ \A r \in Runs \ {cur[w]} :
                 attempt'[r] = attempt[r] /\ attemptTicket'[r] = attemptTicket[r]
        BY <2>19, <3>1 DEF SettleReconciled
      <4>3. /\ found[w] \in Tickets /\ marker[found[w]] = cur[w]
            /\ \A v \in Workers \ {w} : pc[v] = "finish" => cur[v] # cur[w]
        BY <2>19 DEF SettleReconciled
      <4> QED
        BY <4>1, <4>2, <4>3
    <3>2. CASE attempt[cur[w]] # "uncertain"
      <4>1. /\ UNCHANGED <<cur, marker, status, attempt, attemptTicket>> /\ cur[w] \in Runs
            /\ pc'[w] = "finish"
            /\ \A v \in Workers \ {w} :
                 pc'[v] = pc[v] /\ result'[v] = result[v] /\ found'[v] = found[v]
        BY <2>19, <3>2 DEF SettleReconciled
      <4>2. \/ result'[w] = "uncertain"
            \/ attempt[cur[w]] \in Confirmed /\ found'[w] = attemptTicket[cur[w]]
        BY <2>19, <3>2 DEF SettleReconciled, HasTicket
      <4> QED
        BY <4>1, <4>2
    <3> QED
      BY <3>1, <3>2
  <2>20. CASE FinishSuccess(w)
    BY <2>20 DEF FinishSuccess
  <2>21. CASE FinishNotSent(w)
    BY <2>21 DEF FinishNotSent
  <2>22. CASE FinishFailed(w)
    <3>1. /\ UNCHANGED <<attempt, attemptTicket, marker>>
          /\ status[cur[w]] = "running"
          /\ \A r \in Runs : r # cur[w] => status'[r] = status[r]
      BY <2>22 DEF FinishFailed
    <3>2. \A v \in Workers : pc'[v] = pc[v] \/ pc'[v] \in {"next", "idle"}
      BY <2>22 DEF FinishFailed
    <3>3. \A v \in Workers : pc'[v] \notin {"next", "idle"} =>
            cur'[v] = cur[v] /\ result'[v] = result[v] /\ found'[v] = found[v]
      BY <2>22 DEF FinishFailed
    <3> QED
      BY <3>1, <3>2, <3>3 DEF ReviewTypeOK, Decision
  <2>23. CASE FinishUncertain(w)
    <3>1. /\ UNCHANGED <<attempt, attemptTicket, marker>>
          /\ status[cur[w]] = "running"
          /\ \A r \in Runs : r # cur[w] => status'[r] = status[r]
      BY <2>23 DEF FinishUncertain
    <3>2. \A v \in Workers : pc'[v] = pc[v] \/ pc'[v] \in {"next", "idle"}
      BY <2>23 DEF FinishUncertain
    <3>3. \A v \in Workers : pc'[v] \notin {"next", "idle"} =>
            cur'[v] = cur[v] /\ result'[v] = result[v] /\ found'[v] = found[v]
      BY <2>23 DEF FinishUncertain
    <3> QED
      BY <3>1, <3>2, <3>3 DEF ReviewTypeOK, Decision
  <2> QED
    BY <2>1, <2>2, <2>3, <2>4, <2>5, <2>6, <2>7, <2>8, <2>9, <2>10, <2>11, <2>12, <2>13, <2>14, <2>15, <2>16, <2>17, <2>18, <2>19, <2>20, <2>21, <2>22, <2>23 DEF Work
<1>2. ASSUME NEW w \in Workers, Fault(w), UNCHANGED checked PROVE TicketsInHand'
  <2> USE <1>2 DEF Goto, Report, Continue, Exit
  <2>1. CASE DbFails(w)
    BY <2>1 DEF DbFails
  <2>2. CASE StartFails(w)
    BY <2>2 DEF StartFails
  <2>3. CASE SuccessUnsaved(w)
    BY <2>3 DEF SuccessUnsaved
  <2>4. CASE ReconcileFails(w)
    BY <2>4 DEF ReconcileFails
  <2>5. CASE BatchAborted(w)
    BY <2>5 DEF BatchAborted
  <2>6. CASE Crash(w)
    BY <2>6 DEF Crash
  <2> QED
    BY <2>1, <2>2, <2>3, <2>4, <2>5, <2>6 DEF Fault
<1>3. ASSUME Environment PROVE TicketsInHand'
  <2>1. CASE LockExpires /\ UNCHANGED checked
    BY <2>1 DEF LockExpires
  <2>2. CASE SafetyStep /\ UNCHANGED checked
    BY <2>2 DEF SafetyStep
  <2>3. CASE ZnunyStep /\ UNCHANGED <<workerVars, checked>>
    <3>1. /\ UNCHANGED <<runVars, attemptVars>>
          /\ \A t \in Tickets : marker[t] # NoRun => marker'[t] = marker[t]
      BY <2>3 DEF ZnunyStep, ZnunyCreates, ZnunyRefuses
    <3>2. NoRun \notin Runs
      BY DEF Runs, NoRun
    <3> QED
      BY <2>3, <3>1, <3>2 DEF ReviewTypeOK, Decision
  <2> QED
    BY <1>3, <2>1, <2>2, <2>3 DEF Environment
<1>4. ASSUME ReviewStep, UNCHANGED workerVars PROVE TicketsInHand'
  <2> USE <1>4
  <2>1. ASSUME NEW r \in Runs, CheckRetry(r) PROVE TicketsInHand'
    BY <2>1 DEF CheckRetry, RetryOffered, OpenLeaf, Decision
  <2>2. ASSUME NEW r \in Runs, NEW t \in Tickets, CheckLink(r, t) PROVE TicketsInHand'
    BY <2>2 DEF CheckLink, OpenLeaf, Lookups, TicketsOf, Decision
  <2>3. ASSUME NEW r \in Runs, Close(r) PROVE TicketsInHand'
    BY <2>3 DEF Close, Closable, OpenLeaf
  <2>4. ASSUME NEW d \in checked, Retry(d) PROVE TicketsInHand'
    BY <2>4 DEF Retry, IsNext, Present, Members, OpenLeaf
  <2>5. ASSUME NEW d \in checked, Link(d) PROVE TicketsInHand'
    BY <2>5 DEF Link, Decision
  <2>6. CASE QueueRun
    BY <2>6 DEF QueueRun, IsNext, Present
  <2> QED
    BY <1>4, <2>1, <2>2, <2>3, <2>4, <2>5, <2>6 DEF ReviewStep
<1>5. CASE UNCHANGED vars
  BY <1>5 DEF vars
<1> QED
  BY <1>1, <1>2, <1>3, <1>4, <1>5 DEF Next, Worker, Faulty, Operator

(* ResolvedByOperators: workers write running runs, operators finished ones.  *)
LEMMA ResolvedStep == PipelineInv /\ [Next]_vars => ResolvedByOperators'
<1> USE RunsAssumption, WorkerAssumption
<1> USE DEF ResolvedByOperators, TicketsInHand, Confirmed, Finished, ExclusiveClaim,
        Processing, PipelineInv, TypeOK, TablesTypeOK, WorkerTypeOK,
        tables, runVars, attemptVars, znunyVars, workerVars, schedulerVars, localVars
<1> SUFFICES ASSUME PipelineInv, [Next]_vars PROVE ResolvedByOperators'
  OBVIOUS
<1>1. ASSUME NEW w \in Workers, Work(w), UNCHANGED checked PROVE ResolvedByOperators'
  <2> USE <1>1 DEF Goto, Report, Continue, Exit
  <2>1. CASE Acquire(w)
    BY <2>1 DEF Acquire
  <2>2. CASE Materialize(w)
    BY <2>2 DEF Materialize, IsNext, Present
  <2>3. CASE TakeBatch(w)
    BY <2>3 DEF TakeBatch
  <2>4. CASE SwitchedOff(w)
    BY <2>4 DEF SwitchedOff
  <2>5. CASE EndBatch(w)
    BY <2>5 DEF EndBatch
  <2>6. CASE Claim(w)
    BY <2>6 DEF Claim
  <2>7. CASE SkipClaimed(w)
    BY <2>7 DEF SkipClaimed
  <2>8. CASE PreflightRefuses(w)
    BY <2>8 DEF PreflightRefuses
  <2>9. CASE DuplicateGuard(w)
    BY <2>9 DEF DuplicateGuard, HasTicket
  <2>10. CASE CreateAttempt(w)
    BY <2>10 DEF CreateAttempt
  <2>11. CASE SendCreate(w)
    BY <2>11 DEF SendCreate
  <2>12. CASE ReplyCreated(w)
    BY <2>12 DEF ReplyCreated, GetReply, TicketsOf
  <2>13. CASE ReplyMissing(w)
    BY <2>13 DEF ReplyMissing, GetReply
  <2>14. CASE ReplyUnclear(w)
    BY <2>14 DEF ReplyUnclear, GetReply
  <2>15. CASE RecordCreated(w)
    BY <2>15 DEF RecordCreated
  <2>16. CASE RecordMissing(w)
    BY <2>16 DEF RecordMissing
  <2>17. CASE RecordUnclear(w)
    BY <2>17 DEF RecordUnclear
  <2>18. CASE Reconcile(w)
    BY <2>18 DEF Reconcile, HasTicket, Lookups, TicketsOf
  <2>19. CASE SettleReconciled(w)
    BY <2>19 DEF SettleReconciled, HasTicket
  <2>20. CASE FinishSuccess(w)
    BY <2>20 DEF FinishSuccess
  <2>21. CASE FinishNotSent(w)
    BY <2>21 DEF FinishNotSent
  <2>22. CASE FinishFailed(w)
    BY <2>22 DEF FinishFailed
  <2>23. CASE FinishUncertain(w)
    BY <2>23 DEF FinishUncertain
  <2> QED
    BY <2>1, <2>2, <2>3, <2>4, <2>5, <2>6, <2>7, <2>8, <2>9, <2>10, <2>11, <2>12, <2>13, <2>14, <2>15, <2>16, <2>17, <2>18, <2>19, <2>20, <2>21, <2>22, <2>23 DEF Work
<1>2. ASSUME NEW w \in Workers, Fault(w), UNCHANGED checked PROVE ResolvedByOperators'
  <2> USE <1>2 DEF Goto, Report, Continue, Exit
  <2>1. CASE DbFails(w)
    BY <2>1 DEF DbFails
  <2>2. CASE StartFails(w)
    BY <2>2 DEF StartFails
  <2>3. CASE SuccessUnsaved(w)
    BY <2>3 DEF SuccessUnsaved
  <2>4. CASE ReconcileFails(w)
    BY <2>4 DEF ReconcileFails
  <2>5. CASE BatchAborted(w)
    BY <2>5 DEF BatchAborted
  <2>6. CASE Crash(w)
    BY <2>6 DEF Crash
  <2> QED
    BY <2>1, <2>2, <2>3, <2>4, <2>5, <2>6 DEF Fault
<1>3. ASSUME Environment PROVE ResolvedByOperators'
  <2>1. CASE LockExpires /\ UNCHANGED checked
    BY <2>1 DEF LockExpires
  <2>2. CASE SafetyStep /\ UNCHANGED checked
    BY <2>2 DEF SafetyStep
  <2>3. CASE ZnunyStep /\ UNCHANGED <<workerVars, checked>>
    BY <2>3 DEF ZnunyStep, ZnunyCreates, ZnunyRefuses
  <2> QED
    BY <1>3, <2>1, <2>2, <2>3 DEF Environment
<1>4. ASSUME ReviewStep, UNCHANGED workerVars PROVE ResolvedByOperators'
  <2> USE <1>4
  <2>1. ASSUME NEW r \in Runs, CheckRetry(r) PROVE ResolvedByOperators'
    BY <2>1 DEF CheckRetry
  <2>2. ASSUME NEW r \in Runs, NEW t \in Tickets, CheckLink(r, t) PROVE ResolvedByOperators'
    BY <2>2 DEF CheckLink
  <2>3. ASSUME NEW r \in Runs, Close(r) PROVE ResolvedByOperators'
    BY <2>3 DEF Close, Closable, OpenLeaf
  <2>4. ASSUME NEW d \in checked, Retry(d) PROVE ResolvedByOperators'
    BY <2>4 DEF Retry, IsNext, Present, Members, OpenLeaf
  <2>5. ASSUME NEW d \in checked, Link(d) PROVE ResolvedByOperators'
    BY <2>5 DEF Link, Decision
  <2>6. CASE QueueRun
    BY <2>6 DEF QueueRun, IsNext, Present
  <2> QED
    BY <1>4, <2>1, <2>2, <2>3, <2>4, <2>5, <2>6 DEF ReviewStep
<1>5. CASE UNCHANGED vars
  BY <1>5 DEF vars
<1> QED
  BY <1>1, <1>2, <1>3, <1>4, <1>5 DEF Next, Worker, Faulty, Operator

(* BooksNameOwnTicket: what is booked is the ticket in hand.                  *)
LEMMA BooksStep == PipelineInv /\ [Next]_vars => BooksNameOwnTicket'
<1> USE RunsAssumption, WorkerAssumption
<1> USE DEF BooksNameOwnTicket, ResolvedByOperators, TicketsInHand, HoldsTicket,
        Confirmed, Finished, ExclusiveClaim, Processing, PipelineInv, TypeOK, TablesTypeOK, WorkerTypeOK,
        tables, runVars, attemptVars, znunyVars, workerVars, schedulerVars, localVars
<1> SUFFICES ASSUME PipelineInv, [Next]_vars PROVE BooksNameOwnTicket'
  OBVIOUS
<1>1. ASSUME NEW w \in Workers, Work(w), UNCHANGED checked PROVE BooksNameOwnTicket'
  <2> USE <1>1 DEF Goto, Report, Continue, Exit
  <2>1. CASE Acquire(w)
    BY <2>1 DEF Acquire
  <2>2. CASE Materialize(w)
    BY <2>2 DEF Materialize, IsNext, Present
  <2>3. CASE TakeBatch(w)
    BY <2>3 DEF TakeBatch
  <2>4. CASE SwitchedOff(w)
    BY <2>4 DEF SwitchedOff
  <2>5. CASE EndBatch(w)
    BY <2>5 DEF EndBatch
  <2>6. CASE Claim(w)
    BY <2>6 DEF Claim
  <2>7. CASE SkipClaimed(w)
    BY <2>7 DEF SkipClaimed
  <2>8. CASE PreflightRefuses(w)
    BY <2>8 DEF PreflightRefuses
  <2>9. CASE DuplicateGuard(w)
    BY <2>9 DEF DuplicateGuard, HasTicket
  <2>10. CASE CreateAttempt(w)
    BY <2>10 DEF CreateAttempt
  <2>11. CASE SendCreate(w)
    BY <2>11 DEF SendCreate
  <2>12. CASE ReplyCreated(w)
    BY <2>12 DEF ReplyCreated, GetReply, TicketsOf
  <2>13. CASE ReplyMissing(w)
    BY <2>13 DEF ReplyMissing, GetReply
  <2>14. CASE ReplyUnclear(w)
    BY <2>14 DEF ReplyUnclear, GetReply
  <2>15. CASE RecordCreated(w)
    BY <2>15 DEF RecordCreated
  <2>16. CASE RecordMissing(w)
    BY <2>16 DEF RecordMissing
  <2>17. CASE RecordUnclear(w)
    BY <2>17 DEF RecordUnclear
  <2>18. CASE Reconcile(w)
    BY <2>18 DEF Reconcile, HasTicket, Lookups, TicketsOf
  <2>19. CASE SettleReconciled(w)
    BY <2>19 DEF SettleReconciled, HasTicket
  <2>20. CASE FinishSuccess(w)
    BY <2>20 DEF FinishSuccess
  <2>21. CASE FinishNotSent(w)
    BY <2>21 DEF FinishNotSent
  <2>22. CASE FinishFailed(w)
    BY <2>22 DEF FinishFailed
  <2>23. CASE FinishUncertain(w)
    BY <2>23 DEF FinishUncertain
  <2> QED
    BY <2>1, <2>2, <2>3, <2>4, <2>5, <2>6, <2>7, <2>8, <2>9, <2>10, <2>11, <2>12, <2>13, <2>14, <2>15, <2>16, <2>17, <2>18, <2>19, <2>20, <2>21, <2>22, <2>23 DEF Work
<1>2. ASSUME NEW w \in Workers, Fault(w), UNCHANGED checked PROVE BooksNameOwnTicket'
  <2> USE <1>2 DEF Goto, Report, Continue, Exit
  <2>1. CASE DbFails(w)
    BY <2>1 DEF DbFails
  <2>2. CASE StartFails(w)
    BY <2>2 DEF StartFails
  <2>3. CASE SuccessUnsaved(w)
    BY <2>3 DEF SuccessUnsaved
  <2>4. CASE ReconcileFails(w)
    BY <2>4 DEF ReconcileFails
  <2>5. CASE BatchAborted(w)
    BY <2>5 DEF BatchAborted
  <2>6. CASE Crash(w)
    BY <2>6 DEF Crash
  <2> QED
    BY <2>1, <2>2, <2>3, <2>4, <2>5, <2>6 DEF Fault
<1>3. ASSUME Environment PROVE BooksNameOwnTicket'
  <2>1. CASE LockExpires /\ UNCHANGED checked
    BY <2>1 DEF LockExpires
  <2>2. CASE SafetyStep /\ UNCHANGED checked
    BY <2>2 DEF SafetyStep
  <2>3. CASE ZnunyStep /\ UNCHANGED <<workerVars, checked>>
    <3>1. /\ UNCHANGED <<runVars, attemptVars>>
          /\ \A t \in Tickets : marker[t] # NoRun => marker'[t] = marker[t]
      BY <2>3 DEF ZnunyStep, ZnunyCreates, ZnunyRefuses
    <3>2. NoRun \notin Runs
      BY DEF Runs, NoRun
    <3> QED
      BY <2>3, <3>1, <3>2 DEF ReviewTypeOK, Decision
  <2> QED
    BY <1>3, <2>1, <2>2, <2>3 DEF Environment
<1>4. ASSUME ReviewStep, UNCHANGED workerVars PROVE BooksNameOwnTicket'
  <2> USE <1>4
  <2>1. ASSUME NEW r \in Runs, CheckRetry(r) PROVE BooksNameOwnTicket'
    BY <2>1 DEF CheckRetry
  <2>2. ASSUME NEW r \in Runs, NEW t \in Tickets, CheckLink(r, t) PROVE BooksNameOwnTicket'
    BY <2>2 DEF CheckLink
  <2>3. ASSUME NEW r \in Runs, Close(r) PROVE BooksNameOwnTicket'
    BY <2>3 DEF Close, Closable, OpenLeaf
  <2>4. ASSUME NEW d \in checked, Retry(d) PROVE BooksNameOwnTicket'
    BY <2>4 DEF Retry, IsNext, Present, Members, OpenLeaf
  <2>5. ASSUME NEW d \in checked, Link(d) PROVE BooksNameOwnTicket'
    BY <2>5 DEF Link, Decision
  <2>6. CASE QueueRun
    BY <2>6 DEF QueueRun, IsNext, Present
  <2> QED
    BY <1>4, <2>1, <2>2, <2>3, <2>4, <2>5, <2>6 DEF ReviewStep
<1>5. CASE UNCHANGED vars
  BY <1>5 DEF vars
<1> QED
  BY <1>1, <1>2, <1>3, <1>4, <1>5 DEF Next, Worker, Faulty, Operator

(* SuccessHasTicket: the final write of a success books the ticket in hand.   *)
LEMMA SuccessStep == PipelineInv /\ [Next]_vars => SuccessHasTicket'
<1> USE RunsAssumption, WorkerAssumption
<1> USE DEF SuccessHasTicket, ResolvedByOperators, TicketsInHand, HoldsTicket,
        ExclusiveClaim, Processing, PipelineInv, TypeOK, TablesTypeOK, WorkerTypeOK,
        tables, runVars, attemptVars, znunyVars, workerVars, schedulerVars, localVars
<1> SUFFICES ASSUME PipelineInv, [Next]_vars PROVE SuccessHasTicket'
  OBVIOUS
<1>1. ASSUME NEW w \in Workers, Work(w), UNCHANGED checked PROVE SuccessHasTicket'
  <2> USE <1>1 DEF Goto, Report, Continue, Exit
  <2>1. CASE Acquire(w)
    BY <2>1 DEF Acquire
  <2>2. CASE Materialize(w)
    BY <2>2 DEF Materialize, IsNext, Present
  <2>3. CASE TakeBatch(w)
    BY <2>3 DEF TakeBatch
  <2>4. CASE SwitchedOff(w)
    BY <2>4 DEF SwitchedOff
  <2>5. CASE EndBatch(w)
    BY <2>5 DEF EndBatch
  <2>6. CASE Claim(w)
    BY <2>6 DEF Claim
  <2>7. CASE SkipClaimed(w)
    BY <2>7 DEF SkipClaimed
  <2>8. CASE PreflightRefuses(w)
    BY <2>8 DEF PreflightRefuses
  <2>9. CASE DuplicateGuard(w)
    BY <2>9 DEF DuplicateGuard, HasTicket
  <2>10. CASE CreateAttempt(w)
    BY <2>10 DEF CreateAttempt
  <2>11. CASE SendCreate(w)
    BY <2>11 DEF SendCreate
  <2>12. CASE ReplyCreated(w)
    BY <2>12 DEF ReplyCreated, GetReply, TicketsOf
  <2>13. CASE ReplyMissing(w)
    BY <2>13 DEF ReplyMissing, GetReply
  <2>14. CASE ReplyUnclear(w)
    BY <2>14 DEF ReplyUnclear, GetReply
  <2>15. CASE RecordCreated(w)
    BY <2>15 DEF RecordCreated
  <2>16. CASE RecordMissing(w)
    BY <2>16 DEF RecordMissing
  <2>17. CASE RecordUnclear(w)
    BY <2>17 DEF RecordUnclear
  <2>18. CASE Reconcile(w)
    BY <2>18 DEF Reconcile, HasTicket, Lookups, TicketsOf
  <2>19. CASE SettleReconciled(w)
    BY <2>19 DEF SettleReconciled, HasTicket
  <2>20. CASE FinishSuccess(w)
    BY <2>20 DEF FinishSuccess
  <2>21. CASE FinishNotSent(w)
    BY <2>21 DEF FinishNotSent
  <2>22. CASE FinishFailed(w)
    BY <2>22 DEF FinishFailed
  <2>23. CASE FinishUncertain(w)
    BY <2>23 DEF FinishUncertain
  <2> QED
    BY <2>1, <2>2, <2>3, <2>4, <2>5, <2>6, <2>7, <2>8, <2>9, <2>10, <2>11, <2>12, <2>13, <2>14, <2>15, <2>16, <2>17, <2>18, <2>19, <2>20, <2>21, <2>22, <2>23 DEF Work
<1>2. ASSUME NEW w \in Workers, Fault(w), UNCHANGED checked PROVE SuccessHasTicket'
  <2> USE <1>2 DEF Goto, Report, Continue, Exit
  <2>1. CASE DbFails(w)
    BY <2>1 DEF DbFails
  <2>2. CASE StartFails(w)
    BY <2>2 DEF StartFails
  <2>3. CASE SuccessUnsaved(w)
    BY <2>3 DEF SuccessUnsaved
  <2>4. CASE ReconcileFails(w)
    BY <2>4 DEF ReconcileFails
  <2>5. CASE BatchAborted(w)
    BY <2>5 DEF BatchAborted
  <2>6. CASE Crash(w)
    BY <2>6 DEF Crash
  <2> QED
    BY <2>1, <2>2, <2>3, <2>4, <2>5, <2>6 DEF Fault
<1>3. ASSUME Environment PROVE SuccessHasTicket'
  <2>1. CASE LockExpires /\ UNCHANGED checked
    BY <2>1 DEF LockExpires
  <2>2. CASE SafetyStep /\ UNCHANGED checked
    BY <2>2 DEF SafetyStep
  <2>3. CASE ZnunyStep /\ UNCHANGED <<workerVars, checked>>
    BY <2>3 DEF ZnunyStep, ZnunyCreates, ZnunyRefuses
  <2> QED
    BY <1>3, <2>1, <2>2, <2>3 DEF Environment
<1>4. ASSUME ReviewStep, UNCHANGED workerVars PROVE SuccessHasTicket'
  <2> USE <1>4
  <2>1. ASSUME NEW r \in Runs, CheckRetry(r) PROVE SuccessHasTicket'
    BY <2>1 DEF CheckRetry
  <2>2. ASSUME NEW r \in Runs, NEW t \in Tickets, CheckLink(r, t) PROVE SuccessHasTicket'
    BY <2>2 DEF CheckLink
  <2>3. ASSUME NEW r \in Runs, Close(r) PROVE SuccessHasTicket'
    BY <2>3 DEF Close, Closable, OpenLeaf
  <2>4. ASSUME NEW d \in checked, Retry(d) PROVE SuccessHasTicket'
    BY <2>4 DEF Retry, IsNext, Present, Members, OpenLeaf
  <2>5. ASSUME NEW d \in checked, Link(d) PROVE SuccessHasTicket'
    BY <2>5 DEF Link, Decision
  <2>6. CASE QueueRun
    BY <2>6 DEF QueueRun, IsNext, Present
  <2> QED
    BY <1>4, <2>1, <2>2, <2>3, <2>4, <2>5, <2>6 DEF ReviewStep
<1>5. CASE UNCHANGED vars
  BY <1>5 DEF vars
<1> QED
  BY <1>1, <1>2, <1>3, <1>4, <1>5 DEF Next, Worker, Faulty, Operator

(* SettlementsAgree: operators settle run and attempt in one transaction, and  *)
(* workers touch only attempts of running runs, which nobody has settled.   *)
LEMMA SettlementsStep == PipelineInv /\ [Next]_vars => SettlementsAgree'
<1> USE RunsAssumption, WorkerAssumption
<1> USE DEF SettlementsAgree, ResolvedByOperators, TicketsInHand, ExclusiveClaim,
        Processing, Finished, PipelineInv, TypeOK, TablesTypeOK, WorkerTypeOK,
        tables, runVars, attemptVars, znunyVars, workerVars, schedulerVars, localVars
<1> SUFFICES ASSUME PipelineInv, [Next]_vars PROVE SettlementsAgree'
  OBVIOUS
<1>1. ASSUME NEW w \in Workers, Work(w), UNCHANGED checked PROVE SettlementsAgree'
  <2> USE <1>1 DEF Goto, Report, Continue, Exit
  <2>1. CASE Acquire(w)
    BY <2>1 DEF Acquire
  <2>2. CASE Materialize(w)
    BY <2>2 DEF Materialize, IsNext, Present
  <2>3. CASE TakeBatch(w)
    BY <2>3 DEF TakeBatch
  <2>4. CASE SwitchedOff(w)
    BY <2>4 DEF SwitchedOff
  <2>5. CASE EndBatch(w)
    BY <2>5 DEF EndBatch
  <2>6. CASE Claim(w)
    BY <2>6 DEF Claim
  <2>7. CASE SkipClaimed(w)
    BY <2>7 DEF SkipClaimed
  <2>8. CASE PreflightRefuses(w)
    BY <2>8 DEF PreflightRefuses
  <2>9. CASE DuplicateGuard(w)
    BY <2>9 DEF DuplicateGuard, HasTicket
  <2>10. CASE CreateAttempt(w)
    BY <2>10 DEF CreateAttempt
  <2>11. CASE SendCreate(w)
    BY <2>11 DEF SendCreate
  <2>12. CASE ReplyCreated(w)
    BY <2>12 DEF ReplyCreated, GetReply, TicketsOf
  <2>13. CASE ReplyMissing(w)
    BY <2>13 DEF ReplyMissing, GetReply
  <2>14. CASE ReplyUnclear(w)
    BY <2>14 DEF ReplyUnclear, GetReply
  <2>15. CASE RecordCreated(w)
    BY <2>15 DEF RecordCreated
  <2>16. CASE RecordMissing(w)
    BY <2>16 DEF RecordMissing
  <2>17. CASE RecordUnclear(w)
    BY <2>17 DEF RecordUnclear
  <2>18. CASE Reconcile(w)
    BY <2>18 DEF Reconcile, HasTicket, Lookups, TicketsOf
  <2>19. CASE SettleReconciled(w)
    BY <2>19 DEF SettleReconciled, HasTicket
  <2>20. CASE FinishSuccess(w)
    BY <2>20 DEF FinishSuccess
  <2>21. CASE FinishNotSent(w)
    BY <2>21 DEF FinishNotSent
  <2>22. CASE FinishFailed(w)
    BY <2>22 DEF FinishFailed
  <2>23. CASE FinishUncertain(w)
    BY <2>23 DEF FinishUncertain
  <2> QED
    BY <2>1, <2>2, <2>3, <2>4, <2>5, <2>6, <2>7, <2>8, <2>9, <2>10, <2>11, <2>12, <2>13, <2>14, <2>15, <2>16, <2>17, <2>18, <2>19, <2>20, <2>21, <2>22, <2>23 DEF Work
<1>2. ASSUME NEW w \in Workers, Fault(w), UNCHANGED checked PROVE SettlementsAgree'
  <2> USE <1>2 DEF Goto, Report, Continue, Exit
  <2>1. CASE DbFails(w)
    BY <2>1 DEF DbFails
  <2>2. CASE StartFails(w)
    BY <2>2 DEF StartFails
  <2>3. CASE SuccessUnsaved(w)
    BY <2>3 DEF SuccessUnsaved
  <2>4. CASE ReconcileFails(w)
    BY <2>4 DEF ReconcileFails
  <2>5. CASE BatchAborted(w)
    BY <2>5 DEF BatchAborted
  <2>6. CASE Crash(w)
    BY <2>6 DEF Crash
  <2> QED
    BY <2>1, <2>2, <2>3, <2>4, <2>5, <2>6 DEF Fault
<1>3. ASSUME Environment PROVE SettlementsAgree'
  <2>1. CASE LockExpires /\ UNCHANGED checked
    BY <2>1 DEF LockExpires
  <2>2. CASE SafetyStep /\ UNCHANGED checked
    BY <2>2 DEF SafetyStep
  <2>3. CASE ZnunyStep /\ UNCHANGED <<workerVars, checked>>
    BY <2>3 DEF ZnunyStep, ZnunyCreates, ZnunyRefuses
  <2> QED
    BY <1>3, <2>1, <2>2, <2>3 DEF Environment
<1>4. ASSUME ReviewStep, UNCHANGED workerVars PROVE SettlementsAgree'
  <2> USE <1>4
  <2>1. ASSUME NEW r \in Runs, CheckRetry(r) PROVE SettlementsAgree'
    BY <2>1 DEF CheckRetry
  <2>2. ASSUME NEW r \in Runs, NEW t \in Tickets, CheckLink(r, t) PROVE SettlementsAgree'
    BY <2>2 DEF CheckLink
  <2>3. ASSUME NEW r \in Runs, Close(r) PROVE SettlementsAgree'
    BY <2>3 DEF Close, Closable, OpenLeaf
  <2>4. ASSUME NEW d \in checked, Retry(d) PROVE SettlementsAgree'
    BY <2>4 DEF Retry, IsNext, Present, Members, OpenLeaf
  <2>5. ASSUME NEW d \in checked, Link(d) PROVE SettlementsAgree'
    BY <2>5 DEF Link, Decision
  <2>6. CASE QueueRun
    BY <2>6 DEF QueueRun, IsNext, Present
  <2> QED
    BY <1>4, <2>1, <2>2, <2>3, <2>4, <2>5, <2>6 DEF ReviewStep
<1>5. CASE UNCHANGED vars
  BY <1>5 DEF vars
<1> QED
  BY <1>1, <1>2, <1>3, <1>4, <1>5 DEF Next, Worker, Faulty, Operator


----------------------------------------------------------------------------

(* Everything starts out empty. *)
LEMMA InvInit == Init => PipelineInv
<1> USE RunsAssumption, WorkerAssumption
<1> USE DEF Init, TablesInit, WorkerInit, ReviewInit
<1> SUFFICES ASSUME Init PROVE PipelineInv
  OBVIOUS
<1>1. TypeOK
  <2>1. TablesTypeOK
    BY DEF TablesTypeOK, RunStatus, Resolution, AttemptStatus, RequestState
  <2>2. WorkerTypeOK
    <3>1. failures \in 0 .. Threshold
      OBVIOUS
    <3>2. /\ pc \in [Workers -> ProgramPoint]
          /\ \A w \in Workers : pc[w] = "idle" /\ "idle" \notin Processing
      BY DEF ProgramPoint, Processing
    <3>3. /\ batch \in [Workers -> SUBSET Runs]
          /\ cur \in [Workers -> Runs \cup {NoRun}]
          /\ found \in [Workers -> Tickets \cup {NoTicket}]
          /\ result \in [Workers -> {"none"} \cup Reply \cup Outcome]
      OBVIOUS
    <3> QED
      BY <3>1, <3>2, <3>3 DEF WorkerTypeOK
  <2>3. ReviewTypeOK
    BY DEF ReviewTypeOK
  <2> QED
    BY <2>1, <2>2, <2>3 DEF TypeOK
<1>2. ExclusiveClaim /\ RequestFollowsClaim
  BY DEF ExclusiveClaim, RequestFollowsClaim, Processing
<1>3. OneTicketPerMarker
  BY DEF OneTicketPerMarker
<1>4. TicketsInHand
  BY DEF TicketsInHand, HoldsTicket, Confirmed
<1>5. BooksNameOwnTicket /\ SuccessHasTicket /\ SettlementsAgree
  BY DEF BooksNameOwnTicket, SuccessHasTicket, SettlementsAgree
<1>6. ResolvedByOperators
  BY DEF ResolvedByOperators
<1> QED
  BY <1>1, <1>2, <1>3, <1>4, <1>5, <1>6 DEF PipelineInv

LEMMA InvStep == PipelineInv /\ [Next]_vars => PipelineInv'
<1> SUFFICES ASSUME PipelineInv, [Next]_vars PROVE PipelineInv'
  OBVIOUS
<1>1. TypeOK'
  BY TypeStep DEF PipelineInv
<1> QED
  BY <1>1, ClaimStep, RequestStep, MarkerStep, HandStep, ResolvedStep,
     BooksStep, SuccessStep, SettlementsStep DEF PipelineInv

(* Claims, requests, tickets in hand and the books of ScheduledZnunyTask-    *)
(* RunProcessor, the creation service and the review services fit together   *)
(* in every reachable state.                                                 *)
THEOREM PipelineInvariant == Spec => []PipelineInv
  BY InvInit, InvStep, PTL DEF Spec

(* Every column and register keeps its type. *)
THEOREM TypeCorrect == Spec => []TypeOK
<1>1. PipelineInv => TypeOK
  BY DEF PipelineInv
<1> QED
  BY <1>1, PipelineInvariant, PTL

(* processRun's conditional update lets one process in, however many the     *)
(* expiring lock of the runner lets overlap.                                 *)
THEOREM ClaimsAreExclusive == Spec => []ExclusiveClaim
<1>1. PipelineInv => ExclusiveClaim
  BY DEF PipelineInv
<1> QED
  BY <1>1, PipelineInvariant, PTL

(* No run makes Znuny hold two tickets with its marker, whatever crashes,    *)
(* database errors and late or incomplete replies happen.                    *)
THEOREM NoTwinTickets == Spec => []OneTicketPerMarker
<1>1. PipelineInv => OneTicketPerMarker
  BY DEF PipelineInv
<1> QED
  BY <1>1, PipelineInvariant, PTL

(* The ticket booked for a run is the one with its marker.                   *)
THEOREM BooksAreRight == Spec => []BooksNameOwnTicket
<1>1. PipelineInv => BooksNameOwnTicket
  BY DEF PipelineInv
<1> QED
  BY <1>1, PipelineInvariant, PTL

(* A run is a success, or linked by hand, only with its ticket on the books.  *)
THEOREM NoEmptySuccess == Spec => []SuccessHasTicket
<1>1. PipelineInv => SuccessHasTicket
  BY DEF PipelineInv
<1> QED
  BY <1>1, PipelineInvariant, PTL

(* Run rows and attempt rows tell the same about what operators settled.     *)
THEOREM SettlementsNeverDiffer == Spec => []SettlementsAgree
<1>1. PipelineInv => SettlementsAgree
  BY DEF PipelineInv
<1> QED
  BY <1>1, PipelineInvariant, PTL
=============================================================================
