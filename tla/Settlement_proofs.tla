------------------------- MODULE Settlement_proofs -------------------------
(***************************************************************************)
(* Settled runs stay settled, for every number of runs, tickets and        *)
(* workers: no late worker and no late operator rewrites what the tables   *)
(* say of a run that is done.                                              *)
(***************************************************************************)
EXTENDS RetryChains_proofs

(* A worker writes the status and the ticket of the run it holds, which is  *)
(* running, or of a run it inserts or claims.                               *)
LEMMA WorkSettlesOwnRun ==
  ASSUME PipelineInv, NEW w \in Workers, Work(w) \/ Fault(w)
  PROVE  /\ UNCHANGED resolution
         /\ \A r \in Runs : status[r] \in Finished =>
              status'[r] = status[r] /\ runTicket'[r] = runTicket[r]
         /\ \A r \in Runs : status[r] \in {"absent", "pending"} =>
              runTicket'[r] = runTicket[r]
<1> USE DEF PipelineInv, TypeOK, TablesTypeOK, WorkerTypeOK, ExclusiveClaim,
        Processing, Finished, tables, runVars
<1>1. CASE Work(w)
  <2>1. CASE Claim(w)
    BY <2>1 DEF Claim
  <2>2. CASE Materialize(w)
    BY <2>2 DEF Materialize, IsNext, Present
  <2>3. CASE FinishSuccess(w) \/ FinishNotSent(w) \/ FinishFailed(w)
    BY <2>3 DEF FinishSuccess, FinishNotSent, FinishFailed
  <2>4. CASE FinishUncertain(w)
    BY <2>4 DEF FinishUncertain
  <2>5. CASE \/ Acquire(w) \/ TakeBatch(w) \/ SwitchedOff(w) \/ EndBatch(w)
             \/ SkipClaimed(w) \/ PreflightRefuses(w) \/ DuplicateGuard(w)
    BY <2>5 DEF Acquire, TakeBatch, SwitchedOff, EndBatch, SkipClaimed,
                PreflightRefuses, DuplicateGuard
  <2>6. CASE \/ CreateAttempt(w) \/ SendCreate(w)
             \/ ReplyCreated(w) \/ ReplyMissing(w) \/ ReplyUnclear(w)
    BY <2>6 DEF CreateAttempt, SendCreate, ReplyCreated, ReplyMissing,
                ReplyUnclear, GetReply
  <2>7. CASE \/ RecordCreated(w) \/ RecordMissing(w) \/ RecordUnclear(w)
             \/ Reconcile(w) \/ SettleReconciled(w)
    BY <2>7 DEF RecordCreated, RecordMissing, RecordUnclear, Reconcile,
                SettleReconciled
  <2> QED
    BY <1>1, <2>1, <2>2, <2>3, <2>4, <2>5, <2>6, <2>7 DEF Work
<1>2. CASE Fault(w)
  BY <1>2 DEF Fault, DbFails, StartFails, SuccessUnsaved, ReconcileFails,
              BatchAborted, Crash
<1> QED
  BY <1>1, <1>2

(* Operators resolve open runs only, and link a ticket only to a run that    *)
(* has none.                                                                *)
LEMMA ReviewSettlesOpenRuns ==
  ASSUME PipelineInv, ReviewStep
  PROVE  SettledStays
<1> USE DEF SettledStays, PipelineInv, TypeOK, TablesTypeOK, ReviewTypeOK, Decision,
        ResolvedByOperators, Finished, tables, runVars
<1>1. ASSUME NEW r \in Runs, CheckRetry(r) PROVE SettledStays
  BY <1>1 DEF CheckRetry
<1>2. ASSUME NEW r \in Runs, NEW t \in Tickets, CheckLink(r, t) PROVE SettledStays
  BY <1>2 DEF CheckLink
<1>3. ASSUME NEW r \in Runs, Close(r) PROVE SettledStays
  BY <1>3 DEF Close, Closable, OpenLeaf
<1>4. ASSUME NEW d \in checked, Retry(d) PROVE SettledStays
  BY <1>4 DEF Retry, IsNext, Present, Members, OpenLeaf
<1>5. ASSUME NEW d \in checked, Link(d) PROVE SettledStays
  <2>1. d.run \in Runs /\ status[d.run] \in {"failed", "uncertain"}
    BY DEF TicketsInHand
  <2>2. runTicket[d.run] = NoTicket
    BY <1>5, <2>1 DEF Link
  <2> QED
    BY <1>5, <2>1, <2>2 DEF Link
<1>6. CASE QueueRun
  BY <1>6 DEF QueueRun, IsNext, Present
<1> QED
  BY <1>1, <1>2, <1>3, <1>4, <1>5, <1>6 DEF ReviewStep

(* processRun, reconcile(), retry(), link() and close() leave alone whatever  *)
(* was settled before them.                                                 *)
THEOREM SettlementsAreFinal == Spec => SettledForGood
<1>1. PipelineInv /\ [Next]_vars => [SettledStays]_vars
  <2> SUFFICES ASSUME PipelineInv, [Next]_vars PROVE [SettledStays]_vars
    OBVIOUS
  <2>1. ASSUME NEW w \in Workers, Work(w) \/ Fault(w) PROVE SettledStays
    <3>1. \A r \in Runs : runTicket[r] # NoTicket =>
            status[r] \in Finished \cup {"absent", "pending"}
      BY DEF PipelineInv, ResolvedByOperators, Finished
    <3> QED
      BY <2>1, <3>1, WorkSettlesOwnRun
         DEF SettledStays, PipelineInv, ResolvedByOperators, Finished
  <2>2. CASE Environment
    <3>1. UNCHANGED runVars
      BY <2>2 DEF Environment, LockExpires, SafetyStep, ZnunyStep, ZnunyCreates,
                  ZnunyRefuses, tables
    <3> QED
      BY <3>1 DEF SettledStays, runVars, PipelineInv, ResolvedByOperators
  <2>3. CASE Operator
    BY <2>3, ReviewSettlesOpenRuns DEF Operator
  <2> QED
    BY <2>1, <2>2, <2>3 DEF Next, Worker, Faulty
<1> QED
  BY <1>1, PipelineInvariant, PTL DEF Spec, SettledForGood

----------------------------------------------------------------------------
(* What the attempts say is true, as long as the database takes every write *)
(* and Znuny answers completely.  (With either fault the code does report a *)
(* failed run that has a ticket: the catch-all of processRun, and a reply   *)
(* without TicketID taken for a refusal.)                                   *)
OnlyCrashes == Faults \cap {"db", "partial"} = {}

LEMMA AccountedStep ==
  ASSUME OnlyCrashes, PipelineInv, Accounted, [Next]_vars
  PROVE  Accounted'
<1> USE DEF Accounted, RequestFollowsClaim, ExclusiveClaim, Processing, PipelineInv,
        TypeOK, TablesTypeOK, WorkerTypeOK, tables, runVars, attemptVars, znunyVars,
        workerVars, schedulerVars, localVars
<1>1. ASSUME NEW w \in Workers, Work(w), UNCHANGED checked PROVE Accounted'
  <2> USE <1>1 DEF Goto, Report, Continue, Exit
  <2>1. CASE Acquire(w)
    BY <2>1 DEF Acquire
  <2>2. CASE Materialize(w)
    BY <2>2 DEF Materialize, IsNext, Present
  <2>3. CASE TakeBatch(w)
    BY <2>3 DEF TakeBatch
  <2>4. CASE SwitchedOff(w)
    BY <2>4 DEF SwitchedOff
  <2>5. CASE EndBatch(w)
    BY <2>5 DEF EndBatch
  <2>6. CASE Claim(w)
    BY <2>6 DEF Claim
  <2>7. CASE SkipClaimed(w)
    BY <2>7 DEF SkipClaimed
  <2>8. CASE PreflightRefuses(w)
    BY <2>8 DEF PreflightRefuses
  <2>9. CASE DuplicateGuard(w)
    BY <2>9 DEF DuplicateGuard, MayResend
  <2>10. CASE CreateAttempt(w)
    BY <2>10 DEF CreateAttempt
  <2>11. CASE SendCreate(w)
    BY <2>11 DEF SendCreate
  <2>12. CASE ReplyCreated(w)
    BY <2>12 DEF ReplyCreated, GetReply, TicketsOf
  <2>13. CASE ReplyMissing(w)
    BY <2>13 DEF OnlyCrashes, ReplyMissing, GetReply
  <2>14. CASE ReplyUnclear(w)
    BY <2>14 DEF ReplyUnclear, GetReply
  <2>15. CASE RecordCreated(w)
    BY <2>15 DEF RecordCreated
  <2>16. CASE RecordMissing(w)
    BY <2>16 DEF RecordMissing
  <2>17. CASE RecordUnclear(w)
    BY <2>17 DEF RecordUnclear
  <2>18. CASE Reconcile(w)
    BY <2>18 DEF Reconcile, HasTicket, Lookups, TicketsOf
  <2>19. CASE SettleReconciled(w)
    BY <2>19 DEF SettleReconciled, HasTicket
  <2>20. CASE FinishSuccess(w)
    BY <2>20 DEF FinishSuccess
  <2>21. CASE FinishNotSent(w)
    BY <2>21 DEF FinishNotSent
  <2>22. CASE FinishFailed(w)
    <3>1. /\ UNCHANGED <<attempt, request>>
          /\ pc'[w] \in {"next", "idle"} /\ \A v \in Workers \ {w} :
               pc'[v] = pc[v] /\ cur'[v] = cur[v] /\ result'[v] = result[v]
      BY <2>22 DEF FinishFailed
    <3>2. /\ attempt[cur[w]] \in {"none", "confirmed_failed"}
          /\ \A r \in Runs : status'[r] = status[r] \/ (r = cur[w] /\ status'[r] = "failed")
      BY <2>22 DEF FinishFailed
    <3> QED
      BY <3>1, <3>2
  <2>23. CASE FinishUncertain(w)
    <3>1. /\ UNCHANGED <<attempt, request>>
          /\ pc'[w] = "idle" /\ \A v \in Workers \ {w} :
               pc'[v] = pc[v] /\ cur'[v] = cur[v] /\ result'[v] = result[v]
      BY <2>23 DEF FinishUncertain
    <3>2. /\ attempt[cur[w]] = "uncertain"
          /\ \A r \in Runs : status'[r] = status[r] \/ (r = cur[w] /\ status'[r] = "uncertain")
      BY <2>23 DEF FinishUncertain
    <3> QED
      BY <3>1, <3>2
  <2> QED
    BY <2>1, <2>2, <2>3, <2>4, <2>5, <2>6, <2>7, <2>8, <2>9, <2>10, <2>11, <2>12, <2>13, <2>14, <2>15, <2>16, <2>17, <2>18, <2>19, <2>20, <2>21, <2>22, <2>23 DEF Work
<1>2. ASSUME NEW w \in Workers, Fault(w), UNCHANGED checked PROVE Accounted'
  <2> USE <1>2 DEF Goto, Report, Continue, Exit
  <2>1. CASE DbFails(w)
    BY <2>1 DEF OnlyCrashes, DbFails
  <2>2. CASE StartFails(w)
    BY <2>2 DEF OnlyCrashes, StartFails
  <2>3. CASE SuccessUnsaved(w)
    BY <2>3 DEF OnlyCrashes, SuccessUnsaved
  <2>4. CASE ReconcileFails(w)
    BY <2>4 DEF OnlyCrashes, ReconcileFails
  <2>5. CASE BatchAborted(w)
    BY <2>5 DEF OnlyCrashes, BatchAborted
  <2>6. CASE Crash(w)
    BY <2>6 DEF Crash
  <2> QED
    BY <2>1, <2>2, <2>3, <2>4, <2>5, <2>6 DEF Fault
<1>3. ASSUME Environment PROVE Accounted'
  <2>1. CASE LockExpires /\ UNCHANGED checked
    BY <2>1 DEF LockExpires
  <2>2. CASE SafetyStep /\ UNCHANGED checked
    BY <2>2 DEF SafetyStep
  <2>3. CASE ZnunyStep /\ UNCHANGED <<workerVars, checked>>
    BY <2>3 DEF ZnunyStep, ZnunyCreates, ZnunyRefuses
  <2> QED
    BY <1>3, <2>1, <2>2, <2>3 DEF Environment
<1>4. ASSUME ReviewStep, UNCHANGED workerVars PROVE Accounted'
  <2> USE <1>4
  <2>1. ASSUME NEW r \in Runs, CheckRetry(r) PROVE Accounted'
    BY <2>1 DEF CheckRetry
  <2>2. ASSUME NEW r \in Runs, NEW t \in Tickets, CheckLink(r, t) PROVE Accounted'
    BY <2>2 DEF CheckLink
  <2>3. ASSUME NEW r \in Runs, Close(r) PROVE Accounted'
    BY <2>3 DEF Close, Closable, OpenLeaf
  <2>4. ASSUME NEW d \in checked, Retry(d) PROVE Accounted'
    BY <2>4 DEF Retry, IsNext, Present, Members, OpenLeaf
  <2>5. ASSUME NEW d \in checked, Link(d) PROVE Accounted'
    BY <2>5 DEF Link, TicketsInHand, ReviewTypeOK, Decision
  <2>6. CASE QueueRun
    BY <2>6 DEF QueueRun, IsNext, Present
  <2> QED
    BY <1>4, <2>1, <2>2, <2>3, <2>4, <2>5, <2>6 DEF ReviewStep
<1>5. CASE UNCHANGED vars
  BY <1>5 DEF vars
<1> QED
  BY <1>1, <1>2, <1>3, <1>4, <1>5 DEF Next, Worker, Faulty, Operator

LEMMA AccountedInit == Init => Accounted
  BY DEF Init, TablesInit, WorkerInit, Accounted

(* What the attempt rows say of the requests stays true.                     *)
THEOREM AttemptsAreAccounted ==
  ASSUME OnlyCrashes
  PROVE  Spec => []Accounted
<1>1. PipelineInv /\ Accounted /\ [Next]_vars => Accounted'
  BY AccountedStep
<1> QED
  BY <1>1, AccountedInit, PipelineInvariant, PTL DEF Spec

(* A run the books call failed has no ticket at Znuny and will get none: its *)
(* request was never sent or was refused.                                    *)
THEOREM FailuresHaveNoTicket ==
  ASSUME OnlyCrashes
  PROVE  Spec => []FailedMeansNoTicket
<1>1. PipelineInv /\ Accounted => FailedMeansNoTicket
  <2> SUFFICES ASSUME PipelineInv, Accounted, NEW r \in Runs, status[r] = "failed"
               PROVE  TicketsOf(r) = {} /\ request[r] # "inflight"
    BY DEF FailedMeansNoTicket
  <2>1. request[r] \in {"none", "rejected"}
    BY DEF Accounted
  <2>2. \A t \in Tickets : marker[t] # r
    BY <2>1 DEF PipelineInv, RequestFollowsClaim, Runs, NoRun
  <2> QED
    BY <2>1, <2>2 DEF TicketsOf
<1> QED
  BY <1>1, AttemptsAreAccounted, PipelineInvariant, PTL

(* A process writes the outcome of the run it holds, and that of an          *)
(* unaccounted request in one step with the switch.                          *)
LEMMA WorkStopsUnaccounted ==
  ASSUME OnlyCrashes, PipelineInv, Accounted, NEW w \in Workers, Work(w) \/ Fault(w)
  PROVE  UnaccountedStops
<1> USE DEF UnaccountedStops, PipelineInv, TypeOK, TablesTypeOK, WorkerTypeOK,
        ExclusiveClaim, Processing, Finished, tables, runVars, attemptVars
<1>1. CASE Work(w)
  <2>1. CASE Claim(w) \/ Materialize(w)
    BY <2>1 DEF Claim, Materialize, IsNext, Present
  <2>2. CASE FinishSuccess(w)
    BY <2>2 DEF FinishSuccess, TicketsInHand, Confirmed
  <2>3. CASE FinishNotSent(w) \/ FinishFailed(w)
    BY <2>3 DEF FinishNotSent, FinishFailed, Accounted
  <2>4. CASE FinishUncertain(w)
    BY <2>4 DEF FinishUncertain
  <2>5. CASE \/ Acquire(w) \/ TakeBatch(w) \/ SwitchedOff(w) \/ EndBatch(w)
             \/ SkipClaimed(w) \/ PreflightRefuses(w) \/ DuplicateGuard(w)
    BY <2>5 DEF Acquire, TakeBatch, SwitchedOff, EndBatch, SkipClaimed,
                PreflightRefuses, DuplicateGuard
  <2>6. CASE \/ CreateAttempt(w) \/ SendCreate(w)
             \/ ReplyCreated(w) \/ ReplyMissing(w) \/ ReplyUnclear(w)
    BY <2>6 DEF CreateAttempt, SendCreate, ReplyCreated, ReplyMissing,
                ReplyUnclear, GetReply
  <2>7. CASE \/ RecordCreated(w) \/ RecordMissing(w) \/ RecordUnclear(w)
             \/ Reconcile(w) \/ SettleReconciled(w)
    BY <2>7 DEF RecordCreated, RecordMissing, RecordUnclear, Reconcile,
                SettleReconciled
  <2> QED
    BY <1>1, <2>1, <2>2, <2>3, <2>4, <2>5, <2>6, <2>7 DEF Work
<1>2. CASE Fault(w)
  BY <1>2 DEF Fault, OnlyCrashes, DbFails, StartFails, SuccessUnsaved,
              ReconcileFails, BatchAborted, Crash
<1> QED
  BY <1>1, <1>2

(* No run leaves "running" with its request unaccounted for while the        *)
(* scheduler stays on.                                                       *)
THEOREM UnaccountedRequestsStopTheScheduler ==
  ASSUME OnlyCrashes
  PROVE  Spec => UncertainStopsScheduler
<1>1. PipelineInv /\ Accounted /\ [Next]_vars => [UnaccountedStops]_vars
  <2> SUFFICES ASSUME PipelineInv, Accounted, [Next]_vars
               PROVE  [UnaccountedStops]_vars
    OBVIOUS
  <2>1. CASE Environment
    <3>1. UNCHANGED status
      BY <2>1 DEF Environment, LockExpires, SafetyStep, ZnunyStep, ZnunyCreates,
                  ZnunyRefuses, tables, runVars
    <3> QED
      BY <3>1 DEF UnaccountedStops
  <2>2. CASE Operator
    <3>1. \A r \in Runs : status[r] = "running" => status'[r] = "running"
      BY <2>2 DEF Operator, ReviewStep, QueueRun, CheckRetry, CheckLink, Close, Retry,
                  Link, IsNext, Present, tables, runVars, PipelineInv, TypeOK,
                  TablesTypeOK
    <3> QED
      BY <3>1 DEF UnaccountedStops
  <2> QED
    BY <2>1, <2>2, WorkStopsUnaccounted DEF Next, Worker, Faulty
<1> QED
  BY <1>1, AttemptsAreAccounted, PipelineInvariant, PTL
     DEF Spec, UncertainStopsScheduler

(* What the services verify of a chain before they change it holds of every  *)
(* chain that is not deeper than they allow.                                 *)
LEMMA ChainsAreWellFormed ==
  ASSUME PipelineInv, ChainInv, NEW c \in Runs, IsRoot(c),
         \A q \in Members(c) : seq[q] <= MaxDepth
  PROVE  WellFormed(c)
<1>1. Present(c) /\ root[c] = NoRun /\ parent[c] = NoRun /\ seq[c] = 0
  BY DEF IsRoot, ChainInv, RowsInOrder
<1>2. ASSUME NEW q \in Runs
      PROVE  q \in Members(c) <=> Present(q) /\ RootOf(q) = c
  BY <1>1 DEF Members, RootOf, Runs, NoRun
<1>3. ASSUME NEW q \in Members(c) \ {c}
      PROVE  parent[q] \in Members(c) /\ seq[q] = seq[parent[q]] + 1
  <2>1. q \in Runs /\ Present(q) /\ root[q] = c /\ c # NoRun
    BY <1>3, RunsAssumption DEF Members, Runs, NoRun
  <2>2. parent[q] \in Runs /\ Present(parent[q]) /\ q \in Children(parent[q])
    BY <2>1 DEF ChainInv, ChainShape, RowsInOrder, Children, PipelineInv, TypeOK,
                TablesTypeOK
  <2>3. RootOf(parent[q]) = RootOf(q) /\ seq[q] = seq[parent[q]] + 1
    BY <2>2 DEF ChainInv, RetryLine
  <2>4. RootOf(q) = c
    BY <2>1 DEF RootOf
  <2> QED
    BY <1>2, <2>2, <2>3, <2>4
<1>4. ASSUME NEW q \in Members(c)
      PROVE  Children(q) \subseteq Members(c) /\ \A a, b \in Children(q) : a = b
  <2>1. q \in Runs /\ Present(q) /\ RootOf(q) = c
    BY <1>2 DEF Members
  <2>2. \A k \in Children(q) : k \in Runs /\ Present(k) /\ RootOf(k) = c
    BY <2>1 DEF ChainInv, RetryLine, Children
  <2> QED
    BY <1>2, <2>1, <2>2 DEF ChainInv, RetryLine
<1> QED
  BY <1>1, <1>3, <1>4 DEF WellFormed

(* While the table holds no more rows than a chain may be deep, every failed *)
(* or uncertain run still open can be retried or closed.  (A deeper chain is *)
(* refused by all three services.)                                          *)
THEOREM EveryOpenLeafHasAWayOut ==
  ASSUME OnlyCrashes, MaxRuns <= MaxDepth + 1
  PROVE  Spec => []OpenLeafHasAWayOut
<1>1. PipelineInv /\ ChainInv /\ Accounted => OpenLeafHasAWayOut
  <2> SUFFICES ASSUME PipelineInv, ChainInv, Accounted, NEW r \in Runs, OpenLeaf(r)
               PROVE  RetryOffered(r) \/ Closable(r)
    BY DEF OpenLeafHasAWayOut
  <2>1. PICK c \in Runs : c = RootOf(r) /\ IsRoot(c)
    BY LeafOfChain DEF OneLeafPerChain, OpenLeaf
  <2>2. \A q \in Members(c) : seq[q] <= MaxDepth
    <3>1. \A q \in Members(c) : q \in Runs /\ seq[q] \in Nat /\ seq[q] < q
      BY DEF Members, ChainInv, RowsInOrder, PipelineInv, TypeOK, TablesTypeOK
    <3> QED
      BY <3>1, RunsAssumption DEF Runs
  <2>3. WellFormed(c)
    BY <2>1, <2>2, ChainsAreWellFormed
  <2>4. CASE attempt[r] = "confirmed_failed"
    BY <2>1, <2>3, <2>4 DEF Closable
  <2>5. CASE attempt[r] # "confirmed_failed"
    <3>1. {} \in Lookups(r)
      BY DEF Lookups
    <3>2. status[r] = "failed" => attempt[r] = "none"
      BY <2>5 DEF Accounted
    <3>3. status[r] = "uncertain" => attempt[r] = "uncertain"
      BY DEF Accounted, OpenLeaf, PipelineInv, SettlementsAgree
    <3> QED
      BY <3>1, <3>2, <3>3 DEF RetryOffered, OpenLeaf
  <2> QED
    BY <2>4, <2>5
<1> QED
  BY <1>1, AttemptsAreAccounted, PipelineInvariant, ChainInvariant, PTL
=============================================================================
