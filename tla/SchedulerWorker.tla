-------------------------- MODULE SchedulerWorker --------------------------
(***************************************************************************)
(* The command scheduled-znuny:run: ScheduledZnunyTaskRunner takes a cache *)
(* lock, materialises due runs and hands a batch to                        *)
(* ScheduledZnunyTaskRunProcessor, which claims each run and has           *)
(* ScheduledZnunyTicketCreationService create its ticket.  Every database  *)
(* or network call is a step, because two processes overlap as soon as the *)
(* lock's time to live runs out during a slow call.                        *)
(***************************************************************************)
EXTENDS ScheduledRuns

CONSTANTS Workers,     \* processes the every-minute schedule may start
          NoWorker,
          BatchLimit,  \* scheduled_tasks_max_processed_per_run
          Threshold,   \* scheduled_tasks_failure_threshold
          AutoDisable, \* scheduled_tasks_auto_disable_on_failures
          Faults,      \* faults of the environment that may happen
          Switches     \* scheduler switches the administrators use

ASSUME WorkerAssumption ==
  /\ NoWorker \notin Workers
  /\ BatchLimit \in Nat \ {0}
  /\ Threshold \in Nat \ {0}
  /\ AutoDisable \in BOOLEAN
  /\ Faults \subseteq {"crash", "db", "partial"}
  /\ Switches \subseteq {"pause", "disable"}

VARIABLES
  enabled,   \* setting scheduled_tasks_enabled
  paused,    \* scheduled_tasks_paused_until lies in the future
  failures,  \* cache counter scheduled_tasks_consecutive_failures, capped
  holder,    \* owner of the lock scheduled_znuny_task_runner
  pc,        \* worker -> the step it is about to take
  batch,     \* worker -> runs of its snapshot it has not tried yet
  cur,       \* worker -> the run it processes, or the last one it did
  result,    \* worker -> the reply it got, then the outcome it reports
  found      \* worker -> the ticket that goes with result

schedulerVars == <<enabled, paused, failures>>
localVars == <<pc, batch, cur, result, found>>
workerVars == <<schedulerVars, holder, localVars>>

Processing == {"preflight", "create", "send", "wait", "record", "reconcile",
               "settle", "finish"}
ProgramPoint == {"idle", "materialize", "next"} \cup Processing
Reply == {"created", "missing", "unclear"}
Outcome == {"success", "not_sent", "failed", "uncertain", "exception"}

WorkerTypeOK ==
  /\ enabled \in BOOLEAN
  /\ paused \in BOOLEAN
  /\ failures \in 0 .. Threshold
  /\ holder \in Workers \cup {NoWorker}
  /\ pc \in [Workers -> ProgramPoint]
  /\ batch \in [Workers -> SUBSET Runs]
  /\ cur \in [Workers -> Runs \cup {NoRun}]
  /\ \A w \in Workers : pc[w] \in Processing => cur[w] \in Runs
  /\ result \in [Workers -> {"none"} \cup Reply \cup Outcome]
  /\ found \in [Workers -> Tickets \cup {NoTicket}]

WorkerInit ==
  /\ enabled = TRUE
  /\ paused = FALSE
  /\ failures = 0
  /\ holder = NoWorker
  /\ pc = [w \in Workers |-> "idle"]
  /\ batch = [w \in Workers |-> {}]
  /\ cur = [w \in Workers |-> NoRun]
  /\ result = [w \in Workers |-> "none"]
  /\ found = [w \in Workers |-> NoTicket]

Goto(w, point) == pc' = [pc EXCEPT ![w] = point]

(* The worker reports what became of its run and goes to the final write. *)
Report(w, what, t) ==
  /\ Goto(w, "finish")
  /\ result' = [result EXCEPT ![w] = what]
  /\ found' = [found EXCEPT ![w] = t]
  /\ UNCHANGED <<batch, cur>>

(* processRun returns and the batch goes on. *)
Continue(w) ==
  /\ Goto(w, "next")
  /\ result' = [result EXCEPT ![w] = "none"]
  /\ found' = [found EXCEPT ![w] = NoTicket]
  /\ UNCHANGED <<batch, cur>>

(* The process ends; it forgets its run, and the lock if it still owns it. *)
Exit(w) ==
  /\ Goto(w, "idle")
  /\ batch' = [batch EXCEPT ![w] = {}]
  /\ cur' = [cur EXCEPT ![w] = NoRun]
  /\ result' = [result EXCEPT ![w] = "none"]
  /\ found' = [found EXCEPT ![w] = NoTicket]
Release(w) == holder' = IF holder = w THEN NoWorker ELSE holder

----------------------------------------------------------------------------
(* The runner: lock, materialise, check the switches, take a batch *)

Acquire(w) ==
  /\ pc[w] = "idle"
  /\ holder = NoWorker
  /\ holder' = w
  /\ Goto(w, "materialize")
  /\ UNCHANGED <<tables, schedulerVars, batch, cur, result, found>>

LockExpires ==
  /\ holder # NoWorker
  /\ holder' = NoWorker
  /\ UNCHANGED <<tables, schedulerVars, localVars>>

(* One firstOrCreate of the catch-up loop; the occurrence is due. *)
Materialize(w) ==
  /\ pc[w] = "materialize"
  /\ \E r \in Runs :
       /\ IsNext(r)
       /\ status' = [status EXCEPT ![r] = "pending"]
  /\ UNCHANGED <<root, parent, seq, resolution, runTicket, attemptVars,
                 znunyVars, workerVars>>

(* Faulty variants, here and below: what the code would be with a likely    *)
(* slip.  No specification uses one; each breaks a property.                *)
FirstPendingShort ==
  {r \in Runs : /\ status[r] = "pending"
                /\ Cardinality({q \in Runs : status[q] = "pending" /\ q < r})
                     < BatchLimit - 1}

PendingRuns == {r \in Runs : status[r] = "pending"}
FirstPending == {r \in PendingRuns :
                   Cardinality({q \in PendingRuns : q < r}) < BatchLimit}

(* The switches are read once, before the batch is taken. *)
TakeBatch(w) ==
  /\ pc[w] = "materialize"
  /\ enabled /\ ~paused
  /\ batch' = [batch EXCEPT ![w] = FirstPending]
  /\ Goto(w, "next")
  /\ UNCHANGED <<tables, schedulerVars, holder, cur, result, found>>

SwitchedOff(w) ==
  /\ pc[w] = "materialize"
  /\ ~enabled \/ paused
  /\ Exit(w)
  /\ Release(w)
  /\ UNCHANGED <<tables, schedulerVars>>

(* The batch is done, or its runtime is used up after at least one run. *)
EndBatch(w) ==
  /\ pc[w] = "next"
  /\ batch[w] = {} \/ cur[w] # NoRun
  /\ Exit(w)
  /\ Release(w)
  /\ UNCHANGED <<tables, schedulerVars>>

----------------------------------------------------------------------------
(* Claiming a run and creating its ticket *)

IsFirst(r, w) == r \in batch[w] /\ \A q \in batch[w] : r <= q

(* faulty: claims with an update that is not conditional *)
ClaimUnconditionally(w) ==
  /\ pc[w] = "next"
  /\ \E r \in Runs :
       /\ IsFirst(r, w)
       /\ status' = [status EXCEPT ![r] = "running"]
       /\ batch' = [batch EXCEPT ![w] = @ \ {r}]
       /\ cur' = [cur EXCEPT ![w] = r]
  /\ Goto(w, "preflight")
  /\ UNCHANGED <<root, parent, seq, resolution, runTicket, attemptVars,
                 znunyVars, schedulerVars, holder, result, found>>

(* The conditional update on status = pending. *)
Claim(w) ==
  /\ pc[w] = "next"
  /\ \E r \in Runs :
       /\ IsFirst(r, w)
       /\ status[r] = "pending"
       /\ status' = [status EXCEPT ![r] = "running"]
       /\ batch' = [batch EXCEPT ![w] = @ \ {r}]
       /\ cur' = [cur EXCEPT ![w] = r]
  /\ Goto(w, "preflight")
  /\ UNCHANGED <<root, parent, seq, resolution, runTicket, attemptVars,
                 znunyVars, schedulerVars, holder, result, found>>

SkipClaimed(w) ==
  /\ pc[w] = "next"
  /\ \E r \in Runs :
       /\ IsFirst(r, w)
       /\ status[r] # "pending"
       /\ batch' = [batch EXCEPT ![w] = @ \ {r}]
  /\ UNCHANGED <<tables, schedulerVars, holder, pc, cur, result, found>>

(* Local validation, customer lookup or ticket validation refuses the run   *)
(* (not_sent), or its task is gone (exception).                             *)
PreflightRefuses(w) ==
  /\ pc[w] = "preflight"
  /\ \E what \in {"not_sent", "exception"} : Report(w, what, NoTicket)
  /\ UNCHANGED <<tables, schedulerVars, holder>>

MayResend(r) ==
  attempt[r] \in {"none", "preparing", "confirmed_failed",
                  "resolved_without_ticket"}
HasTicket(r) == attempt[r] \in Confirmed /\ attemptTicket[r] # NoTicket

(* The checks pass and the duplicate guard reads the newest attempt of the  *)
(* run.                                                                     *)
DuplicateGuard(w) ==
  /\ pc[w] = "preflight"
  /\ IF MayResend(cur[w])
       THEN Goto(w, "create") /\ UNCHANGED <<batch, cur, result, found>>
       ELSE IF HasTicket(cur[w])
              THEN Report(w, "success", attemptTicket[cur[w]])
              ELSE Report(w, "uncertain", NoTicket)
  /\ UNCHANGED <<tables, schedulerVars, holder>>

CreateAttempt(w) ==
  /\ pc[w] = "create"
  /\ attempt' = [attempt EXCEPT ![cur[w]] = "preparing"]
  /\ attemptTicket' = [attemptTicket EXCEPT ![cur[w]] = NoTicket]
  /\ Goto(w, "send")
  /\ UNCHANGED <<runVars, znunyVars, schedulerVars, holder, batch, cur,
                 result, found>>

(* recordApiStart and the POST; a process that dies in between has sent a   *)
(* request that is lost.                                                    *)
SendCreate(w) ==
  /\ pc[w] = "send"
  /\ attempt' = [attempt EXCEPT ![cur[w]] = "sending"]
  /\ request' = [request EXCEPT ![cur[w]] = "inflight"]
  /\ Goto(w, "wait")
  /\ UNCHANGED <<runVars, attemptTicket, marker, schedulerVars, holder, batch,
                 cur, result, found>>

GetReply(w, what, t) ==
  /\ Goto(w, "record")
  /\ result' = [result EXCEPT ![w] = what]
  /\ found' = [found EXCEPT ![w] = t]
  /\ UNCHANGED <<tables, schedulerVars, holder, batch, cur>>

ReplyCreated(w) ==
  /\ pc[w] = "wait"
  /\ request[cur[w]] = "created"
  /\ \E t \in TicketsOf(cur[w]) : GetReply(w, "created", t)

(* A 200 reply without TicketID or TicketNumber: Znuny refused, or, with    *)
(* the fault "partial", created the ticket and answered incompletely.       *)
ReplyMissing(w) ==
  /\ pc[w] = "wait"
  /\ \/ request[cur[w]] = "rejected"
     \/ "partial" \in Faults /\ request[cur[w]] = "created"
  /\ GetReply(w, "missing", NoTicket)

(* A timeout, an HTTP error, an Error payload or unusable identifiers. *)
ReplyUnclear(w) == pc[w] = "wait" /\ GetReply(w, "unclear", NoTicket)

(* recordApiResult and recordApiException *)
RecordCreated(w) ==
  /\ pc[w] = "record" /\ result[w] = "created"
  /\ attempt' = [attempt EXCEPT ![cur[w]] = "success"]
  /\ attemptTicket' = [attemptTicket EXCEPT ![cur[w]] = found[w]]
  /\ Report(w, "success", found[w])
  /\ UNCHANGED <<runVars, znunyVars, schedulerVars, holder>>

RecordMissing(w) ==
  /\ pc[w] = "record" /\ result[w] = "missing"
  /\ attempt' = [attempt EXCEPT ![cur[w]] = "confirmed_failed"]
  /\ Report(w, "failed", NoTicket)
  /\ UNCHANGED <<runVars, attemptTicket, znunyVars, schedulerVars, holder>>

(* faulty: takes an exception for a refusal *)
UnclearIsFailure(w) ==
  /\ pc[w] = "record" /\ result[w] = "unclear"
  /\ attempt' = [attempt EXCEPT ![cur[w]] = "uncertain"]
  /\ Report(w, "failed", NoTicket)
  /\ UNCHANGED <<runVars, attemptTicket, znunyVars, schedulerVars, holder>>

RecordUnclear(w) ==
  /\ pc[w] = "record" /\ result[w] = "unclear"
  /\ attempt' = [attempt EXCEPT ![cur[w]] = "uncertain"]
  /\ Goto(w, "reconcile")
  /\ UNCHANGED <<runVars, attemptTicket, znunyVars, schedulerVars, holder,
                 batch, cur, result, found>>

(* faulty: returns from the run when the attempt cannot be reconciled *)
ReconcileGivesUp(w) ==
  /\ pc[w] = "reconcile"
  /\ \/ Continue(w)
     \/ \E t \in TicketsOf(cur[w]) :
          /\ Goto(w, "settle")
          /\ found' = [found EXCEPT ![w] = t]
          /\ UNCHANGED <<batch, cur, result>>
  /\ UNCHANGED <<tables, schedulerVars, holder>>

(* reconcile() up to and including its marker lookup *)
Reconcile(w) ==
  /\ pc[w] = "reconcile"
  /\ IF attempt[cur[w]] # "uncertain"
       THEN IF HasTicket(cur[w])
              THEN Report(w, "success", attemptTicket[cur[w]])
              ELSE Report(w, "uncertain", NoTicket)
       ELSE \E matches \in Lookups(cur[w]) :
              \/ /\ \A t \in Tickets : matches # {t}
                 /\ Report(w, "uncertain", NoTicket)
              \/ \E t \in Tickets :
                   /\ matches = {t}
                   /\ Goto(w, "settle")
                   /\ found' = [found EXCEPT ![w] = t]
                   /\ UNCHANGED <<batch, cur, result>>
  /\ UNCHANGED <<tables, schedulerVars, holder>>

(* faulty: reports the ticket without booking it on the attempt *)
SettleRunOnly(w) ==
  /\ pc[w] = "settle"
  /\ Report(w, "success", found[w])
  /\ UNCHANGED <<tables, schedulerVars, holder>>

(* its transaction, which looks at the locked attempt again *)
SettleReconciled(w) ==
  /\ pc[w] = "settle"
  /\ IF attempt[cur[w]] = "uncertain"
       THEN /\ attempt' = [attempt EXCEPT ![cur[w]] = "recovered"]
            /\ attemptTicket' = [attemptTicket EXCEPT ![cur[w]] = found[w]]
            /\ Report(w, "success", found[w])
       ELSE /\ UNCHANGED attemptVars
            /\ IF HasTicket(cur[w])
                 THEN Report(w, "success", attemptTicket[cur[w]])
                 ELSE Report(w, "uncertain", NoTicket)
  /\ UNCHANGED <<runVars, znunyVars, schedulerVars, holder>>

----------------------------------------------------------------------------
(* The processor's final write for each outcome *)

(* When the task row cannot be saved, the catch-all saves the run again and *)
(* the failure counter stays.                                               *)
FinishSuccess(w) ==
  /\ pc[w] = "finish" /\ result[w] = "success"
  /\ status' = [status EXCEPT ![cur[w]] = "success"]
  /\ runTicket' = [runTicket EXCEPT ![cur[w]] = found[w]]
  /\ \/ failures' = 0
     \/ "db" \in Faults /\ UNCHANGED failures
  /\ Continue(w)
  /\ UNCHANGED <<root, parent, seq, resolution, attemptVars, znunyVars,
                 enabled, paused, holder>>

FinishNotSent(w) ==
  /\ pc[w] = "finish" /\ result[w] = "not_sent"
  /\ status' = [status EXCEPT ![cur[w]] = "failed"]
  /\ Continue(w)
  /\ UNCHANGED <<root, parent, seq, resolution, runTicket, attemptVars,
                 znunyVars, schedulerVars, holder>>

(* faulty: counts failures without ever looking at the threshold *)
FailedNeverDisables(w) ==
  /\ pc[w] = "finish" /\ result[w] \in {"failed", "exception"}
  /\ status' = [status EXCEPT ![cur[w]] = "failed"]
  /\ failures' = failures + 1
  /\ Continue(w)
  /\ UNCHANGED <<root, parent, seq, resolution, runTicket, attemptVars,
                 znunyVars, enabled, paused, holder>>

(* FAILED and the catch-all; at the threshold the scheduler is disabled and *)
(* the batch ends.  The counter is capped there: more makes no difference.  *)
AtThreshold == failures + 1 >= Threshold
FinishFailed(w) ==
  /\ pc[w] = "finish" /\ result[w] \in {"failed", "exception"}
  /\ status' = [status EXCEPT ![cur[w]] = "failed"]
  /\ failures' = IF AtThreshold THEN Threshold ELSE failures + 1
  /\ IF AutoDisable /\ AtThreshold
       THEN /\ enabled' = FALSE
            /\ Exit(w)
            /\ Release(w)
       ELSE /\ Continue(w)
            /\ UNCHANGED <<enabled, holder>>
  /\ UNCHANGED <<root, parent, seq, resolution, runTicket, attemptVars,
                 znunyVars, paused>>

(* faulty: leaves the scheduler on *)
UncertainKeepsGoing(w) ==
  /\ pc[w] = "finish" /\ result[w] = "uncertain"
  /\ status' = [status EXCEPT ![cur[w]] = "uncertain"]
  /\ Continue(w)
  /\ UNCHANGED <<root, parent, seq, resolution, runTicket, attemptVars,
                 znunyVars, schedulerVars, holder>>

FinishUncertain(w) ==
  /\ pc[w] = "finish" /\ result[w] = "uncertain"
  /\ IF status[cur[w]] \in Finished
       THEN UNCHANGED <<status, enabled>>
       ELSE /\ status' = [status EXCEPT ![cur[w]] = "uncertain"]
            /\ enabled' = FALSE
  /\ Exit(w)
  /\ Release(w)
  /\ UNCHANGED <<root, parent, seq, resolution, runTicket, attemptVars,
                 znunyVars, paused, failures>>

----------------------------------------------------------------------------
(* Faults *)

(* A database error the catch-all of processRun turns into a failed run. *)
DbFails(w) ==
  /\ "db" \in Faults
  /\ \/ pc[w] \in {"preflight", "create", "send", "record"}
     \/ pc[w] = "finish" /\ result[w] \in {"not_sent", "failed", "uncertain"}
  /\ Report(w, "exception", NoTicket)
  /\ UNCHANGED <<tables, schedulerVars, holder>>

(* recordApiStart fails, is caught, and the attempt is marked uncertain.   *)
StartFails(w) ==
  /\ "db" \in Faults
  /\ pc[w] = "send"
  /\ attempt' = [attempt EXCEPT ![cur[w]] = "uncertain"]
  /\ Goto(w, "reconcile")
  /\ UNCHANGED <<runVars, attemptTicket, znunyVars, schedulerVars, holder,
                 batch, cur, result, found>>

(* A confirmed success whose row cannot be saved, also not by the catch.   *)
SuccessUnsaved(w) ==
  /\ "db" \in Faults
  /\ pc[w] = "finish" /\ result[w] = "success"
  /\ Continue(w)
  /\ UNCHANGED <<tables, schedulerVars, holder>>

(* The transaction of reconcile() fails; its caller reports uncertain.      *)
ReconcileFails(w) ==
  /\ "db" \in Faults
  /\ pc[w] = "settle"
  /\ Report(w, "uncertain", NoTicket)
  /\ UNCHANGED <<tables, schedulerVars, holder>>

(* An error outside processRun's try, or in its catch-all, ends the batch.  *)
BatchAborted(w) ==
  /\ "db" \in Faults
  /\ \/ pc[w] \in {"next", "preflight"}
     \/ pc[w] = "finish" /\ result[w] = "exception"
  /\ Exit(w)
  /\ Release(w)
  /\ UNCHANGED <<tables, schedulerVars>>

(* The process dies; its lock stays until it expires. *)
Crash(w) ==
  /\ "crash" \in Faults
  /\ pc[w] # "idle"
  /\ Exit(w)
  /\ UNCHANGED <<tables, schedulerVars, holder>>

----------------------------------------------------------------------------
(* SchedulerSafetyService, from the console widget or the settings page *)

PauseScheduler ==
  /\ "pause" \in Switches
  /\ paused' = TRUE
  /\ UNCHANGED <<enabled, failures>>
PauseEnds == paused' = FALSE /\ UNCHANGED <<enabled, failures>>
DisableScheduler ==
  /\ "disable" \in Switches
  /\ enabled' = FALSE
  /\ UNCHANGED <<paused, failures>>
EnableScheduler == enabled' = TRUE /\ paused' = FALSE /\ UNCHANGED failures

SafetyStep ==
  /\ PauseScheduler \/ PauseEnds \/ DisableScheduler \/ EnableScheduler
  /\ UNCHANGED <<tables, holder, localVars>>

Work(w) ==
  \/ Acquire(w) \/ Materialize(w) \/ TakeBatch(w) \/ SwitchedOff(w)
  \/ EndBatch(w)
  \/ Claim(w) \/ SkipClaimed(w)
  \/ PreflightRefuses(w) \/ DuplicateGuard(w)
  \/ CreateAttempt(w) \/ SendCreate(w)
  \/ ReplyCreated(w) \/ ReplyMissing(w) \/ ReplyUnclear(w)
  \/ RecordCreated(w) \/ RecordMissing(w) \/ RecordUnclear(w)
  \/ Reconcile(w) \/ SettleReconciled(w)
  \/ FinishSuccess(w) \/ FinishNotSent(w) \/ FinishFailed(w)
  \/ FinishUncertain(w)
Fault(w) ==
  \/ DbFails(w) \/ StartFails(w) \/ SuccessUnsaved(w) \/ ReconcileFails(w)
  \/ BatchAborted(w) \/ Crash(w)
=============================================================================
