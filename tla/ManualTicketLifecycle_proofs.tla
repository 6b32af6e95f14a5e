-------------------- MODULE ManualTicketLifecycle_proofs --------------------
(***************************************************************************)
(* What holds of a linked ticket's row however its evaluations, closings,  *)
(* reopenings and syncs interleave, for every value of the constants.      *)
(*                                                                         *)
(* A job in progress is a set of columns it is going to write, taken from  *)
(* a row that may have changed since.  The invariants therefore speak of   *)
(* two things: the row, and what the row would be if the job saved now.    *)
(***************************************************************************)
EXTENDS ManualTicketLifecycle, TLAPS

ColumnNames == {"stateType", "hash", "status", "active", "seenAt", "resolvedAt",
                "eligibleAt", "closedAt", "reopenedAt", "flaps", "counted"}

-----------------------------------------------------------------------------
(* Rows and saves. *)

\* A row has its columns.
LEMMA RowsHaveColumns ==
  \A r \in Columns : DOMAIN r = ColumnNames
BY DEF Columns, ColumnNames

\* A save changes the columns it writes and no other.
LEMMA SavedColumns ==
  ASSUME NEW changes, NEW r \in Columns, NEW c \in ColumnNames
  PROVE  Saved(changes, r)[c] = IF c \in DOMAIN changes THEN changes[c] ELSE r[c]
BY RowsHaveColumns DEF Saved

\* Changes of the right type: saving them makes a row of a row.
Writable(changes) == \A r \in Columns : Saved(changes, r) \in Columns

\* What is written from one row when the model was loaded as another.
LEMMA DirtyIsWritable ==
  ASSUME NEW old \in Columns, NEW new \in Columns
  PROVE  Writable(Dirty(old, new))
<1> SUFFICES ASSUME NEW r \in Columns PROVE Saved(Dirty(old, new), r) \in Columns
  BY DEF Writable
<1>1. \A c \in ColumnNames :
        Saved(Dirty(old, new), r)[c] = IF new[c] # old[c] THEN new[c] ELSE r[c]
  BY RowsHaveColumns, SavedColumns DEF Dirty
<1>2. DOMAIN Saved(Dirty(old, new), r) = ColumnNames
  BY RowsHaveColumns DEF Saved
<1> QED
  BY <1>1, <1>2 DEF Columns, ColumnNames, Saved

\* A save of the row the model was loaded from leaves the row the job wanted.
LEMMA SaveOfTheLoadedRow ==
  ASSUME NEW old \in Columns, NEW new \in Columns
  PROVE  Saved(Dirty(old, new), old) = new
<1>1. \A c \in ColumnNames : Saved(Dirty(old, new), old)[c] = new[c]
  BY RowsHaveColumns, SavedColumns DEF Dirty
<1>2. Saved(Dirty(old, new), old) \in Columns
  BY DirtyIsWritable DEF Writable
<1> QED
  BY <1>1, <1>2 DEF Columns, ColumnNames

-----------------------------------------------------------------------------
(* Types. *)

Changes(job) == job = [pc |-> job.pc, changes |-> job.changes]

Writes(changes, columns) == Writable(changes) /\ DOMAIN changes \subseteq columns

\* The jobs in progress: what each of them writes at most, and what it is sure
\* to write.
EvaluationJobs ==
  /\ DOMAIN evaluation = Evaluators
  /\ \A e \in Evaluators :
       \/ evaluation[e] = Idle
       \/ /\ Changes(evaluation[e]) /\ evaluation[e].pc = "save"
          /\ Writes(evaluation[e].changes, ColumnNames)

SyncJob ==
  \/ sync = Idle
  \/ /\ sync = [pc |-> "fetch", row |-> sync.row]
     /\ sync.row \in [stateType : TicketState, hash : 0..MaxVersion]
  \/ /\ Changes(sync) /\ sync.pc = "save"
     /\ Writes(sync.changes, {"stateType", "hash"})

ClosingJob ==
  \/ closing = Idle
  \/ /\ Changes(closing) /\ closing.pc = "update"
     /\ Writes(closing.changes, {"stateType", "status", "eligibleAt"})
     /\ "status" \in DOMAIN closing.changes => closing.changes["status"] = "closed"
  \/ Changes(closing) /\ closing.pc = "evaluate"
  \/ /\ Changes(closing) /\ closing.pc = "save"
     /\ Writes(closing.changes, ColumnNames)

ReopeningJob ==
  \/ reopening = Idle
  \/ /\ Changes(reopening) /\ reopening.pc = "save"
     /\ Writes(reopening.changes, {"stateType", "status", "active", "eligibleAt"})
     /\ "status" \in DOMAIN reopening.changes
     /\ reopening.changes["status"] = "reopened"

TypeInv ==
  /\ FeedTypeOK
  /\ znuny \in [state : TicketState, version : 1..MaxVersion]
  /\ row \in Columns
  /\ EvaluationJobs /\ SyncJob /\ ClosingJob /\ ReopeningJob

\* The invariant gives the types the runs check.
LEMMA TypesFollow == TypeInv => LifecycleTypeOK
<1> SUFFICES ASSUME TypeInv PROVE LifecycleTypeOK
  OBVIOUS
<1> SUFFICES ASSUME NEW job \in {evaluation[e] : e \in Evaluators} \union {sync, closing, reopening},
                    job.pc \in {"update", "save"}
             PROVE  Saved(job.changes, row) \in Columns
  BY DEF TypeInv, LifecycleTypeOK
<1> USE DEF TypeInv, Writes, Writable, Idle
<1>1. CASE job \in {evaluation[e] : e \in Evaluators}
  BY <1>1 DEF EvaluationJobs
<1>2. CASE job = sync
  BY <1>2 DEF SyncJob
<1>3. CASE job = closing
  BY <1>3 DEF ClosingJob
<1>4. CASE job = reopening
  BY <1>4 DEF ReopeningJob
<1> QED
  BY <1>1, <1>2, <1>3, <1>4

LEMMA Constants ==
  /\ MaxTime \in Nat \ {0} /\ MaxEvents \in Nat \ {0} /\ MaxVersion \in Nat \ {0}
  /\ Ttl \in Nat /\ PollInterval \in Nat
  /\ CloseDelay \in Nat /\ FlapDelay \in Nat /\ FlapThreshold \in Nat /\ ReopenWindow \in Nat
  /\ AgentStates \subseteq TicketState
BY CacheAssumption, LifecycleAssumption DEF TicketState

\* What the cache shows of the problem is an event.
LEMMA ShownIsAnEvent ==
  TypeInv => ActiveProblem \in Events /\ IsCacheFresh \in BOOLEAN /\ now \in Times /\ now # Null
BY Constants DEF TypeInv, FeedTypeOK, ActiveProblem, IsCacheFresh, Events, Times, NoEvent,
   LinkedEvent, Null

LEMMA WaitsAreNumbers ==
  ASSUME NEW flaps \in Nat PROVE CloseWait(flaps) \in Nat
BY Constants DEF CloseWait

\* An evaluation makes a row of a row.
LEMMA EvaluatedIsARow ==
  ASSUME NEW r \in Columns, NEW fresh \in BOOLEAN, NEW event \in Events, NEW t \in Times
  PROVE  Evaluated(r, fresh, event, t) \in Columns
<1>1. EvaluatedClosed(r, fresh, event, t) \in Columns
  BY DEF EvaluatedClosed, Columns, Status, Times
<1>2. [r EXCEPT !.status = "cache_stale"] \in Columns
  BY DEF Columns, Status
<1>3. EvaluatedActive(r, event, t) \in Columns
  <2> DEFINE returned == ~r.active /\ r.status \in {"resolved_waiting", "close_candidate"}
             flap     == returned /\ IsLegitimateFlap(r, event)
             flaps    == IF flap THEN r.flaps + 1 ELSE r.flaps
             counted  == IF flap THEN event ELSE r.counted
             eligible == IF returned \/ r.resolvedAt # Null THEN Null ELSE r.eligibleAt
             status   == IF IsFlapping(flaps) THEN "flapping"
                         ELSE IF r.status = "reopened" THEN "reopened" ELSE "active"
  <2>1. /\ flaps \in Nat /\ counted \in Events
        /\ eligible \in Nat /\ status \in Status /\ Null \in 0..MaxTime
    BY Constants DEF Columns, Status, Null
  <2>2. EvaluatedActive(r, event, t)
          = [r EXCEPT !.active = TRUE, !.seenAt = t, !.flaps = flaps, !.counted = counted,
                      !.resolvedAt = Null, !.eligibleAt = eligible, !.status = status]
    BY Zenon DEF EvaluatedActive
  <2> HIDE DEF returned, flap, flaps, counted, eligible, status
  <2>3. EvaluatedActive(r, event, t)
          = [stateType |-> r.stateType, hash |-> r.hash, status |-> status, active |-> TRUE,
             seenAt |-> t, resolvedAt |-> Null, eligibleAt |-> eligible,
             closedAt |-> r.closedAt, reopenedAt |-> r.reopenedAt,
             flaps |-> flaps, counted |-> counted]
    BY <2>2 DEF Columns
  <2> QED
    BY <2>1, <2>3 DEF Columns, Times
<1>4. EvaluatedResolved(r, t) \in Columns
  <2> DEFINE resolved == IF r.resolvedAt = Null THEN t ELSE r.resolvedAt
             eligible == resolved + CloseWait(r.flaps)
             status   == IF t >= eligible THEN "close_candidate" ELSE "resolved_waiting"
  <2>1. CloseWait(r.flaps) \in Nat
    BY WaitsAreNumbers DEF Columns
  <2>2. resolved \in 0..MaxTime /\ eligible \in Nat /\ status \in Status
    BY <2>1, Constants DEF Columns, Status, Times
  <2>3. EvaluatedResolved(r, t)
          = [r EXCEPT !.active = FALSE, !.resolvedAt = resolved, !.eligibleAt = eligible,
                      !.status = status]
    BY Zenon DEF EvaluatedResolved
  <2> HIDE DEF resolved, eligible, status
  <2> QED
    BY <2>2, <2>3 DEF Columns
<1> QED
  BY <1>1, <1>2, <1>3, <1>4 DEF Evaluated

-----------------------------------------------------------------------------
(* What each outcome of an evaluation leaves in the columns. *)

\* The columns an evaluation never writes.
Untouched(r, new) ==
  new.stateType = r.stateType /\ new.hash = r.hash /\ new.reopenedAt = r.reopenedAt

\* A closed ticket is offered for reopening within the window, or stays closed.
LEMMA ClosedColumns ==
  ASSUME NEW r \in Columns, NEW fresh \in BOOLEAN, NEW event \in Events, NEW t \in Times,
         NEW new, new = EvaluatedClosed(r, fresh, event, t)
  PROVE  /\ Untouched(r, new)
         /\ new.closedAt = (IF r.closedAt = Null THEN t ELSE r.closedAt)
         /\ \/ /\ new.status = "reopen_candidate" /\ new.seenAt = t
               /\ t <= new.closedAt + ReopenWindow
            \/ new.status = "closed" /\ new.seenAt = r.seenAt
         /\ new.resolvedAt = r.resolvedAt /\ new.eligibleAt = r.eligibleAt
         /\ new.flaps = r.flaps /\ new.counted = r.counted
BY DEF EvaluatedClosed, Untouched, Columns

\* With a stale cache only the status changes.
LEMMA StaleColumns ==
  ASSUME NEW r \in Columns, NEW new, new = [r EXCEPT !.status = "cache_stale"]
  PROVE  /\ Untouched(r, new) /\ new.status = "cache_stale"
         /\ new.closedAt = r.closedAt /\ new.active = r.active /\ new.seenAt = r.seenAt
         /\ new.resolvedAt = r.resolvedAt /\ new.eligibleAt = r.eligibleAt
         /\ new.flaps = r.flaps /\ new.counted = r.counted
BY DEF Untouched, Columns

\* An active problem clears the resolution; its return may count as a flap.
LEMMA ActiveColumns ==
  ASSUME NEW r \in Columns, NEW event \in Events, NEW t \in Times,
         NEW new, new = EvaluatedActive(r, event, t)
  PROVE  /\ Untouched(r, new)
         /\ new.closedAt = r.closedAt /\ new.seenAt = t
         /\ new.status \in {"flapping", "reopened", "active"}
         /\ new.resolvedAt = Null
         /\ new.eligibleAt \in {Null, r.eligibleAt}
         /\ r.resolvedAt # Null => new.eligibleAt = Null
         /\ \/ new.flaps = r.flaps /\ new.counted = r.counted
            \/ /\ new.flaps = r.flaps + 1 /\ new.counted = event
               /\ event.since > 1 /\ event.since > r.counted.since
<1> DEFINE returned == ~r.active /\ r.status \in {"resolved_waiting", "close_candidate"}
           flap     == returned /\ IsLegitimateFlap(r, event)
           flaps    == IF flap THEN r.flaps + 1 ELSE r.flaps
           counted  == IF flap THEN event ELSE r.counted
           eligible == IF returned \/ r.resolvedAt # Null THEN Null ELSE r.eligibleAt
           status   == IF IsFlapping(flaps) THEN "flapping"
                       ELSE IF r.status = "reopened" THEN "reopened" ELSE "active"
<1>1. /\ status \in {"flapping", "reopened", "active"}
      /\ eligible \in {Null, r.eligibleAt}
      /\ r.resolvedAt # Null => eligible = Null
      /\ \/ flaps = r.flaps /\ counted = r.counted
         \/ /\ flaps = r.flaps + 1 /\ counted = event
            /\ event.since > 1 /\ event.since > r.counted.since
  <2>1. CASE flap
    BY <2>1 DEF IsLegitimateFlap
  <2>2. CASE ~flap
    BY <2>2
  <2> QED
    BY <2>1, <2>2
<1>2. new = [r EXCEPT !.active = TRUE, !.seenAt = t, !.flaps = flaps, !.counted = counted,
                      !.resolvedAt = Null, !.eligibleAt = eligible, !.status = status]
  BY Zenon DEF EvaluatedActive
<1>3. /\ new.seenAt = t /\ new.flaps = flaps /\ new.counted = counted
      /\ new.resolvedAt = Null /\ new.eligibleAt = eligible /\ new.status = status
      /\ Untouched(r, new) /\ new.closedAt = r.closedAt
  <2> HIDE DEF flaps, counted, eligible, status
  <2> QED
    BY <1>2 DEF Columns, Untouched
<1> HIDE DEF flaps, counted, eligible, status
<1> QED
  BY <1>1, <1>3

\* A resolved problem is counted from the first evaluation that missed it.
LEMMA ResolvedColumns ==
  ASSUME NEW r \in Columns, NEW t \in Times, NEW new, new = EvaluatedResolved(r, t)
  PROVE  /\ Untouched(r, new)
         /\ new.closedAt = r.closedAt /\ new.seenAt = r.seenAt
         /\ new.status \in {"close_candidate", "resolved_waiting"}
         /\ new.resolvedAt = (IF r.resolvedAt = Null THEN t ELSE r.resolvedAt)
         /\ new.eligibleAt = new.resolvedAt + CloseWait(r.flaps)
         /\ new.flaps = r.flaps /\ new.counted = r.counted
<1> DEFINE resolved == IF r.resolvedAt = Null THEN t ELSE r.resolvedAt
           eligible == resolved + CloseWait(r.flaps)
           status   == IF t >= eligible THEN "close_candidate" ELSE "resolved_waiting"
<1>1. status \in {"close_candidate", "resolved_waiting"}
  OBVIOUS
<1>2. new = [r EXCEPT !.active = FALSE, !.resolvedAt = resolved, !.eligibleAt = eligible,
                      !.status = status]
  BY Zenon DEF EvaluatedResolved
<1>3. /\ new.resolvedAt = resolved /\ new.eligibleAt = eligible
      /\ new.status = status /\ Untouched(r, new) /\ new.closedAt = r.closedAt
      /\ new.seenAt = r.seenAt /\ new.flaps = r.flaps /\ new.counted = r.counted
  <2> HIDE DEF resolved, eligible, status
  <2> QED
    BY <1>2 DEF Columns, Untouched
<1>4. new.eligibleAt = new.resolvedAt + CloseWait(r.flaps)
  BY <1>3
<1> QED
  BY <1>1, <1>3, <1>4

-----------------------------------------------------------------------------
(* Type correctness. *)

LEMMA TypeInit == Init => TypeInv
<1> SUFFICES ASSUME Init PROVE TypeInv
  OBVIOUS
<1> USE DEF Init, FeedInit, LifecycleInit
<1>1. FeedTypeOK
  BY Constants DEF FeedTypeOK, Events, Times, LinkedEvent
<1>2. row \in Columns
  BY Constants DEF Columns, TicketState, Status, Null, NoEvent, Events, Times
<1>3. znuny \in [state : TicketState, version : 1..MaxVersion]
  BY Constants DEF TicketState
<1>4. EvaluationJobs /\ SyncJob /\ ClosingJob /\ ReopeningJob
  BY DEF EvaluationJobs, SyncJob, ClosingJob, ReopeningJob
<1> QED
  BY <1>1, <1>2, <1>3, <1>4 DEF TypeInv

\* The clock, the problem and the poller.
LEMMA FeedTypeStep == TypeInv /\ (FeedStep \/ Tick) => FeedTypeOK'
<1> SUFFICES ASSUME TypeInv, FeedStep \/ Tick PROVE FeedTypeOK'
  OBVIOUS
<1> USE Constants DEF TypeInv, FeedTypeOK, Events, Times, Null, NoEvent
<1>1. LastSuccess \in Times
  BY DEF LastSuccess
<1>2. CASE PollSucceeds
  BY <1>2 DEF PollSucceeds
<1>3. CASE PollFails
  <2>1. now \in Times
    OBVIOUS
  <2>2. /\ cache'.listed = cache.listed /\ cache'.linkedAt = cache.linkedAt
        /\ cache'.polledAt = LastSuccess /\ cache'.markedAt = now
        /\ DOMAIN cache' = {"listed", "linkedAt", "polledAt", "markedAt"}
    BY <1>3 DEF PollFails
  <2>3. cache' = [listed |-> cache.listed, linkedAt |-> cache.linkedAt,
                  polledAt |-> LastSuccess, markedAt |-> now]
    BY <1>3 DEF PollFails
  <2>4. cache' \in [listed : Events, linkedAt : Times, polledAt : Times, markedAt : Times]
    BY <1>1, <2>1, <2>3
  <2> QED
    BY <1>3, <2>4 DEF PollFails
<1>4. CASE ProblemReturns
  BY <1>4 DEF ProblemReturns
<1>5. CASE Tick
  BY <1>5 DEF Tick
<1> QED
  BY <1>2, <1>3, <1>4, <1>5 DEF FeedStep

\* What an evaluation that starts now is going to write are columns of the row.
LEMMA EvaluationWritesColumns ==
  TypeInv => /\ Evaluated(row, IsCacheFresh, ActiveProblem, now) \in Columns
             /\ Writes(EvaluationNow, ColumnNames)
<1> SUFFICES ASSUME TypeInv
             PROVE  /\ Evaluated(row, IsCacheFresh, ActiveProblem, now) \in Columns
                    /\ Writes(EvaluationNow, ColumnNames)
  OBVIOUS
<1>1. Evaluated(row, IsCacheFresh, ActiveProblem, now) \in Columns
  BY ShownIsAnEvent, EvaluatedIsARow DEF TypeInv
<1>2. Writable(EvaluationNow)
  BY <1>1, DirtyIsWritable DEF EvaluationNow, TypeInv
<1>3. DOMAIN EvaluationNow \subseteq ColumnNames
  BY RowsHaveColumns DEF EvaluationNow, Dirty, TypeInv
<1> QED
  BY <1>1, <1>2, <1>3 DEF Writes

\* A job that saves what it may write leaves a row.
LEMMA SavesAreRows ==
  ASSUME NEW changes, NEW columns, Writes(changes, columns), NEW r \in Columns,
         NEW t \in Times
  PROVE  /\ Saved(changes, r) \in Columns
         /\ [Saved(changes, r) EXCEPT !.closedAt = t] \in Columns
         /\ [Saved(changes, r) EXCEPT !.reopenedAt = t] \in Columns
<1>1. Saved(changes, r) \in Columns
  BY DEF Writes, Writable
<1> QED
  BY <1>1 DEF Columns, Times

LEMMA EvaluateTypes ==
  ASSUME TypeInv, NEW e \in Evaluators, EvaluateLoad(e) \/ EvaluateSave(e)
  PROVE  TypeInv'
<1> USE DEF TypeInv
<1>1. CASE EvaluateLoad(e)
  <2>1. EvaluationJobs'
    BY <1>1, EvaluationWritesColumns DEF EvaluateLoad, EvaluationJobs, Changes
  <2> QED
    BY <1>1, <2>1 DEF EvaluateLoad, feedVars, FeedTypeOK, SyncJob, ClosingJob, ReopeningJob
<1>2. CASE EvaluateSave(e)
  <2>1. row' \in Columns
    BY <1>2 DEF EvaluateSave, EvaluationJobs, Writes, Writable
  <2>2. EvaluationJobs'
    BY <1>2 DEF EvaluateSave, EvaluationJobs
  <2> QED
    BY <1>2, <2>1, <2>2 DEF EvaluateSave, feedVars, FeedTypeOK, SyncJob, ClosingJob, ReopeningJob
<1> QED
  BY <1>1, <1>2

LEMMA SyncTypes == TypeInv /\ Sync => TypeInv'
<1> SUFFICES ASSUME TypeInv, Sync PROVE TypeInv'
  OBVIOUS
<1> USE DEF TypeInv, Idle
<1>1. CASE SyncLoad
  <2>1. [stateType |-> row.stateType, hash |-> row.hash]
          \in [stateType : TicketState, hash : 0..MaxVersion]
    BY DEF Columns
  <2>2. SyncJob'
    BY <1>1, <2>1 DEF SyncLoad, SyncJob
  <2> QED
    BY <1>1, <2>2 DEF SyncLoad, feedVars, FeedTypeOK, EvaluationJobs, ClosingJob, ReopeningJob
<1>2. CASE SyncFetch
  <2> DEFINE fetched == [stateType |-> IF sync.row.hash # znuny.version
                                         THEN znuny.state ELSE sync.row.stateType,
                         hash |-> znuny.version]
             changes == Dirty(sync.row, fetched)
  <2>1. sync.row \in [stateType : TicketState, hash : 0..MaxVersion]
    BY <1>2 DEF SyncFetch, SyncJob, Changes
  <2>2. fetched \in [stateType : TicketState, hash : 0..MaxVersion]
    BY <2>1, Constants
  <2>3. DOMAIN changes \subseteq {"stateType", "hash"}
    BY <2>1 DEF Dirty
  <2>4. \A c \in DOMAIN changes : changes[c] = fetched[c]
    BY DEF Dirty
  <2>5. Writable(changes)
    <3> SUFFICES ASSUME NEW r \in Columns PROVE Saved(changes, r) \in Columns
      BY DEF Writable
    <3>1. \A c \in ColumnNames :
            Saved(changes, r)[c] = IF c \in DOMAIN changes THEN changes[c] ELSE r[c]
      BY SavedColumns
    <3>2. DOMAIN Saved(changes, r) = ColumnNames
      BY RowsHaveColumns DEF Saved
    <3> HIDE DEF fetched, changes
    <3> QED
      BY <2>2, <2>3, <2>4, <3>1, <3>2 DEF Columns, ColumnNames, Saved
  <2>6. SyncJob'
    BY <1>2, <2>3, <2>5 DEF SyncFetch, SyncJob, Changes, Writes
  <2> QED
    BY <1>2, <2>6 DEF SyncFetch, feedVars, FeedTypeOK, EvaluationJobs, ClosingJob, ReopeningJob
<1>3. CASE SyncFails
  BY <1>3 DEF SyncFails, SyncJob, feedVars, FeedTypeOK, EvaluationJobs, ClosingJob, ReopeningJob
<1>4. CASE SyncSave
  <2>1. row' \in Columns
    BY <1>4 DEF SyncSave, SyncJob, Writes, Writable
  <2> QED
    BY <1>4, <2>1 DEF SyncSave, SyncJob, feedVars, FeedTypeOK, EvaluationJobs, ClosingJob,
       ReopeningJob
<1> QED
  BY <1>1, <1>2, <1>3, <1>4 DEF Sync

\* The columns in which two rows differ.
LEMMA DirtyColumns ==
  ASSUME NEW old \in Columns, NEW new
  PROVE  /\ DOMAIN Dirty(old, new) = {c \in ColumnNames : new[c] # old[c]}
         /\ \A c \in DOMAIN Dirty(old, new) : Dirty(old, new)[c] = new[c]
BY RowsHaveColumns DEF Dirty

LEMMA ZnunyTypes ==
  ASSUME TypeInv, NEW state \in TicketState, ZnunyChanges(state)
  PROVE  znuny' \in [state : TicketState, version : 1..MaxVersion]
BY Constants DEF ZnunyChanges, TypeInv

\* A close updates the row first and evaluates it then.
LEMMA ClosingMovesOn ==
  ASSUME TypeInv
  PROVE  /\ CloseUpdate => closing' = [pc |-> "evaluate", changes |-> NoChanges]
         /\ CloseEvaluate => closing' = [pc |-> "save", changes |-> EvaluationNow]
<1>1. ASSUME CloseUpdate PROVE closing' = [pc |-> "evaluate", changes |-> NoChanges]
  <2>1. closing = [pc |-> "update", changes |-> closing.changes]
    BY <1>1 DEF CloseUpdate, TypeInv, ClosingJob, Changes, Idle
  <2> QED
    BY <1>1, <2>1 DEF CloseUpdate
<1>2. ASSUME CloseEvaluate PROVE closing' = [pc |-> "save", changes |-> EvaluationNow]
  <2>1. closing = [pc |-> "evaluate", changes |-> closing.changes]
    BY <1>2 DEF CloseEvaluate, TypeInv, ClosingJob, Changes, Idle
  <2> QED
    BY <1>2, <2>1 DEF CloseEvaluate
<1> QED
  BY <1>1, <1>2

LEMMA CloseTypes == TypeInv /\ CloseStep => TypeInv'
<1> SUFFICES ASSUME TypeInv, CloseStep PROVE TypeInv'
  OBVIOUS
<1> USE DEF TypeInv, Idle
<1>0. now \in Times
  BY ShownIsAnEvent
<1>1. CASE AskToClose
  <2> DEFINE new == [row EXCEPT !.stateType = "closed", !.status = "closed", !.eligibleAt = Null]
             changes == Dirty(row, new)
  <2>1. new \in Columns
    BY DEF Columns, TicketState, Status, Null
  <2>2. \A c \in ColumnNames \ {"stateType", "status", "eligibleAt"} : new[c] = row[c]
    BY DEF Columns, ColumnNames
  <2>3. new["status"] = "closed"
    BY DEF Columns
  <2> HIDE DEF new
  <2>4. Writes(changes, {"stateType", "status", "eligibleAt"})
    <3>1. Writable(changes)
      BY <2>1, DirtyIsWritable
    <3>2. DOMAIN changes = {c \in ColumnNames : new[c] # row[c]}
      BY DirtyColumns
    <3> QED
      BY <2>2, <3>1, <3>2 DEF Writes
  <2>5. "status" \in DOMAIN changes => changes["status"] = "closed"
    BY <2>3, DirtyColumns
  <2>6. closing' = [pc |-> "update", changes |-> changes]
    BY <1>1 DEF AskToClose, new
  <2>7. ClosingJob'
    <3> HIDE DEF changes
    <3> QED
      BY <2>4, <2>5, <2>6 DEF ClosingJob, Changes
  <2>8. znuny' \in [state : TicketState, version : 1..MaxVersion]
    BY <1>1, ZnunyTypes DEF AskToClose, TicketState
  <2> QED
    BY <1>1, <2>7, <2>8 DEF AskToClose, feedVars, FeedTypeOK, EvaluationJobs, SyncJob, ReopeningJob
<1>2. CASE CloseUnnoticed
  <2>1. znuny' \in [state : TicketState, version : 1..MaxVersion]
    BY <1>2, ZnunyTypes DEF CloseUnnoticed, TicketState
  <2> QED
    BY <1>2, <2>1 DEF CloseUnnoticed, localVars, feedVars, FeedTypeOK, EvaluationJobs, SyncJob,
       ClosingJob, ReopeningJob
<1>3. CASE CloseUpdate
  <2>1. row' \in Columns
    <3>1. Writes(closing.changes, {"stateType", "status", "eligibleAt"})
      BY <1>3 DEF CloseUpdate, ClosingJob
    <3>2. [Saved(closing.changes, row) EXCEPT !.closedAt = now] \in Columns
      BY <1>0, <3>1, SavesAreRows
    <3> QED
      BY <1>3, <3>2 DEF CloseUpdate
  <2>2. closing' = [pc |-> "evaluate", changes |-> NoChanges]
    BY <1>3, ClosingMovesOn
  <2>3. ClosingJob'
    BY <2>2 DEF ClosingJob, Changes
  <2> QED
    BY <1>3, <2>1, <2>3 DEF CloseUpdate, feedVars, FeedTypeOK, EvaluationJobs, SyncJob,
       ReopeningJob
<1>4. CASE CloseEvaluate
  <2>1. closing' = [pc |-> "save", changes |-> EvaluationNow]
    BY <1>4, ClosingMovesOn
  <2>2. ClosingJob'
    BY <2>1, EvaluationWritesColumns DEF ClosingJob, Changes
  <2> QED
    BY <1>4, <2>2 DEF CloseEvaluate, feedVars, FeedTypeOK, EvaluationJobs, SyncJob, ReopeningJob
<1>5. CASE CloseSave
  <2>1. row' \in Columns
    BY <1>5 DEF CloseSave, ClosingJob, Writes, Writable
  <2> QED
    BY <1>5, <2>1 DEF CloseSave, feedVars, FeedTypeOK, EvaluationJobs, SyncJob, ClosingJob,
       ReopeningJob
<1> QED
  BY <1>1, <1>2, <1>3, <1>4, <1>5 DEF CloseStep, AutoClose, OperatorCloses

LEMMA ReopenTypes == TypeInv /\ Reopen => TypeInv'
<1> SUFFICES ASSUME TypeInv, Reopen PROVE TypeInv'
  OBVIOUS
<1> USE DEF TypeInv, Idle
<1>1. CASE AskToReopen
  <2> DEFINE new == [row EXCEPT !.status = "reopened", !.active = TRUE, !.eligibleAt = Null,
                                !.stateType = "open"]
             changes == Dirty(row, new)
  <2>1. new \in Columns
    BY DEF Columns, TicketState, Status, Null
  <2>2. \A c \in ColumnNames \ {"stateType", "status", "active", "eligibleAt"} : new[c] = row[c]
    BY DEF Columns, ColumnNames
  <2>3. new["status"] = "reopened" /\ row["status"] = "reopen_candidate"
    BY <1>1 DEF Columns, AskToReopen, CanReopen
  <2> HIDE DEF new
  <2>4. Writes(changes, {"stateType", "status", "active", "eligibleAt"})
    <3>1. Writable(changes)
      BY <2>1, DirtyIsWritable
    <3>2. DOMAIN changes = {c \in ColumnNames : new[c] # row[c]}
      BY DirtyColumns
    <3> QED
      BY <2>2, <3>1, <3>2 DEF Writes
  <2>5. "status" \in DOMAIN changes /\ changes["status"] = "reopened"
    <3>1. "status" \in ColumnNames
      BY DEF ColumnNames
    <3>2. /\ DOMAIN changes = {c \in ColumnNames : new[c] # row[c]}
          /\ \A c \in DOMAIN changes : changes[c] = new[c]
      BY DirtyColumns
    <3> QED
      BY <2>3, <3>1, <3>2
  <2>6. reopening' = [pc |-> "save", changes |-> changes]
    BY <1>1 DEF AskToReopen, new
  <2>7. ReopeningJob'
    <3> HIDE DEF changes
    <3> QED
      BY <2>4, <2>5, <2>6 DEF ReopeningJob, Changes
  <2>8. znuny' \in [state : TicketState, version : 1..MaxVersion]
    BY <1>1, ZnunyTypes DEF AskToReopen, TicketState
  <2> QED
    BY <1>1, <2>7, <2>8 DEF AskToReopen, feedVars, FeedTypeOK, EvaluationJobs, SyncJob, ClosingJob
<1>2. CASE ReopenUnnoticed
  <2>1. znuny' \in [state : TicketState, version : 1..MaxVersion]
    BY <1>2, ZnunyTypes DEF ReopenUnnoticed, TicketState
  <2> QED
    BY <1>2, <2>1 DEF ReopenUnnoticed, localVars, feedVars, FeedTypeOK, EvaluationJobs, SyncJob,
       ClosingJob, ReopeningJob
<1>3. CASE ReopenSave
  <2>1. row' \in Columns
    <3>1. Writes(reopening.changes, {"stateType", "status", "active", "eligibleAt"})
      BY <1>3 DEF ReopenSave, ReopeningJob
    <3>2. [Saved(reopening.changes, row) EXCEPT !.reopenedAt = now] \in Columns
      BY ShownIsAnEvent, <3>1, SavesAreRows
    <3> QED
      BY <1>3, <3>2 DEF ReopenSave
  <2> QED
    BY <1>3, <2>1 DEF ReopenSave, feedVars, FeedTypeOK, EvaluationJobs, SyncJob, ClosingJob,
       ReopeningJob
<1> QED
  BY <1>1, <1>2, <1>3 DEF Reopen

\* Time, the feed and the agents leave the row and the jobs alone.
LEMMA OutsideTypes ==
  TypeInv /\ (TimePasses \/ Feed \/ AgentStep \/ UNCHANGED vars) => TypeInv'
<1> SUFFICES ASSUME TypeInv, TimePasses \/ Feed \/ AgentStep \/ UNCHANGED vars PROVE TypeInv'
  OBVIOUS
<1> USE DEF TypeInv, EvaluationJobs, SyncJob, ClosingJob, ReopeningJob
<1>1. CASE TimePasses \/ Feed
  <2>1. FeedTypeOK'
    BY <1>1, FeedTypeStep DEF TimePasses, Feed
  <2>2. UNCHANGED <<znuny, localVars>>
    BY <1>1 DEF TimePasses, Feed
  <2> QED
    BY <2>1, <2>2 DEF localVars
<1>2. CASE AgentStep
  <2>1. PICK state \in AgentStates : ZnunyChanges(state)
    BY <1>2 DEF AgentStep
  <2>2. znuny' \in [state : TicketState, version : 1..MaxVersion]
    BY <2>1, ZnunyTypes, Constants
  <2> QED
    BY <1>2, <2>2 DEF AgentStep, localVars, feedVars, FeedTypeOK
<1>3. CASE UNCHANGED vars
  BY <1>3 DEF vars, localVars, feedVars, FeedTypeOK
<1> QED
  BY <1>1, <1>2, <1>3

LEMMA TypeStep == TypeInv /\ [Next]_vars => TypeInv'
<1> SUFFICES ASSUME TypeInv, [Next]_vars PROVE TypeInv'
  OBVIOUS
<1>1. CASE Evaluate
  BY <1>1, EvaluateTypes DEF Evaluate
<1> QED
  BY <1>1, SyncTypes, CloseTypes, ReopenTypes, OutsideTypes DEF Next

LEMMA TypesHold == Spec => []TypeInv
BY TypeInit, TypeStep, PTL DEF Spec

\* The variables have their types, and what a job in progress is going to write
\* are columns of the row (ZabbixTicket).
THEOREM LifecycleTypes == Spec => []LifecycleTypeOK
BY TypesHold, TypesFollow, PTL

-----------------------------------------------------------------------------
(* The reopen window. *)

\* What the evaluations in progress are going to write, that of a close included.
Evaluations ==
  {evaluation[e].changes : e \in {f \in Evaluators : evaluation[f].pc = "save"}}
  \union (IF closing.pc = "save" THEN {closing.changes} ELSE {})

\* An evaluation is over within the tick it began in.
Dated(changes) ==
  /\ "seenAt" \in DOMAIN changes => changes["seenAt"] = now
  /\ "closedAt" \in DOMAIN changes => changes["closedAt"] = now

\* If a save makes an offer, or dates one that was made meanwhile, the window is
\* still open.
OfferInTime(changes) ==
  LET after == Saved(changes, row)
  IN after.status = "reopen_candidate" /\ DOMAIN changes \cap {"status", "seenAt"} # {}
       => after.closedAt # Null /\ now <= after.closedAt + ReopenWindow

\* Who works on a ticket that was closed before.
ClosedBefore ==
  closing.pc \in {"evaluate", "save"} \/ reopening.pc = "save" => row.closedAt # Null

OfferInv ==
  /\ row.closedAt <= now /\ row.seenAt <= now
  /\ OfferWithinWindow /\ ClosedBefore
  /\ \A changes \in Evaluations : Dated(changes) /\ OfferInTime(changes)

LEMMA EvaluationsWrite == TypeInv => \A changes \in Evaluations : Writes(changes, ColumnNames)
<1> SUFFICES ASSUME TypeInv, NEW changes \in Evaluations PROVE Writes(changes, ColumnNames)
  OBVIOUS
<1>1. CASE \E e \in Evaluators : evaluation[e].pc = "save" /\ changes = evaluation[e].changes
  BY <1>1 DEF TypeInv, EvaluationJobs, Idle
<1>2. CASE closing.pc = "save" /\ changes = closing.changes
  BY <1>2 DEF TypeInv, ClosingJob, Idle
<1> QED
  BY <1>1, <1>2 DEF Evaluations

\* Steps that start no evaluation, end one at most.
LEMMA EvaluationsEnd ==
  ASSUME TypeInv,
         \/ UNCHANGED <<evaluation, closing>>
         \/ \E e \in Evaluators : EvaluateSave(e)
         \/ CloseSave \/ CloseUpdate
         \/ AskToClose
  PROVE  Evaluations' \subseteq Evaluations
<1> USE DEF TypeInv, Evaluations, Idle
<1>1. CASE UNCHANGED <<evaluation, closing>>
  BY <1>1
<1>2. ASSUME NEW e \in Evaluators, EvaluateSave(e) PROVE Evaluations' \subseteq Evaluations
  <2>1. closing' = closing
    BY <1>2 DEF EvaluateSave
  <2>2. \A f \in Evaluators : evaluation'[f].pc = "save" => evaluation'[f] = evaluation[f]
    BY <1>2 DEF EvaluateSave, EvaluationJobs
  <2> QED
    BY <2>1, <2>2
<1>3. CASE CloseSave
  BY <1>3 DEF CloseSave
<1>4. CASE CloseUpdate
  <2>1. closing' = [pc |-> "evaluate", changes |-> NoChanges]
    BY <1>4, ClosingMovesOn
  <2> QED
    BY <1>4, <2>1 DEF CloseUpdate
<1>5. CASE AskToClose
  <2>1. closing'.pc = "update"
    BY <1>5 DEF AskToClose
  <2> QED
    BY <1>5, <2>1 DEF AskToClose
<1> QED
  BY <1>1, <1>2, <1>3, <1>4, <1>5

\* A new evaluation is about to write what it makes of the row now.
LEMMA EvaluationsBegin ==
  ASSUME TypeInv, (\E e \in Evaluators : EvaluateLoad(e)) \/ CloseEvaluate
  PROVE  /\ Evaluations' \subseteq Evaluations \union {EvaluationNow}
         /\ UNCHANGED <<feedVars, row, reopening>>
<1> USE DEF TypeInv, Evaluations, Idle
<1>1. ASSUME NEW e \in Evaluators, EvaluateLoad(e)
      PROVE  Evaluations' \subseteq Evaluations \union {EvaluationNow}
  <2>1. closing' = closing
    BY <1>1 DEF EvaluateLoad
  <2>2. \A f \in Evaluators : \/ evaluation'[f] = evaluation[f]
                              \/ evaluation'[f] = [pc |-> "save", changes |-> EvaluationNow]
    BY <1>1 DEF EvaluateLoad, EvaluationJobs
  <2> HIDE DEF TypeInv
  <2> QED
    BY <2>1, <2>2
<1>2. CASE CloseEvaluate
  <2>1. closing' = [pc |-> "save", changes |-> EvaluationNow]
    BY <1>2, ClosingMovesOn
  <2> HIDE DEF TypeInv
  <2> QED
    BY <1>2, <2>1 DEF CloseEvaluate
<1> QED
  BY <1>1, <1>2 DEF EvaluateLoad, CloseEvaluate

\* Time passes between evaluations.
LEMMA NoEvaluationOverTime ==
  ASSUME TypeInv, TimePasses PROVE Evaluations = {} /\ Evaluations' = {}
BY DEF TimePasses, Evaluations, localVars, Idle

-----------------------------------------------------------------------------

LEMMA ResolvedIsInactive ==
  ASSUME NEW r \in Columns, NEW t \in Times, NEW new, new = EvaluatedResolved(r, t)
  PROVE  new.active = FALSE
BY DEF EvaluatedResolved, Columns

\* What an evaluation that starts now makes of the row, and what it writes.
LEMMA EvaluationMakes ==
  ASSUME TypeInv
  PROVE  \E new \in Columns :
           /\ \/ new = EvaluatedClosed(row, IsCacheFresh, ActiveProblem, now)
              \/ new = [row EXCEPT !.status = "cache_stale"]
              \/ ActiveProblem # NoEvent /\ new = EvaluatedActive(row, ActiveProblem, now)
              \/ new = EvaluatedResolved(row, now)
           /\ Saved(EvaluationNow, row) = new
           /\ DOMAIN EvaluationNow = {c \in ColumnNames : new[c] # row[c]}
           /\ \A c \in DOMAIN EvaluationNow : EvaluationNow[c] = new[c]
<1> DEFINE new == Evaluated(row, IsCacheFresh, ActiveProblem, now)
<1>1. row \in Columns /\ new \in Columns
  BY EvaluationWritesColumns DEF TypeInv
<1>2. \/ new = EvaluatedClosed(row, IsCacheFresh, ActiveProblem, now)
      \/ new = [row EXCEPT !.status = "cache_stale"]
      \/ ActiveProblem # NoEvent /\ new = EvaluatedActive(row, ActiveProblem, now)
      \/ new = EvaluatedResolved(row, now)
  BY Zenon DEF Evaluated
<1>3. EvaluationNow = Dirty(row, new)
  BY DEF EvaluationNow
<1> HIDE DEF new
<1>4. Saved(EvaluationNow, row) = new
  BY <1>1, <1>3, SaveOfTheLoadedRow
<1>5. /\ DOMAIN EvaluationNow = {c \in ColumnNames : new[c] # row[c]}
      /\ \A c \in DOMAIN EvaluationNow : EvaluationNow[c] = new[c]
  BY <1>1, <1>3, RowsHaveColumns DEF Dirty
<1> QED
  BY <1>1, <1>2, <1>4, <1>5

LEMMA OfferInit == Init => OfferInv
<1> SUFFICES ASSUME Init PROVE OfferInv
  OBVIOUS
<1>1. Evaluations = {}
  BY DEF Init, LifecycleInit, Evaluations, Idle
<1> QED
  BY <1>1 DEF Init, FeedInit, LifecycleInit, OfferInv, OfferWithinWindow, ClosedBefore, Idle, Null

\* What an evaluation finds it may write.
LEMMA EvaluationStartsInTime ==
  ASSUME TypeInv PROVE Dated(EvaluationNow) /\ OfferInTime(EvaluationNow)
<1>1. /\ row \in Columns /\ now \in Times /\ now # Null
      /\ ActiveProblem \in Events /\ IsCacheFresh \in BOOLEAN
  BY ShownIsAnEvent DEF TypeInv
<1>2. PICK new \in Columns :
         /\ \/ new = EvaluatedClosed(row, IsCacheFresh, ActiveProblem, now)
            \/ new = [row EXCEPT !.status = "cache_stale"]
            \/ ActiveProblem # NoEvent /\ new = EvaluatedActive(row, ActiveProblem, now)
            \/ new = EvaluatedResolved(row, now)
         /\ Saved(EvaluationNow, row) = new
         /\ DOMAIN EvaluationNow = {c \in ColumnNames : new[c] # row[c]}
         /\ \A c \in DOMAIN EvaluationNow : EvaluationNow[c] = new[c]
  BY EvaluationMakes
<1>3. /\ new.seenAt \in {row.seenAt, now}
      /\ new.closedAt \in {row.closedAt, now}
      /\ new.status = "reopen_candidate"
           => new.closedAt # Null /\ now <= new.closedAt + ReopenWindow
  <2>1. CASE new = EvaluatedClosed(row, IsCacheFresh, ActiveProblem, now)
    BY <1>1, <2>1, ClosedColumns
  <2>2. CASE new = [row EXCEPT !.status = "cache_stale"]
    BY <1>1, <2>2, StaleColumns
  <2>3. CASE new = EvaluatedActive(row, ActiveProblem, now)
    BY <1>1, <2>3, ActiveColumns
  <2>4. CASE new = EvaluatedResolved(row, now)
    BY <1>1, <2>4, ResolvedColumns
  <2> QED
    BY <1>2, <2>1, <2>2, <2>3, <2>4
<1>4. Dated(EvaluationNow)
  BY <1>2, <1>3 DEF Dated
<1> QED
  BY <1>2, <1>3, <1>4 DEF OfferInTime

\* How a step may change the row without harm to an offer.
KeepsOffers ==
  /\ row' \in Columns /\ now' = now
  /\ row.closedAt <= row'.closedAt /\ row'.closedAt <= now /\ row'.seenAt <= now
  /\ row'.status = "reopen_candidate"
       => /\ row'.closedAt # Null /\ row'.seenAt <= row'.closedAt + ReopenWindow
          /\ row.status = "reopen_candidate" \/ now <= row'.closedAt + ReopenWindow

\* Then what the other evaluations are about to write remains harmless too.
LEMMA OthersStayInTime ==
  ASSUME TypeInv, KeepsOffers, NEW changes, Writes(changes, ColumnNames),
         Dated(changes), OfferInTime(changes)
  PROVE  Dated(changes)' /\ OfferInTime(changes)'
<1> DEFINE after == Saved(changes, row)
           later == Saved(changes, row')
<1>0. row \in Columns /\ row' \in Columns /\ now' = now /\ now \in Nat /\ now # Null
      /\ ReopenWindow \in Nat
  BY Constants, ShownIsAnEvent DEF KeepsOffers, TypeInv, Times
<1>1. Dated(changes)'
  BY <1>0 DEF Dated
<1>2. ASSUME later.status = "reopen_candidate", DOMAIN changes \cap {"status", "seenAt"} # {}
      PROVE  later.closedAt # Null /\ now <= later.closedAt + ReopenWindow
  <2>1. \A c \in ColumnNames :
          /\ after[c] = IF c \in DOMAIN changes THEN changes[c] ELSE row[c]
          /\ later[c] = IF c \in DOMAIN changes THEN changes[c] ELSE row'[c]
    BY <1>0, SavedColumns
  <2>2. {"status", "closedAt", "seenAt"} \subseteq ColumnNames
    BY DEF ColumnNames
  <2>3. row.closedAt \in Nat /\ row'.closedAt \in Nat
    BY <1>0, Constants DEF Columns
  <2> HIDE DEF after, later
  <2>4. CASE "closedAt" \in DOMAIN changes
    <3>1. later.closedAt = now
      BY <2>1, <2>2, <2>4 DEF Dated
    <3> QED
      BY <1>0, <3>1
  <2>5. CASE "closedAt" \notin DOMAIN changes
    <3>1. after.closedAt = row.closedAt /\ later.closedAt = row'.closedAt
      BY <2>1, <2>2, <2>5
    <3>2. CASE "status" \in DOMAIN changes
      <4>1. after.status = "reopen_candidate"
        BY <1>2, <2>1, <2>2, <3>2
      <4>2. row.closedAt # Null /\ now <= row.closedAt + ReopenWindow
        BY <3>1, <3>2, <4>1 DEF OfferInTime, after
      <4> QED
        BY <1>0, <2>3, <3>1, <4>2 DEF KeepsOffers, Null
    <3>3. CASE "status" \notin DOMAIN changes
      <4>1. after.status = row.status /\ row'.status = "reopen_candidate"
        BY <1>2, <2>1, <2>2, <3>3
      <4>2. CASE row.status = "reopen_candidate"
        <5>1. row.closedAt # Null /\ now <= row.closedAt + ReopenWindow
          BY <1>2, <3>1, <4>1, <4>2 DEF OfferInTime, after
        <5> QED
          BY <1>0, <2>3, <3>1, <5>1 DEF KeepsOffers, Null
      <4>3. CASE row.status # "reopen_candidate"
        BY <3>1, <4>1, <4>3 DEF KeepsOffers
      <4> QED
        BY <4>2, <4>3
    <3> QED
      BY <3>2, <3>3
  <2> QED
    BY <2>4, <2>5
<1>3. OfferInTime(changes)'
  BY <1>0, <1>2 DEF OfferInTime
<1> QED
  BY <1>1, <1>3

LEMMA OfferKept ==
  ASSUME TypeInv, OfferInv, KeepsOffers, Evaluations' \subseteq Evaluations, ClosedBefore'
  PROVE  OfferInv'
<1>1. ASSUME NEW changes \in Evaluations' PROVE Dated(changes)' /\ OfferInTime(changes)'
  BY <1>1, EvaluationsWrite, OthersStayInTime DEF OfferInv
<1>2. OfferWithinWindow'
  BY DEF KeepsOffers, OfferWithinWindow
<1> QED
  BY <1>1, <1>2 DEF OfferInv, KeepsOffers

\* Saving an evaluation makes no offer outside the window.
LEMMA SavedInTime ==
  ASSUME TypeInv, OfferInv, NEW changes \in Evaluations, row' = Saved(changes, row), now' = now
  PROVE  KeepsOffers
<1>0. row \in Columns /\ row' \in Columns /\ now \in Nat /\ now # Null /\ ReopenWindow \in Nat
      /\ Dated(changes) /\ OfferInTime(changes)
  BY EvaluationsWrite, Constants, ShownIsAnEvent DEF TypeInv, Times, OfferInv, Writes, Writable
<1>1. \A c \in {"status", "closedAt", "seenAt"} :
        row'[c] = IF c \in DOMAIN changes THEN changes[c] ELSE row[c]
  BY <1>0, SavedColumns DEF ColumnNames
<1>2. /\ row.closedAt \in Nat /\ row'.closedAt \in Nat /\ row.seenAt \in Nat
      /\ row.closedAt <= now /\ row.seenAt <= now
  BY <1>0, Constants DEF Columns, OfferInv
<1>3. row'.closedAt \in {row.closedAt, now} /\ row'.seenAt \in {row.seenAt, now}
  BY <1>0, <1>1 DEF Dated
<1>4. ASSUME row'.status = "reopen_candidate"
      PROVE  /\ row'.closedAt # Null /\ row'.seenAt <= row'.closedAt + ReopenWindow
             /\ row.status = "reopen_candidate" \/ now <= row'.closedAt + ReopenWindow
  <2>1. CASE DOMAIN changes \cap {"status", "seenAt"} # {}
    <3>1. row'.closedAt # Null /\ now <= row'.closedAt + ReopenWindow
      BY <1>0, <1>4, <2>1 DEF OfferInTime
    <3> QED
      BY <1>0, <1>2, <1>3, <3>1
  <2>2. CASE DOMAIN changes \cap {"status", "seenAt"} = {}
    <3>1. row.status = "reopen_candidate" /\ row'.seenAt = row.seenAt
      BY <1>1, <1>4, <2>2
    <3>2. row.closedAt # Null /\ row.seenAt <= row.closedAt + ReopenWindow
      BY <3>1 DEF OfferInv, OfferWithinWindow
    <3> QED
      BY <1>0, <1>2, <1>3, <3>1, <3>2 DEF Null
  <2> QED
    BY <2>1, <2>2
<1> QED
  BY <1>0, <1>2, <1>3, <1>4 DEF KeepsOffers

LEMMA OfferEvaluate ==
  ASSUME TypeInv, TypeInv', OfferInv, Evaluate \/ CloseEvaluate \/ CloseSave
  PROVE  OfferInv'
<1>1. CASE (\E e \in Evaluators : EvaluateLoad(e)) \/ CloseEvaluate
  <2>1. UNCHANGED <<now, row, reopening>>
    BY <1>1, EvaluationsBegin DEF feedVars
  <2>2. PICK new : new = EvaluationNow
    OBVIOUS
  <2>3. Dated(new) /\ OfferInTime(new)
    BY <2>2, EvaluationStartsInTime
  <2>4. Evaluations' \subseteq Evaluations \union {new}
    BY <1>1, <2>2, EvaluationsBegin
  <2>5. ASSUME NEW changes \in Evaluations' PROVE Dated(changes)' /\ OfferInTime(changes)'
    BY <2>1, <2>3, <2>4, <2>5 DEF OfferInv, Dated, OfferInTime
  <2>6. ClosedBefore'
    BY <1>1, <2>1 DEF OfferInv, ClosedBefore, EvaluateLoad, CloseEvaluate
  <2> QED
    BY <2>1, <2>5, <2>6 DEF OfferInv, OfferWithinWindow
<1>2. ASSUME NEW e \in Evaluators, EvaluateSave(e) PROVE OfferInv'
  <2>1. PICK changes \in Evaluations : row' = Saved(changes, row)
    BY <1>2 DEF EvaluateSave, Evaluations, TypeInv, EvaluationJobs
  <2>2. KeepsOffers
    BY <1>2, <2>1, SavedInTime DEF EvaluateSave, feedVars
  <2>3. ClosedBefore'
    BY <1>2, <2>2, Constants DEF OfferInv, ClosedBefore, EvaluateSave, KeepsOffers, TypeInv, Columns,
       Null
  <2> QED
    BY <1>2, <2>2, <2>3, EvaluationsEnd, OfferKept
<1>3. CASE CloseSave
  <2>1. PICK changes \in Evaluations : row' = Saved(changes, row)
    BY <1>3 DEF CloseSave, Evaluations
  <2>2. KeepsOffers
    BY <1>3, <2>1, SavedInTime DEF CloseSave, feedVars
  <2>3. ClosedBefore'
    BY <1>3, <2>2, Constants DEF OfferInv, ClosedBefore, CloseSave, KeepsOffers, TypeInv, Columns,
       Null, Idle
  <2> QED
    BY <1>3, <2>2, <2>3, EvaluationsEnd, OfferKept
<1> QED
  BY <1>1, <1>2, <1>3 DEF Evaluate

\* What a job other than an evaluation leaves in the columns it may not write.
LEMMA OtherColumns ==
  ASSUME NEW changes, NEW columns, Writes(changes, columns), NEW r \in Columns,
         NEW c \in ColumnNames \ columns
  PROVE  Saved(changes, r)[c] = r[c]
BY SavedColumns DEF Writes

LEMMA SyncSaves ==
  ASSUME TypeInv, SyncSave
  PROVE  \A c \in ColumnNames \ {"stateType", "hash"} : row'[c] = row[c]
<1>1. Writes(sync.changes, {"stateType", "hash"})
  BY DEF TypeInv, SyncJob, SyncSave, Idle
<1> QED
  BY <1>1, OtherColumns DEF SyncSave, TypeInv

LEMMA CloseUpdates ==
  ASSUME TypeInv, CloseUpdate
  PROVE  /\ \A c \in ColumnNames \ {"stateType", "status", "eligibleAt", "closedAt"} :
              row'[c] = row[c]
         /\ row'.closedAt = now /\ row'.status \in {row.status, "closed"}
<1> DEFINE saved == Saved(closing.changes, row)
<1>0. row \in Columns
  BY DEF TypeInv
<1>1. /\ Writes(closing.changes, {"stateType", "status", "eligibleAt"})
      /\ "status" \in DOMAIN closing.changes => closing.changes["status"] = "closed"
  BY DEF TypeInv, ClosingJob, CloseUpdate, Idle
<1>2. saved \in Columns
  BY <1>0, <1>1 DEF Writes, Writable
<1>3. \A c \in ColumnNames \ {"stateType", "status", "eligibleAt"} : saved[c] = row[c]
  BY <1>0, <1>1, OtherColumns
<1>4. saved["status"] \in {row.status, "closed"}
  BY <1>0, <1>1, SavedColumns DEF ColumnNames
<1>5. row' = [saved EXCEPT !.closedAt = now]
  BY DEF CloseUpdate
<1> HIDE DEF saved
<1>6. DOMAIN saved = ColumnNames
  BY <1>2, RowsHaveColumns
<1> QED
  BY <1>3, <1>4, <1>5, <1>6 DEF ColumnNames

LEMMA ReopenSaves ==
  ASSUME TypeInv, ReopenSave
  PROVE  /\ \A c \in ColumnNames \ {"stateType", "status", "active", "eligibleAt", "reopenedAt"} :
              row'[c] = row[c]
         /\ row'.status = "reopened"
<1> DEFINE saved == Saved(reopening.changes, row)
<1>0. row \in Columns
  BY DEF TypeInv
<1>1. /\ Writes(reopening.changes, {"stateType", "status", "active", "eligibleAt"})
      /\ "status" \in DOMAIN reopening.changes /\ reopening.changes["status"] = "reopened"
  BY DEF TypeInv, ReopeningJob, ReopenSave, Idle
<1>2. saved \in Columns
  BY <1>0, <1>1 DEF Writes, Writable
<1>3. \A c \in ColumnNames \ {"stateType", "status", "active", "eligibleAt"} : saved[c] = row[c]
  BY <1>0, <1>1, OtherColumns
<1>4. saved["status"] = "reopened"
  BY <1>0, <1>1, SavedColumns DEF ColumnNames
<1>5. row' = [saved EXCEPT !.reopenedAt = now]
  BY DEF ReopenSave
<1> HIDE DEF saved
<1>6. DOMAIN saved = ColumnNames
  BY <1>2, RowsHaveColumns
<1> QED
  BY <1>3, <1>4, <1>5, <1>6 DEF ColumnNames

\* Other jobs date the closing or take an offer up.
LEMMA OfferJobs ==
  ASSUME TypeInv, TypeInv', OfferInv, SyncSave \/ CloseUpdate \/ ReopenSave
  PROVE  OfferInv'
<1>0. /\ row.closedAt \in Nat /\ row'.closedAt \in Nat /\ row.seenAt \in Nat
      /\ now \in Nat /\ now # Null /\ ReopenWindow \in Nat /\ now' = now /\ row' \in Columns
      /\ {"status", "closedAt", "seenAt"} \subseteq ColumnNames
      /\ row.closedAt <= now /\ row.seenAt <= now /\ OfferWithinWindow
  BY Constants, ShownIsAnEvent DEF TypeInv, Columns, Times, OfferInv, SyncSave, CloseUpdate, ReopenSave,
     feedVars, ColumnNames
<1>1. CASE SyncSave
  <2>1. row'.status = row.status /\ row'.closedAt = row.closedAt /\ row'.seenAt = row.seenAt
    BY <1>0, <1>1, SyncSaves
  <2>2. KeepsOffers
    BY <1>0, <2>1 DEF KeepsOffers, OfferWithinWindow
  <2>3. UNCHANGED <<evaluation, closing, reopening>>
    BY <1>1 DEF SyncSave
  <2>4. ClosedBefore'
    BY <2>1, <2>3 DEF OfferInv, ClosedBefore
  <2> QED
    BY <2>2, <2>3, <2>4, EvaluationsEnd, OfferKept
<1>2. CASE CloseUpdate
  <2>1. row'.status \in {row.status, "closed"} /\ row'.closedAt = now /\ row'.seenAt = row.seenAt
    BY <1>0, <1>2, CloseUpdates
  <2>2. KeepsOffers
    BY <1>0, <2>1 DEF KeepsOffers, OfferWithinWindow
  <2>3. ClosedBefore'
    BY <1>0, <2>1 DEF ClosedBefore
  <2> QED
    BY <1>2, <2>2, <2>3, EvaluationsEnd, OfferKept
<1>3. CASE ReopenSave
  <2>1. row'.status = "reopened" /\ row'.closedAt = row.closedAt /\ row'.seenAt = row.seenAt
    BY <1>0, <1>3, ReopenSaves
  <2>2. KeepsOffers
    BY <1>0, <2>1 DEF KeepsOffers
  <2>3. UNCHANGED <<evaluation, closing>> /\ reopening' = Idle
    BY <1>3 DEF ReopenSave
  <2>4. ClosedBefore'
    BY <2>1, <2>3 DEF OfferInv, ClosedBefore, Idle
  <2> QED
    BY <2>2, <2>3, <2>4, EvaluationsEnd, OfferKept
<1> QED
  BY <1>1, <1>2, <1>3

\* Requests to Znuny leave the row alone; only an offer is taken up.
LEMMA OfferRequests ==
  ASSUME TypeInv, OfferInv,
         AskToClose \/ AskToReopen
         \/ UNCHANGED <<now, row, evaluation, closing, reopening>>
  PROVE  OfferInv'
<1>1. UNCHANGED <<now, row>>
  BY DEF AskToClose, AskToReopen, feedVars
<1>2. Evaluations' \subseteq Evaluations
  BY EvaluationsEnd DEF AskToReopen
<1>3. ASSUME NEW changes \in Evaluations' PROVE Dated(changes)' /\ OfferInTime(changes)'
  BY <1>1, <1>2, <1>3 DEF OfferInv, Dated, OfferInTime
<1>4. ClosedBefore'
  BY <1>1 DEF OfferInv, ClosedBefore, AskToClose, AskToReopen, CanReopen, OfferWithinWindow
<1> QED
  BY <1>1, <1>3, <1>4 DEF OfferInv, OfferWithinWindow

LEMMA OfferOverTime ==
  ASSUME TypeInv, OfferInv, TimePasses PROVE OfferInv'
<1>1. Evaluations' = {}
  BY NoEvaluationOverTime
<1>2. UNCHANGED <<row, closing, reopening>> /\ now' = now + 1
  BY DEF TimePasses, Tick, localVars
<1>3. row.closedAt \in Nat /\ row.seenAt \in Nat /\ now \in Nat
  BY Constants, ShownIsAnEvent DEF TypeInv, Columns, Times
<1>4. OfferWithinWindow' /\ ClosedBefore'
  BY <1>2 DEF OfferInv, OfferWithinWindow, ClosedBefore
<1> QED
  BY <1>1, <1>2, <1>3, <1>4 DEF OfferInv

\* Steps that touch neither the row nor an evaluation, a closing or a reopening.
LEMMA QuietSteps ==
  ASSUME Feed \/ AgentStep \/ SyncLoad \/ SyncFetch \/ SyncFails \/ CloseUnnoticed
         \/ ReopenUnnoticed \/ UNCHANGED vars
  PROVE  UNCHANGED <<now, row, evaluation, closing, reopening>>
BY DEF Feed, FeedStep, PollSucceeds, PollFails, ProblemReturns, AgentStep, SyncLoad, SyncFetch,
   SyncFails, CloseUnnoticed, ReopenUnnoticed, vars, localVars, feedVars

LEMMA OfferStep == TypeInv /\ TypeInv' /\ OfferInv /\ [Next]_vars => OfferInv'
<1> SUFFICES ASSUME TypeInv, TypeInv', OfferInv, [Next]_vars PROVE OfferInv'
  OBVIOUS
<1>1. CASE TimePasses
  BY <1>1, OfferOverTime
<1>2. CASE Evaluate \/ CloseEvaluate \/ CloseSave
  BY <1>2, OfferEvaluate
<1>3. CASE SyncSave \/ CloseUpdate \/ ReopenSave
  BY <1>3, OfferJobs
<1>4. CASE AskToClose \/ AskToReopen
  BY <1>4, OfferRequests
<1>5. CASE Feed \/ AgentStep \/ SyncLoad \/ SyncFetch \/ SyncFails \/ CloseUnnoticed
           \/ ReopenUnnoticed \/ UNCHANGED vars
  BY <1>5, QuietSteps, OfferRequests
<1> QED
  BY <1>1, <1>2, <1>3, <1>4, <1>5 DEF Next, Sync, CloseStep, AutoClose, OperatorCloses, Reopen

LEMMA OffersHold == Spec => []OfferInv
BY TypeInit, TypeStep, OfferInit, OfferStep, PTL DEF Spec

\* A ticket is offered for reopening only when an evaluation saw its problem
\* active within the reopen window after the closing the row knows of, however
\* many evaluations, closings and reopenings overlap
\* (ZnunyManualTicketLifecycleService::evaluate).
THEOREM OffersAreInTime == Spec => []OfferWithinWindow
BY OffersHold, PTL DEF OfferInv

-----------------------------------------------------------------------------
(* The close delay. *)

\* The time of the resolution and the end of the delay go together, and the
\* problem has not been seen since.
Paired(r) ==
  IF r.resolvedAt = Null THEN r.eligibleAt = Null
  ELSE r.eligibleAt = r.resolvedAt + CloseWait(r.flaps) /\ r.seenAt <= r.resolvedAt

\* How a save keeps them together, whatever was saved since its row was loaded:
\* it clears both, sets both to what they are now, or writes neither; and if it
\* dates the problem it has found them cleared.
WritesAPair(changes) ==
  \/ /\ DOMAIN changes \cap {"resolvedAt", "eligibleAt"} = {}
     /\ "seenAt" \in DOMAIN changes => row.resolvedAt \in {Null, now}
  \/ /\ {"resolvedAt", "eligibleAt"} \subseteq DOMAIN changes
     /\ changes["resolvedAt"] = Null /\ changes["eligibleAt"] = Null
  \/ /\ {"resolvedAt", "eligibleAt"} \subseteq DOMAIN changes
     /\ changes["resolvedAt"] = now /\ changes["eligibleAt"] = now + CloseDelay

DelayInv ==
  row.closedAt = Null
    => /\ Paired(row)
       /\ \A changes \in Evaluations : "closedAt" \in DOMAIN changes \/ WritesAPair(changes)

\* Where evaluations do not overlap, what a save leaves is what the evaluation saw.
Waiting(r) == Paired(r) /\ (r.status = "close_candidate" => r.active = FALSE)

WaitInv ==
  row.closedAt = Null
    => /\ Waiting(row)
       /\ \A changes \in Evaluations :
            "closedAt" \in DOMAIN changes \/ Waiting(Saved(changes, row))

-----------------------------------------------------------------------------

\* The row never forgets that it was closed.
LEMMA ClosedForGood ==
  ASSUME TypeInv, TypeInv', OfferInv, [Next]_vars, row'.closedAt = Null
  PROVE  row.closedAt = Null
<1>0. /\ row.closedAt \in Nat /\ row'.closedAt \in Nat /\ now # Null
      /\ {"status", "closedAt", "seenAt"} \subseteq ColumnNames
  BY Constants, ShownIsAnEvent DEF TypeInv, Columns, ColumnNames
<1>1. CASE Evaluate \/ CloseSave
  <2>1. CASE row' = row
    BY <2>1
  <2>2. ASSUME NEW changes \in Evaluations, row' = Saved(changes, row), now' = now
        PROVE  row.closedAt = Null
    BY <1>0, <2>2, SavedInTime DEF KeepsOffers, Null
  <2>3. row' = row \/ \E changes \in Evaluations : row' = Saved(changes, row) /\ now' = now
    BY <1>1 DEF Evaluate, EvaluateLoad, EvaluateSave, CloseSave, feedVars, Evaluations, TypeInv,
       EvaluationJobs
  <2> QED
    BY <2>1, <2>2, <2>3
<1>2. CASE SyncSave
  BY <1>0, <1>2, SyncSaves
<1>3. CASE CloseUpdate
  BY <1>0, <1>3, CloseUpdates
<1>4. CASE ReopenSave
  BY <1>0, <1>4, ReopenSaves
<1>5. CASE TimePasses \/ AskToClose \/ AskToReopen \/ CloseEvaluate
  BY <1>5 DEF TimePasses, AskToClose, AskToReopen, CloseEvaluate, localVars
<1>6. CASE Feed \/ AgentStep \/ SyncLoad \/ SyncFetch \/ SyncFails \/ CloseUnnoticed
           \/ ReopenUnnoticed \/ UNCHANGED vars
  BY <1>6, QuietSteps
<1> QED
  BY <1>1, <1>2, <1>3, <1>4, <1>5, <1>6 DEF Next, Sync, CloseStep, AutoClose, OperatorCloses,
     Reopen

\* What can happen to a row before its ticket is closed for the first time.
LEMMA BeforeTheFirstClosing ==
  ASSUME TypeInv, TypeInv', OfferInv, [Next]_vars, row'.closedAt = Null
  PROVE  \/ UNCHANGED <<now, row>> /\ Evaluations' \subseteq Evaluations \union {EvaluationNow}
         \/ now' = now /\ \E e \in Evaluators : EvaluateSave(e)
         \/ SyncSave /\ now' = now /\ Evaluations' \subseteq Evaluations
         \/ UNCHANGED row /\ Evaluations' = {}
<1>0. row.closedAt = Null /\ closing.pc \notin {"evaluate", "save"} /\ reopening.pc # "save"
      /\ now # Null
  BY ClosedForGood, ShownIsAnEvent DEF OfferInv, ClosedBefore
<1>1. CASE \E e \in Evaluators : EvaluateLoad(e)
  BY <1>1, EvaluationsBegin DEF feedVars
<1>2. CASE \E e \in Evaluators : EvaluateSave(e)
  BY <1>2 DEF EvaluateSave, feedVars
<1>3. CASE SyncSave
  BY <1>3, EvaluationsEnd DEF SyncSave, feedVars
<1>4. CASE CloseUpdate
  BY <1>0, <1>4, CloseUpdates
<1>5. CASE CloseEvaluate \/ CloseSave \/ ReopenSave
  BY <1>0, <1>5 DEF CloseEvaluate, CloseSave, ReopenSave
<1>6. CASE TimePasses
  BY <1>6, NoEvaluationOverTime DEF TimePasses, localVars
<1>7. CASE AskToClose \/ AskToReopen
  BY <1>7, EvaluationsEnd DEF AskToClose, AskToReopen, feedVars
<1>8. CASE Feed \/ AgentStep \/ SyncLoad \/ SyncFetch \/ SyncFails \/ CloseUnnoticed
           \/ ReopenUnnoticed \/ UNCHANGED vars
  BY <1>8, QuietSteps, EvaluationsEnd
<1> QED
  BY <1>1, <1>2, <1>3, <1>4, <1>5, <1>6, <1>7, <1>8 DEF Next, Evaluate, Sync, CloseStep,
     AutoClose, OperatorCloses, Reopen

-----------------------------------------------------------------------------
(* Any number of evaluations, one delay. *)

DelayIsFixed == FlapDelay = 0 \/ FlapThreshold = 0

LEMMA FixedWait ==
  ASSUME DelayIsFixed, NEW flaps \in Nat PROVE CloseWait(flaps) = CloseDelay
BY Constants DEF DelayIsFixed, CloseWait, IsFlapping

LEMMA DelayInit == Init => DelayInv
<1> SUFFICES ASSUME Init PROVE DelayInv
  OBVIOUS
<1>1. Evaluations = {}
  BY DEF Init, LifecycleInit, Evaluations, Idle
<1> QED
  BY <1>1 DEF Init, LifecycleInit, DelayInv, Paired, Null

\* What an evaluation is going to write keeps the pair together.
LEMMA EvaluationWritesAPair ==
  ASSUME TypeInv, OfferInv, DelayIsFixed, row.closedAt = Null, Paired(row)
  PROVE  "closedAt" \in DOMAIN EvaluationNow \/ WritesAPair(EvaluationNow)
<1>1. /\ row \in Columns /\ now \in Times /\ now # Null
      /\ ActiveProblem \in Events /\ IsCacheFresh \in BOOLEAN
  BY ShownIsAnEvent DEF TypeInv
<1>2. PICK new \in Columns :
         /\ \/ new = EvaluatedClosed(row, IsCacheFresh, ActiveProblem, now)
            \/ new = [row EXCEPT !.status = "cache_stale"]
            \/ ActiveProblem # NoEvent /\ new = EvaluatedActive(row, ActiveProblem, now)
            \/ new = EvaluatedResolved(row, now)
         /\ Saved(EvaluationNow, row) = new
         /\ DOMAIN EvaluationNow = {c \in ColumnNames : new[c] # row[c]}
         /\ \A c \in DOMAIN EvaluationNow : EvaluationNow[c] = new[c]
  BY EvaluationMakes
<1>3. {"seenAt", "resolvedAt", "eligibleAt", "closedAt"} \subseteq ColumnNames
  BY DEF ColumnNames
<1>4. /\ row.resolvedAt \in Nat /\ row.eligibleAt \in Nat /\ now \in Nat /\ CloseDelay \in Nat
      /\ CloseWait(row.flaps) = CloseDelay
  BY <1>1, Constants, FixedWait DEF Columns, Times
<1>5. row.resolvedAt = Null <=> row.eligibleAt = Null
  BY <1>4 DEF Paired, Null
<1>6. CASE new = EvaluatedClosed(row, IsCacheFresh, ActiveProblem, now)
  <2>1. new.closedAt = now
    BY <1>1, <1>6, ClosedColumns
  <2> QED
    BY <1>1, <1>2, <1>3, <2>1
<1>7. CASE new = [row EXCEPT !.status = "cache_stale"]
  <2>1. /\ new.seenAt = row.seenAt /\ new.resolvedAt = row.resolvedAt
        /\ new.eligibleAt = row.eligibleAt
    BY <1>1, <1>7, StaleColumns
  <2> QED
    BY <1>2, <2>1 DEF WritesAPair
<1>8. CASE new = EvaluatedActive(row, ActiveProblem, now)
  <2>1. /\ new.resolvedAt = Null /\ new.eligibleAt \in {Null, row.eligibleAt}
        /\ row.resolvedAt # Null => new.eligibleAt = Null
    BY <1>1, <1>8, ActiveColumns
  <2>2. CASE row.resolvedAt = Null
    <3>1. new.resolvedAt = row.resolvedAt /\ new.eligibleAt = row.eligibleAt
      BY <1>5, <2>1, <2>2
    <3> QED
      BY <1>2, <2>2, <3>1 DEF WritesAPair
  <2>3. CASE row.resolvedAt # Null
    <3>1. {"resolvedAt", "eligibleAt"} \subseteq DOMAIN EvaluationNow
      BY <1>2, <1>3, <1>5, <2>1, <2>3
    <3> QED
      BY <1>2, <2>1, <2>3, <3>1 DEF WritesAPair
  <2> QED
    BY <2>2, <2>3
<1>9. CASE new = EvaluatedResolved(row, now)
  <2>1. /\ new.resolvedAt = (IF row.resolvedAt = Null THEN now ELSE row.resolvedAt)
        /\ new.eligibleAt = new.resolvedAt + CloseDelay /\ new.seenAt = row.seenAt
    <3>1. /\ new.resolvedAt = (IF row.resolvedAt = Null THEN now ELSE row.resolvedAt)
          /\ new.eligibleAt = new.resolvedAt + CloseWait(row.flaps)
          /\ new.seenAt = row.seenAt
      BY <1>1, <1>9, ResolvedColumns
    <3> QED
      BY <1>4, <3>1
  <2>2. CASE row.resolvedAt = Null
    <3>1. /\ new.resolvedAt = now /\ new.eligibleAt = now + CloseDelay
          /\ new.resolvedAt # row.resolvedAt /\ new.eligibleAt # row.eligibleAt
      BY <1>1, <1>4, <1>5, <2>1, <2>2 DEF Null
    <3>2. {"resolvedAt", "eligibleAt"} \subseteq DOMAIN EvaluationNow
      BY <1>2, <1>3, <3>1
    <3> QED
      BY <1>2, <3>1, <3>2 DEF WritesAPair
  <2>3. CASE row.resolvedAt # Null
    <3>1. new.resolvedAt = row.resolvedAt /\ new.eligibleAt = row.eligibleAt
      BY <1>4, <2>1, <2>3 DEF Paired
    <3> QED
      BY <1>2, <2>1, <3>1 DEF WritesAPair
  <2> QED
    BY <2>2, <2>3
<1> QED
  BY <1>2, <1>6, <1>7, <1>8, <1>9

\* Saving it leaves the row paired, and the other evaluations may save after it.
LEMMA SavedPair ==
  ASSUME TypeInv, OfferInv, DelayIsFixed, Paired(row), NEW changes \in Evaluations,
         WritesAPair(changes), row' = Saved(changes, row)
  PROVE  Paired(row)' /\ row'.resolvedAt \in {row.resolvedAt, Null, now}
<1>1. row \in Columns /\ row' \in Columns /\ Dated(changes) /\ now \in Nat /\ now # Null
      /\ CloseDelay \in Nat
  BY EvaluationsWrite, Constants, ShownIsAnEvent DEF TypeInv, OfferInv, Writes, Writable, Times
<1>2. \A c \in {"seenAt", "resolvedAt", "eligibleAt"} :
        row'[c] = IF c \in DOMAIN changes THEN changes[c] ELSE row[c]
  BY <1>1, SavedColumns DEF ColumnNames
<1>3. CloseWait(row.flaps) = CloseDelay /\ CloseWait(row'.flaps) = CloseDelay
  BY <1>1, FixedWait DEF Columns
<1>4. row'.seenAt \in {row.seenAt, now}
  BY <1>1, <1>2 DEF Dated
<1>5. row.seenAt <= now /\ row.seenAt \in Nat
  BY <1>1, Constants DEF OfferInv, Columns
<1>6. CASE DOMAIN changes \cap {"resolvedAt", "eligibleAt"} = {}
  <2>1. row'.resolvedAt = row.resolvedAt /\ row'.eligibleAt = row.eligibleAt
    BY <1>2, <1>6
  <2>2. row'.seenAt = row.seenAt \/ row.resolvedAt \in {Null, now}
    BY <1>2, <1>6 DEF WritesAPair
  <2> QED
    BY <1>1, <1>3, <1>4, <2>1, <2>2 DEF Paired
<1>7. CASE /\ {"resolvedAt", "eligibleAt"} \subseteq DOMAIN changes
           /\ changes["resolvedAt"] = Null /\ changes["eligibleAt"] = Null
  BY <1>2, <1>7 DEF Paired
<1>8. CASE /\ {"resolvedAt", "eligibleAt"} \subseteq DOMAIN changes
           /\ changes["resolvedAt"] = now /\ changes["eligibleAt"] = now + CloseDelay
  <2>1. row'.resolvedAt = now /\ row'.eligibleAt = now + CloseDelay
    BY <1>2, <1>8
  <2> QED
    BY <1>1, <1>3, <1>4, <1>5, <2>1 DEF Paired
<1> QED
  BY <1>6, <1>7, <1>8 DEF WritesAPair

LEMMA DelayStep ==
  ASSUME DelayIsFixed, TypeInv, TypeInv', OfferInv, DelayInv, [Next]_vars
  PROVE  DelayInv'
<1> SUFFICES ASSUME row'.closedAt = Null
             PROVE  /\ Paired(row)'
                    /\ \A changes \in Evaluations' :
                         "closedAt" \in DOMAIN changes \/ WritesAPair(changes)'
  BY DEF DelayInv
<1>0. /\ row.closedAt = Null /\ Paired(row) /\ now # Null
      /\ \A changes \in Evaluations : "closedAt" \in DOMAIN changes \/ WritesAPair(changes)
  BY ClosedForGood, ShownIsAnEvent DEF DelayInv
<1>1. CASE UNCHANGED <<now, row>> /\ Evaluations' \subseteq Evaluations \union {EvaluationNow}
  <2>1. PICK new : new = EvaluationNow
    OBVIOUS
  <2>2. "closedAt" \in DOMAIN new \/ WritesAPair(new)
    BY <1>0, <2>1, EvaluationWritesAPair
  <2>3. Evaluations' \subseteq Evaluations \union {new}
    BY <1>1, <2>1
  <2> QED
    BY <1>0, <1>1, <2>2, <2>3 DEF Paired, WritesAPair
<1>2. CASE now' = now /\ \E e \in Evaluators : EvaluateSave(e)
  <2>1. PICK changes \in Evaluations : row' = Saved(changes, row)
    BY <1>2 DEF EvaluateSave, Evaluations, TypeInv, EvaluationJobs
  <2>2. row'.closedAt = IF "closedAt" \in DOMAIN changes THEN changes["closedAt"] ELSE row.closedAt
    BY <2>1, SavedColumns DEF TypeInv, ColumnNames
  <2>3. "closedAt" \notin DOMAIN changes
    BY <1>0, <2>2 DEF OfferInv, Dated
  <2>4. Paired(row)' /\ row'.resolvedAt \in {row.resolvedAt, Null, now}
    BY <1>0, <2>1, <2>3, SavedPair
  <2>5. Evaluations' \subseteq Evaluations
    BY <1>2, EvaluationsEnd
  <2> QED
    BY <1>0, <1>2, <2>4, <2>5 DEF WritesAPair
<1>3. CASE SyncSave /\ now' = now /\ Evaluations' \subseteq Evaluations
  <2>1. \A c \in {"resolvedAt", "eligibleAt", "seenAt", "flaps"} : row'[c] = row[c]
    BY <1>3, SyncSaves DEF ColumnNames
  <2> QED
    BY <1>0, <1>3, <2>1 DEF Paired, WritesAPair
<1>4. CASE UNCHANGED row /\ Evaluations' = {}
  BY <1>0, <1>4 DEF Paired
<1> QED
  BY <1>1, <1>2, <1>3, <1>4, BeforeTheFirstClosing

\* The end of the delay counts from the last time the problem was seen active.
LEMMA PairedHasWaited ==
  ASSUME TypeInv, Paired(row), row.eligibleAt # Null, row.eligibleAt <= now
  PROVE  row.seenAt + CloseWait(row.flaps) <= now
<1>1. /\ row.seenAt \in Nat /\ row.resolvedAt \in Nat /\ now \in Nat
      /\ CloseWait(row.flaps) \in Nat
  BY Constants, ShownIsAnEvent, WaitsAreNumbers DEF TypeInv, Columns, Times
<1>2. row.eligibleAt = row.resolvedAt + CloseWait(row.flaps) /\ row.seenAt <= row.resolvedAt
  BY DEF Paired
<1> QED
  BY <1>1, <1>2

\* Whatever evaluations, syncs, closings and reopenings overlap: if flapping does
\* not prolong the close delay, a ticket that was never closed is offered to
\* auto-close only when the delay has passed since its problem was last seen
\* active (ZnunyManualTicketCloseCandidateService::review).
THEOREM DelaysPass == ASSUME DelayIsFixed PROVE Spec => []DelayHasPassed
<1>1. DelayInv /\ TypeInv => DelayHasPassed
  BY PairedHasWaited DEF DelayInv, DelayHasPassed, IsCloseCandidate
<1>2. TypeInv /\ TypeInv' /\ OfferInv /\ DelayInv /\ [Next]_vars => DelayInv'
  BY DelayStep
<1> QED
  BY <1>1, <1>2, DelayInit, TypesHold, OffersHold, PTL DEF Spec

-----------------------------------------------------------------------------
(* One evaluation at a time, any delay. *)

OneEvaluation == \A a, b \in Evaluators : a = b

LEMMA WaitInit == Init => WaitInv
<1> SUFFICES ASSUME Init PROVE WaitInv
  OBVIOUS
<1>1. Evaluations = {}
  BY DEF Init, LifecycleInit, Evaluations, Idle
<1> QED
  BY <1>1 DEF Init, LifecycleInit, WaitInv, Waiting, Paired, Null

\* What an evaluation makes of a row that waits, waits.
LEMMA EvaluationWaits ==
  ASSUME TypeInv, OfferInv, row.closedAt = Null, Waiting(row)
  PROVE  "closedAt" \in DOMAIN EvaluationNow \/ Waiting(Saved(EvaluationNow, row))
<1>1. /\ row \in Columns /\ now \in Times /\ now # Null
      /\ ActiveProblem \in Events /\ IsCacheFresh \in BOOLEAN
  BY ShownIsAnEvent DEF TypeInv
<1>2. PICK new \in Columns :
         /\ \/ new = EvaluatedClosed(row, IsCacheFresh, ActiveProblem, now)
            \/ new = [row EXCEPT !.status = "cache_stale"]
            \/ ActiveProblem # NoEvent /\ new = EvaluatedActive(row, ActiveProblem, now)
            \/ new = EvaluatedResolved(row, now)
         /\ Saved(EvaluationNow, row) = new
         /\ DOMAIN EvaluationNow = {c \in ColumnNames : new[c] # row[c]}
         /\ \A c \in DOMAIN EvaluationNow : EvaluationNow[c] = new[c]
  BY EvaluationMakes
<1>3. /\ row.resolvedAt \in Nat /\ row.eligibleAt \in Nat /\ now \in Nat
      /\ row.seenAt \in Nat /\ row.seenAt <= now /\ CloseWait(row.flaps) \in Nat
  BY <1>1, Constants, WaitsAreNumbers DEF Columns, Times, OfferInv
<1>4. row.resolvedAt = Null <=> row.eligibleAt = Null
  BY <1>3 DEF Waiting, Paired, Null
<1>5. CASE new = EvaluatedClosed(row, IsCacheFresh, ActiveProblem, now)
  <2>1. new.closedAt = now
    BY <1>1, <1>5, ClosedColumns
  <2> QED
    BY <1>1, <1>2, <2>1 DEF ColumnNames
<1>6. CASE new = [row EXCEPT !.status = "cache_stale"]
  <2>1. /\ new.seenAt = row.seenAt /\ new.resolvedAt = row.resolvedAt /\ new.flaps = row.flaps
        /\ new.eligibleAt = row.eligibleAt /\ new.status = "cache_stale"
    BY <1>1, <1>6, StaleColumns
  <2> QED
    BY <1>2, <2>1 DEF Waiting, Paired
<1>7. CASE new = EvaluatedActive(row, ActiveProblem, now)
  <2>1. /\ new.resolvedAt = Null /\ new.eligibleAt \in {Null, row.eligibleAt}
        /\ row.resolvedAt # Null => new.eligibleAt = Null
        /\ new.status \in {"flapping", "reopened", "active"}
    BY <1>1, <1>7, ActiveColumns
  <2> QED
    BY <1>2, <1>4, <2>1 DEF Waiting, Paired
<1>8. CASE new = EvaluatedResolved(row, now)
  <2>1. /\ new.resolvedAt = (IF row.resolvedAt = Null THEN now ELSE row.resolvedAt)
        /\ new.eligibleAt = new.resolvedAt + CloseWait(row.flaps)
        /\ new.seenAt = row.seenAt /\ new.flaps = row.flaps
    BY <1>1, <1>8, ResolvedColumns
  <2>2. new.active = FALSE
    BY <1>1, <1>8, ResolvedIsInactive
  <2>3. Paired(new)
    BY <1>1, <1>3, <2>1 DEF Waiting, Paired
  <2> QED
    BY <1>2, <2>2, <2>3 DEF Waiting
<1> QED
  BY <1>2, <1>5, <1>6, <1>7, <1>8

LEMMA WaitStep ==
  ASSUME OneEvaluation, TypeInv, TypeInv', OfferInv, WaitInv, [Next]_vars
  PROVE  WaitInv'
<1> SUFFICES ASSUME row'.closedAt = Null
             PROVE  /\ Waiting(row')
                    /\ \A changes \in Evaluations' :
                         "closedAt" \in DOMAIN changes \/ Waiting(Saved(changes, row'))
  BY DEF WaitInv, Waiting, Paired
<1>0. /\ row.closedAt = Null /\ Waiting(row) /\ now # Null
      /\ \A changes \in Evaluations :
           "closedAt" \in DOMAIN changes \/ Waiting(Saved(changes, row))
      /\ closing.pc # "save"
  BY ClosedForGood, ShownIsAnEvent DEF WaitInv, OfferInv, ClosedBefore
<1>1. CASE UNCHANGED <<now, row>> /\ Evaluations' \subseteq Evaluations \union {EvaluationNow}
  BY <1>0, <1>1, EvaluationWaits
<1>2. CASE now' = now /\ \E e \in Evaluators : EvaluateSave(e)
  <2>1. PICK e \in Evaluators : EvaluateSave(e)
    BY <1>2
  <2>2. PICK changes \in Evaluations : row' = Saved(changes, row)
    BY <2>1 DEF EvaluateSave, Evaluations, TypeInv, EvaluationJobs
  <2>3. row'.closedAt = IF "closedAt" \in DOMAIN changes THEN changes["closedAt"] ELSE row.closedAt
    BY <2>2, SavedColumns DEF TypeInv, ColumnNames
  <2>4. "closedAt" \notin DOMAIN changes
    BY <1>0, <2>3 DEF OfferInv, Dated
  <2>5. Waiting(row')
    BY <1>0, <2>2, <2>4
  <2>6. Evaluations' = {}
    <3>1. \A f \in Evaluators : evaluation'[f] = Idle
      BY <2>1 DEF OneEvaluation, EvaluateSave, TypeInv, EvaluationJobs
    <3> QED
      BY <1>0, <2>1, <3>1 DEF Evaluations, EvaluateSave, Idle
  <2> QED
    BY <2>5, <2>6
<1>3. CASE SyncSave /\ now' = now /\ Evaluations' \subseteq Evaluations
  <2>1. row \in Columns /\ row' \in Columns
    BY DEF TypeInv
  <2>2. \A c \in ColumnNames \ {"stateType", "hash"} : row'[c] = row[c]
    BY <1>3, SyncSaves
  <2>3. ASSUME NEW changes
        PROVE  \A c \in ColumnNames \ {"stateType", "hash"} :
                 Saved(changes, row')[c] = Saved(changes, row)[c]
    BY <2>1, <2>2, SavedColumns
  <2>4. ASSUME NEW r, NEW s, Waiting(r),
               \A c \in ColumnNames \ {"stateType", "hash"} : s[c] = r[c]
        PROVE  Waiting(s)
    <3>1. /\ s.resolvedAt = r.resolvedAt /\ s.eligibleAt = r.eligibleAt /\ s.flaps = r.flaps
          /\ s.seenAt = r.seenAt /\ s.status = r.status /\ s.active = r.active
      BY <2>4 DEF ColumnNames
    <3> QED
      BY <2>4, <3>1 DEF Waiting, Paired
  <2>5. Waiting(row')
    BY <1>0, <2>2, <2>4
  <2>6. ASSUME NEW changes \in Evaluations'
        PROVE  "closedAt" \in DOMAIN changes \/ Waiting(Saved(changes, row'))
    BY <1>0, <1>3, <2>3, <2>4
  <2> QED
    BY <2>5, <2>6
<1>4. CASE UNCHANGED row /\ Evaluations' = {}
  BY <1>0, <1>4
<1> QED
  BY <1>1, <1>2, <1>3, <1>4, BeforeTheFirstClosing

\* Where evaluations do not overlap, also the delay that is prolonged for a
\* flapping ticket has passed, and no evaluation has seen the problem active
\* since (ZnunyManualTicketCloseCandidateService::review).
THEOREM CandidatesHaveWaited == ASSUME OneEvaluation PROVE Spec => []CandidateHasWaited
<1>1. WaitInv /\ TypeInv => CandidateHasWaited
  BY PairedHasWaited DEF WaitInv, Waiting, CandidateHasWaited, DelayHasPassed, IsCloseCandidate
<1>2. TypeInv /\ TypeInv' /\ OfferInv /\ WaitInv /\ [Next]_vars => WaitInv'
  BY WaitStep
<1> QED
  BY <1>1, <1>2, WaitInit, TypesHold, OffersHold, PTL DEF Spec

-----------------------------------------------------------------------------
(* The flap count. *)

\* An event Zabbix has had.
Known(event) ==
  /\ event.id <= problem.id /\ event.since <= problem.since
  /\ event.id = problem.id => event = problem
  /\ event.id = Null => event.since = Null
  /\ event.id = LinkedEvent => event.since = 1

\* Later events have later identifiers.
InOrder(event, earlier) == event.since > earlier.since => event.id > earlier.id

\* No more flaps than events after the linked one, up to the last counted.
CountedOnce(flaps, counted) ==
  flaps <= (IF counted.id = Null THEN 0 ELSE counted.id - LinkedEvent)

FlapInv ==
  /\ problem.id >= LinkedEvent /\ problem.since <= now /\ Known(problem)
  /\ Known(cache.listed) /\ Known(row.counted)
  /\ InOrder(cache.listed, row.counted) /\ CountedOnce(row.flaps, row.counted)
  /\ \A changes \in Evaluations :
       /\ "flaps" \in DOMAIN changes <=> "counted" \in DOMAIN changes
       /\ "counted" \in DOMAIN changes
            => /\ Known(changes["counted"]) /\ InOrder(cache.listed, changes["counted"])
               /\ CountedOnce(changes["flaps"], changes["counted"])

\* What a save does to the flap count, and which events it counts.
FlapChanges(changes) ==
  /\ "flaps" \in DOMAIN changes <=> "counted" \in DOMAIN changes
  /\ "counted" \in DOMAIN changes
       => /\ Known(changes["counted"]) /\ InOrder(cache.listed, changes["counted"])
          /\ CountedOnce(changes["flaps"], changes["counted"])

LEMMA FlapInit == Init => FlapInv
<1> SUFFICES ASSUME Init PROVE FlapInv
  OBVIOUS
<1>1. Evaluations = {}
  BY DEF Init, LifecycleInit, Evaluations, Idle
<1> QED
  BY <1>1 DEF Init, FeedInit, LifecycleInit, FlapInv, Known, InOrder, CountedOnce, NoEvent,
     LinkedEvent, Null

\* An event stays known when the next one occurs.
LEMMA KnownEventsStay ==
  ASSUME TypeInv, FlapInv, UNCHANGED problem \/ ProblemReturns, NEW event \in Events, Known(event)
  PROVE  Known(event)'
BY Constants DEF TypeInv, FeedTypeOK, FlapInv, ProblemReturns, Known, Events, Times, Null, LinkedEvent

\* The events the evaluations are going to count have the type of an event.
LEMMA CountedAreEvents ==
  ASSUME TypeInv, NEW changes \in Evaluations, "counted" \in DOMAIN changes
  PROVE  changes["counted"] \in Events
<1>1. Saved(changes, row) \in Columns
  BY EvaluationsWrite DEF TypeInv, Writes, Writable
<1>2. Saved(changes, row)["counted"] = changes["counted"]
  BY SavedColumns DEF TypeInv, ColumnNames
<1> QED
  BY <1>1, <1>2 DEF Columns

\* Polls, new events and time: the order of the events stays as it is.
LEMMA FlapFeed ==
  ASSUME TypeInv, TypeInv', FlapInv, Feed \/ TimePasses
  PROVE  FlapInv'
<1>1. UNCHANGED <<row, evaluation, closing>>
  BY DEF Feed, TimePasses, localVars
<1>2. Evaluations' = Evaluations
  BY <1>1 DEF Evaluations
<1>3. /\ UNCHANGED problem \/ ProblemReturns
      /\ problem'.id >= LinkedEvent /\ problem'.since <= now' /\ Known(problem)'
  BY Constants DEF Feed, TimePasses, FeedStep, PollSucceeds, PollFails, ProblemReturns, Tick, TypeInv,
     FeedTypeOK, FlapInv, Known, Events, Times, Null, LinkedEvent
<1>4. row.counted \in Events /\ cache.listed \in Events /\ problem \in Events
  BY DEF TypeInv, Columns, FeedTypeOK
<1>5. cache'.listed \in {cache.listed, problem, NoEvent}
  <2>1. CASE PollSucceeds
    BY <2>1 DEF PollSucceeds
  <2>2. CASE PollFails
    BY <2>2 DEF PollFails, TypeInv, FeedTypeOK
  <2>3. CASE ProblemReturns \/ Tick
    BY <2>3 DEF ProblemReturns, Tick
  <2> QED
    BY <2>1, <2>2, <2>3 DEF Feed, TimePasses, FeedStep
<1>6. cache'.listed # cache.listed => problem' = problem
  BY DEF Feed, TimePasses, FeedStep, PollSucceeds, PollFails, ProblemReturns, Tick
<1>7. Known(cache.listed)'
  <2>1. CASE cache'.listed = cache.listed
    <3>1. PICK event \in Events : event = cache.listed
      BY <1>4
    <3>2. Known(event)'
      BY <1>3, <3>1, KnownEventsStay DEF FlapInv
    <3> QED
      BY <2>1, <3>1, <3>2 DEF Known
  <2>2. CASE cache'.listed = problem /\ problem' = problem
    BY <1>3, <2>2 DEF Known
  <2>3. CASE cache'.listed = NoEvent /\ problem' = problem
    BY <1>3, <1>4, <2>3, Constants DEF Known, NoEvent, Null, LinkedEvent, Events, Times
  <2> QED
    BY <1>5, <1>6, <2>1, <2>2, <2>3
<1>8. ASSUME NEW counted \in Events, Known(counted), InOrder(cache.listed, counted)
      PROVE  Known(counted)' /\ InOrder(cache.listed, counted)'
  <2>1. Known(counted)'
    BY <1>3, <1>8, KnownEventsStay
  <2>2. InOrder(cache'.listed, counted)
    BY <1>4, <1>5, <1>8, Constants DEF InOrder, Known, NoEvent, Null, Events, Times
  <2> QED
    BY <2>1, <2>2 DEF InOrder
<1>9. Known(row.counted)' /\ InOrder(cache.listed, row.counted)' /\ CountedOnce(row.flaps, row.counted)'
  <2>1. PICK counted \in Events : counted = row.counted
    BY <1>4
  <2>2. Known(counted)' /\ InOrder(cache.listed, counted)'
    BY <1>8, <2>1 DEF FlapInv
  <2> QED
    BY <1>1, <2>1, <2>2 DEF FlapInv, Known, InOrder, CountedOnce
<1>10. ASSUME NEW changes \in Evaluations PROVE FlapChanges(changes)'
  <2>1. FlapChanges(changes)
    BY DEF FlapInv, FlapChanges
  <2>2. CASE "counted" \in DOMAIN changes
    <3>1. PICK counted \in Events : counted = changes["counted"]
      BY <2>2, CountedAreEvents
    <3>2. Known(counted)' /\ InOrder(cache.listed, counted)'
      BY <1>8, <2>1, <2>2, <3>1 DEF FlapChanges
    <3> QED
      BY <2>1, <3>1, <3>2 DEF FlapChanges, CountedOnce
  <2>3. CASE "counted" \notin DOMAIN changes
    BY <2>1, <2>3 DEF FlapChanges
  <2> QED
    BY <2>2, <2>3
<1> QED
  BY <1>2, <1>3, <1>7, <1>9, <1>10 DEF FlapInv, FlapChanges

\* What an evaluation counts is the event the last poll listed, and a new one.
LEMMA EvaluationCountsOnce ==
  ASSUME TypeInv, FlapInv PROVE FlapChanges(EvaluationNow)
<1>1. /\ row \in Columns /\ now \in Times /\ now # Null
      /\ ActiveProblem \in Events /\ IsCacheFresh \in BOOLEAN
  BY ShownIsAnEvent DEF TypeInv
<1>2. PICK new \in Columns :
         /\ \/ new = EvaluatedClosed(row, IsCacheFresh, ActiveProblem, now)
            \/ new = [row EXCEPT !.status = "cache_stale"]
            \/ ActiveProblem # NoEvent /\ new = EvaluatedActive(row, ActiveProblem, now)
            \/ new = EvaluatedResolved(row, now)
         /\ Saved(EvaluationNow, row) = new
         /\ DOMAIN EvaluationNow = {c \in ColumnNames : new[c] # row[c]}
         /\ \A c \in DOMAIN EvaluationNow : EvaluationNow[c] = new[c]
  BY EvaluationMakes
<1>3. \/ new.flaps = row.flaps /\ new.counted = row.counted
      \/ /\ new.flaps = row.flaps + 1 /\ new.counted = ActiveProblem
         /\ ActiveProblem.since > 1 /\ ActiveProblem.since > row.counted.since
  <2>1. CASE new = EvaluatedClosed(row, IsCacheFresh, ActiveProblem, now)
    BY <1>1, <2>1, ClosedColumns
  <2>2. CASE new = [row EXCEPT !.status = "cache_stale"]
    BY <1>1, <2>2, StaleColumns
  <2>3. CASE new = EvaluatedActive(row, ActiveProblem, now)
    BY <1>1, <2>3, ActiveColumns
  <2>4. CASE new = EvaluatedResolved(row, now)
    BY <1>1, <2>4, ResolvedColumns
  <2> QED
    BY <1>2, <2>1, <2>2, <2>3, <2>4
<1>4. {"flaps", "counted"} \subseteq ColumnNames
  BY DEF ColumnNames
<1>5. CASE new.flaps = row.flaps /\ new.counted = row.counted
  BY <1>2, <1>4, <1>5 DEF FlapChanges
<1>6. CASE /\ new.flaps = row.flaps + 1 /\ new.counted = ActiveProblem
           /\ ActiveProblem.since > 1 /\ ActiveProblem.since > row.counted.since
  <2>1. PICK event \in Events : event = cache.listed
    BY DEF TypeInv, FeedTypeOK
  <2>2. ActiveProblem = event
    BY <1>6, <2>1 DEF ActiveProblem, NoEvent, Null
  <2>3. /\ event.id \in Nat /\ event.since \in Nat /\ row.flaps \in Nat
        /\ row.counted.id \in Nat /\ row.counted.since \in Nat
    BY <1>1, <2>1, Constants DEF Columns, Events, Times
  <2>4. Known(event) /\ event.id > row.counted.id
    BY <1>6, <2>1, <2>2 DEF FlapInv, InOrder
  <2>5. event.id > LinkedEvent
    BY <1>6, <2>2, <2>3, <2>4 DEF Known, Null, LinkedEvent
  <2>6. CountedOnce(row.flaps + 1, event)
    BY <2>3, <2>4, <2>5 DEF FlapInv, CountedOnce, Null, LinkedEvent
  <2>7. InOrder(cache.listed, event)
    BY <2>1, <2>3 DEF InOrder
  <2>8. {"flaps", "counted"} \subseteq DOMAIN EvaluationNow
    BY <1>2, <1>4, <1>6, <2>2, <2>3
  <2> QED
    BY <1>2, <1>6, <2>2, <2>4, <2>6, <2>7, <2>8 DEF FlapChanges
<1> QED
  BY <1>3, <1>5, <1>6

\* A step that leaves the feed, the count and the evaluations alone.
LEMMA FlapKept ==
  ASSUME FlapInv, UNCHANGED feedVars, row'.flaps = row.flaps, row'.counted = row.counted,
         Evaluations' \subseteq Evaluations
  PROVE  FlapInv'
BY DEF FlapInv, Known, InOrder, CountedOnce, feedVars

LEMMA FlapEvaluate ==
  ASSUME TypeInv, FlapInv, Evaluate \/ CloseEvaluate \/ CloseSave
  PROVE  FlapInv'
<1>1. CASE (\E e \in Evaluators : EvaluateLoad(e)) \/ CloseEvaluate
  <2>1. UNCHANGED <<feedVars, row>>
    BY <1>1, EvaluationsBegin
  <2>2. PICK new : new = EvaluationNow
    OBVIOUS
  <2>3. FlapChanges(new) /\ Evaluations' \subseteq Evaluations \union {new}
    BY <1>1, <2>2, EvaluationsBegin, EvaluationCountsOnce
  <2> QED
    BY <2>1, <2>3 DEF FlapInv, FlapChanges, Known, InOrder, CountedOnce, feedVars
<1>2. ASSUME NEW changes \in Evaluations, row' = Saved(changes, row), UNCHANGED feedVars,
             Evaluations' \subseteq Evaluations
      PROVE  FlapInv'
  <2>1. \A c \in {"flaps", "counted"} :
          row'[c] = IF c \in DOMAIN changes THEN changes[c] ELSE row[c]
    BY <1>2, SavedColumns DEF TypeInv, ColumnNames
  <2>2. FlapChanges(changes)
    BY DEF FlapInv, FlapChanges
  <2>3. CASE "counted" \in DOMAIN changes
    <3>1. row'.flaps = changes["flaps"] /\ row'.counted = changes["counted"]
      BY <2>1, <2>2, <2>3 DEF FlapChanges
    <3> QED
      BY <1>2, <2>2, <2>3, <3>1 DEF FlapInv, FlapChanges, Known, InOrder, CountedOnce, feedVars
  <2>4. CASE "counted" \notin DOMAIN changes
    <3>1. row'.flaps = row.flaps /\ row'.counted = row.counted
      BY <2>1, <2>2, <2>4 DEF FlapChanges
    <3> QED
      BY <1>2, <3>1, FlapKept
  <2> QED
    BY <2>3, <2>4
<1>3. CASE \E e \in Evaluators : EvaluateSave(e)
  <2>1. PICK changes \in Evaluations : row' = Saved(changes, row)
    BY <1>3 DEF EvaluateSave, Evaluations, TypeInv, EvaluationJobs
  <2> QED
    BY <1>2, <1>3, <2>1, EvaluationsEnd DEF EvaluateSave
<1>4. CASE CloseSave
  <2>1. PICK changes \in Evaluations : row' = Saved(changes, row)
    BY <1>4 DEF CloseSave, Evaluations
  <2> QED
    BY <1>2, <1>4, <2>1, EvaluationsEnd DEF CloseSave
<1> QED
  BY <1>1, <1>3, <1>4 DEF Evaluate

LEMMA FlapStep == TypeInv /\ TypeInv' /\ FlapInv /\ [Next]_vars => FlapInv'
<1> SUFFICES ASSUME TypeInv, TypeInv', FlapInv, [Next]_vars PROVE FlapInv'
  OBVIOUS
<1>1. CASE Feed \/ TimePasses
  BY <1>1, FlapFeed
<1>2. CASE Evaluate \/ CloseEvaluate \/ CloseSave
  BY <1>2, FlapEvaluate
<1>3. CASE SyncSave \/ CloseUpdate \/ ReopenSave
  <2>1. row'.flaps = row.flaps /\ row'.counted = row.counted
    BY <1>3, SyncSaves, CloseUpdates, ReopenSaves DEF ColumnNames
  <2>2. UNCHANGED feedVars
    BY <1>3 DEF SyncSave, CloseUpdate, ReopenSave
  <2>3. Evaluations' \subseteq Evaluations
    BY <1>3, EvaluationsEnd DEF SyncSave, ReopenSave
  <2> QED
    BY <2>1, <2>2, <2>3, FlapKept
<1>4. CASE AskToClose \/ AskToReopen \/ AgentStep \/ SyncLoad \/ SyncFetch \/ SyncFails
           \/ CloseUnnoticed \/ ReopenUnnoticed \/ UNCHANGED vars
  <2>1. UNCHANGED <<feedVars, row>>
    BY <1>4 DEF AskToClose, AskToReopen, AgentStep, SyncLoad, SyncFetch, SyncFails, CloseUnnoticed,
       ReopenUnnoticed, vars, localVars
  <2>2. AskToClose \/ UNCHANGED <<evaluation, closing>>
    BY <1>4 DEF AskToReopen, AgentStep, SyncLoad, SyncFetch, SyncFails, CloseUnnoticed,
       ReopenUnnoticed, vars, localVars
  <2> QED
    BY <2>1, <2>2, EvaluationsEnd, FlapKept
<1> QED
  BY <1>1, <1>2, <1>3, <1>4 DEF Next, Sync, CloseStep, AutoClose, OperatorCloses, Reopen

\* Each return of the problem is counted at most once, and what is no new event
\* is not counted, however many evaluations see the problem come and go, in
\* whatever order they save (ZnunyManualTicketLifecycleService::isLegitimateFlap).
THEOREM FlapsAreReturns == Spec => []FlapsAreNewEvents
<1>1. TypeInv /\ FlapInv => FlapsAreNewEvents
  BY Constants DEF TypeInv, FeedTypeOK, Columns, FlapInv, Known, CountedOnce, FlapsAreNewEvents,
     Events, Times, Null, LinkedEvent
<1> QED
  BY <1>1, FlapInit, FlapStep, TypesHold, PTL DEF Spec

-----------------------------------------------------------------------------

\* Where the cache outlives two polling intervals, an expired index is never read
\* as the end of the problem: the poll it is from is stale by then
\* (ZnunyManualTicketLifecycleService::evaluate).
THEOREM ResolutionsAreReal == ASSUME Ttl >= 2 * PollInterval PROVE Spec => []NoPhantomResolution
<1>1. TypeInv => NoPhantomResolution
  BY Constants DEF TypeInv, FeedTypeOK, NoPhantomResolution, IsCacheFresh, LastSuccess, MaxStale, Alive,
     ActiveProblem, NoEvent, Null, LinkedEvent, Times, Events
<1> QED
  BY <1>1, TypesHold, PTL
=============================================================================
