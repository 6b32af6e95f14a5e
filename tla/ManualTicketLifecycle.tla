------------------------ MODULE ManualTicketLifecycle ------------------------
(***************************************************************************)
(* The life of a ticket that was created by hand for a Zabbix problem: one *)
(* row of zabbix_tickets and the jobs and people who write it.             *)
(*                                                                         *)
(*   evaluate    the every-minute command, and the pages that run it: reads *)
(*               the rows and the problem cache, then saves each row        *)
(*   sync        copies Znuny's state of the ticket into the row            *)
(*   close       auto-close or an operator: asks Znuny, then updates the    *)
(*               row, then evaluates it                                     *)
(*   reopen      an operator: asks Znuny, then saves the row                *)
(*   agents      change the ticket in Znuny itself                          *)
(*                                                                         *)
(* Nobody locks the row.  Eloquent's save() writes the columns that differ  *)
(* from the values the model was loaded with, and leaves the others alone:  *)
(* a job in progress is therefore the set of changes it is going to write.  *)
(***************************************************************************)
EXTENDS ProblemCache

CONSTANTS CloseDelay,     \* default_close_delay_hours
          FlapDelay,      \* manual_ticket_extra_flapping_delay_hours
          FlapThreshold,  \* manual_ticket_flap_threshold, 0: no flapping detection
          ReopenWindow,   \* default_reopen_window_hours
          Evaluators,     \* processes that run the evaluate command
          AgentStates,    \* states agents give the ticket in Znuny, {} if they do not
          LostReplies,    \* whether Znuny's answer to a close or reopen can be lost
          MaxVersion      \* bound of the model: changes of the ticket in Znuny

ASSUME LifecycleAssumption ==
  /\ CloseDelay \in Nat /\ FlapDelay \in Nat
  /\ FlapThreshold \in Nat /\ ReopenWindow \in Nat
  /\ AgentStates \subseteq {"open", "closed"} /\ LostReplies \in BOOLEAN
  /\ MaxVersion \in Nat \ {0}

VARIABLES znuny,       \* the ticket in Znuny
          row,         \* the row of zabbix_tickets
          evaluation,  \* per evaluator: its run
          sync,        \* the run of the sync command
          closing,     \* the close in progress
          reopening    \* the reopen in progress

localVars == <<row, evaluation, sync, closing, reopening>>
vars == <<feedVars, znuny, localVars>>

Status == {"none", "active", "resolved_waiting", "close_candidate", "flapping",
           "reopen_candidate", "reopened", "closed", "cache_stale"}
TicketState == {"open", "closed"}

Columns == [stateType  : TicketState,   \* znuny_ticket_state_type
            hash       : 0..MaxVersion, \* znuny_ticket_snapshot_hash: the version it is of
            status     : Status,        \* manual_lifecycle_status
            active     : BOOLEAN,       \* zabbix_problem_is_active
            seenAt     : 0..MaxTime,    \* zabbix_problem_last_seen_active_at
            resolvedAt : 0..MaxTime,    \* zabbix_problem_resolved_at
            eligibleAt : Nat,           \* manual_close_eligible_at
            closedAt   : 0..MaxTime,    \* manual_lifecycle_closed_at
            reopenedAt : 0..MaxTime,    \* manual_reopened_at
            flaps      : Nat,           \* manual_flap_count
            counted    : Events]        \* zabbix_last_counted_flap_event_id, _started_at

Idle == [pc |-> "idle"]
NoChanges == <<>>

\* The columns a save() of new writes when the model was loaded as old.
Dirty(old, new) == [c \in {d \in DOMAIN old : new[d] # old[d]} |-> new[c]]

\* The row r after a save() of changes.
Saved(changes, r) ==
  [c \in DOMAIN r |-> IF c \in DOMAIN changes THEN changes[c] ELSE r[c]]

LifecycleInit ==
  /\ znuny = [state |-> "open", version |-> 1]
  /\ row = [stateType |-> "open", hash |-> 0, status |-> "none", active |-> FALSE,
            seenAt |-> Null, resolvedAt |-> Null, eligibleAt |-> Null,
            closedAt |-> Null, reopenedAt |-> Null, flaps |-> 0, counted |-> NoEvent]
  /\ evaluation = [e \in Evaluators |-> Idle]
  /\ sync = Idle /\ closing = Idle /\ reopening = Idle

-----------------------------------------------------------------------------
(* The ticket in Znuny: every change gives its snapshot another hash. *)

ZnunyChanges(state) ==
  /\ znuny.version < MaxVersion
  /\ znuny' = [state |-> state, version |-> znuny.version + 1]

AgentStep == \E state \in AgentStates : ZnunyChanges(state) /\ UNCHANGED <<feedVars, localVars>>

-----------------------------------------------------------------------------
(* What one evaluation makes of a row r at time t, given whether the cache *)
(* is fresh and which event of the trigger it shows.                       *)

IsFlapping(flaps) == FlapThreshold > 0 /\ flaps >= FlapThreshold

CloseWait(flaps) == IF IsFlapping(flaps) THEN CloseDelay + FlapDelay ELSE CloseDelay

\* Faulty: whatever is seen to return was away.
CountEveryReturn(r, event) == event # NoEvent

\* isLegitimateFlap: a new event, younger than everything known of the ticket,
\* and not counted before.  The linked event started, and the row was created,
\* at time 1.
IsLegitimateFlap(r, event) ==
  /\ event.id # LinkedEvent \/ event.since # 1
  /\ event.since > 1
  /\ event.since > r.resolvedAt
  /\ event.id # r.counted.id /\ event.since > r.counted.since

\* Faulty: the reopen window is not looked at.
OfferAlways(r, fresh, event, t) ==
  [r EXCEPT !.closedAt = IF @ = Null THEN t ELSE @,
            !.status = IF fresh /\ event # NoEvent THEN "reopen_candidate" ELSE "closed",
            !.seenAt = IF fresh /\ event # NoEvent THEN t ELSE @]

EvaluatedClosed(r, fresh, event, t) ==
  LET closedAt == IF r.closedAt = Null THEN t ELSE r.closedAt
  IN IF fresh /\ event # NoEvent /\ t <= closedAt + ReopenWindow
       THEN [r EXCEPT !.closedAt = closedAt, !.status = "reopen_candidate",
                      !.active = TRUE, !.seenAt = t]
       ELSE [r EXCEPT !.closedAt = closedAt, !.status = "closed", !.active = FALSE]

\* Faulty: the time of the last resolution survives the problem's return.
ActiveKeepsResolvedAt(r, event, t) ==
  [r EXCEPT !.active = TRUE, !.seenAt = t, !.status = "active"]

\* Faulty: a close candidate stays one when its problem returns.
ActiveKeepsCandidate(r, event, t) ==
  [r EXCEPT !.active = TRUE, !.seenAt = t,
            !.status = IF @ = "close_candidate" THEN @ ELSE "active"]

EvaluatedActive(r, event, t) ==
  LET returned == ~r.active /\ r.status \in {"resolved_waiting", "close_candidate"}
      flap     == returned /\ IsLegitimateFlap(r, event)
      flaps    == IF flap THEN r.flaps + 1 ELSE r.flaps
  IN [r EXCEPT !.active = TRUE, !.seenAt = t, !.flaps = flaps,
               !.counted = IF flap THEN event ELSE @,
               !.resolvedAt = Null,
               !.eligibleAt = IF returned \/ r.resolvedAt # Null THEN Null ELSE @,
               !.status = IF IsFlapping(flaps) THEN "flapping"
                          ELSE IF @ = "reopened" THEN "reopened" ELSE "active"]

\* Faulty: the two timestamps are mixed up.
ResolvedWhenEligible(r, t) ==
  [r EXCEPT !.active = FALSE, !.status = "resolved_waiting",
            !.resolvedAt = IF @ = Null THEN t + CloseWait(r.flaps) ELSE @]

EvaluatedResolved(r, t) ==
  LET resolvedAt == IF r.resolvedAt = Null THEN t ELSE r.resolvedAt
      eligibleAt == resolvedAt + CloseWait(r.flaps)
  IN [r EXCEPT !.active = FALSE, !.resolvedAt = resolvedAt, !.eligibleAt = eligibleAt,
               !.status = IF t >= eligibleAt THEN "close_candidate" ELSE "resolved_waiting"]

Evaluated(r, fresh, event, t) ==
  IF r.stateType = "closed" THEN EvaluatedClosed(r, fresh, event, t)
  ELSE IF ~fresh THEN [r EXCEPT !.status = "cache_stale"]
  ELSE IF event # NoEvent THEN EvaluatedActive(r, event, t)
  ELSE EvaluatedResolved(r, t)

\* What an evaluation that starts now is going to write.
EvaluationNow == Dirty(row, Evaluated(row, IsCacheFresh, ActiveProblem, now))

EvaluateLoad(e) ==
  /\ evaluation[e] = Idle
  /\ evaluation' = [evaluation EXCEPT ![e] = [pc |-> "save", changes |-> EvaluationNow]]
  /\ UNCHANGED <<feedVars, znuny, row, sync, closing, reopening>>

EvaluateSave(e) ==
  /\ evaluation[e] # Idle
  /\ row' = Saved(evaluation[e].changes, row)
  /\ evaluation' = [evaluation EXCEPT ![e] = Idle]
  /\ UNCHANGED <<feedVars, znuny, sync, closing, reopening>>

-----------------------------------------------------------------------------
(* ZnunyLinkedTicketSyncService::sync: the rows are loaded first, then each *)
(* ticket is fetched and, when its hash is not the stored one, saved.       *)

SyncLoad ==
  /\ sync = Idle
  /\ sync' = [pc |-> "fetch", row |-> [stateType |-> row.stateType, hash |-> row.hash]]
  /\ UNCHANGED <<feedVars, znuny, row, evaluation, closing, reopening>>

SyncFetch ==
  /\ sync.pc = "fetch"
  /\ sync' = [pc |-> "save",
              changes |-> Dirty(sync.row, [stateType |-> IF sync.row.hash # znuny.version
                                                           THEN znuny.state ELSE sync.row.stateType,
                                           hash |-> znuny.version])]
  /\ UNCHANGED <<feedVars, znuny, row, evaluation, closing, reopening>>

\* A failed request leaves only the error message in the row.
SyncFails ==
  /\ sync.pc = "fetch"
  /\ sync' = Idle
  /\ UNCHANGED <<feedVars, znuny, row, evaluation, closing, reopening>>

SyncSave ==
  /\ sync.pc = "save"
  /\ row' = Saved(sync.changes, row)
  /\ sync' = Idle
  /\ UNCHANGED <<feedVars, znuny, evaluation, closing, reopening>>

-----------------------------------------------------------------------------
(* Closing. *)

\* ZnunyManualTicketCloseCandidateService::review, when auto-close is about to act.
IsCloseCandidate ==
  /\ row.stateType # "closed"
  /\ row.status = "close_candidate"
  /\ row.eligibleAt # Null /\ row.eligibleAt <= now

\* closeTicket: the model is loaded, Znuny is asked to close, and the answer, or
\* a look at the ticket when the answer is missing, shows that it is closed.
AskToClose ==
  /\ closing = Idle
  /\ \/ ZnunyChanges("closed")
     \/ znuny.state = "closed" /\ UNCHANGED znuny
  /\ closing' = [pc |-> "update",
                 changes |-> Dirty(row, [row EXCEPT !.stateType = "closed", !.status = "closed",
                                                    !.eligibleAt = Null])]
  /\ UNCHANGED <<feedVars, row, evaluation, sync, reopening>>

\* Znuny closes the ticket and the caller never learns it.
CloseUnnoticed ==
  /\ LostReplies /\ closing = Idle /\ row.stateType # "closed"
  /\ ZnunyChanges("closed")
  /\ UNCHANGED <<feedVars, localVars>>

AutoClose == IsCloseCandidate /\ AskToClose

\* The page shows the action while the row is open.
OperatorCloses == row.stateType # "closed" /\ AskToClose

CloseUpdate ==
  /\ closing.pc = "update"
  /\ row' = [Saved(closing.changes, row) EXCEPT !.closedAt = now]
  /\ closing' = [closing EXCEPT !.pc = "evaluate", !.changes = NoChanges]
  /\ UNCHANGED <<feedVars, znuny, evaluation, sync, reopening>>

\* closeTicket ends with an evaluation of the row it has written.
CloseEvaluate ==
  /\ closing.pc = "evaluate"
  /\ closing' = [closing EXCEPT !.pc = "save", !.changes = EvaluationNow]
  /\ UNCHANGED <<feedVars, znuny, row, evaluation, sync, reopening>>

CloseSave ==
  /\ closing.pc = "save"
  /\ row' = Saved(closing.changes, row)
  /\ closing' = Idle
  /\ UNCHANGED <<feedVars, znuny, evaluation, sync, reopening>>

CloseStep == AutoClose \/ OperatorCloses \/ CloseUnnoticed
             \/ CloseUpdate \/ CloseEvaluate \/ CloseSave

-----------------------------------------------------------------------------
(* Reopening: ZnunyLinkedTicketReopenService::reopenTicket. *)

CanReopen == row.stateType = "closed" /\ row.status = "reopen_candidate"

AskToReopen ==
  /\ reopening = Idle /\ CanReopen
  /\ ZnunyChanges("open")
  /\ reopening' = [pc |-> "save",
                   changes |-> Dirty(row, [row EXCEPT !.status = "reopened", !.active = TRUE,
                                                      !.eligibleAt = Null, !.stateType = "open"])]
  /\ UNCHANGED <<feedVars, row, evaluation, sync, closing>>

\* Znuny reopens the ticket and the caller never learns it.
ReopenUnnoticed ==
  /\ LostReplies /\ reopening = Idle /\ CanReopen
  /\ ZnunyChanges("open")
  /\ UNCHANGED <<feedVars, localVars>>

ReopenSave ==
  /\ reopening.pc = "save"
  /\ row' = [Saved(reopening.changes, row) EXCEPT !.reopenedAt = now]
  /\ reopening' = Idle
  /\ UNCHANGED <<feedVars, znuny, evaluation, sync, closing>>

-----------------------------------------------------------------------------

\* Evaluations use the database and the cache only and are over within a tick.
TimePasses ==
  /\ \A e \in Evaluators : evaluation[e] = Idle
  /\ closing.pc \notin {"evaluate", "save"}
  /\ Tick
  /\ UNCHANGED <<znuny, localVars>>

Feed == FeedStep /\ UNCHANGED <<znuny, localVars>>
Evaluate == \E e \in Evaluators : EvaluateLoad(e) \/ EvaluateSave(e)
Sync == SyncLoad \/ SyncFetch \/ SyncFails \/ SyncSave
Reopen == AskToReopen \/ ReopenUnnoticed \/ ReopenSave

Init == FeedInit /\ LifecycleInit
Next == TimePasses \/ Feed \/ AgentStep \/ Evaluate \/ Sync \/ CloseStep \/ Reopen
Spec == Init /\ [][Next]_vars

-----------------------------------------------------------------------------

\* The variables have their types; a job in progress holds nothing but columns
\* of the row.
LifecycleTypeOK ==
  /\ FeedTypeOK
  /\ znuny \in [state : TicketState, version : 1..MaxVersion]
  /\ row \in Columns
  /\ \A job \in {evaluation[e] : e \in Evaluators} \union {sync, closing, reopening} :
       job.pc \in {"update", "save"} => Saved(job.changes, row) \in Columns

\* A ticket that was never closed before is offered to auto-close only when the
\* close delay, prolonged if it flaps, has passed since an evaluation last saw
\* its problem active (ZnunyManualTicketCloseCandidateService::review).  However
\* many evaluations overlap if the delay does not depend on the flap count; with
\* the prolonged delay, if they do not overlap: their saves are merged column by
\* column, and an eligible time of one can meet the flap count of another.
DelayHasPassed ==
  IsCloseCandidate /\ row.closedAt = Null => row.seenAt + CloseWait(row.flaps) <= now

\* And where one evaluation runs at a time, no evaluation since has seen the
\* problem active either.
CandidateHasWaited ==
  DelayHasPassed /\ (IsCloseCandidate /\ row.closedAt = Null => ~row.active)

\* The problem of a ticket counts as resolved because the last successful poll
\* did not list it, never because the poll's result expired before it became
\* stale (ZnunyManualTicketLifecycleService::evaluate).
NoPhantomResolution ==
  IsCacheFresh /\ ActiveProblem = NoEvent => cache.listed = NoEvent

\* Each return of the problem is counted at most once, and what is no new event
\* is not counted, however often and by however many evaluations it is seen to
\* come and go (ZnunyManualTicketLifecycleService::isLegitimateFlap).
FlapsAreNewEvents == row.flaps <= problem.id - LinkedEvent

\* Every ticket offered to auto-close, also one that was closed and reopened
\* before, has waited for the close delay since its problem was last seen active.
EveryCandidateHasWaited ==
  IsCloseCandidate => row.seenAt + CloseWait(row.flaps) <= now

\* A ticket is offered for reopening only when an evaluation saw its problem
\* active within the reopen window after the closing the row knows of, also when
\* closings, reopenings and evaluations overlap
\* (ZnunyManualTicketLifecycleService::evaluate).
OfferWithinWindow ==
  row.status = "reopen_candidate"
    => row.closedAt # Null /\ row.seenAt <= row.closedAt + ReopenWindow
=============================================================================
