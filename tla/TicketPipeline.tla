--------------------------- MODULE TicketPipeline ---------------------------
(***************************************************************************)
(* The scheduled-ticket pipeline as a whole: workers, Znuny, the scheduler *)
(* switches and the operators act on the same two tables.                  *)
(***************************************************************************)
EXTENDS SchedulerWorker, OperatorReview

vars == <<tables, workerVars, checked>>

Init == TablesInit /\ WorkerInit /\ ReviewInit

Worker(w) == Work(w) /\ UNCHANGED checked
Faulty(w) == Fault(w) /\ UNCHANGED checked
Environment == /\ \/ LockExpires
                  \/ SafetyStep
                  \/ ZnunyStep /\ UNCHANGED workerVars
               /\ UNCHANGED checked
Operator == ReviewStep /\ UNCHANGED workerVars

Next == \/ \E w \in Workers : Worker(w) \/ Faulty(w)
        \/ Environment
        \/ Operator

Spec == Init /\ [][Next]_vars

(* The every-minute schedule starts processes again and again, a process    *)
(* that does not die takes its next step (every HTTP call has a timeout),   *)
(* and the cache forgets a lock when its time to live is over.              *)
Fairness == /\ \A w \in Workers : WF_vars(Worker(w))
            /\ WF_vars(LockExpires /\ UNCHANGED checked)

FairSpec == Spec /\ Fairness

TypeOK == TablesTypeOK /\ WorkerTypeOK /\ ReviewTypeOK

----------------------------------------------------------------------------
(* Two processes may overlap, die, or be interrupted by database errors, and *)
(* requests may be answered late; still no run's marker ever ends up on two  *)
(* Znuny tickets (claim, duplicate guard and markers together).              *)
OneTicketPerMarker ==
  \A t, u \in Tickets : marker[t] # NoRun /\ marker[t] = marker[u] => t = u

(* A run is processed by at most one process, and only while it is running. *)
ExclusiveClaim ==
  \A w \in Workers : pc[w] \in Processing =>
    /\ status[cur[w]] = "running"
    /\ \A v \in Workers : pc[v] \in Processing /\ cur[v] = cur[w] => v = w

(* The books never name a ticket of another run: whatever id the worker, the *)
(* reconciliation or an operator wrote is that of a ticket bearing the       *)
(* marker of that very run, and run and attempt rows agree on it.            *)
BooksNameOwnTicket ==
  \A r \in Runs : runTicket[r] # NoTicket =>
    /\ marker[runTicket[r]] = r
    /\ attempt[r] \in Confirmed
    /\ attemptTicket[r] = runTicket[r]

(* Success is claimed only with the ticket on the books. *)
SuccessHasTicket ==
  \A r \in Runs : status[r] = "success" \/ resolution[r] = "manual_link"
                    => runTicket[r] # NoTicket

(* Retries form a line: every replaced run was replaced exactly once, in its *)
(* own chain, and only the last run of a chain is open or under way.         *)
RetryLine ==
  \A r \in Runs : Present(r) =>
    /\ \A a, b \in Children(r) : a = b
    /\ Children(r) # {} <=> resolution[r] = "retry_created"
    /\ Children(r) # {} => status[r] \in {"failed", "uncertain"}
    /\ \A c \in Children(r) : RootOf(c) = RootOf(r) /\ seq[c] = seq[r] + 1

(* An occurrence is paid for at most once on the books: once a chain has a   *)
(* recorded ticket, no retry of it ever records another.                     *)
OneRecordedTicketPerChain ==
  \A r, q \in Runs :
    /\ Present(r) /\ Present(q) /\ RootOf(r) = RootOf(q)
    /\ runTicket[r] # NoTicket /\ runTicket[q] # NoTicket
    => r = q

(* What an operator settled on the run row and on the attempt row agree,     *)
(* although link, close and retry race: a run closed without a ticket has no *)
(* confirmed attempt, and an attempt linked or resolved by hand belongs to a *)
(* run settled the same way.                                                 *)
SettlementsAgree ==
  \A r \in Runs :
    /\ resolution[r] = "manual_closed"
         => attempt[r] \in {"none", "confirmed_failed", "resolved_without_ticket"}
    /\ attempt[r] = "manually_linked" <=> resolution[r] = "manual_link"
    /\ attempt[r] = "resolved_without_ticket" => resolution[r] = "manual_closed"

(* A run recorded as failed has no ticket behind it and none on its way. *)
FailedMeansNoTicket ==
  \A r \in Runs : status[r] = "failed" =>
    TicketsOf(r) = {} /\ request[r] # "inflight"

(* Every failed or uncertain run still open can be retried or closed from    *)
(* the review page: no outcome leaves a chain an operator cannot settle.     *)
OpenLeafHasAWayOut ==
  \A r \in Runs : OpenLeaf(r) => RetryOffered(r) \/ Closable(r)

(* Every way out of "running" with the create request unaccounted for turns  *)
(* the scheduler off in the same step.                                       *)
UnaccountedStops ==
  \A r \in Runs :
    (/\ status[r] = "running" /\ status'[r] # "running"
     /\ attempt'[r] \in {"sending", "uncertain"}) => ~enabled'
UncertainStopsScheduler == [][UnaccountedStops]_vars

(* A settled run stays settled: the final status, the resolution and the     *)
(* ticket of a run are never overwritten, by a late worker or a late         *)
(* operator, and nothing is queued behind a success.                         *)
SettledStays ==
  \A r \in Runs :
    /\ status[r] \in Finished => status'[r] = status[r]
    /\ resolution[r] # "none" => resolution'[r] = resolution[r]
    /\ runTicket[r] # NoTicket => runTicket'[r] = runTicket[r]
    /\ status[r] = "success" => resolution'[r] = "none"
SettledForGood == [][SettledStays]_vars

(* While the scheduler stays switched on, no run stays queued, whatever the  *)
(* lock, overlapping processes and refused runs do to batches.              *)
PendingIsClaimed ==
  \A r \in Runs : []<>(status[r] = "pending" => ~enabled \/ paused)

(* No claimed run stays running, unless its process dies; it only leaves for *)
(* a final status.                                                          *)
ClaimedIsFinished ==
  \A r \in Runs : []<>(status[r] # "running")

(* Why the properties above hold: what the tables, the workers' registers   *)
(* and the operators' decisions know of each other at any moment.           *)

(* A ticket bears a marker only because the run's request was carried out,  *)
(* and no request is sent before the claim or before the worker is there.   *)
RequestFollowsClaim ==
  /\ \A t \in Tickets : marker[t] # NoRun => request[marker[t]] = "created"
  /\ \A w \in Workers :
       pc[w] \in {"preflight", "create", "send"} => request[cur[w]] = "none"
  /\ \A r \in Runs : status[r] \in {"absent", "pending"} => request[r] = "none"

(* Whoever holds a ticket in hand holds one with the marker of that run.    *)
HoldsTicket(w) ==
  \/ pc[w] = "record" /\ result[w] = "created"
  \/ pc[w] = "settle"
  \/ pc[w] = "finish" /\ result[w] = "success"

TicketsInHand ==
  /\ \A w \in Workers : HoldsTicket(w) =>
       found[w] \in Tickets /\ marker[found[w]] = cur[w]
  /\ \A w \in Workers : pc[w] = "finish" /\ result[w] = "success" =>
       attempt[cur[w]] \in Confirmed /\ attemptTicket[cur[w]] = found[w]
  /\ \A r \in Runs : attempt[r] \in Confirmed =>
       attemptTicket[r] \in Tickets /\ marker[attemptTicket[r]] = r
  /\ \A d \in checked :
       /\ status[d.run] \in {"failed", "uncertain"}
       /\ d.act = "link" => d.ticket \in Tickets /\ marker[d.ticket] = d.run

(* Only an operator resolves a run, and only a failed or uncertain one; a    *)
(* ticket is on the books of successful and linked runs only.               *)
ResolvedByOperators ==
  \A r \in Runs :
    /\ resolution[r] # "none" => status[r] \in {"failed", "uncertain"}
    /\ runTicket[r] # NoTicket => status[r] = "success" \/ resolution[r] = "manual_link"
    /\ status[r] = "success" => attempt[r] \in Confirmed

(* The inductive invariant behind the safety properties of single runs:     *)
(* claims, requests, tickets in hand and the books fit together at every    *)
(* step of worker and operator.                                             *)
PipelineInv ==
  /\ TypeOK /\ ExclusiveClaim /\ OneTicketPerMarker /\ BooksNameOwnTicket
  /\ SuccessHasTicket /\ SettlementsAgree
  /\ RequestFollowsClaim /\ TicketsInHand /\ ResolvedByOperators

IsRoot(r) == Present(r) /\ root[r] = NoRun

(* A chain's rows hang together: a run that is not inserted yet is linked to *)
(* nothing, root links lead to the inserted root of a chain, parent links to *)
(* an inserted run, and every chain has exactly one leaf.                    *)
ChainShape ==
  /\ \A r \in Runs : ~Present(r) => root[r] = NoRun /\ parent[r] = NoRun
  /\ \A r \in Runs : root[r] # NoRun => IsRoot(root[r])
  /\ \A r \in Runs : parent[r] # NoRun => Present(parent[r])
  /\ \A a, b \in Runs : IsLeaf(a) /\ IsLeaf(b) /\ RootOf(a) = RootOf(b) => a = b
  /\ \A c \in Runs : IsRoot(c) => \E r \in Members(c) : IsLeaf(r)

(* Rows are numbered as they are inserted, a retry is linked to both its     *)
(* root and its parent, and no run is deeper in its chain than its number.  *)
RowsInOrder ==
  \A r \in Runs :
    /\ root[r] = NoRun <=> parent[r] = NoRun
    /\ parent[r] = NoRun => seq[r] = 0
    /\ Present(r) => seq[r] < r /\ \A q \in Runs : q < r => Present(q)

(* The inductive invariant behind OneRecordedTicketPerChain and, with        *)
(* PipelineInv, behind KeepsLedger.                                         *)
ChainInv == RetryLine /\ ChainShape /\ RowsInOrder

(* What the attempt row says of the request, the status and the process at   *)
(* work, where neither database errors nor incomplete answers occur.  Behind *)
(* FailedMeansNoTicket, OpenLeafHasAWayOut and UncertainStopsScheduler.      *)
Accounted ==
  /\ \A r \in Runs :
       /\ attempt[r] \in {"none", "preparing"} => request[r] = "none"
       /\ attempt[r] = "confirmed_failed" => request[r] = "rejected"
       /\ status[r] \in {"absent", "pending"} => attempt[r] = "none"
       /\ status[r] = "failed" => attempt[r] \in {"none", "confirmed_failed"}
       /\ status[r] = "uncertain" =>
            attempt[r] \in {"uncertain", "manually_linked", "resolved_without_ticket"}
  /\ \A w \in Workers :
       /\ pc[w] \in {"preflight", "create"} => attempt[cur[w]] = "none"
       /\ pc[w] = "send" => attempt[cur[w]] = "preparing"
       /\ pc[w] = "record" /\ result[w] = "missing" => request[cur[w]] = "rejected"
       /\ pc[w] \in {"reconcile", "settle"} => attempt[cur[w]] = "uncertain"
       /\ pc[w] = "finish" =>
            /\ result[w] \in {"not_sent", "exception"} => attempt[cur[w]] = "none"
            /\ result[w] = "failed" => attempt[cur[w]] = "confirmed_failed"
            /\ result[w] = "uncertain" => attempt[cur[w]] = "uncertain"

----------------------------------------------------------------------------
(* A chain, seen from outside, is where its leaf is. *)

LeafOf(c) == CHOOSE r \in Members(c) : IsLeaf(r)

StageOfRun(r) ==
  IF status[r] \in Active THEN "open"
  ELSE IF status[r] = "success" \/ resolution[r] = "manual_link" THEN "ticketed"
  ELSE IF resolution[r] = "manual_closed" THEN "closed"
  ELSE "review"

ChainStage ==
  [c \in Runs |-> IF IsRoot(c) THEN StageOfRun(LeafOf(c)) ELSE "none"]

ChainBill ==
  [c \in Runs |-> IF IsRoot(c) THEN runTicket[LeafOf(c)] ELSE NoTicket]

Ledger == INSTANCE ChainLedger
            WITH Chains <- Runs, stage <- ChainStage, bill <- ChainBill

(* Runs, retries, links and closes, taken together, keep the ledger of       *)
(* occurrences: one ticket pays for one occurrence, and a paid or closed     *)
(* occurrence never comes back.                                              *)
KeepsLedger == Ledger!Spec
=============================================================================
