--------------------------- MODULE ScheduledRuns ---------------------------
(***************************************************************************)
(* The two tables the scheduled-ticket pipeline of ZZI keeps               *)
(* (scheduled_znuny_task_runs and znuny_ticket_creation_attempts), what     *)
(* Znuny holds, and the operators on retry chains that every service       *)
(* shares.  The worker (SchedulerWorker) and the operators at the review   *)
(* page (OperatorReview) act on these tables; TicketPipeline composes them.*)
(***************************************************************************)
EXTENDS Naturals, FiniteSets

CONSTANTS MaxRuns,   \* bound on the rows of scheduled_znuny_task_runs
          Tickets,   \* identifiers Znuny may give to tickets
          NoTicket,  \* the null ticket_id
          MaxDepth   \* ScheduledZnunyTaskRun::MAX_RETRY_CHAIN_DEPTH

ASSUME RunsAssumption == /\ MaxRuns \in Nat
                         /\ NoTicket \notin Tickets
                         /\ MaxDepth \in Nat

Runs == 1 .. MaxRuns   \* auto-increment ids, in the order of scheduled_for
NoRun == 0             \* a null root_run_id or parent_run_id

VARIABLES
  status,         \* run -> status column; "absent" before the row is inserted
  root,           \* run -> root_run_id
  parent,         \* run -> parent_run_id (unique)
  seq,            \* run -> retry_sequence
  resolution,     \* run -> resolution_type; "none" while resolved_at is null
  runTicket,      \* run -> ticket_id of the run row
  attempt,        \* run -> status of its newest creation attempt
  attemptTicket,  \* run -> ticket_id of that attempt
  request,        \* run -> what became of the create request sent for it
  marker          \* ticket -> the run whose [SHE:run] marker its title bears

runVars == <<status, root, parent, seq, resolution, runTicket>>
attemptVars == <<attempt, attemptTicket>>
znunyVars == <<request, marker>>
tables == <<runVars, attemptVars, znunyVars>>

RunStatus == {"absent", "pending", "running", "success", "failed", "uncertain"}
AttemptStatus == {"none", "preparing", "sending", "success", "confirmed_failed",
                  "uncertain", "recovered", "manually_linked",
                  "resolved_without_ticket"}
Resolution == {"none", "retry_created", "manual_link", "manual_closed"}
RequestState == {"none", "inflight", "created", "rejected", "lost"}

TablesTypeOK ==
  /\ status \in [Runs -> RunStatus]
  /\ root \in [Runs -> Runs \cup {NoRun}]
  /\ parent \in [Runs -> Runs \cup {NoRun}]
  /\ seq \in [Runs -> Nat]
  /\ resolution \in [Runs -> Resolution]
  /\ runTicket \in [Runs -> Tickets \cup {NoTicket}]
  /\ attempt \in [Runs -> AttemptStatus]
  /\ attemptTicket \in [Runs -> Tickets \cup {NoTicket}]
  /\ request \in [Runs -> RequestState]
  /\ marker \in [Tickets -> Runs \cup {NoRun}]

TablesInit ==
  /\ status = [r \in Runs |-> "absent"]
  /\ root = [r \in Runs |-> NoRun]
  /\ parent = [r \in Runs |-> NoRun]
  /\ seq = [r \in Runs |-> 0]
  /\ resolution = [r \in Runs |-> "none"]
  /\ runTicket = [r \in Runs |-> NoTicket]
  /\ attempt = [r \in Runs |-> "none"]
  /\ attemptTicket = [r \in Runs |-> NoTicket]
  /\ request = [r \in Runs |-> "none"]
  /\ marker = [t \in Tickets |-> NoRun]

----------------------------------------------------------------------------
(* Rows and chains *)

Present(r) == status[r] # "absent"
IsNext(r) == /\ ~Present(r)
             /\ \A q \in Runs : q < r => Present(q)

Active == {"pending", "running"}
Finished == {"success", "failed", "uncertain"}
Confirmed == {"success", "recovered", "manually_linked"}

RootOf(r) == IF root[r] = NoRun THEN r ELSE root[r]
Members(c) == {q \in Runs : Present(q) /\ (q = c \/ root[q] = c)}
Children(r) == {q \in Runs : Present(q) /\ parent[q] = r}
IsLeaf(r) == Present(r) /\ Children(r) = {}

(* A leaf an operator may still act on: isSelectedRunUnresolvedLeaf. *)
OpenLeaf(r) == /\ IsLeaf(r)
               /\ status[r] \in {"failed", "uncertain"}
               /\ resolution[r] = "none"

(* What the services verify of a chain before they change it. *)
WellFormed(c) ==
  /\ Present(c) /\ root[c] = NoRun /\ parent[c] = NoRun /\ seq[c] = 0
  /\ \A q \in Members(c) \ {c} :
       /\ parent[q] \in Members(c)
       /\ seq[q] = seq[parent[q]] + 1
  /\ \A q \in Members(c) :
       /\ Children(q) \subseteq Members(c)
       /\ \A a, b \in Children(q) : a = b
       /\ seq[q] <= MaxDepth

TicketsOf(r) == {t \in Tickets : marker[t] = r}

(* Faulty variant: a search that matches other runs' markers too.  No      *)
(* specification uses it; it breaks BooksNameOwnTicket.                     *)
LookupsByPrefix(r) == SUBSET {t \in Tickets : marker[t] # NoRun /\ marker[t] >= r}

(* Reading the marker of run r: the workspace cache may miss any of its     *)
(* tickets, the direct search may be unavailable.                           *)
Lookups(r) == SUBSET TicketsOf(r)

----------------------------------------------------------------------------
(* Znuny answers a create request at any time after it was sent, also after *)
(* the caller gave up waiting for it.                                       *)

ZnunyCreates(r) ==
  /\ request[r] = "inflight"
  /\ \E t \in Tickets :
       /\ marker[t] = NoRun
       /\ marker' = [marker EXCEPT ![t] = r]
  /\ request' = [request EXCEPT ![r] = "created"]
  /\ UNCHANGED <<runVars, attemptVars>>

ZnunyRefuses(r) ==
  /\ request[r] = "inflight"
  /\ \E fate \in {"rejected", "lost"} :
       request' = [request EXCEPT ![r] = fate]
  /\ UNCHANGED <<runVars, attemptVars, marker>>

ZnunyStep == \E r \in Runs : ZnunyCreates(r) \/ ZnunyRefuses(r)
=============================================================================
