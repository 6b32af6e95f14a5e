--------------------------- MODULE ProblemTickets ---------------------------
(***************************************************************************)
(* Tickets that operators create for one Zabbix problem: the create        *)
(* request (ZnunyTicketCreationService::createTicketForProblem), the row of *)
(* zabbix_tickets that links the problem to its ticket                      *)
(* (ZabbixTicketLinkService), and the jobs that write Znuny's state of the  *)
(* linked ticket into that row while the link may move to another ticket.  *)
(*                                                                         *)
(* A request holds a cache lock of ten seconds over up to four HTTP calls  *)
(* of fifteen: the lock may expire under it.  Each create call has a row of *)
(* its own in znuny_ticket_creation_attempts; the ticket it makes, if it    *)
(* makes one, is named after that row here.                                *)
(***************************************************************************)
EXTENDS Naturals

CONSTANTS Requests,     \* requests of operators to create a ticket for the problem
          NoRequest,    \* nobody holds the lock
          Jobs,         \* processes that sync, close or reopen the linked ticket
          MaxAttempts,  \* bound of the model: create calls for this problem
          MaxVersion,   \* bound of the model: states a ticket goes through
          Faults        \* what may go wrong: "expiry", "crash", "db", "incomplete"

ASSUME ProblemAssumption ==
  /\ NoRequest \notin Requests
  /\ Requests \cap Jobs = {}
  /\ MaxAttempts \in Nat /\ MaxVersion \in Nat \ {0}
  /\ Faults \subseteq {"expiry", "crash", "db", "incomplete"}

Attempts == 1 .. MaxAttempts
NoAttempt == 0
NoTicket == 0
Actors == Requests \cup Jobs

VARIABLES
  znuny,    \* ticket -> number of states it has been in: 0 before it exists,
            \*   then open and closed in turns
  wire,     \* attempt -> what became of its create call
  attempt,  \* attempt -> status column
  row,      \* the row of zabbix_tickets for the problem
  linked,   \* tickets the audit log has a link_created or link_replaced entry for
  lock,     \* holder of the cache lock zbx_ticket_create:{event}
  lapsed,   \* requests under way whose lock has expired
  request,  \* request -> where it is
  job,      \* actor -> the sync, close or reopen it has in progress
  told      \* attempt -> what the operator was told about it

rowVars == <<row, linked>>
lockVars == <<lock, lapsed>>
attemptVars == <<wire, attempt>>
vars == <<znuny, attemptVars, rowVars, lockVars, request, job, told>>

State == {"unknown", "open", "closed"}           \* znuny_ticket_state_type
Snapshot == (0 .. MaxAttempts) \X (0 .. MaxVersion)
NoSnapshot == <<0, 0>>                           \* a null snapshot hash

Request == [pc : {"idle", "look", "preflight", "send", "wait", "link", "sync",
                  "syncing"},
            replaces : BOOLEAN, attempt : 0 .. MaxAttempts]
Job == [pc : {"none", "ask", "save"}, kind : {"none", "sync", "close", "reopen"},
        ticket : 0 .. MaxAttempts, state : State \cup {"same"},
        snapshot : Snapshot]

Idle == [pc |-> "idle", replaces |-> FALSE, attempt |-> NoAttempt]
NoJob == [pc |-> "none", kind |-> "none", ticket |-> NoTicket,
          state |-> "same", snapshot |-> NoSnapshot]

Exists(t) == znuny[t] > 0
StateOf(version) == IF version % 2 = 1 THEN "open" ELSE "closed"
IsTerminal == row.state = "closed"   \* isTerminalInZnuny: closed or merged
LinkedTo(t) == [ticket |-> t, state |-> "unknown", snapshot |-> NoSnapshot]

TypeOK ==
  /\ znuny \in [Attempts -> 0 .. MaxVersion]
  /\ wire \in [Attempts -> {"none", "sent", "created", "incomplete", "refused"}]
  /\ attempt \in [Attempts -> {"none", "preparing", "sending", "success",
                               "confirmed_failed", "uncertain"}]
  /\ row \in [ticket : 0 .. MaxAttempts, state : State, snapshot : Snapshot]
  /\ linked \subseteq Attempts
  /\ lock \in Requests \cup {NoRequest} /\ lapsed \subseteq Requests
  /\ request \in [Requests -> Request]
  /\ job \in [Actors -> Job]
  /\ told \in [Attempts -> {"nothing", "success", "failed", "uncertain", "orphaned"}]

Init ==
  /\ znuny = [a \in Attempts |-> 0]
  /\ wire = [a \in Attempts |-> "none"]
  /\ attempt = [a \in Attempts |-> "none"]
  /\ row = LinkedTo(NoTicket) /\ linked = {}
  /\ lock = NoRequest /\ lapsed = {}
  /\ request = [r \in Requests |-> Idle]
  /\ job = [x \in Actors |-> NoJob]
  /\ told = [a \in Attempts |-> "nothing"]

----------------------------------------------------------------------------
(* The request. *)

At(r, pc) == request[r].pc = pc
GoTo(r, pc) == request' = [request EXCEPT ![r].pc = pc]
Tell(r, what) == told' = [told EXCEPT ![request[r].attempt] = what]
Record(r, status) == attempt' = [attempt EXCEPT ![request[r].attempt] = status]

(* Faulty: the release does not ask who holds the lock by now. *)
FinishByForce(r) ==
  /\ lock' = NoRequest /\ lapsed' = lapsed \ {r}
  /\ request' = [request EXCEPT ![r] = Idle]

(* The finally block: only the owner's token releases the lock. *)
Finish(r) ==
  /\ lock' = IF lock = r THEN NoRequest ELSE lock
  /\ lapsed' = lapsed \ {r} /\ request' = [request EXCEPT ![r] = Idle]

(* The lock is free, or the request is turned away. *)
Lock(r) ==
  /\ At(r, "idle") /\ lock = NoRequest
  /\ lock' = r /\ GoTo(r, "look")
  /\ UNCHANGED <<znuny, attemptVars, rowVars, lapsed, job, told>>

LockExpires ==
  /\ "expiry" \in Faults /\ lock # NoRequest
  /\ lapsed' = IF At(lock, "idle") THEN lapsed ELSE lapsed \cup {lock}
  /\ lock' = NoRequest
  /\ UNCHANGED <<znuny, attemptVars, rowVars, request, job, told>>

(* findByEventId: a link to a ticket that is not terminal is a duplicate. *)
Duplicate(r) ==
  /\ At(r, "look") /\ row.ticket # NoTicket /\ ~IsTerminal
  /\ Finish(r)
  /\ UNCHANGED <<znuny, attemptVars, rowVars, job, told>>

Look(r) ==
  /\ At(r, "look") /\ (row.ticket = NoTicket \/ IsTerminal)
  /\ request' = [request EXCEPT ![r].pc = "preflight",
                                ![r].replaces = row.ticket # NoTicket]
  /\ UNCHANGED <<znuny, attemptVars, rowVars, lockVars, job, told>>

(* The customer user is unknown, or the payload is not valid. *)
Refuse(r) ==
  /\ At(r, "preflight") /\ Finish(r)
  /\ UNCHANGED <<znuny, attemptVars, rowVars, job, told>>

Prepare(r) ==
  /\ At(r, "preflight")
  /\ \E a \in Attempts :
       /\ attempt[a] = "none" /\ \A b \in Attempts : b < a => attempt[b] # "none"
       /\ attempt' = [attempt EXCEPT ![a] = "preparing"]
       /\ request' = [request EXCEPT ![r].pc = "send", ![r].attempt = a]
  /\ UNCHANGED <<znuny, wire, rowVars, lockVars, job, told>>

(* Faulty: the attempt is marked after the call. *)
SendUnmarked(r) ==
  /\ At(r, "send") /\ GoTo(r, "wait")
  /\ wire' = [wire EXCEPT ![request[r].attempt] = "sent"]
  /\ UNCHANGED <<znuny, attempt, rowVars, lockVars, job, told>>

Send(r) ==
  /\ At(r, "send") /\ GoTo(r, "wait")
  /\ Record(r, "sending")
  /\ wire' = [wire EXCEPT ![request[r].attempt] = "sent"]
  /\ UNCHANGED <<znuny, rowVars, lockVars, job, told>>

(* Znuny carries a call out, or refuses or never receives it, at any time,  *)
(* whether or not the caller still waits; its answer may lack the ticket's  *)
(* id or number.                                                            *)
ZnunyCreates(a) ==
  /\ wire[a] = "sent"
  /\ \E answer \in {"created"} \cup ({"incomplete"} \cap Faults) :
       wire' = [wire EXCEPT ![a] = answer]
  /\ znuny' = [znuny EXCEPT ![a] = 1]
  /\ UNCHANGED <<attempt, rowVars, lockVars, request, job, told>>

ZnunyRefuses(a) ==
  /\ wire[a] = "sent"
  /\ wire' = [wire EXCEPT ![a] = "refused"]
  /\ UNCHANGED <<znuny, attempt, rowVars, lockVars, request, job, told>>

(* Faulty: the ticket is linked although its attempt could not be saved. *)
RecordSkipped(r) ==
  /\ At(r, "wait") /\ wire[request[r].attempt] = "created"
  /\ GoTo(r, "link")
  /\ UNCHANGED <<znuny, attemptVars, rowVars, lockVars, job, told>>

RecordCreated(r) ==
  /\ At(r, "wait") /\ wire[request[r].attempt] = "created"
  /\ Record(r, "success") /\ GoTo(r, "link")
  /\ UNCHANGED <<znuny, wire, rowVars, lockVars, job, told>>

(* Faulty: a call without an answer counts as refused. *)
RecordTimeoutAsRefused(r) ==
  /\ At(r, "wait")
  /\ Record(r, "confirmed_failed") /\ Tell(r, "failed") /\ Finish(r)
  /\ UNCHANGED <<znuny, wire, rowVars, job>>

(* Errors and no identifiers; createTicket adds such an error itself when    *)
(* the id or the number is missing.                                         *)
RecordRefused(r) ==
  /\ At(r, "wait") /\ wire[request[r].attempt] \in {"refused", "incomplete"}
  /\ Record(r, "confirmed_failed") /\ Tell(r, "failed") /\ Finish(r)
  /\ UNCHANGED <<znuny, wire, rowVars, job>>

(* A time-out, an HTTP error or an error payload: an exception, whatever    *)
(* Znuny has made or is still going to make of the call.                   *)
RecordUnclear(r) ==
  /\ At(r, "wait")
  /\ Record(r, "uncertain") /\ Tell(r, "uncertain") /\ Finish(r)
  /\ UNCHANGED <<znuny, wire, rowVars, job>>

----------------------------------------------------------------------------
(* The link. *)

Linkable(r) == IF request[r].replaces THEN IsTerminal ELSE row.ticket = NoTicket

(* Faulty: the row is not looked at again inside the transaction. *)
LinkUnchecked(r) ==
  /\ At(r, "link")
  /\ row' = LinkedTo(request[r].attempt)
  /\ linked' = linked \cup {request[r].attempt}
  /\ IF request[r].replaces
       THEN GoTo(r, "sync") /\ UNCHANGED <<lockVars, told>>
       ELSE Tell(r, "success") /\ Finish(r)
  /\ UNCHANGED <<znuny, attemptVars, job>>

(* create inserts the row, of which there is one per event; replace resets   *)
(* its columns after it has locked it and found it terminal still.          *)
Link(r) ==
  /\ At(r, "link") /\ Linkable(r)
  /\ row' = LinkedTo(request[r].attempt)
  /\ linked' = linked \cup {request[r].attempt}
  /\ IF request[r].replaces
       THEN GoTo(r, "sync") /\ UNCHANGED <<lockVars, told>>
       ELSE Tell(r, "success") /\ Finish(r)
  /\ UNCHANGED <<znuny, attemptVars, job>>

(* Already linked, not terminal any more, or the database fails: the        *)
(* transaction is rolled back and the operator learns of the orphan.        *)
Orphan(r) ==
  /\ At(r, "link") /\ (~Linkable(r) \/ "db" \in Faults)
  /\ Tell(r, "orphaned") /\ Finish(r)
  /\ UNCHANGED <<znuny, attemptVars, rowVars, job>>

----------------------------------------------------------------------------
(* Jobs.  Each loads the row, asks Znuny about, or to close or reopen, the   *)
(* ticket the row named then, and saves: save() writes the columns that      *)
(* differ from what was loaded, to the row as it is by then.  Until it has   *)
(* asked, a sync holds the columns it has loaded; afterwards every job holds *)
(* the columns it is going to write.                                        *)

Loaded(kind) == [pc |-> "ask", kind |-> kind, ticket |-> row.ticket,
                 state |-> row.state, snapshot |-> row.snapshot]
Writes(state, snapshot) == [NoJob EXCEPT !.pc = "save", !.state = state,
                                         !.snapshot = snapshot]
Unless(same, none, value) == IF same THEN none ELSE value

(* A close loads an open row and writes closed, a reopen the other way round. *)
Load(j, kind) ==
  /\ job[j] = NoJob
  /\ job' = [job EXCEPT ![j] = IF kind = "sync" THEN Loaded(kind)
                               ELSE [NoJob EXCEPT !.pc = "ask", !.kind = kind,
                                                  !.ticket = row.ticket]]
  /\ UNCHANGED <<znuny, attemptVars, rowVars, lockVars, request, told>>

(* Faulty: closed tickets are left out of the sync. *)
LoadOpenOnly(j) == row.ticket # NoTicket /\ ~IsTerminal /\ Load(j, "sync")

LoadSync(j) == row.ticket # NoTicket /\ Load(j, "sync")
LoadClose(j) == row.ticket # NoTicket /\ ~IsTerminal /\ Load(j, "close")
LoadReopen(j) == row.ticket # NoTicket /\ IsTerminal /\ Load(j, "reopen")

Asking(x, kind) == job[x].pc = "ask" /\ job[x].kind = kind
ToSave(x, changes) == job' = [job EXCEPT ![x] = changes]

(* The ticket's state type is copied when the snapshot's hash has changed. *)
Fetch(x) ==
  LET seen == <<job[x].ticket, znuny[job[x].ticket]>>
      same == job[x].snapshot = seen
      type == StateOf(seen[2])
  IN /\ Asking(x, "sync")
     /\ ToSave(x, Writes(Unless(same \/ type = job[x].state, "same", type),
                         Unless(same, NoSnapshot, seen)))
     /\ UNCHANGED <<znuny, attemptVars, rowVars, lockVars, request, told>>

Changes(t) == /\ znuny[t] < MaxVersion
              /\ znuny' = [znuny EXCEPT ![t] = @ + 1]

AskToClose(x) ==
  LET version == znuny[job[x].ticket]
  IN /\ Asking(x, "close")
     /\ \/ StateOf(version) = "open" /\ Changes(job[x].ticket)
        \/ StateOf(version) = "closed" /\ UNCHANGED znuny
     /\ ToSave(x, Writes("closed", NoSnapshot))
     /\ UNCHANGED <<attemptVars, rowVars, lockVars, request, told>>

AskToReopen(x) ==
  LET version == znuny[job[x].ticket]
  IN /\ Asking(x, "reopen") /\ StateOf(version) = "closed"
     /\ Changes(job[x].ticket)
     /\ ToSave(x, Writes("open", NoSnapshot))
     /\ UNCHANGED <<attemptVars, rowVars, lockVars, request, told>>

(* The call fails, or its answer is lost: an error message at most is saved. *)
AskFails(x) ==
  /\ job[x].pc = "ask"
  /\ ToSave(x, NoJob)
  /\ UNCHANGED <<znuny, attemptVars, rowVars, lockVars, request, told>>

(* Faulty: what was not changed is written as well. *)
SaveClean(x) ==
  /\ job[x].pc = "save"
  /\ row' = [row EXCEPT !.state = job[x].state, !.snapshot = job[x].snapshot]
  /\ ToSave(x, NoJob)
  /\ UNCHANGED <<znuny, attemptVars, linked, lockVars, request, told>>

Save(x) ==
  /\ job[x].pc = "save"
  /\ row' = [row EXCEPT
        !.state = Unless(job[x].state = "same", @, job[x].state),
        !.snapshot = Unless(job[x].snapshot = NoSnapshot, @, job[x].snapshot)]
  /\ ToSave(x, NoJob)
  /\ UNCHANGED <<znuny, attemptVars, linked, lockVars, request, told>>

(* After a replacement the request syncs the row of its new ticket, if the  *)
(* row still names it, and reports success whatever the sync came to.       *)
StartOwnSync(r) ==
  /\ At(r, "sync") /\ GoTo(r, "syncing")
  /\ job' = [job EXCEPT ![r] = IF row.ticket = request[r].attempt
                                 THEN Loaded("sync") ELSE NoJob]
  /\ UNCHANGED <<znuny, attemptVars, rowVars, lockVars, told>>

FinishOwnSync(r) ==
  /\ At(r, "syncing") /\ job[r] = NoJob
  /\ Tell(r, "success") /\ Finish(r)
  /\ UNCHANGED <<znuny, attemptVars, rowVars, job>>

----------------------------------------------------------------------------
(* Faults, and agents at work in Znuny. *)

(* A query fails: the exception leaves createTicketForProblem through its    *)
(* finally block.  One in recordApiStart is caught and recorded, if the      *)
(* database takes it, as an uncertain attempt.                              *)
DbFails(r) ==
  /\ "db" \in Faults
  /\ \/ /\ \E pc \in {"look", "preflight", "send", "wait"} : At(r, pc)
        /\ UNCHANGED <<attempt, told>>
     \/ At(r, "send") /\ Record(r, "uncertain") /\ Tell(r, "uncertain")
  /\ Finish(r)
  /\ UNCHANGED <<znuny, wire, rowVars, job>>

Crash(r) ==
  /\ "crash" \in Faults /\ ~At(r, "idle")
  /\ request' = [request EXCEPT ![r] = Idle]
  /\ job' = [job EXCEPT ![r] = NoJob]
  /\ lapsed' = lapsed \ {r}
  /\ UNCHANGED <<znuny, attemptVars, rowVars, lock, told>>

AgentChanges(t) ==
  /\ Exists(t) /\ Changes(t)
  /\ UNCHANGED <<attemptVars, rowVars, lockVars, request, job, told>>

----------------------------------------------------------------------------

Create(r) ==
  \/ Lock(r) \/ Duplicate(r) \/ Look(r) \/ Refuse(r) \/ Prepare(r) \/ Send(r)
  \/ RecordCreated(r) \/ RecordRefused(r) \/ RecordUnclear(r)
  \/ Link(r) \/ Orphan(r) \/ StartOwnSync(r) \/ FinishOwnSync(r)
  \/ DbFails(r) \/ Crash(r)

Work(x) == Fetch(x) \/ AskToClose(x) \/ AskToReopen(x) \/ AskFails(x) \/ Save(x)

Outside == \E a \in Attempts : ZnunyCreates(a) \/ ZnunyRefuses(a) \/ AgentChanges(a)

Next ==
  \/ \E r \in Requests : Create(r)
  \/ LockExpires
  \/ \E j \in Jobs : LoadSync(j) \/ LoadClose(j) \/ LoadReopen(j)
  \/ \E x \in Actors : Work(x)
  \/ Outside

Spec == Init /\ [][Next]_vars

(* Every job goes on, its call ends at the latest by its time-out; the       *)
(* scheduler starts the sync again and again, between closes and reopenings  *)
(* too, and now and then Znuny answers it.                                  *)
FairSpec ==
  /\ Spec
  /\ \A j \in Jobs :
       WF_vars(Work(j)) /\ SF_vars(LoadSync(j)) /\ SF_vars(Fetch(j))

----------------------------------------------------------------------------

(* The lock excludes until it expires: a request whose lock has not expired  *)
(* holds it, even after one whose lock had expired has come to its finally   *)
(* block (createTicketForProblem, $lock->release()).                        *)
HoldersHoldTheLock ==
  \A r \in Requests : ~At(r, "idle") /\ r \notin lapsed => lock = r

(* No ticket is made behind the attempts' back: whatever Znuny holds for the *)
(* problem has an attempt that was marked before the call and that says      *)
(* "failed" only when Znuny left the ticket's id or number out of its        *)
(* answer, also when the request crashed, timed out or lost its lock.       *)
TicketsAreOnRecord ==
  \A a \in Attempts : Exists(a) =>
    \/ attempt[a] \in {"sending", "success", "uncertain"}
    \/ attempt[a] = "confirmed_failed" /\ wire[a] = "incomplete"

(* The problem is linked to a ticket that Znuny has and whose attempt is     *)
(* recorded as successful, and the audit log knows it.                      *)
LinkIsRecorded ==
  /\ row.ticket # NoTicket => row.ticket \in linked
  /\ \A t \in linked : Exists(t) /\ attempt[t] = "success"

(* What operators are told is true for good: a ticket reported as created    *)
(* has been linked, one reported as an orphan never is, and of a call        *)
(* reported as failed no complete ticket ever comes, however requests        *)
(* overlap (the result of createTicketForProblem).                          *)
ReportsAreTrue ==
  \A a \in Attempts :
    /\ told[a] = "success" => a \in linked
    /\ told[a] = "orphaned" => Exists(a) /\ a \notin linked
    /\ told[a] = "failed" => wire[a] \in {"refused", "incomplete"}

(* A link moves only away from a ticket that the row says is closed or       *)
(* merged, never back to an earlier ticket, and never disappears, although   *)
(* requests whose locks have expired link at the same time and a reopened    *)
(* ticket may cease to be terminal under them (replaceTerminalTicketLink).   *)
LiveLinkSurvives ==
  [][row'.ticket # row.ticket =>
       /\ row.ticket = NoTicket \/ IsTerminal
       /\ row'.ticket \notin linked \cup {NoTicket}]_vars

(* The snapshot hash of the row becomes that of the linked ticket as it is    *)
(* in Znuny once tickets and links no longer change, whatever stale jobs     *)
(* wrote in between (ZnunyLinkedTicketSyncService::sync).                    *)
SnapshotCatchesUp ==
  <>[](row.ticket # NoTicket => row.snapshot = <<row.ticket, znuny[row.ticket]>>)
=============================================================================
