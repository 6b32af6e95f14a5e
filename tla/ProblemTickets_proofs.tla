----------------------- MODULE ProblemTickets_proofs -----------------------
(***************************************************************************)
(* Proofs about ProblemTickets for every number of requests, jobs and       *)
(* attempts, with every fault.                                             *)
(***************************************************************************)
EXTENDS ProblemTickets, TLAPS

Own(r) == request[r].attempt
UnderWay(r) == request[r].pc \in {"send", "wait", "link", "sync", "syncing"}

(* A request with an attempt is the only one with it, and knows how far it   *)
(* has come.                                                                *)
RequestsOwnAttempts ==
  \A r \in Requests : UnderWay(r) =>
    /\ Own(r) \in Attempts
    /\ \A s \in Requests : UnderWay(s) /\ Own(s) = Own(r) => s = r
    /\ At(r, "send") => attempt[Own(r)] = "preparing"
    /\ At(r, "wait") => attempt[Own(r)] = "sending"
    /\ At(r, "link") => /\ attempt[Own(r)] = "success"
                        /\ Own(r) \notin linked /\ told[Own(r)] = "nothing"
    /\ At(r, "sync") \/ At(r, "syncing") => Own(r) \in linked

(* What the attempt's status says about the call, and the call about Znuny. *)
AttemptsAreAhead ==
  \A a \in Attempts :
    /\ Exists(a) <=> wire[a] \in {"created", "incomplete"}
    /\ attempt[a] \in {"none", "preparing"} => wire[a] = "none"
    /\ attempt[a] = "success" => wire[a] = "created"
    /\ attempt[a] = "confirmed_failed" => wire[a] \in {"refused", "incomplete"}

(* Nothing is linked or told before the attempt is settled. *)
SettledFirst ==
  \A a \in Attempts :
    /\ a \in linked => attempt[a] = "success"
    /\ told[a] = "success" => a \in linked
    /\ told[a] = "orphaned" => attempt[a] = "success" /\ a \notin linked
    /\ told[a] = "failed" => attempt[a] = "confirmed_failed"
    /\ told[a] = "uncertain" => attempt[a] = "uncertain"

(* Jobs ask about tickets that have been linked. *)
LinkedIsKnown ==
  /\ row.ticket # NoTicket => row.ticket \in linked
  /\ \A x \in Actors : job[x].pc = "ask" => job[x].ticket \in linked

TicketInv ==
  /\ TypeOK
  /\ RequestsOwnAttempts
  /\ AttemptsAreAhead
  /\ SettledFirst
  /\ LinkedIsKnown

----------------------------------------------------------------------------
(* Types. *)

LEMMA SnapshotsSeen ==
  ASSUME TypeOK, NEW t \in Attempts
  PROVE  /\ <<t, znuny[t]>> \in Snapshot
         /\ StateOf(znuny[t]) \in {"open", "closed"}
BY DEF TypeOK, Snapshot, Attempts, StateOf

LEMMA NullsAreTyped ==
  Idle \in Request /\ NoJob \in Job /\ NoSnapshot \in Snapshot
<1>1. 0 \in 0 .. MaxAttempts /\ 0 \in 0 .. MaxVersion
  BY ProblemAssumption
<1>2. NoSnapshot \in Snapshot
  BY <1>1 DEF NoSnapshot, Snapshot
<1> QED
  BY <1>1, <1>2 DEF Idle, Request, NoJob, Job, NoAttempt, NoTicket

LEMMA FinishIsTyped ==
  ASSUME TypeOK, NEW r \in Requests, Finish(r)
  PROVE  /\ lock' \in Requests \cup {NoRequest} /\ lapsed' \subseteq Requests
         /\ request' \in [Requests -> Request]
BY NullsAreTyped DEF TypeOK, Finish

LEMMA RequestsAreTyped ==
  ASSUME TypeOK, NEW r \in Requests
  PROVE  /\ \A pc \in {"look", "preflight", "send", "wait", "link", "sync", "syncing"} :
              [request[r] EXCEPT !.pc = pc] \in Request
         /\ \A b \in BOOLEAN :
              [request[r] EXCEPT !.pc = "preflight", !.replaces = b] \in Request
         /\ \A a \in Attempts :
              [request[r] EXCEPT !.pc = "send", !.attempt = a] \in Request
<1>1. request[r] \in Request
  BY DEF TypeOK
<1>2. ASSUME NEW pc \in {"look", "preflight", "send", "wait", "link", "sync", "syncing"}
      PROVE  [request[r] EXCEPT !.pc = pc] \in Request
  BY <1>1 DEF Request
<1>3. ASSUME NEW b \in BOOLEAN
      PROVE  [request[r] EXCEPT !.pc = "preflight", !.replaces = b] \in Request
  BY <1>1 DEF Request
<1>4. ASSUME NEW a \in Attempts
      PROVE  [request[r] EXCEPT !.pc = "send", !.attempt = a] \in Request
  <2>1. a \in 0 .. MaxAttempts
    BY ProblemAssumption DEF Attempts
  <2> QED
    BY <1>1, <2>1 DEF Request
<1> QED
  BY <1>2, <1>3, <1>4

LEMMA CreateKeepsTypes ==
  ASSUME TypeOK, RequestsOwnAttempts, NEW r \in Requests, Create(r)
  PROVE  TypeOK'
<1> USE DEF attemptVars, rowVars, lockVars
<1>1. ASSUME Finish(r), UNCHANGED <<znuny, wire, rowVars, job>>,
             attempt' = attempt \/ (\E s \in {"confirmed_failed", "uncertain"} : Record(r, s)),
             told' = told \/ (\E s \in {"success", "failed", "uncertain", "orphaned"} : Tell(r, s))
      PROVE TypeOK'
  <2>1. attempt' \in [Attempts -> {"none", "preparing", "sending", "success",
                                   "confirmed_failed", "uncertain"}]
    BY <1>1 DEF TypeOK, Record
  <2>2. told' \in [Attempts -> {"nothing", "success", "failed", "uncertain", "orphaned"}]
    BY <1>1 DEF TypeOK, Tell
  <2> QED
    BY <1>1, <2>1, <2>2, FinishIsTyped DEF TypeOK
<1>2. CASE Duplicate(r) \/ Refuse(r)
  BY <1>1, <1>2 DEF Duplicate, Refuse
<1>3. CASE RecordRefused(r) \/ RecordUnclear(r)
  BY <1>1, <1>3 DEF RecordRefused, RecordUnclear
<1>4. CASE Orphan(r) \/ FinishOwnSync(r)
  BY <1>1, <1>4 DEF Orphan, FinishOwnSync
<1>5. CASE DbFails(r)
  BY <1>1, <1>5 DEF DbFails
<1>6. CASE Lock(r)
  BY <1>6, RequestsAreTyped DEF Lock, GoTo, TypeOK
<1>7. CASE Look(r)
  BY <1>7, RequestsAreTyped DEF Look, TypeOK
<1>8. CASE Prepare(r)
  <2>1. PICK a \in Attempts :
          /\ attempt' = [attempt EXCEPT ![a] = "preparing"]
          /\ request' = [request EXCEPT ![r].pc = "send", ![r].attempt = a]
    BY <1>8 DEF Prepare
  <2>2. request' \in [Requests -> Request]
    BY <2>1, RequestsAreTyped DEF TypeOK
  <2> QED
    BY <1>8, <2>1, <2>2 DEF Prepare, TypeOK
<1>9. CASE Send(r)
  <2>1. request' \in [Requests -> Request]
    BY <1>9, RequestsAreTyped DEF Send, GoTo, TypeOK
  <2> QED
    BY <1>9, <2>1 DEF Send, Record, TypeOK
<1>10. CASE RecordCreated(r)
  <2>1. request' \in [Requests -> Request]
    BY <1>10, RequestsAreTyped DEF RecordCreated, GoTo, TypeOK
  <2> QED
    BY <1>10, <2>1 DEF RecordCreated, Record, TypeOK
<1>11. CASE StartOwnSync(r)
  <2>1. request' \in [Requests -> Request]
    BY <1>11, RequestsAreTyped DEF StartOwnSync, GoTo, TypeOK
  <2>2. Loaded("sync") \in Job
    BY DEF TypeOK, Loaded, Job
  <2> QED
    BY <1>11, <2>1, <2>2, NullsAreTyped DEF StartOwnSync, TypeOK
<1>12. CASE Link(r)
  <2>1. /\ lock' \in Requests \cup {NoRequest} /\ lapsed' \subseteq Requests
        /\ request' \in [Requests -> Request]
    BY <1>12, FinishIsTyped, RequestsAreTyped DEF Link, GoTo, TypeOK
  <2>2. told' \in [Attempts -> {"nothing", "success", "failed", "uncertain", "orphaned"}]
    BY <1>12 DEF Link, Tell, TypeOK
  <2>3. Own(r) \in Attempts /\ Own(r) \in 0 .. MaxAttempts
    BY <1>12, ProblemAssumption DEF Link, At, RequestsOwnAttempts, UnderWay, Attempts
  <2>4. row' \in [ticket : 0 .. MaxAttempts, state : State, snapshot : Snapshot]
    BY <1>12, <2>3, NullsAreTyped DEF Link, LinkedTo, State, Own
  <2> QED
    BY <1>12, <2>1, <2>2, <2>3, <2>4 DEF Link, Own, TypeOK
<1>13. CASE Crash(r)
  BY <1>13, NullsAreTyped DEF Crash, TypeOK
<1> QED
  BY <1>2, <1>3, <1>4, <1>5, <1>6, <1>7, <1>8, <1>9, <1>10, <1>11, <1>12, <1>13 DEF Create

LEMMA WorkKeepsTypes ==
  ASSUME TypeOK, LinkedIsKnown, NEW x \in Actors, Work(x)
  PROVE  TypeOK'
<1> USE DEF attemptVars, rowVars, lockVars
<1>1. ASSUME NEW s \in {"unknown", "open", "closed", "same"}, NEW n \in Snapshot
      PROVE  Writes(s, n) \in Job
  BY <1>1, NullsAreTyped DEF Writes, Job, State
<1>2. job[x] \in Job
  BY DEF TypeOK
<1>3. job[x].pc = "ask" => job[x].ticket \in Attempts
  BY DEF LinkedIsKnown, TypeOK
<1>4. ASSUME NEW t \in Attempts, Changes(t) PROVE znuny' \in [Attempts -> 0 .. MaxVersion]
  BY <1>4, ProblemAssumption DEF Changes, TypeOK
<1>5. CASE Fetch(x)
  <2> DEFINE seen == <<job[x].ticket, znuny[job[x].ticket]>>
             type == StateOf(seen[2])
             same == job[x].snapshot = seen
             s == Unless(same \/ type = job[x].state, "same", type)
             n == Unless(same, NoSnapshot, seen)
  <2>1. job[x].ticket \in Attempts
    BY <1>3, <1>5 DEF Fetch, Asking
  <2>2. n \in Snapshot /\ s \in {"open", "closed", "same"}
    BY <2>1, SnapshotsSeen, NullsAreTyped DEF Unless
  <2>3. Writes(s, n) \in Job
    BY <1>1, <2>2
  <2>4. job' = [job EXCEPT ![x] = Writes(s, n)]
    BY <1>5 DEF Fetch, ToSave
  <2> QED
    BY <1>5, <2>3, <2>4 DEF Fetch, TypeOK
<1>6. CASE AskToClose(x)
  <2>1. Writes("closed", NoSnapshot) \in Job
    BY <1>1, NullsAreTyped
  <2>2. znuny' \in [Attempts -> 0 .. MaxVersion]
    BY <1>3, <1>4, <1>6 DEF AskToClose, Asking, TypeOK
  <2> QED
    BY <1>6, <2>1, <2>2 DEF AskToClose, ToSave, TypeOK
<1>7. CASE AskToReopen(x)
  <2>1. Writes("open", NoSnapshot) \in Job
    BY <1>1, NullsAreTyped
  <2>2. znuny' \in [Attempts -> 0 .. MaxVersion]
    BY <1>3, <1>4, <1>7 DEF AskToReopen, Asking, TypeOK
  <2> QED
    BY <1>7, <2>1, <2>2 DEF AskToReopen, ToSave, TypeOK
<1>8. CASE AskFails(x)
  BY <1>8, NullsAreTyped DEF AskFails, ToSave, TypeOK
<1>9. CASE Save(x)
  <2>1. /\ Unless(job[x].state = "same", row.state, job[x].state) \in State
        /\ Unless(job[x].snapshot = NoSnapshot, row.snapshot, job[x].snapshot) \in Snapshot
    BY <1>2 DEF Unless, TypeOK, Job
  <2>2. row' \in [ticket : 0 .. MaxAttempts, state : State, snapshot : Snapshot]
    BY <1>9, <2>1 DEF Save, TypeOK
  <2> QED
    BY <1>9, <2>2, NullsAreTyped DEF Save, ToSave, TypeOK
<1> QED
  BY <1>5, <1>6, <1>7, <1>8, <1>9 DEF Work

LEMMA OthersKeepTypes ==
  ASSUME TypeOK,
         \/ LockExpires \/ Outside \/ UNCHANGED vars
         \/ \E j \in Jobs : LoadSync(j) \/ LoadClose(j) \/ LoadReopen(j)
  PROVE  TypeOK'
<1> USE DEF attemptVars, rowVars, lockVars
<1>1. CASE LockExpires
  BY <1>1 DEF LockExpires, TypeOK
<1>2. ASSUME NEW a \in Attempts, ZnunyCreates(a) PROVE TypeOK'
  BY <1>2, ProblemAssumption DEF ZnunyCreates, TypeOK
<1>3. ASSUME NEW a \in Attempts, ZnunyRefuses(a) PROVE TypeOK'
  BY <1>3 DEF ZnunyRefuses, TypeOK
<1>4. ASSUME NEW a \in Attempts, AgentChanges(a) PROVE TypeOK'
  BY <1>4, ProblemAssumption DEF AgentChanges, Changes, TypeOK
<1>5. ASSUME NEW j \in Jobs, NEW kind \in {"sync", "close", "reopen"}, Load(j, kind)
      PROVE  TypeOK'
  <2>1. Loaded("sync") \in Job
    BY DEF Loaded, TypeOK, Job
  <2>2. [NoJob EXCEPT !.pc = "ask", !.kind = kind, !.ticket = row.ticket] \in Job
    BY NullsAreTyped DEF TypeOK, Job
  <2>3. j \in Actors
    BY DEF Actors
  <2> QED
    BY <1>5, <2>1, <2>2, <2>3 DEF Load, TypeOK
<1>6. CASE UNCHANGED vars
  BY <1>6 DEF vars, TypeOK
<1> QED
  BY <1>1, <1>2, <1>3, <1>4, <1>5, <1>6 DEF Outside, LoadSync, LoadClose, LoadReopen

(* TypeOK needs to know what is linked and who owns which attempt: it is not *)
(* inductive alone.                                                         *)
LEMMA TypeStep ==
  ASSUME TypeOK, RequestsOwnAttempts, LinkedIsKnown, [Next]_vars
  PROVE  TypeOK'
BY CreateKeepsTypes, WorkKeepsTypes, OthersKeepTypes DEF Next

----------------------------------------------------------------------------
(* The lock. *)

(* Every step of a request that is on its way takes the lock, gives it back, *)
(* dies, or leaves the lock alone and only goes on.                         *)
LEMMA StepsOfTheLock ==
  ASSUME TypeOK, NEW r \in Requests, Create(r)
  PROVE  \/ Lock(r) \/ Finish(r) \/ Crash(r)
         \/ /\ UNCHANGED lockVars /\ ~At(r, "idle")
            /\ \A s \in Requests \ {r} : request'[s] = request[s]
<1> USE DEF lockVars, At, GoTo
<1>1. CASE Look(r) \/ Prepare(r)
  BY <1>1 DEF Look, Prepare, TypeOK
<1>2. CASE Send(r) \/ RecordCreated(r) \/ StartOwnSync(r)
  BY <1>2 DEF Send, RecordCreated, StartOwnSync, TypeOK
<1>3. CASE Link(r)
  BY <1>3 DEF Link, TypeOK
<1>4. CASE Duplicate(r) \/ Refuse(r) \/ RecordRefused(r) \/ RecordUnclear(r)
           \/ Orphan(r) \/ FinishOwnSync(r) \/ DbFails(r)
  BY <1>4 DEF Duplicate, Refuse, RecordRefused, RecordUnclear, Orphan,
              FinishOwnSync, DbFails
<1> QED
  BY <1>1, <1>2, <1>3, <1>4 DEF Create

LEMMA LockStep ==
  ASSUME TypeOK, HoldersHoldTheLock, [Next]_vars
  PROVE  HoldersHoldTheLock'
<1> USE DEF HoldersHoldTheLock, At, lockVars
<1>1. ASSUME NEW r \in Requests, Create(r) PROVE HoldersHoldTheLock'
  <2>1. CASE Lock(r)
    BY <2>1, ProblemAssumption DEF Lock, GoTo, TypeOK
  <2>2. CASE Finish(r)
    BY <2>2, ProblemAssumption DEF Finish, Idle, TypeOK
  <2>3. CASE Crash(r)
    BY <2>3 DEF Crash, Idle, TypeOK
  <2>4. CASE /\ UNCHANGED lockVars /\ ~At(r, "idle")
             /\ \A s \in Requests \ {r} : request'[s] = request[s]
    BY <2>4
  <2> QED
    BY <1>1, <2>1, <2>2, <2>3, <2>4, StepsOfTheLock
<1>2. CASE LockExpires
  BY <1>2 DEF LockExpires, TypeOK
<1>3. ASSUME NEW j \in Jobs, LoadSync(j) \/ LoadClose(j) \/ LoadReopen(j)
      PROVE HoldersHoldTheLock'
  BY <1>3 DEF LoadSync, LoadClose, LoadReopen, Load
<1>4. ASSUME NEW x \in Actors, Work(x) PROVE HoldersHoldTheLock'
  BY <1>4 DEF Work, Fetch, AskToClose, AskToReopen, AskFails, Save
<1>5. CASE Outside
  BY <1>5 DEF Outside, ZnunyCreates, ZnunyRefuses, AgentChanges
<1>6. CASE UNCHANGED vars
  BY <1>6 DEF vars
<1> QED
  BY <1>1, <1>2, <1>3, <1>4, <1>5, <1>6 DEF Next

----------------------------------------------------------------------------
(* Requests, attempts, and what is said about them. *)

(* A step of a request changes the attempt of that request only, and no      *)
(* other request.                                                           *)
LEMMA RequestsKeepToThemselves ==
  ASSUME TypeOK, NEW r \in Requests, Create(r)
  PROVE  /\ \A s \in Requests \ {r} : request'[s] = request[s]
         /\ \A a \in Attempts : \/ attempt'[a] = attempt[a] /\ told'[a] = told[a]
                                   /\ wire'[a] = wire[a]
                                \/ a = Own(r) /\ UnderWay(r)
                                \/ Prepare(r) /\ a = request'[r].attempt
<1> USE DEF attemptVars, rowVars, lockVars, At, GoTo, Finish, Own, UnderWay
<1>1. CASE Lock(r) \/ Look(r) \/ Duplicate(r) \/ Refuse(r) \/ Crash(r) \/ StartOwnSync(r)
  BY <1>1 DEF Lock, Look, Duplicate, Refuse, Crash, StartOwnSync, TypeOK
<1>2. CASE Prepare(r)
  <2>1. PICK a \in Attempts : /\ attempt' = [attempt EXCEPT ![a] = "preparing"]
                              /\ request' = [request EXCEPT ![r].pc = "send", ![r].attempt = a]
    BY <1>2 DEF Prepare
  <2>2. request[r] \in Request
    BY DEF TypeOK
  <2>3. request'[r].attempt = a
    BY <2>1, <2>2 DEF TypeOK, Request
  <2> QED
    BY <1>2, <2>1, <2>3 DEF Prepare, TypeOK
<1>3. CASE Send(r) \/ RecordCreated(r) \/ RecordRefused(r) \/ RecordUnclear(r)
  BY <1>3 DEF Send, RecordCreated, RecordRefused, RecordUnclear, Record, Tell, TypeOK
<1>4. CASE Orphan(r) \/ FinishOwnSync(r) \/ DbFails(r)
  BY <1>4 DEF Orphan, FinishOwnSync, DbFails, Record, Tell, TypeOK
<1>5. CASE Link(r)
  BY <1>5 DEF Link, Tell, TypeOK
<1> QED
  BY <1>1, <1>2, <1>3, <1>4, <1>5 DEF Create

LEMMA OwnershipStep ==
  ASSUME TypeOK, RequestsOwnAttempts, SettledFirst, NEW r \in Requests, Create(r)
  PROVE  RequestsOwnAttempts'
<1> USE DEF At, GoTo, UnderWay, Own, attemptVars, rowVars, lockVars
<1>1. ASSUME request'[r].pc \in {"idle", "look", "preflight"},
             linked' = linked \/ (UnderWay(r) /\ linked' = linked \cup {Own(r)})
      PROVE  RequestsOwnAttempts'
  <2>1. ~Prepare(r)
    BY <1>1 DEF Prepare, TypeOK, Request
  <2> QED
    BY <1>1, <2>1, RequestsKeepToThemselves DEF RequestsOwnAttempts
<1>2. CASE Lock(r) \/ Look(r) \/ Crash(r)
  BY <1>1, <1>2 DEF Lock, Look, Crash, Idle, TypeOK, Request
<1>3. CASE Duplicate(r) \/ Refuse(r) \/ RecordRefused(r) \/ RecordUnclear(r)
           \/ Orphan(r) \/ FinishOwnSync(r) \/ DbFails(r)
  BY <1>1, <1>3 DEF Duplicate, Refuse, RecordRefused, RecordUnclear, Orphan,
                    FinishOwnSync, DbFails, Finish, Idle, TypeOK
<1>4. CASE Prepare(r)
  <2>1. PICK a \in Attempts :
          /\ attempt[a] = "none" /\ attempt' = [attempt EXCEPT ![a] = "preparing"]
          /\ request' = [request EXCEPT ![r].pc = "send", ![r].attempt = a]
    BY <1>4 DEF Prepare
  <2>2. request'[r].pc = "send" /\ request'[r].attempt = a
    BY <2>1 DEF TypeOK, Request
  <2>3. \A s \in Requests : UnderWay(s) => Own(s) # a
    BY <2>1 DEF RequestsOwnAttempts, SettledFirst
  <2>4. \A s \in Requests \ {r} : request'[s] = request[s]
    BY <2>1 DEF TypeOK
  <2> QED
    BY <1>4, <2>1, <2>2, <2>3, <2>4 DEF Prepare, RequestsOwnAttempts, TypeOK
<1>5. CASE Send(r)
  <2>1. request'[r].pc = "wait" /\ request'[r].attempt = request[r].attempt
    BY <1>5 DEF Send, TypeOK, Request
  <2>2. \A s \in Requests \ {r} : request'[s] = request[s]
    BY <1>5 DEF Send, TypeOK
  <2> QED
    BY <1>5, <2>1, <2>2 DEF Send, Record, RequestsOwnAttempts, TypeOK
<1>6. CASE RecordCreated(r)
  <2>1. request'[r].pc = "link" /\ request'[r].attempt = request[r].attempt
    BY <1>6 DEF RecordCreated, TypeOK, Request
  <2>2. Own(r) \notin linked /\ told[Own(r)] = "nothing"
    BY <1>6 DEF RecordCreated, RequestsOwnAttempts, SettledFirst, TypeOK
  <2>3. \A s \in Requests \ {r} : request'[s] = request[s]
    BY <1>6 DEF RecordCreated, TypeOK
  <2> QED
    BY <1>6, <2>1, <2>2, <2>3 DEF RecordCreated, Record, RequestsOwnAttempts, TypeOK
<1>7. CASE Link(r)
  <2>1. CASE request[r].replaces
    <3>1. request'[r].pc = "sync" /\ request'[r].attempt = request[r].attempt
      BY <1>7, <2>1 DEF Link, TypeOK, Request
    <3> QED
      BY <1>7, <2>1, <3>1, RequestsKeepToThemselves DEF Link, RequestsOwnAttempts, TypeOK
  <2>2. CASE ~request[r].replaces
    BY <1>1, <1>7, <2>2 DEF Link, Finish, Idle, TypeOK
  <2> QED
    BY <2>1, <2>2
<1>8. CASE StartOwnSync(r)
  <2>1. request'[r].pc = "syncing" /\ request'[r].attempt = request[r].attempt
    BY <1>8 DEF StartOwnSync, TypeOK, Request
  <2> QED
    BY <1>8, <2>1, RequestsKeepToThemselves DEF StartOwnSync, RequestsOwnAttempts, TypeOK
<1> QED
  BY <1>2, <1>3, <1>4, <1>5, <1>6, <1>7, <1>8 DEF Create

LEMMA CallStep ==
  ASSUME TypeOK, RequestsOwnAttempts, AttemptsAreAhead, NEW r \in Requests, Create(r)
  PROVE  AttemptsAreAhead'
<1> USE DEF At, UnderWay, Own, attemptVars, rowVars, Exists, AttemptsAreAhead
<1>1. CASE Lock(r) \/ Look(r) \/ Crash(r) \/ Duplicate(r) \/ Refuse(r) \/ Orphan(r)
           \/ FinishOwnSync(r) \/ StartOwnSync(r) \/ Link(r)
  BY <1>1 DEF Lock, Look, Crash, Duplicate, Refuse, Orphan, FinishOwnSync, StartOwnSync, Link
<1>2. CASE Prepare(r)
  BY <1>2 DEF Prepare, TypeOK
<1>3. CASE Send(r)
  BY <1>3 DEF Send, Record, RequestsOwnAttempts, TypeOK
<1>4. CASE RecordCreated(r)
  BY <1>4 DEF RecordCreated, Record, RequestsOwnAttempts, TypeOK
<1>5. CASE RecordRefused(r) \/ RecordUnclear(r)
  BY <1>5 DEF RecordRefused, RecordUnclear, Record, RequestsOwnAttempts, TypeOK
<1>6. CASE DbFails(r)
  BY <1>6 DEF DbFails, Record, RequestsOwnAttempts, TypeOK
<1> QED
  BY <1>1, <1>2, <1>3, <1>4, <1>5, <1>6 DEF Create

LEMMA ReportStep ==
  ASSUME TypeOK, RequestsOwnAttempts, SettledFirst, NEW r \in Requests, Create(r)
  PROVE  SettledFirst'
<1> USE DEF At, UnderWay, Own, attemptVars, rowVars, SettledFirst
<1>1. CASE Lock(r) \/ Look(r) \/ Crash(r) \/ Duplicate(r) \/ Refuse(r) \/ StartOwnSync(r)
  BY <1>1 DEF Lock, Look, Crash, Duplicate, Refuse, StartOwnSync
<1>2. CASE Prepare(r)
  BY <1>2 DEF Prepare, TypeOK
<1>3. CASE Send(r) \/ RecordCreated(r)
  BY <1>3 DEF Send, RecordCreated, Record, RequestsOwnAttempts, TypeOK
<1>4. CASE RecordRefused(r) \/ RecordUnclear(r)
  BY <1>4 DEF RecordRefused, RecordUnclear, Record, Tell, RequestsOwnAttempts, TypeOK
<1>5. CASE Orphan(r)
  BY <1>5 DEF Orphan, Tell, RequestsOwnAttempts, TypeOK
<1>6. CASE FinishOwnSync(r)
  BY <1>6 DEF FinishOwnSync, Tell, RequestsOwnAttempts, TypeOK
<1>7. CASE Link(r)
  BY <1>7 DEF Link, Tell, RequestsOwnAttempts, TypeOK
<1>8. CASE DbFails(r)
  BY <1>8 DEF DbFails, Record, Tell, RequestsOwnAttempts, TypeOK
<1> QED
  BY <1>1, <1>2, <1>3, <1>4, <1>5, <1>6, <1>7, <1>8 DEF Create

(* Only Znuny and the jobs change tickets, and jobs only those that have been *)
(* linked, which exist.                                                     *)
LEMMA OthersKeepTheBooks ==
  ASSUME TicketInv,
         \/ LockExpires \/ Outside \/ UNCHANGED vars
         \/ \E j \in Jobs : LoadSync(j) \/ LoadClose(j) \/ LoadReopen(j)
         \/ \E x \in Actors : Work(x)
  PROVE  RequestsOwnAttempts' /\ AttemptsAreAhead' /\ SettledFirst'
<1> USE DEF TicketInv
<1>1. UNCHANGED <<request, attempt, told, linked>>
  <2>1. CASE LockExpires \/ Outside \/ UNCHANGED vars
    BY <2>1 DEF LockExpires, Outside, ZnunyCreates, ZnunyRefuses, AgentChanges, vars,
                attemptVars, rowVars
  <2>2. CASE \E j \in Jobs : LoadSync(j) \/ LoadClose(j) \/ LoadReopen(j)
    BY <2>2 DEF LoadSync, LoadClose, LoadReopen, Load, attemptVars, rowVars
  <2>3. CASE \E x \in Actors : Work(x)
    BY <2>3 DEF Work, Fetch, AskToClose, AskToReopen, AskFails, Save, attemptVars, rowVars
  <2> QED
    BY <2>1, <2>2, <2>3
<1>2. RequestsOwnAttempts' /\ SettledFirst'
  BY <1>1 DEF RequestsOwnAttempts, SettledFirst, UnderWay, Own, At
<1>3. AttemptsAreAhead'
  <2> USE <1>1 DEF AttemptsAreAhead, Exists
  <2>1. CASE UNCHANGED <<wire, znuny>>
    BY <2>1
  <2>2. ASSUME NEW a \in Attempts, ZnunyCreates(a) PROVE AttemptsAreAhead'
    BY <2>2 DEF ZnunyCreates, TypeOK
  <2>3. ASSUME NEW a \in Attempts, ZnunyRefuses(a) PROVE AttemptsAreAhead'
    BY <2>3 DEF ZnunyRefuses, TypeOK
  <2>4. ASSUME NEW t \in Attempts, Exists(t), Changes(t), UNCHANGED wire
        PROVE  AttemptsAreAhead'
    BY <2>4 DEF Changes, TypeOK
  <2>5. ASSUME NEW x \in Actors, AskToClose(x) \/ AskToReopen(x)
        PROVE  AttemptsAreAhead'
    <3>1. job[x].ticket \in Attempts /\ Exists(job[x].ticket)
      BY <2>5 DEF AskToClose, AskToReopen, Asking, LinkedIsKnown, SettledFirst, TypeOK
    <3> QED
      BY <2>1, <2>4, <2>5, <3>1 DEF AskToClose, AskToReopen, attemptVars
  <2> QED
    BY <2>1, <2>2, <2>3, <2>4, <2>5
    DEF LockExpires, Outside, AgentChanges, vars, LoadSync, LoadClose, LoadReopen, Load,
        Work, Fetch, AskFails, Save, attemptVars
<1> QED
  BY <1>2, <1>3

LEMMA LinkStep ==
  ASSUME TicketInv, [Next]_vars
  PROVE  /\ LinkedIsKnown'
         /\ linked \subseteq linked'
         /\ row'.ticket # row.ticket =>
              /\ row.ticket = NoTicket \/ IsTerminal
              /\ row'.ticket \notin linked \cup {NoTicket}
<1> DEFINE Goal == /\ LinkedIsKnown'
                   /\ linked \subseteq linked'
                   /\ row'.ticket # row.ticket =>
                        /\ row.ticket = NoTicket \/ IsTerminal
                        /\ row'.ticket \notin linked \cup {NoTicket}
<1> USE DEF TicketInv, LinkedIsKnown, attemptVars, rowVars
<1>1. ASSUME UNCHANGED <<rowVars, job>> PROVE Goal
  BY <1>1
<1>2. ASSUME NEW r \in Requests, Create(r) PROVE Goal
  <2>1. CASE Lock(r) \/ Look(r) \/ Duplicate(r) \/ Refuse(r) \/ Prepare(r) \/ Send(r)
             \/ RecordCreated(r) \/ RecordRefused(r) \/ RecordUnclear(r)
             \/ Orphan(r) \/ FinishOwnSync(r) \/ DbFails(r)
    BY <1>1, <2>1 DEF Lock, Look, Duplicate, Refuse, Prepare, Send, RecordCreated,
                      RecordRefused, RecordUnclear, Orphan, FinishOwnSync, DbFails
  <2>2. CASE Crash(r)
    BY <2>2 DEF Crash, NoJob, TypeOK
  <2>3. CASE StartOwnSync(r)
    <3>1. Own(r) \in linked
      BY <2>3 DEF StartOwnSync, RequestsOwnAttempts, UnderWay, At
    <3> QED
      BY <2>3, <3>1 DEF StartOwnSync, Loaded, NoJob, Own, TypeOK
  <2>4. CASE Link(r)
    <3>1. Own(r) \in Attempts /\ Own(r) \notin linked
      BY <2>4 DEF Link, RequestsOwnAttempts, UnderWay, At
    <3>2. row'.ticket = Own(r) /\ linked' = linked \cup {Own(r)} /\ job' = job
      BY <2>4 DEF Link, LinkedTo, Own
    <3>3. row.ticket = NoTicket \/ IsTerminal
      BY <2>4 DEF Link, Linkable
    <3> QED
      BY <3>1, <3>2, <3>3, ProblemAssumption DEF NoTicket, Attempts
  <2> QED
    BY <1>2, <2>1, <2>2, <2>3, <2>4 DEF Create
<1>3. ASSUME NEW j \in Jobs, LoadSync(j) \/ LoadClose(j) \/ LoadReopen(j) PROVE Goal
  <2>1. row.ticket \in linked /\ UNCHANGED rowVars
    BY <1>3 DEF LoadSync, LoadClose, LoadReopen, Load, IsTerminal
  <2>2. PICK kind \in {"sync", "close", "reopen"} : Load(j, kind)
    BY <1>3 DEF LoadSync, LoadClose, LoadReopen
  <2>3. job'[j].ticket = row.ticket /\ \A x \in Actors \ {j} : job'[x] = job[x]
    BY <2>2 DEF Load, Loaded, NoJob, Actors, TypeOK
  <2> QED
    BY <2>1, <2>3
<1>4. ASSUME NEW x \in Actors, Work(x) PROVE Goal
  <2>1. CASE Fetch(x)
    <3>1. job'[x].pc = "save" /\ \A y \in Actors \ {x} : job'[y] = job[y]
      BY <2>1 DEF Fetch, ToSave, Writes, NoJob, TypeOK
    <3> QED
      BY <2>1, <3>1 DEF Fetch
  <2>2. CASE AskToClose(x) \/ AskToReopen(x)
    <3>1. job'[x].pc = "save" /\ \A y \in Actors \ {x} : job'[y] = job[y]
      <4>1. \E state : ToSave(x, Writes(state, NoSnapshot))
        BY <2>2 DEF AskToClose, AskToReopen
      <4> QED
        BY <4>1 DEF ToSave, Writes, NoJob, TypeOK
    <3> QED
      BY <2>2, <3>1 DEF AskToClose, AskToReopen
  <2>3. CASE AskFails(x)
    BY <2>3 DEF AskFails, ToSave, NoJob, TypeOK
  <2>4. CASE Save(x)
    BY <2>4 DEF Save, ToSave, NoJob, TypeOK
  <2> QED
    BY <1>4, <2>1, <2>2, <2>3, <2>4 DEF Work
<1>5. CASE LockExpires \/ Outside \/ UNCHANGED vars
  BY <1>1, <1>5 DEF LockExpires, Outside, ZnunyCreates, ZnunyRefuses, AgentChanges, vars
<1> QED
  BY <1>2, <1>3, <1>4, <1>5 DEF Next

----------------------------------------------------------------------------

LEMMA TicketInit ==
  ASSUME Init
  PROVE  TicketInv /\ HoldersHoldTheLock
<1>1. TypeOK
  BY ProblemAssumption, NullsAreTyped
  DEF Init, TypeOK, LinkedTo, State, NoTicket, Attempts, Request, Job
<1>2. \A r \in Requests : request[r].pc = "idle"
  BY DEF Init, Idle
<1> QED
  BY <1>1, <1>2 DEF Init, TicketInv, HoldersHoldTheLock, RequestsOwnAttempts, UnderWay,
     At, AttemptsAreAhead, Exists, SettledFirst, LinkedIsKnown, LinkedTo, NoJob

LEMMA TicketStep ==
  ASSUME TicketInv, [Next]_vars
  PROVE  TicketInv'
<1> USE DEF TicketInv
<1>1. TypeOK' /\ LinkedIsKnown'
  BY TypeStep, LinkStep
<1>2. RequestsOwnAttempts' /\ AttemptsAreAhead' /\ SettledFirst'
  BY OwnershipStep, CallStep, ReportStep, OthersKeepTheBooks DEF Next
<1> QED
  BY <1>1, <1>2

LEMMA TicketInvariant == Spec => []TicketInv
<1>1. Init => TicketInv
  BY TicketInit
<1>2. TicketInv /\ [Next]_vars => TicketInv'
  BY TicketStep
<1> QED
  BY <1>1, <1>2, PTL DEF Spec

(* Every column and every request and job in memory keeps its type; this     *)
(* needs the whole invariant, as an audit entry is written for the attempt   *)
(* that a request has in hand.                                              *)
THEOREM TypeCorrect == Spec => []TypeOK
<1>1. TicketInv => TypeOK
  BY DEF TicketInv
<1> QED
  BY <1>1, TicketInvariant, PTL

(* Whoever is in the critical section before its lock has expired holds the  *)
(* lock, however many requests and whatever faults there are: a late finally *)
(* block takes nobody's lock away.                                          *)
THEOREM LockIsHeld == Spec => []HoldersHoldTheLock
<1>1. Init => HoldersHoldTheLock
  BY TicketInit
<1>2. TypeOK /\ HoldersHoldTheLock /\ [Next]_vars => HoldersHoldTheLock'
  BY LockStep
<1> QED
  BY <1>1, <1>2, TypeCorrect, PTL DEF Spec

(* Whatever Znuny holds for the problem has an attempt that says so, or one   *)
(* that failed on an incomplete answer.                                     *)
THEOREM NothingOffTheRecord == Spec => []TicketsAreOnRecord
<1>1. TicketInv => TicketsAreOnRecord
  BY DEF TicketInv, TypeOK, AttemptsAreAhead, TicketsAreOnRecord, Exists
<1> QED
  BY <1>1, TicketInvariant, PTL

(* The problem is linked to an existing ticket of a successful attempt that   *)
(* the audit log names.                                                     *)
THEOREM LinksAreRecorded == Spec => []LinkIsRecorded
<1>1. TicketInv => LinkIsRecorded
  BY DEF TicketInv, TypeOK, LinkedIsKnown, SettledFirst, AttemptsAreAhead, LinkIsRecorded
<1> QED
  BY <1>1, TicketInvariant, PTL

(* What operators were told stays true: successes are linked, orphans exist   *)
(* and are linked by nobody later, failures have no complete ticket.        *)
THEOREM ReportsStayTrue == Spec => []ReportsAreTrue
<1>1. TicketInv => ReportsAreTrue
  BY DEF TicketInv, TypeOK, SettledFirst, AttemptsAreAhead, ReportsAreTrue
<1> QED
  BY <1>1, TicketInvariant, PTL

(* A link leaves only a ticket that the row says is closed, for one that was  *)
(* never linked: for any number of requests, with expired locks.             *)
THEOREM LinksMoveForward == Spec => LiveLinkSurvives
<1>1. TicketInv /\ [Next]_vars =>
        [row'.ticket # row.ticket =>
           /\ row.ticket = NoTicket \/ IsTerminal
           /\ row'.ticket \notin linked \cup {NoTicket}]_vars
  BY LinkStep
<1> QED
  BY <1>1, TicketInvariant, PTL DEF Spec, LiveLinkSurvives
=============================================================================
