-------------------------- MODULE PrewarmSnapshots --------------------------
(***************************************************************************)
(* The prewarmed snapshots of Znuny's queues and agents.                    *)
(*                                                                         *)
(* A refresh writes its payload under a key of its own, a generation, and   *)
(* then puts that key into the dataset's metadata; readers look the key up, *)
(* read the payload and look again.  The agents' payload names the          *)
(* generation of queues it was built from and is of use only while that one *)
(* is active.  One lock per dataset, with a lifetime, keeps refreshes apart. *)
(*                                                                         *)
(* Customer users and lookups are left out: nobody reads them together with *)
(* another dataset, and their refreshes are those of queues.                *)
(* Generations are numbered in the order in which they are written; of the  *)
(* metadata, only the active generation is read by the code modelled here.  *)
(***************************************************************************)
EXTENDS Naturals

CONSTANTS Refreshers,  \* processes that run a warm command
          Readers,     \* pages that ask for the agents of queues
          Free,        \* no process
          MaxGen       \* bound of the model: the last generation

ASSUME SnapshotsAssumption ==
  /\ MaxGen \in Nat
  /\ Free \notin Refreshers
  /\ Refreshers \cap Readers = {}

VARIABLES lock,       \* dataset -> owner
          active,     \* dataset -> active_generation of its metadata
          store,      \* generation -> what became of its payload
          made,       \* the last generation written
          refresher,  \* process -> its refresh
          reader,     \* page -> its reading of the agents
          read,       \* process or page -> its readActiveSnapshot
          history     \* what has happened: no variable of the program

vars == <<lock, active, store, made, refresher, reader, read, history>>

Datasets == {"queues", "agents"}
None == 0
Gens == 1..MaxGen
GenOrNone == Gens \cup {None}
Clients == Refreshers \cup Readers

Payload == [state : {"unwritten", "stored", "deleted", "expired"},
            dataset : Datasets,
            queues : GenOrNone]    \* queue_generation

NoRefresh == [pc |-> "idle"]
Refresh == [pc : {"locked", "begun", "queues", "fetch", "recheck", "store", "activate",
                  "cleanup", "failed", "failMeta", "release"},
            dataset : Datasets,
            original : GenOrNone,  \* the active generation in originalMeta
            queues : GenOrNone,    \* the generation of queues fetched with
            temp : GenOrNone]      \* the key written, $tempKey, once it is

NoRead == [pc |-> "idle"]
Read == [pc : {"meta", "payload", "again", "done"},
         dataset : Datasets,
         attempt : 1..2,
         gen : GenOrNone,          \* the generation seen; when done, the one returned
         found : BOOLEAN,
         since : Nat]              \* history: activations before this read

Reading == [pc : {"agents", "queues", "done"},
            agents : GenOrNone,    \* the generation of agents read, or returned
            queues : GenOrNone]    \* queue_generation of what is returned

\* The variables have their types.
TypeOK ==
  /\ lock \in [Datasets -> Refreshers \cup {Free}]
  /\ active \in [Datasets -> GenOrNone]
  /\ store \in [Gens -> Payload]
  /\ made \in 0..MaxGen
  /\ refresher \in [Refreshers -> Refresh \cup {NoRefresh}]
  /\ reader \in [Readers -> Reading]
  /\ read \in [Clients -> Read \cup {NoRead}]
  /\ history \in [together  : SUBSET (GenOrNone \X GenOrNone),  \* (agents, queues) ever active at once
                  activated : [Datasets -> Nat]]                \* changes of the active generation

Init ==
  /\ lock = [d \in Datasets |-> Free]
  /\ active = [d \in Datasets |-> None]
  /\ store = [g \in Gens |-> [state |-> "unwritten", dataset |-> "queues", queues |-> None]]
  /\ made = 0
  /\ refresher = [p \in Refreshers |-> NoRefresh]
  /\ reader = [c \in Readers |-> [pc |-> "done", agents |-> None, queues |-> None]]
  /\ read = [c \in Clients |-> NoRead]
  /\ history = [together |-> {<<None, None>>}, activated |-> [d \in Datasets |-> 0]]

-----------------------------------------------------------------------------
(* PrewarmSnapshotManager::readActiveSnapshot: two attempts of three gets. *)

BeginRead(c, d) ==
  read' = [read EXCEPT ![c] = [pc |-> "meta", dataset |-> d, attempt |-> 1, gen |-> None,
                               found |-> FALSE, since |-> history.activated[d]]]

EndRead(c) == read' = [read EXCEPT ![c] = NoRead]

Returned(c) == read[c].gen

\* Faulty: the first attempt is the only one.
OnlyAttempt(c) ==
  read' = [read EXCEPT ![c].pc = "done", ![c].gen = None]

\* Faulty: one attempt too many.
ThirdAttempt(c) ==
  read' = [read EXCEPT ![c].pc = IF read[c].attempt <= 2 THEN "meta" ELSE "done",
                       ![c].attempt = @ + 1,
                       ![c].gen = None]

NextAttempt(c) ==
  read' = [read EXCEPT ![c] = [@ EXCEPT !.pc = IF read[c].attempt = 1 THEN "meta" ELSE "done",
                                        !.attempt = 2,
                                        !.gen = None]]

ReadMeta(c) ==
  /\ read[c].pc = "meta"
  /\ IF active[read[c].dataset] = None
       THEN NextAttempt(c)
       ELSE read' = [read EXCEPT ![c].pc = "payload", ![c].gen = active[read[c].dataset]]
  /\ UNCHANGED <<lock, active, store, made, refresher, reader, history>>

ReadPayload(c) ==
  /\ read[c].pc = "payload"
  /\ read' = [read EXCEPT ![c].pc = "again",
                          ![c].found = (store[read[c].gen].state = "stored")]
  /\ UNCHANGED <<lock, active, store, made, refresher, reader, history>>

ReadAgain(c) ==
  /\ read[c].pc = "again"
  /\ IF read[c].found /\ active[read[c].dataset] = read[c].gen
       THEN read' = [read EXCEPT ![c].pc = "done"]
       ELSE NextAttempt(c)
  /\ UNCHANGED <<lock, active, store, made, refresher, reader, history>>

ReadStep == \E c \in Clients : ReadMeta(c) \/ ReadPayload(c) \/ ReadAgain(c)

-----------------------------------------------------------------------------
(* A page: ZnunyAgentCacheReadService::getSnapshot reads the agents, then    *)
(* the queues, and returns the agents if they were built from those queues. *)

Answer(c, agents, queues) ==
  reader' = [reader EXCEPT ![c] = [pc |-> "done", agents |-> agents, queues |-> queues]]

StartReading(c) ==
  /\ reader[c].pc = "done"
  /\ reader' = [reader EXCEPT ![c] = [pc |-> "agents", agents |-> None, queues |-> None]]
  /\ BeginRead(c, "agents")
  /\ UNCHANGED <<lock, active, store, made, refresher, history>>

AgentsRead(c) ==
  /\ reader[c].pc = "agents" /\ read[c].pc = "done"
  /\ IF Returned(c) = None
       THEN Answer(c, None, None) /\ EndRead(c)
       ELSE /\ reader' = [reader EXCEPT ![c].pc = "queues", ![c].agents = Returned(c)]
            /\ BeginRead(c, "queues")
  /\ UNCHANGED <<lock, active, store, made, refresher, history>>

\* Faulty: agents are returned with whatever queues there are.
MatchesAny(c) == Returned(c) # None

Matches(c) ==
  /\ Returned(c) # None
  /\ store[reader[c].agents].queues = Returned(c)

QueuesRead(c) ==
  /\ reader[c].pc = "queues" /\ read[c].pc = "done"
  /\ IF Matches(c) THEN Answer(c, reader[c].agents, Returned(c)) ELSE Answer(c, None, None)
  /\ EndRead(c)
  /\ UNCHANGED <<lock, active, store, made, refresher, history>>

ReaderStep == \E c \in Readers : StartReading(c) \/ AgentsRead(c) \/ QueuesRead(c)

-----------------------------------------------------------------------------
(* PrewarmSnapshotManager::refresh, with the fetchers of the commands. *)

Goto(p, pc) == refresher' = [refresher EXCEPT ![p].pc = pc]

\* A put of the dataset's metadata with the active generation g.
PutMeta(d, g) ==
  /\ active' = [active EXCEPT ![d] = g]
  /\ history' = [together  |-> history.together \cup {<<active'["agents"], active'["queues"]>>},
                 activated |-> IF g = active[d] THEN history.activated
                               ELSE [history.activated EXCEPT ![d] = @ + 1]]

Acquire(p, d) ==
  /\ refresher[p] = NoRefresh /\ lock[d] = Free
  /\ lock' = [lock EXCEPT ![d] = p]
  /\ refresher' = [refresher EXCEPT ![p] = [pc |-> "locked", dataset |-> d, original |-> None,
                                            queues |-> None, temp |-> None]]
  /\ UNCHANGED <<active, store, made, reader, read, history>>

Begin(p) ==
  /\ refresher[p].pc = "locked"
  /\ refresher' = [refresher EXCEPT ![p].pc = "begun", ![p].original = active[refresher[p].dataset]]
  /\ UNCHANGED <<lock, active, store, made, reader, read, history>>

\* The metadata cannot be read: nothing has been written.
BeginFails(p) ==
  /\ refresher[p].pc = "locked"
  /\ Goto(p, "release")
  /\ UNCHANGED <<lock, active, store, made, reader, read, history>>

\* The status "refreshing" is put with all that was read before.
MarkRefreshing(p) ==
  LET d == refresher[p].dataset
  IN /\ refresher[p].pc = "begun"
     /\ PutMeta(d, refresher[p].original)
     /\ IF d = "agents"
          THEN Goto(p, "queues") /\ BeginRead(p, "queues")
          ELSE Goto(p, "fetch") /\ UNCHANGED read
     /\ UNCHANGED <<lock, store, made, reader>>

ReadQueues(p) ==
  /\ refresher[p].pc = "queues" /\ read[p].pc = "done"
  /\ refresher' = IF Returned(p) = None
                    THEN [refresher EXCEPT ![p].pc = "failed"]
                    ELSE [refresher EXCEPT ![p].pc = "fetch", ![p].queues = Returned(p)]
  /\ EndRead(p)
  /\ UNCHANGED <<lock, active, store, made, reader, history>>

\* Znuny answers; what is made of the agents is checked against the queues again.
Fetch(p) ==
  /\ refresher[p].pc = "fetch"
  /\ IF refresher[p].dataset = "agents"
       THEN Goto(p, "recheck") /\ BeginRead(p, "queues")
       ELSE Goto(p, "store") /\ UNCHANGED read
  /\ UNCHANGED <<lock, active, store, made, reader, history>>

\* The fetcher throws: Znuny or the cache does not answer, or the answer is malformed.
FetchFails(p) ==
  /\ refresher[p].pc \in {"queues", "fetch", "recheck"}
  /\ Goto(p, "failed")
  /\ EndRead(p)
  /\ UNCHANGED <<lock, active, store, made, reader, history>>

RecheckQueues(p) ==
  /\ refresher[p].pc = "recheck" /\ read[p].pc = "done"
  /\ Goto(p, IF Returned(p) = refresher[p].queues THEN "store" ELSE "failed")
  /\ EndRead(p)
  /\ UNCHANGED <<lock, active, store, made, reader, history>>

\* Faulty: the old payload makes room for the new one.
StoreInPlace(p) ==
  /\ refresher[p].pc = "store" /\ made < MaxGen
  /\ made' = made + 1
  /\ store' = [g \in Gens |->
                 IF g = made + 1
                 THEN [state |-> "stored", dataset |-> refresher[p].dataset,
                       queues |-> refresher[p].queues]
                 ELSE IF g = refresher[p].original THEN [store[g] EXCEPT !.state = "deleted"]
                 ELSE store[g]]
  /\ refresher' = [refresher EXCEPT ![p].pc = "activate", ![p].temp = made + 1]
  /\ UNCHANGED <<lock, active, reader, read, history>>

StorePayload(p) ==
  /\ refresher[p].pc = "store" /\ made < MaxGen
  /\ made' = made + 1
  /\ store' = [store EXCEPT ![made + 1] = [state |-> "stored", dataset |-> refresher[p].dataset,
                                           queues |-> refresher[p].queues]]
  /\ refresher' = [refresher EXCEPT ![p].pc = "activate", ![p].temp = made + 1]
  /\ UNCHANGED <<lock, active, reader, read, history>>

Activate(p) ==
  /\ refresher[p].pc = "activate"
  /\ PutMeta(refresher[p].dataset, refresher[p].temp)
  /\ Goto(p, "cleanup")
  /\ UNCHANGED <<lock, store, made, reader, read>>

\* A put of metadata or payload fails, without effect.
PutRefused(p) ==
  /\ refresher[p].pc \in {"begun", "store", "activate"}
  /\ Goto(p, "failed")
  /\ UNCHANGED <<lock, active, store, made, reader, read, history>>

\* A delete succeeds or is refused; nobody looks.
Delete(g) ==
  \/ store' = [k \in Gens |-> IF k = g /\ store[k].state = "stored"
                              THEN [store[k] EXCEPT !.state = "deleted"] ELSE store[k]]
  \/ UNCHANGED store

Cleanup(p) ==
  /\ refresher[p].pc = "cleanup"
  /\ Delete(refresher[p].original)
  /\ Goto(p, "release")
  /\ UNCHANGED <<lock, active, made, reader, read, history>>

\* The catch block deletes the key it has written ...
DropTemp(p) ==
  /\ refresher[p].pc = "failed"
  /\ Delete(refresher[p].temp)
  /\ Goto(p, "failMeta")
  /\ UNCHANGED <<lock, active, made, reader, read, history>>

\* ... and puts the metadata it began with, which names the generation of then.
PutFailure(p) ==
  /\ refresher[p].pc = "failMeta"
  /\ \/ PutMeta(refresher[p].dataset, refresher[p].original)
     \/ UNCHANGED <<active, history>>
  /\ Goto(p, "release")
  /\ UNCHANGED <<lock, store, made, reader, read>>

\* Only its owner's token releases a lock.
Release(p) ==
  /\ refresher[p].pc = "release"
  /\ lock' = [d \in Datasets |-> IF lock[d] = p /\ d = refresher[p].dataset THEN Free ELSE lock[d]]
  /\ refresher' = [refresher EXCEPT ![p] = NoRefresh]
  /\ UNCHANGED <<active, store, made, reader, read, history>>

\* The runner's time limit, or anything else, kills the process.
Kill(p) ==
  /\ refresher[p] # NoRefresh
  /\ refresher' = [refresher EXCEPT ![p] = NoRefresh]
  /\ EndRead(p)
  /\ UNCHANGED <<lock, active, store, made, reader, history>>

RefreshStep == \E p \in Refreshers :
  \/ \E d \in Datasets : Acquire(p, d)
  \/ Begin(p) \/ BeginFails(p) \/ MarkRefreshing(p) \/ ReadQueues(p)
  \/ Fetch(p) \/ FetchFails(p) \/ RecheckQueues(p)
  \/ StorePayload(p) \/ Activate(p) \/ PutRefused(p)
  \/ Cleanup(p) \/ DropTemp(p) \/ PutFailure(p) \/ Release(p) \/ Kill(p)

-----------------------------------------------------------------------------
(* Redis forgets what has outlived its lifetime. *)

Holds(p, d) == refresher[p] # NoRefresh /\ refresher[p].dataset = d /\ lock[d] = p

\* Faulty: the lock does not outlive the process.
LockExpiresEarly(d) ==
  /\ lock[d] # Free
  /\ lock' = [lock EXCEPT ![d] = Free]
  /\ UNCHANGED <<active, store, made, refresher, reader, read, history>>

\* The lock lives longer than the runner lets the process live.
LockExpires(d) ==
  /\ lock[d] # Free
  /\ \A p \in Refreshers : ~Holds(p, d)
  /\ lock' = [lock EXCEPT ![d] = Free]
  /\ UNCHANGED <<active, store, made, refresher, reader, read, history>>

PayloadExpires(g) ==
  /\ store[g].state = "stored"
  /\ store' = [store EXCEPT ![g].state = "expired"]
  /\ UNCHANGED <<lock, active, made, refresher, reader, read, history>>

Expiry == \E d \in Datasets : LockExpires(d) \/ \E g \in Gens : PayloadExpires(g)

Next == ReadStep \/ ReaderStep \/ RefreshStep \/ Expiry

Spec == Init /\ [][Next]_vars

-----------------------------------------------------------------------------

\* The active generation is never one that a refresh has deleted or has yet to
\* write: killed, failing and competing refreshes leave readers a payload as long
\* as its lifetime lasts (PrewarmSnapshotManager::refresh).
ActiveIsKept ==
  \A d \in Datasets : active[d] # None => store[active[d]].state \in {"stored", "expired"}

\* A dataset never goes back to an older generation, also when a refresh fails and
\* puts the metadata it began with (PrewarmSnapshotManager::refresh).
GenerationsAdvance == [][\A d \in Datasets : active'[d] >= active[d]]_vars

\* The agents a page gets were built from the queues it is told, and the two were
\* active at the same time, though it reads one after the other while both are
\* refreshed (ZnunyAgentCacheReadService::getSnapshot).
PairWasCurrent ==
  \A c \in Readers :
    reader[c].pc = "done" /\ reader[c].agents # None
      => /\ store[reader[c].agents].queues = reader[c].queues
         /\ <<reader[c].agents, reader[c].queues>> \in history.together

Expired(d) == \E g \in Gens : store[g].dataset = d /\ store[g].state = "expired"

\* A reader whose read overlaps one refresh only is not sent away without a
\* snapshot that was there all the time (PrewarmSnapshotManager::readActiveSnapshot).
OneRefreshIsNoMiss ==
  \A c \in Clients :
    read[c].pc = "done" /\ Returned(c) = None /\ read[c].since > 0
      => \/ history.activated[read[c].dataset] > read[c].since + 1
         \/ Expired(read[c].dataset)
=============================================================================
