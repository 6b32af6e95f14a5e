---------------------- MODULE PrewarmSnapshots_proofs ----------------------
(***************************************************************************)
(* Readers are left a payload, generations never go back and agents come    *)
(* with their queues: inductive invariants of PrewarmSnapshots, for any     *)
(* processes, pages and number of generations.                              *)
(***************************************************************************)
EXTENDS PrewarmSnapshots, TLAPS

Busy(p) == refresher[p] # NoRefresh
Dataset(p) == refresher[p].dataset

\* A refresh in progress owns the lock of its dataset.
Owned == \A p \in Refreshers : Busy(p) => lock[Dataset(p)] = p

\* Until it activates, what a refresh began with is what is active.
StillOriginal ==
  \A p \in Refreshers :
    refresher[p].pc \in {"begun", "queues", "fetch", "recheck", "store", "activate",
                         "failed", "failMeta"}
      => refresher[p].original = active[Dataset(p)]

Kept(g) == store[g].state \in {"stored", "expired"}

\* What is active has been written, for its dataset, and is kept.
ActiveIsStored ==
  \A d \in Datasets :
    /\ active[d] <= made
    /\ active[d] # None => Kept(active[d]) /\ store[active[d]].dataset = d

\* A key written and not yet active is newer than all that is active.
TempOf(p) ==
  /\ refresher[p].pc \in {"locked", "begun", "queues", "fetch", "recheck", "store"}
       => refresher[p].temp = None
  /\ refresher[p].pc \in {"activate", "failed"} /\ refresher[p].temp # None
       => /\ active[Dataset(p)] < refresher[p].temp /\ refresher[p].temp <= made
          /\ store[refresher[p].temp].dataset = Dataset(p)
  /\ refresher[p].pc = "activate"
       => refresher[p].temp # None /\ Kept(refresher[p].temp)

TempIsNewer == \A p \in Refreshers : TempOf(p)

\* What is cleaned up is no longer active.
OldIsRetired ==
  \A p \in Refreshers :
    refresher[p].pc = "cleanup" /\ refresher[p].original # None
      => /\ refresher[p].original < active[Dataset(p)]
         /\ store[refresher[p].original].dataset = Dataset(p)

KeepInv ==
  /\ TypeOK
  /\ Owned
  /\ StillOriginal
  /\ ActiveIsStored
  /\ TempIsNewer
  /\ OldIsRetired

-----------------------------------------------------------------------------
(* Types. *)

USE SnapshotsAssumption

LEMMA Consts ==
  /\ Gens \subseteq Nat /\ Gens \subseteq GenOrNone /\ GenOrNone \subseteq Nat
  /\ None \in GenOrNone /\ None \notin Gens
  /\ \A g \in GenOrNone : g # None => g \in Gens
  /\ Refreshers \subseteq Clients /\ Readers \subseteq Clients
  /\ Datasets = {"queues", "agents"}
BY DEF Gens, GenOrNone, None, Clients, Datasets

\* The fields of a read may be set.
LEMMA ReadFields ==
  ASSUME NEW r \in Read
  PROVE  /\ \A pc \in {"meta", "payload", "again", "done"} : [r EXCEPT !.pc = pc] \in Read
         /\ [r EXCEPT !.attempt = 2] \in Read
         /\ \A g \in GenOrNone : [r EXCEPT !.gen = g] \in Read
         /\ \A b \in BOOLEAN : [r EXCEPT !.found = b] \in Read
BY DEF Read

\* A read's steps keep types.
LEMMA ReadTypes ==
  ASSUME TypeOK, NEW c \in Clients
  PROVE  /\ \A d \in Datasets : BeginRead(c, d) => read' \in [Clients -> Read \cup {NoRead}]
         /\ EndRead(c) => read' \in [Clients -> Read \cup {NoRead}]
         /\ read[c] # NoRead /\ NextAttempt(c) => read' \in [Clients -> Read \cup {NoRead}]
         /\ read[c] # NoRead => Returned(c) \in GenOrNone
<1>1. read \in [Clients -> Read \cup {NoRead}] /\ history.activated \in [Datasets -> Nat]
  BY DEF TypeOK
<1>2. None \in GenOrNone
  BY Consts
<1>3. ASSUME NEW d \in Datasets, BeginRead(c, d) PROVE read' \in [Clients -> Read \cup {NoRead}]
  BY <1>1, <1>2, <1>3 DEF BeginRead, Read
<1>4. read[c] # NoRead => read[c] \in Read
  BY <1>1
<1>5. ASSUME read[c] # NoRead, NextAttempt(c) PROVE read' \in [Clients -> Read \cup {NoRead}]
  <2> DEFINE pc == IF read[c].attempt = 1 THEN "meta" ELSE "done"
             r1 == [read[c] EXCEPT !.pc = pc]
             r2 == [r1 EXCEPT !.attempt = 2]
             r3 == [r2 EXCEPT !.gen = None]
  <2>1. read' = [read EXCEPT ![c] = r3]
    BY <1>5 DEF NextAttempt
  <2>2. pc \in {"meta", "done"}
    OBVIOUS
  <2> HIDE DEF pc
  <2>3. r1 \in Read
    BY <1>4, <1>5, <2>2, ReadFields
  <2> HIDE DEF r1
  <2>4. r2 \in Read
    BY <2>3, ReadFields
  <2> HIDE DEF r2
  <2>5. r3 \in Read
    BY <1>2, <2>4, ReadFields
  <2> HIDE DEF r3
  <2> QED
    BY <1>1, <2>1, <2>5
<1> QED
  BY <1>1, <1>3, <1>4, <1>5 DEF EndRead, Returned, Read

\* A put of metadata keeps types.
LEMMA PutMetaTypes ==
  ASSUME TypeOK, NEW d \in Datasets, NEW g \in GenOrNone, PutMeta(d, g)
  PROVE  /\ active' \in [Datasets -> GenOrNone]
         /\ history' \in [together : SUBSET (GenOrNone \X GenOrNone), activated : [Datasets -> Nat]]
<1>1. active' \in [Datasets -> GenOrNone]
  BY DEF TypeOK, PutMeta
<1>2. active'["agents"] \in GenOrNone /\ active'["queues"] \in GenOrNone
  BY <1>1, Consts
<1> QED
  BY <1>1, <1>2 DEF TypeOK, PutMeta

\* A refresh has a record of its own; its program counter may be set.
LEMMA RefreshTypes ==
  ASSUME TypeOK, NEW p \in Refreshers
  PROVE  /\ Busy(p) <=> refresher[p].pc # "idle"
         /\ Busy(p) => refresher[p] \in Refresh
         /\ \A pc \in {"locked", "begun", "queues", "fetch", "recheck", "store", "activate",
                        "cleanup", "failed", "failMeta", "release"} :
              Busy(p) /\ Goto(p, pc) => refresher' \in [Refreshers -> Refresh \cup {NoRefresh}]
<1>1. refresher \in [Refreshers -> Refresh \cup {NoRefresh}]
  BY DEF TypeOK
<1>2. refresher[p] = NoRefresh \/ refresher[p] \in Refresh
  BY <1>1
<1>3. /\ refresher[p] = NoRefresh => refresher[p].pc = "idle"
      /\ refresher[p] \in Refresh => refresher[p].pc # "idle"
  BY DEF NoRefresh, Refresh
<1> QED
  BY <1>1, <1>2, <1>3 DEF Busy, Goto, Refresh

\* A step of a read keeps types.
LEMMA ReadStepTypes ==
  ASSUME TypeOK, NEW c \in Clients, ReadMeta(c) \/ ReadPayload(c) \/ ReadAgain(c)
  PROVE  TypeOK'
<1>1. read[c] \in Read
  BY DEF TypeOK, ReadMeta, ReadPayload, ReadAgain, NoRead
<1>2. active[read[c].dataset] \in GenOrNone
  BY <1>1 DEF TypeOK, Read
<1>3. read' \in [Clients -> Read \cup {NoRead}]
  <2>a. read \in [Clients -> Read \cup {NoRead}] /\ read[c] # NoRead
    BY DEF TypeOK, ReadMeta, ReadPayload, ReadAgain, NoRead
  <2>b. NextAttempt(c) => read' \in [Clients -> Read \cup {NoRead}]
    BY <2>a, ReadTypes
  <2>1. CASE ReadMeta(c)
    <3>1. ASSUME NEW g \in GenOrNone,
                 read' = [read EXCEPT ![c].pc = "payload", ![c].gen = g]
          PROVE  read' \in [Clients -> Read \cup {NoRead}]
      <4> DEFINE r1 == [read[c] EXCEPT !.pc = "payload"]
                 r2 == [r1 EXCEPT !.gen = g]
      <4>1. read' = [read EXCEPT ![c] = r2]
        BY <3>1
      <4>2. r1 \in Read
        BY <1>1, ReadFields
      <4> HIDE DEF r1
      <4>3. r2 \in Read
        BY <4>2, ReadFields
      <4> HIDE DEF r2
      <4> QED
        BY <2>a, <4>1, <4>3
    <3> QED
      BY <1>2, <2>b, <2>1, <3>1 DEF ReadMeta
  <2>2. CASE ReadPayload(c)
    <3> DEFINE b == store[read[c].gen].state = "stored"
               r1 == [read[c] EXCEPT !.pc = "again"]
               r2 == [r1 EXCEPT !.found = b]
    <3>1. read' = [read EXCEPT ![c] = r2]
      BY <2>2 DEF ReadPayload
    <3>2. r1 \in Read
      BY <1>1, ReadFields
    <3>3. b \in BOOLEAN
      OBVIOUS
    <3> HIDE DEF b, r1
    <3>4. r2 \in Read
      BY <3>2, <3>3, ReadFields
    <3> HIDE DEF r2
    <3> QED
      BY <2>a, <3>1, <3>4
  <2>3. CASE ReadAgain(c)
    <3>1. [read[c] EXCEPT !.pc = "done"] \in Read
      BY <1>1, ReadFields
    <3> QED
      BY <2>a, <2>b, <2>3, <3>1 DEF ReadAgain
  <2> QED
    BY <2>1, <2>2, <2>3
<1> QED
  BY <1>3 DEF TypeOK, ReadMeta, ReadPayload, ReadAgain

\* A step of a page keeps types.
LEMMA ReaderStepTypes ==
  ASSUME TypeOK, NEW c \in Readers, StartReading(c) \/ AgentsRead(c) \/ QueuesRead(c)
  PROVE  TypeOK'
<1>1. c \in Clients /\ "queues" \in Datasets /\ "agents" \in Datasets /\ None \in GenOrNone
  BY Consts
<1>2. read' \in [Clients -> Read \cup {NoRead}]
  BY <1>1, ReadTypes DEF StartReading, AgentsRead, QueuesRead
<1>3. reader \in [Readers -> Reading] /\ (read[c].pc = "done" => Returned(c) \in GenOrNone)
  BY <1>1, ReadTypes DEF TypeOK, NoRead
<1>4. reader' \in [Readers -> Reading]
  <2>1. CASE StartReading(c)
    BY <1>1, <1>3, <2>1 DEF StartReading, Reading
  <2>2. CASE AgentsRead(c)
    BY <1>1, <1>3, <2>2 DEF AgentsRead, Answer, Reading
  <2>3. CASE QueuesRead(c)
    <3>1. reader[c].agents \in GenOrNone
      BY <1>3 DEF Reading
    <3> QED
      BY <1>1, <1>3, <3>1, <2>3 DEF QueuesRead, Answer, Reading
  <2> QED
    BY <2>1, <2>2, <2>3
<1> QED
  BY <1>2, <1>4 DEF TypeOK, StartReading, AgentsRead, QueuesRead

\* Expiry keeps types.
LEMMA ExpiryTypes ==
  ASSUME TypeOK, Expiry
  PROVE  TypeOK'
<1>1. ASSUME NEW d \in Datasets, LockExpires(d) PROVE TypeOK'
  BY <1>1 DEF TypeOK, LockExpires
<1>2. ASSUME NEW g \in Gens, PayloadExpires(g) PROVE TypeOK'
  BY <1>2 DEF TypeOK, PayloadExpires, Payload
<1> QED
  BY <1>1, <1>2 DEF Expiry

\* A step of a refresh keeps types.
LEMMA RefresherStepTypes ==
  ASSUME TypeOK, NEW p \in Refreshers,
         \/ \E d \in Datasets : Acquire(p, d)
         \/ Begin(p) \/ BeginFails(p) \/ MarkRefreshing(p) \/ ReadQueues(p)
         \/ Fetch(p) \/ FetchFails(p) \/ RecheckQueues(p)
         \/ StorePayload(p) \/ Activate(p) \/ PutRefused(p)
         \/ Cleanup(p) \/ DropTemp(p) \/ PutFailure(p) \/ Release(p) \/ Kill(p)
  PROVE  TypeOK'
<1>a. /\ p \in Clients /\ "queues" \in Datasets /\ "agents" \in Datasets /\ None \in GenOrNone
      /\ refresher \in [Refreshers -> Refresh \cup {NoRefresh}]
      /\ (refresher[p] = NoRefresh \/ refresher[p] \in Refresh) /\ NoRefresh.pc = "idle"
  BY Consts DEF TypeOK, NoRefresh
<1>b. refresher[p] \in Refresh =>
        /\ Dataset(p) \in Datasets
        /\ refresher[p].original \in GenOrNone
        /\ refresher[p].queues \in GenOrNone
        /\ refresher[p].temp \in GenOrNone
  BY DEF Refresh, Dataset
<1>c. /\ read[p].pc = "done" => Returned(p) \in GenOrNone
      /\ EndRead(p) => read' \in [Clients -> Read \cup {NoRead}]
      /\ BeginRead(p, "queues") => read' \in [Clients -> Read \cup {NoRead}]
  BY <1>a, ReadTypes DEF NoRead
<1>1. ASSUME NEW d \in Datasets, Acquire(p, d) PROVE TypeOK'
  BY <1>a, <1>1 DEF TypeOK, Acquire, Refresh
<1>2. CASE Begin(p)
  <2>1. refresher[p] \in Refresh /\ active[Dataset(p)] \in GenOrNone
    BY <1>a, <1>b, <1>2 DEF Begin, TypeOK
  <2>2. refresher' \in [Refreshers -> Refresh \cup {NoRefresh}]
    BY <1>a, <1>2, <2>1 DEF Begin, Refresh, Dataset
  <2> QED
    BY <1>2, <2>2 DEF TypeOK, Begin
<1>3. CASE BeginFails(p) \/ FetchFails(p) \/ PutRefused(p)
  <2>1. refresher' \in [Refreshers -> Refresh \cup {NoRefresh}]
    BY <1>a, <1>3, RefreshTypes DEF BeginFails, FetchFails, PutRefused, Busy
  <2> QED
    BY <1>c, <1>3, <2>1 DEF TypeOK, BeginFails, FetchFails, PutRefused
<1>4. CASE MarkRefreshing(p)
  <2>1. refresher[p] \in Refresh /\ Busy(p)
    BY <1>a, <1>4 DEF MarkRefreshing, Busy
  <2>2. refresher' \in [Refreshers -> Refresh \cup {NoRefresh}]
    BY <2>1, <1>4, RefreshTypes DEF MarkRefreshing
  <2>3. read' \in [Clients -> Read \cup {NoRead}]
    BY <1>c, <1>4 DEF MarkRefreshing, TypeOK
  <2>4. PutMeta(Dataset(p), refresher[p].original)
    BY <1>4 DEF MarkRefreshing, Dataset
  <2>5. /\ active' \in [Datasets -> GenOrNone]
        /\ history' \in [together : SUBSET (GenOrNone \X GenOrNone), activated : [Datasets -> Nat]]
    BY <1>b, <2>1, <2>4, PutMetaTypes
  <2> QED
    BY <1>4, <2>2, <2>3, <2>5 DEF TypeOK, MarkRefreshing
<1>5. CASE ReadQueues(p)
  <2>1. refresher[p] \in Refresh
    BY <1>a, <1>5 DEF ReadQueues
  <2>2. refresher' \in [Refreshers -> Refresh \cup {NoRefresh}]
    BY <1>a, <1>c, <1>5, <2>1 DEF ReadQueues, Refresh
  <2> QED
    BY <1>c, <1>5, <2>2 DEF TypeOK, ReadQueues
<1>6. CASE Fetch(p)
  <2>1. refresher' \in [Refreshers -> Refresh \cup {NoRefresh}]
    BY <1>a, <1>6, RefreshTypes DEF Fetch, Busy
  <2>2. read' \in [Clients -> Read \cup {NoRead}]
    BY <1>c, <1>6 DEF Fetch, TypeOK
  <2> QED
    BY <1>6, <2>1, <2>2 DEF TypeOK, Fetch
<1>7. CASE RecheckQueues(p)
  <2>1. refresher' \in [Refreshers -> Refresh \cup {NoRefresh}]
    BY <1>a, <1>7, RefreshTypes DEF RecheckQueues, Busy
  <2> QED
    BY <1>c, <1>7, <2>1 DEF TypeOK, RecheckQueues
<1>8. CASE StorePayload(p)
  <2>1. refresher[p] \in Refresh /\ made + 1 \in Gens /\ made + 1 \in 0..MaxGen
    BY <1>a, <1>8 DEF StorePayload, TypeOK, Gens
  <2>2. refresher' \in [Refreshers -> Refresh \cup {NoRefresh}]
    BY <1>a, <1>8, <2>1, Consts DEF StorePayload, Refresh
  <2>3. store' \in [Gens -> Payload]
    BY <1>b, <1>8, <2>1 DEF StorePayload, Payload, TypeOK, Dataset
  <2> QED
    BY <1>8, <2>1, <2>2, <2>3 DEF TypeOK, StorePayload
<1>9. CASE Activate(p)
  <2>1. refresher[p] \in Refresh /\ Busy(p)
    BY <1>a, <1>9 DEF Activate, Busy
  <2>2. refresher' \in [Refreshers -> Refresh \cup {NoRefresh}]
    BY <2>1, <1>9, RefreshTypes DEF Activate
  <2>4. PutMeta(Dataset(p), refresher[p].temp)
    BY <1>9 DEF Activate, Dataset
  <2>5. /\ active' \in [Datasets -> GenOrNone]
        /\ history' \in [together : SUBSET (GenOrNone \X GenOrNone), activated : [Datasets -> Nat]]
    BY <1>b, <2>1, <2>4, PutMetaTypes
  <2> QED
    BY <1>9, <2>2, <2>5 DEF TypeOK, Activate
<1>10. CASE Cleanup(p) \/ DropTemp(p)
  <2>1. refresher' \in [Refreshers -> Refresh \cup {NoRefresh}]
    BY <1>a, <1>10, RefreshTypes DEF Cleanup, DropTemp, Busy
  <2>2. ASSUME NEW g, Delete(g) PROVE store' \in [Gens -> Payload]
    BY <2>2 DEF Delete, TypeOK, Payload
  <2> QED
    BY <1>10, <2>1, <2>2 DEF TypeOK, Cleanup, DropTemp
<1>11. CASE PutFailure(p)
  <2>1. refresher[p] \in Refresh /\ Busy(p)
    BY <1>a, <1>11 DEF PutFailure, Busy
  <2>2. refresher' \in [Refreshers -> Refresh \cup {NoRefresh}]
    BY <2>1, <1>11, RefreshTypes DEF PutFailure
  <2>3. PutMeta(Dataset(p), refresher[p].original) \/ UNCHANGED <<active, history>>
    BY <1>11 DEF PutFailure, Dataset
  <2>4. /\ active' \in [Datasets -> GenOrNone]
        /\ history' \in [together : SUBSET (GenOrNone \X GenOrNone), activated : [Datasets -> Nat]]
    BY <1>b, <2>1, <2>3, PutMetaTypes DEF TypeOK
  <2> QED
    BY <1>11, <2>2, <2>4 DEF TypeOK, PutFailure
<1>12. CASE Release(p)
  BY <1>a, <1>12 DEF TypeOK, Release
<1>13. CASE Kill(p)
  BY <1>a, <1>c, <1>13 DEF TypeOK, Kill
<1> QED
  BY <1>1, <1>2, <1>3, <1>4, <1>5, <1>6, <1>7, <1>8, <1>9, <1>10, <1>11, <1>12, <1>13

LEMMA NextTypes == TypeOK /\ [Next]_vars => TypeOK'
<1> SUFFICES ASSUME TypeOK, [Next]_vars PROVE TypeOK'
  OBVIOUS
<1>1. CASE ReadStep
  BY <1>1, ReadStepTypes DEF ReadStep
<1>2. CASE ReaderStep
  BY <1>2, ReaderStepTypes DEF ReaderStep
<1>3. CASE RefreshStep
  BY <1>3, RefresherStepTypes DEF RefreshStep
<1>4. CASE Expiry
  BY <1>4, ExpiryTypes
<1>5. CASE UNCHANGED vars
  BY <1>5 DEF TypeOK, vars
<1> QED
  BY <1>1, <1>2, <1>3, <1>4, <1>5 DEF Next

LEMMA InitTypes == Init => TypeOK
<1> SUFFICES ASSUME Init PROVE TypeOK
  OBVIOUS
<1>1. history \in [together : SUBSET (GenOrNone \X GenOrNone), activated : [Datasets -> Nat]]
  BY Consts DEF Init
<1>2. store \in [Gens -> Payload] /\ reader \in [Readers -> Reading]
  BY Consts DEF Init, Payload, Reading, Datasets
<1> QED
  BY <1>1, <1>2, Consts DEF Init, TypeOK

-----------------------------------------------------------------------------
(* What is active is kept. *)

\* Facts used throughout: who is busy with a dataset is alone with it.
LEMMA KeepFacts ==
  ASSUME KeepInv
  PROVE  /\ \A p \in Refreshers : Busy(p) <=> refresher[p].pc # "idle"
         /\ \A p \in Refreshers : Busy(p) => refresher[p] \in Refresh /\ Dataset(p) \in Datasets
         /\ \A p, q \in Refreshers : Busy(p) /\ Busy(q) /\ Dataset(p) = Dataset(q) => p = q
         /\ made \in Nat
         /\ \A d \in Datasets : active[d] \in Nat /\ active[d] \in GenOrNone
<1>1. \A p \in Refreshers : Busy(p) <=> refresher[p].pc # "idle"
  BY RefreshTypes DEF KeepInv
<1>2. \A p \in Refreshers : Busy(p) => refresher[p] \in Refresh /\ Dataset(p) \in Datasets
  BY RefreshTypes DEF KeepInv, Dataset, Refresh
<1>3. \A p, q \in Refreshers : Busy(p) /\ Busy(q) /\ Dataset(p) = Dataset(q) => p = q
  BY DEF KeepInv, Owned
<1>4. made \in Nat /\ active \in [Datasets -> GenOrNone] /\ GenOrNone \subseteq Nat
  BY Consts DEF KeepInv, TypeOK
<1> QED
  BY <1>1, <1>2, <1>3, <1>4

\* A step of a refresh that changes of its record at most the queues and where it is.
Moves(p, pc) ==
  /\ refresher'[p].pc = pc /\ refresher'[p].dataset = refresher[p].dataset
  /\ refresher'[p].original = refresher[p].original
  /\ refresher'[p].temp = refresher[p].temp
  /\ \A q \in Refreshers : q # p => refresher'[q] = refresher[q]

LEMMA GotoMoves ==
  ASSUME KeepInv, NEW p \in Refreshers, Busy(p), NEW pc, Goto(p, pc)
  PROVE  Moves(p, pc)
<1>1. refresher[p] \in Refresh /\ refresher \in [Refreshers -> Refresh \cup {NoRefresh}]
  BY KeepFacts DEF KeepInv, TypeOK
<1>2. /\ refresher'[p] = [refresher[p] EXCEPT !.pc = pc]
      /\ \A q \in Refreshers : q # p => refresher'[q] = refresher[q]
  BY <1>1 DEF Goto
<1> QED
  BY <1>1, <1>2 DEF Moves, Refresh

\* Steps that move neither keys nor the lock, and steps that put back what is there.
LEMMA KeepQuiet ==
  ASSUME KeepInv, NEW p \in Refreshers, Busy(p),
         NEW pc \in {"queues", "fetch", "recheck", "store", "failed", "failMeta", "release"},
         UNCHANGED <<lock, store, made, active>>,
         Moves(p, pc),
         pc = "failed" => refresher[p].pc \in {"begun", "queues", "fetch", "recheck", "store", "activate", "failed"},
         pc = "failMeta" => refresher[p].pc = "failed",
         pc \in {"queues", "fetch", "recheck", "store"} =>
           refresher[p].pc \in {"begun", "queues", "fetch", "recheck", "store"}
  PROVE  Owned' /\ StillOriginal' /\ ActiveIsStored' /\ TempIsNewer' /\ OldIsRetired'
<1>2. \A q \in Refreshers : q # p => refresher'[q] = refresher[q]
  BY DEF Moves
<1>3. /\ refresher'[p].pc = pc /\ refresher'[p].dataset = refresher[p].dataset
      /\ refresher'[p].original = refresher[p].original
      /\ refresher'[p].temp = refresher[p].temp
  BY DEF Moves
<1>4. Owned'
  <2>1. ASSUME NEW q \in Refreshers, Busy(q)' PROVE (lock[Dataset(q)] = q)'
    <3>1. CASE q = p
      BY <1>3, <3>1 DEF KeepInv, Owned, Dataset
    <3>2. CASE q # p
      BY <1>2, <2>1, <3>2 DEF KeepInv, Owned, Busy, Dataset
    <3> QED
      BY <3>1, <3>2
  <2> QED
    BY <2>1 DEF Owned
<1>5. StillOriginal'
  <2>1. ASSUME NEW q \in Refreshers, refresher'[q].pc \in {"begun", "queues", "fetch", "recheck", "store", "activate",
                         "failed", "failMeta"}
        PROVE  refresher'[q].original = active'[refresher'[q].dataset]
    <3>1. CASE q = p
      BY <1>3, <2>1, <3>1 DEF KeepInv, StillOriginal, Dataset
    <3>2. CASE q # p
      BY <1>2, <2>1, <3>2 DEF KeepInv, StillOriginal, Dataset
    <3> QED
      BY <3>1, <3>2
  <2> QED
    BY <2>1 DEF StillOriginal, Dataset
<1>6. TempIsNewer'
  <2>1. ASSUME NEW q \in Refreshers PROVE TempOf(q)'
    <3>1. CASE q = p
      BY <1>3, <3>1 DEF KeepInv, TempIsNewer, TempOf, Dataset, Kept
    <3>2. CASE q # p
      BY <1>2, <3>2 DEF KeepInv, TempIsNewer, TempOf, Dataset, Kept
    <3> QED
      BY <3>1, <3>2
  <2> QED
    BY <2>1 DEF TempIsNewer
<1>7. ActiveIsStored'
  BY DEF KeepInv, ActiveIsStored, Kept
<1>8. OldIsRetired'
  BY <1>2, <1>3 DEF KeepInv, OldIsRetired, Dataset
<1> QED
  BY <1>4, <1>5, <1>6, <1>7, <1>8

LEMMA KeepAcquire ==
  ASSUME KeepInv, NEW p \in Refreshers, NEW d \in Datasets, Acquire(p, d)
  PROVE  Owned' /\ StillOriginal' /\ ActiveIsStored' /\ TempIsNewer' /\ OldIsRetired'
<1>1. /\ refresher'[p] = [pc |-> "locked", dataset |-> d, original |-> None,
                          queues |-> None, temp |-> None]
      /\ \A q \in Refreshers \ {p} : refresher'[q] = refresher[q]
      /\ \A q \in Refreshers \ {p} : Busy(q) => Dataset(q) # d
  BY DEF Acquire, KeepInv, TypeOK, Owned
<1>2. Owned'
  BY <1>1 DEF Acquire, KeepInv, TypeOK, Owned, Busy, Dataset
<1>3. StillOriginal' /\ TempIsNewer'
  BY <1>1 DEF Acquire, KeepInv, StillOriginal, TempIsNewer, TempOf, Dataset, Kept
<1>4. ActiveIsStored' /\ OldIsRetired'
  BY <1>1 DEF Acquire, KeepInv, ActiveIsStored, OldIsRetired, Dataset, Kept
<1> QED
  BY <1>2, <1>3, <1>4

\* A refresh that ends frees at most its own lock.
LEMMA KeepEnd ==
  ASSUME KeepInv, NEW p \in Refreshers, Release(p) \/ Kill(p)
  PROVE  Owned' /\ StillOriginal' /\ ActiveIsStored' /\ TempIsNewer' /\ OldIsRetired'
<1>1. /\ refresher'[p] = NoRefresh
      /\ \A q \in Refreshers \ {p} : refresher'[q] = refresher[q]
      /\ \A d \in Datasets : lock'[d] = IF Release(p) /\ lock[d] = p /\ d = Dataset(p) THEN Free ELSE lock[d]
  BY DEF Release, Kill, KeepInv, TypeOK, Dataset
<1>2. Owned'
  <2> SUFFICES ASSUME NEW q \in Refreshers \ {p}, Busy(q) PROVE lock'[Dataset(q)] = q
    BY <1>1 DEF Owned, Busy, Dataset
  <2>1. lock[Dataset(q)] = q /\ Dataset(q) \in Datasets
    BY KeepFacts DEF KeepInv, Owned
  <2> QED
    BY <1>1, <2>1
<1>3. StillOriginal' /\ TempIsNewer'
  BY <1>1 DEF Release, Kill, KeepInv, StillOriginal, TempIsNewer, TempOf, Dataset, Kept, NoRefresh
<1>4. ActiveIsStored' /\ OldIsRetired'
  BY <1>1 DEF Release, Kill, KeepInv, ActiveIsStored, OldIsRetired, Dataset, Kept, NoRefresh
<1> QED
  BY <1>2, <1>3, <1>4

LEMMA KeepBegin ==
  ASSUME KeepInv, NEW p \in Refreshers, Begin(p)
  PROVE  Owned' /\ StillOriginal' /\ ActiveIsStored' /\ TempIsNewer' /\ OldIsRetired'
<1>1. Busy(p) /\ refresher[p] \in Refresh /\ refresher \in [Refreshers -> Refresh \cup {NoRefresh}]
  BY KeepFacts DEF Begin, KeepInv, TypeOK
<1>2. /\ refresher'[p].pc = "begun" /\ refresher'[p].dataset = refresher[p].dataset
      /\ refresher'[p].original = active[refresher[p].dataset]
      /\ refresher'[p].temp = refresher[p].temp
      /\ \A q \in Refreshers : q # p => refresher'[q] = refresher[q]
  BY <1>1 DEF Begin, Refresh
<1>3. Owned'
  <2>1. ASSUME NEW q \in Refreshers, Busy(q)' PROVE (lock[Dataset(q)] = q)'
    <3>1. CASE q = p
      BY <1>1, <1>2, <3>1 DEF KeepInv, Owned, Dataset, Begin
    <3>2. CASE q # p
      BY <1>2, <2>1, <3>2 DEF KeepInv, Owned, Busy, Dataset, Begin
    <3> QED
      BY <3>1, <3>2
  <2> QED
    BY <2>1 DEF Owned
<1>4. StillOriginal'
  BY <1>2 DEF KeepInv, StillOriginal, Dataset, Begin
<1>5. TempIsNewer'
  <2>1. UNCHANGED <<active, store, made>>
    BY DEF Begin
  <2>2. ASSUME NEW q \in Refreshers PROVE TempOf(q)'
    <3>1. CASE q = p
      <4>1. refresher[p].temp = None
        BY DEF Begin, KeepInv, TempIsNewer, TempOf
      <4> QED
        BY <1>2, <3>1, <4>1 DEF TempOf
    <3>2. CASE q # p
      BY <1>2, <2>1, <3>2 DEF KeepInv, TempIsNewer, TempOf, Dataset, Kept
    <3> QED
      BY <3>1, <3>2
  <2> QED
    BY <2>2 DEF TempIsNewer
<1>6. ActiveIsStored'
  BY DEF KeepInv, ActiveIsStored, Kept, Begin
<1>7. OldIsRetired'
  <2>1. UNCHANGED <<active, store>>
    BY DEF Begin
  <2>2. ASSUME NEW q \in Refreshers, refresher'[q].pc = "cleanup" PROVE refresher'[q] = refresher[q]
    BY <1>2, <2>2
  <2> QED
    BY <2>1, <2>2 DEF KeepInv, OldIsRetired, Dataset
<1> QED
  BY <1>3, <1>4, <1>5, <1>6, <1>7

\* Putting the metadata a refresh began with puts back what is there.
LEMMA PutOriginal ==
  ASSUME KeepInv, NEW p \in Refreshers, refresher[p].pc \in {"begun", "failMeta"},
         PutMeta(Dataset(p), refresher[p].original)
  PROVE  active' = active
<1>1. Busy(p) /\ Dataset(p) \in Datasets /\ active \in [Datasets -> GenOrNone]
  BY KeepFacts DEF KeepInv, TypeOK
<1>2. refresher[p].original = active[Dataset(p)]
  BY DEF KeepInv, StillOriginal
<1> QED
  BY <1>1, <1>2 DEF PutMeta

\* All steps of a refresh that move nothing.
LEMMA KeepMoves ==
  ASSUME KeepInv, NEW p \in Refreshers,
         \/ BeginFails(p) \/ MarkRefreshing(p) \/ ReadQueues(p) \/ Fetch(p) \/ FetchFails(p)
         \/ RecheckQueues(p) \/ PutRefused(p) \/ PutFailure(p)
  PROVE  Owned' /\ StillOriginal' /\ ActiveIsStored' /\ TempIsNewer' /\ OldIsRetired'
<1>1. Busy(p) /\ refresher[p] \in Refresh /\ refresher \in [Refreshers -> Refresh \cup {NoRefresh}]
  BY KeepFacts DEF KeepInv, TypeOK, BeginFails, MarkRefreshing, ReadQueues, Fetch, FetchFails,
                   RecheckQueues, PutRefused, PutFailure
<1>2. CASE BeginFails(p)
  BY <1>1, <1>2, GotoMoves, KeepQuiet DEF BeginFails
<1>3. CASE MarkRefreshing(p)
  <2>1. active' = active
    BY <1>3, PutOriginal DEF MarkRefreshing, Dataset
  <2> QED
    BY <1>1, <1>3, <2>1, GotoMoves, KeepQuiet DEF MarkRefreshing
<1>4. CASE ReadQueues(p)
  <2>1. Moves(p, "failed") \/ Moves(p, "fetch")
    BY <1>1, <1>4 DEF ReadQueues, Moves, Refresh
  <2> QED
    BY <1>1, <1>4, <2>1, KeepQuiet DEF ReadQueues
<1>5. CASE Fetch(p) \/ FetchFails(p)
  BY <1>1, <1>5, GotoMoves, KeepQuiet DEF Fetch, FetchFails
<1>6. CASE RecheckQueues(p)
  BY <1>1, <1>6, GotoMoves, KeepQuiet DEF RecheckQueues
<1>7. CASE PutRefused(p)
  BY <1>1, <1>7, GotoMoves, KeepQuiet DEF PutRefused
<1>8. CASE PutFailure(p)
  <2>1. active' = active
    BY <1>8, PutOriginal DEF PutFailure, Dataset
  <2> QED
    BY <1>1, <1>8, <2>1, GotoMoves, KeepQuiet DEF PutFailure
<1> QED
  BY <1>2, <1>3, <1>4, <1>5, <1>6, <1>7, <1>8

\* Payloads change by expiring, and g by being deleted.
OnlyLoses(g) ==
  \A k \in Gens :
    /\ store'[k].dataset = store[k].dataset /\ store'[k].queues = store[k].queues
    /\ k # g /\ Kept(k) => Kept(k)'

LEMMA DeleteLoses ==
  ASSUME KeepInv, NEW g, Delete(g)
  PROVE  OnlyLoses(g)
<1>1. store \in [Gens -> Payload]
  BY DEF KeepInv, TypeOK
<1> QED
  BY <1>1 DEF Delete, OnlyLoses, Kept, Payload

LEMMA KeepStore ==
  ASSUME KeepInv, NEW p \in Refreshers, StorePayload(p)
  PROVE  Owned' /\ StillOriginal' /\ ActiveIsStored' /\ TempIsNewer' /\ OldIsRetired'
<1>1. /\ Busy(p) /\ refresher[p] \in Refresh /\ refresher \in [Refreshers -> Refresh \cup {NoRefresh}]
      /\ Dataset(p) \in Datasets /\ made \in Nat /\ made + 1 \in Gens /\ store \in [Gens -> Payload]
  BY KeepFacts DEF KeepInv, TypeOK, StorePayload, Gens
<1>2. /\ refresher'[p].pc = "activate" /\ refresher'[p].dataset = refresher[p].dataset
      /\ refresher'[p].original = refresher[p].original
      /\ refresher'[p].temp = made + 1
      /\ \A q \in Refreshers : q # p => refresher'[q] = refresher[q]
  BY <1>1 DEF StorePayload, Refresh
<1>3. /\ store'[made + 1].state = "stored" /\ store'[made + 1].dataset = Dataset(p)
      /\ \A g \in Gens : g # made + 1 => store'[g] = store[g]
  BY <1>1 DEF StorePayload, Dataset
<1>4. Owned'
  <2>1. ASSUME NEW q \in Refreshers, Busy(q)' PROVE (lock[Dataset(q)] = q)'
    <3>1. CASE q = p
      BY <1>1, <1>2, <3>1 DEF KeepInv, Owned, Dataset, StorePayload
    <3>2. CASE q # p
      BY <1>2, <2>1, <3>2 DEF KeepInv, Owned, Busy, Dataset, StorePayload
    <3> QED
      BY <3>1, <3>2
  <2> QED
    BY <2>1 DEF Owned
<1>5. StillOriginal'
  <2>1. UNCHANGED active /\ refresher[p].pc = "store"
    BY DEF StorePayload
  <2>2. refresher[p].original = active[Dataset(p)]
    BY <2>1 DEF KeepInv, StillOriginal
  <2>3. ASSUME NEW q \in Refreshers, q # p PROVE refresher'[q] = refresher[q]
    BY <1>2, <2>3
  <2> QED
    BY <1>2, <2>1, <2>2, <2>3 DEF KeepInv, StillOriginal, Dataset
<1>6. ActiveIsStored'
  <2>1. ASSUME NEW d \in Datasets
        PROVE  /\ active'[d] <= made'
               /\ active'[d] # None => (Kept(active[d]) /\ store[active[d]].dataset = d)'
    <3>1. /\ active[d] \in Nat /\ active[d] \in GenOrNone /\ active[d] <= made
          /\ active[d] # None => Kept(active[d]) /\ store[active[d]].dataset = d
      BY KeepFacts DEF KeepInv, ActiveIsStored
    <3>2. active' = active /\ made' = made + 1 /\ active[d] # made + 1
      BY <1>1, <3>1 DEF StorePayload
    <3>3. active[d] # None => store'[active[d]] = store[active[d]]
      BY <1>3, <3>1, <3>2, Consts
    <3> QED
      BY <1>1, <3>1, <3>2, <3>3 DEF Kept
  <2> QED
    BY <2>1 DEF ActiveIsStored
<1>7. TempIsNewer'
  <2>1. ASSUME NEW q \in Refreshers PROVE TempOf(q)'
    <3>1. CASE q = p
      <4>1. active[Dataset(p)] \in Nat /\ active[Dataset(p)] <= made
        BY <1>1, KeepFacts DEF KeepInv, ActiveIsStored
      <4>2. active' = active /\ made' = made + 1 /\ made + 1 # None
        BY <1>1 DEF StorePayload, None
      <4> QED
        BY <1>1, <1>2, <1>3, <3>1, <4>1, <4>2 DEF TempOf, Dataset, Kept
    <3>2. CASE q # p /\ ~Busy(q)
      BY <1>2, <3>2, KeepFacts DEF TempOf
    <3>3. CASE q # p /\ Busy(q)
      <4>1. refresher[q].temp \in GenOrNone /\ TempOf(q) /\ refresher'[q] = refresher[q]
        BY <1>2, <3>3, KeepFacts DEF KeepInv, TempIsNewer, Refresh
      <4>2. active' = active /\ made' = made + 1
        BY DEF StorePayload
      <4>3. CASE refresher[q].temp = None
        BY <4>1, <4>3 DEF TempOf
      <4>4. CASE refresher[q].temp # None /\ refresher[q].temp <= made
        <5>1. store'[refresher[q].temp] = store[refresher[q].temp] /\ refresher[q].temp <= made + 1
          BY <1>1, <1>3, <4>1, <4>4, Consts
        <5> QED
          BY <4>1, <4>2, <5>1 DEF TempOf, Dataset, Kept
      <4>5. CASE refresher[q].temp # None /\ ~(refresher[q].temp <= made)
        BY <4>1, <4>5 DEF TempOf
      <4> QED
        BY <4>3, <4>4, <4>5
    <3> QED
      BY <3>1, <3>2, <3>3
  <2> QED
    BY <2>1 DEF TempIsNewer
<1>8. OldIsRetired'
  <2>1. ASSUME NEW q \in Refreshers, refresher'[q].pc = "cleanup", refresher'[q].original # None
        PROVE  /\ refresher'[q].original < active'[refresher'[q].dataset]
               /\ store'[refresher'[q].original].dataset = refresher'[q].dataset
    <3>1. q # p /\ Busy(q) /\ refresher'[q] = refresher[q]
      BY <1>2, <2>1, KeepFacts
    <3>2. /\ refresher[q].original \in Gens /\ Dataset(q) \in Datasets
          /\ refresher[q].original < active[Dataset(q)]
          /\ store[refresher[q].original].dataset = Dataset(q)
      BY <2>1, <3>1, KeepFacts, Consts DEF KeepInv, OldIsRetired, Refresh
    <3>3. refresher[q].original # made + 1
      BY <1>1, <3>2, KeepFacts, Consts DEF KeepInv, ActiveIsStored
    <3> QED
      BY <1>3, <3>1, <3>2, <3>3 DEF StorePayload, Dataset
  <2> QED
    BY <2>1 DEF OldIsRetired, Dataset
<1> QED
  BY <1>4, <1>5, <1>6, <1>7, <1>8

\* The moment of activation: alone with its dataset, a refresh moves it on.
LEMMA ActivateFacts ==
  ASSUME KeepInv, NEW p \in Refreshers, Activate(p)
  PROVE  /\ Busy(p) /\ Dataset(p) \in Datasets
         /\ refresher[p].original = active[Dataset(p)]
         /\ active[Dataset(p)] < refresher[p].temp /\ refresher[p].temp <= made
         /\ refresher[p].temp \in Gens /\ Kept(refresher[p].temp)
         /\ store[refresher[p].temp].dataset = Dataset(p)
         /\ active'[Dataset(p)] = refresher[p].temp
         /\ \A d \in Datasets : d # Dataset(p) => active'[d] = active[d]
         /\ \A q \in Refreshers : q # p /\ Busy(q) => Dataset(q) # Dataset(p)
<1>1. Busy(p) /\ Dataset(p) \in Datasets /\ active \in [Datasets -> GenOrNone] /\ refresher[p].pc = "activate"
  BY KeepFacts DEF KeepInv, TypeOK, Activate
<1>2. TempOf(p) /\ refresher[p].original = active[Dataset(p)]
  BY <1>1 DEF KeepInv, TempIsNewer, StillOriginal
<1>3. refresher[p].temp \in GenOrNone
  BY <1>1, KeepFacts DEF Refresh
<1>4. /\ active'[Dataset(p)] = refresher[p].temp
      /\ \A d \in Datasets : d # Dataset(p) => active'[d] = active[d]
  BY <1>1 DEF Activate, PutMeta, Dataset
<1>5. \A q \in Refreshers : q # p /\ Busy(q) => Dataset(q) # Dataset(p)
  BY <1>1, KeepFacts
<1>6. /\ active[Dataset(p)] < refresher[p].temp /\ refresher[p].temp <= made
      /\ refresher[p].temp # None /\ Kept(refresher[p].temp)
      /\ store[refresher[p].temp].dataset = Dataset(p)
  BY <1>1, <1>2 DEF TempOf
<1> QED
  BY <1>1, <1>2, <1>3, <1>4, <1>5, <1>6, Consts

LEMMA KeepActivate ==
  ASSUME KeepInv, NEW p \in Refreshers, Activate(p)
  PROVE  Owned' /\ StillOriginal' /\ ActiveIsStored' /\ TempIsNewer' /\ OldIsRetired'
<1> DEFINE d == Dataset(p)
<1>a. /\ Busy(p) /\ d \in Datasets /\ refresher[p].original = active[d]
      /\ active[d] < refresher[p].temp /\ refresher[p].temp <= made
      /\ refresher[p].temp \in Gens /\ Kept(refresher[p].temp)
      /\ store[refresher[p].temp].dataset = d /\ active'[d] = refresher[p].temp
      /\ \A e \in Datasets : e # d => active'[e] = active[e]
      /\ \A q \in Refreshers : q # p /\ Busy(q) => Dataset(q) # d
  BY ActivateFacts
<1>b. Moves(p, "cleanup") /\ UNCHANGED <<lock, store, made>>
  BY <1>a, GotoMoves DEF Activate
<1>1. /\ refresher'[p].pc = "cleanup" /\ refresher'[p].dataset = d
      /\ refresher'[p].original = active[d]
      /\ \A q \in Refreshers : q # p => refresher'[q] = refresher[q]
  BY <1>a, <1>b DEF Moves, Dataset
<1>2. Owned'
  <2>1. ASSUME NEW q \in Refreshers, Busy(q)' PROVE (lock[Dataset(q)] = q)'
    <3>1. CASE q = p
      BY <1>a, <1>b, <1>1, <3>1 DEF KeepInv, Owned, Dataset
    <3>2. CASE q # p
      BY <1>b, <1>1, <2>1, <3>2 DEF KeepInv, Owned, Busy, Dataset
    <3> QED
      BY <3>1, <3>2
  <2> QED
    BY <2>1 DEF Owned
<1>3. \A q \in Refreshers : q # p /\ Busy(q) =>
        refresher'[q] = refresher[q] /\ Dataset(q) \in Datasets /\ active'[Dataset(q)] = active[Dataset(q)]
  BY <1>a, <1>1, KeepFacts
<1> HIDE DEF d
<1>4. StillOriginal'
  <2>1. ASSUME NEW q \in Refreshers, refresher'[q].pc \in {"begun", "queues", "fetch", "recheck", "store", "activate",
                         "failed", "failMeta"}
        PROVE  refresher'[q].original = active'[refresher'[q].dataset]
    <3>1. q # p /\ Busy(q)
      BY <1>1, <2>1, KeepFacts
    <3> QED
      BY <1>3, <2>1, <3>1 DEF KeepInv, StillOriginal, Dataset
  <2> QED
    BY <2>1 DEF StillOriginal, Dataset
<1>5. ActiveIsStored'
  <2>1. ASSUME NEW e \in Datasets
        PROVE  /\ active'[e] <= made
               /\ active'[e] # None => store'[active'[e]].state \in {"stored", "expired"} /\ store'[active'[e]].dataset = e
    BY <1>a, <1>b DEF KeepInv, ActiveIsStored, Kept
  <2> QED
    BY <1>b, <2>1 DEF ActiveIsStored, Kept
<1>6. TempIsNewer'
  <2>1. ASSUME NEW q \in Refreshers PROVE TempOf(q)'
    <3>1. CASE q = p
      BY <1>1, <3>1 DEF TempOf
    <3>2. CASE q # p /\ ~Busy(q)
      BY <1>1, <3>2, KeepFacts DEF TempOf
    <3>3. CASE q # p /\ Busy(q)
      BY <1>3, <1>b, <3>3 DEF KeepInv, TempIsNewer, TempOf, Dataset, Kept
    <3> QED
      BY <3>1, <3>2, <3>3
  <2> QED
    BY <2>1 DEF TempIsNewer
<1>7. OldIsRetired'
  <2>1. ASSUME NEW q \in Refreshers, refresher'[q].pc = "cleanup", refresher'[q].original # None
        PROVE  /\ refresher'[q].original < active'[refresher'[q].dataset]
               /\ store'[refresher'[q].original].dataset = refresher'[q].dataset
    <3>1. CASE q = p
      BY <1>a, <1>b, <1>1, <2>1, <3>1 DEF KeepInv, ActiveIsStored
    <3>2. CASE q # p
      <4>1. Busy(q) /\ refresher'[q] = refresher[q]
        BY <1>1, <2>1, <3>2, KeepFacts
      <4> QED
        BY <1>3, <1>b, <2>1, <3>2, <4>1 DEF KeepInv, OldIsRetired, Dataset
    <3> QED
      BY <3>1, <3>2
  <2> QED
    BY <2>1 DEF OldIsRetired, Dataset
<1> QED
  BY <1>2, <1>4, <1>5, <1>6, <1>7

LEMMA KeepDelete ==
  ASSUME KeepInv, NEW p \in Refreshers, Cleanup(p) \/ DropTemp(p)
  PROVE  Owned' /\ StillOriginal' /\ ActiveIsStored' /\ TempIsNewer' /\ OldIsRetired'
<1> DEFINE g == IF Cleanup(p) THEN refresher[p].original ELSE refresher[p].temp
           pc == IF Cleanup(p) THEN "release" ELSE "failMeta"
<1>1. Busy(p) /\ refresher[p] \in Refresh /\ Dataset(p) \in Datasets
  BY KeepFacts DEF Cleanup, DropTemp
<1>2. g \in GenOrNone /\ Delete(g) /\ Moves(p, pc)
  BY <1>1, GotoMoves DEF Cleanup, DropTemp, Refresh
<1>3. g # None => store[g].dataset = Dataset(p) /\ g # active[Dataset(p)]
  BY <1>1, KeepFacts DEF Cleanup, DropTemp, KeepInv, OldIsRetired, TempIsNewer, TempOf
<1>4. OnlyLoses(g)
  BY <1>2, DeleteLoses
<1>5. \A d \in Datasets : active[d] # None => active[d] # g
  BY <1>3 DEF KeepInv, ActiveIsStored
<1>6. \A q \in Refreshers : refresher[q].pc = "activate" => refresher[q].temp # g
  <2>1. ASSUME NEW q \in Refreshers, refresher[q].pc = "activate", refresher[q].temp = g PROVE FALSE
    <3>1. g # None /\ store[g].dataset = Dataset(q) /\ Busy(q)
      BY <2>1, KeepFacts DEF KeepInv, TempIsNewer, TempOf
    <3>2. p = q
      BY <1>1, <1>3, <3>1, KeepFacts
    <3> QED
      BY <2>1, <3>2 DEF Cleanup, DropTemp
  <2> QED
    BY <2>1
<1>7. UNCHANGED <<active, made, lock>>
  BY DEF Cleanup, DropTemp
<1>8. /\ refresher'[p].pc = pc /\ pc \in {"release", "failMeta"} /\ refresher'[p].dataset = refresher[p].dataset
      /\ refresher'[p].original = refresher[p].original
      /\ \A q \in Refreshers : q # p => refresher'[q] = refresher[q]
  BY <1>2 DEF Moves
<1> HIDE DEF g
<1>9. Owned'
  <2>1. ASSUME NEW q \in Refreshers, Busy(q)' PROVE (lock[Dataset(q)] = q)'
    <3>1. CASE q = p
      BY <1>1, <1>7, <1>8, <3>1 DEF KeepInv, Owned, Dataset
    <3>2. CASE q # p
      BY <1>7, <1>8, <2>1, <3>2 DEF KeepInv, Owned, Busy, Dataset
    <3> QED
      BY <3>1, <3>2
  <2> QED
    BY <2>1 DEF Owned
<1>10. StillOriginal'
  <2>1. pc = "failMeta" => refresher[p].original = active[Dataset(p)]
    BY DEF Cleanup, DropTemp, KeepInv, StillOriginal
  <2>2. ASSUME NEW q \in Refreshers, refresher'[q].pc \in {"begun", "queues", "fetch", "recheck", "store", "activate",
                         "failed", "failMeta"}
        PROVE  refresher'[q].original = active[refresher'[q].dataset]
    <3>1. CASE q = p
      BY <1>8, <2>1, <2>2, <3>1 DEF Dataset
    <3>2. CASE q # p
      BY <1>8, <2>2, <3>2 DEF KeepInv, StillOriginal, Dataset
    <3> QED
      BY <3>1, <3>2
  <2> QED
    BY <1>7, <2>2 DEF StillOriginal, Dataset
<1>11. ActiveIsStored'
  BY <1>4, <1>5, <1>7, KeepFacts, Consts DEF KeepInv, ActiveIsStored, OnlyLoses, Kept
<1>12. TempIsNewer'
  <2>1. ASSUME NEW q \in Refreshers PROVE TempOf(q)'
    <3>1. CASE q = p
      BY <1>8, <3>1 DEF TempOf
    <3>2. CASE q # p /\ ~Busy(q)
      BY <1>8, <3>2, KeepFacts DEF TempOf
    <3>3. CASE q # p /\ Busy(q)
      <4>1. refresher'[q] = refresher[q] /\ refresher[q].temp \in GenOrNone /\ TempOf(q)
        BY <1>8, <3>3, KeepFacts DEF KeepInv, TempIsNewer, Refresh
      <4>2. refresher[q].temp # None =>
              /\ store'[refresher[q].temp].dataset = store[refresher[q].temp].dataset
              /\ refresher[q].pc = "activate" /\ Kept(refresher[q].temp) => Kept(refresher[q].temp)'
        <5>1. refresher[q].temp # None => refresher[q].temp \in Gens
          BY <4>1, Consts
        <5>2. refresher[q].temp' = refresher[q].temp
          BY <4>1
        <5> QED
          BY <1>4, <1>6, <5>1, <5>2 DEF OnlyLoses, Kept
      <4> QED
        BY <1>7, <4>1, <4>2 DEF TempOf, Dataset, Kept
    <3> QED
      BY <3>1, <3>2, <3>3
  <2> QED
    BY <2>1 DEF TempIsNewer
<1>13. OldIsRetired'
  <2>1. ASSUME NEW q \in Refreshers, refresher'[q].pc = "cleanup", refresher'[q].original # None
        PROVE  /\ refresher'[q].original < active[refresher'[q].dataset]
               /\ store'[refresher'[q].original].dataset = refresher'[q].dataset
    <3>1. q # p /\ Busy(q) /\ refresher'[q] = refresher[q]
      BY <1>8, <2>1, KeepFacts
    <3>2. refresher[q].original \in Gens
      BY <2>1, <3>1, KeepFacts, Consts DEF Refresh
    <3> QED
      BY <1>4, <2>1, <3>1, <3>2 DEF KeepInv, OldIsRetired, OnlyLoses, Dataset
  <2> QED
    BY <1>7, <2>1 DEF OldIsRetired, Dataset
<1> QED
  BY <1>9, <1>10, <1>11, <1>12, <1>13

LEMMA KeepExpiry ==
  ASSUME KeepInv, Expiry
  PROVE  Owned' /\ StillOriginal' /\ ActiveIsStored' /\ TempIsNewer' /\ OldIsRetired'
<1>1. ASSUME NEW d \in Datasets, LockExpires(d)
      PROVE  Owned' /\ StillOriginal' /\ ActiveIsStored' /\ TempIsNewer' /\ OldIsRetired'
  <2>1. Owned'
    BY <1>1, KeepFacts DEF LockExpires, Holds, KeepInv, TypeOK, Owned, Busy, Dataset
  <2>2. StillOriginal' /\ TempIsNewer'
    BY <1>1 DEF LockExpires, KeepInv, StillOriginal, TempIsNewer, TempOf, Dataset, Kept
  <2>3. ActiveIsStored' /\ OldIsRetired'
    BY <1>1 DEF LockExpires, KeepInv, ActiveIsStored, OldIsRetired, Dataset, Kept
  <2> QED
    BY <2>1, <2>2, <2>3
<1>2. ASSUME NEW g \in Gens, PayloadExpires(g)
      PROVE  Owned' /\ StillOriginal' /\ ActiveIsStored' /\ TempIsNewer' /\ OldIsRetired'
  <2>1. store \in [Gens -> Payload]
    BY DEF KeepInv, TypeOK
  <2>2. \A k \in Gens : /\ store'[k].dataset = store[k].dataset
                        /\ Kept(k) => Kept(k)'
    BY <1>2, <2>1 DEF PayloadExpires, Payload, Kept
  <2>3. Owned' /\ StillOriginal'
    BY <1>2 DEF PayloadExpires, KeepInv, Owned, StillOriginal, Busy, Dataset
  <2>4. ActiveIsStored'
    BY <1>2, <2>2, KeepFacts, Consts DEF PayloadExpires, KeepInv, ActiveIsStored, Kept
  <2>5. \A q \in Refreshers : Busy(q) => refresher[q].temp \in GenOrNone /\ refresher[q].original \in GenOrNone
    BY KeepFacts DEF Refresh
  <2>6. TempIsNewer'
    <3>1. ASSUME NEW q \in Refreshers PROVE TempOf(q)'
      <4>1. CASE Busy(q)
        BY <1>2, <2>2, <2>5, <4>1, Consts DEF PayloadExpires, KeepInv, TempIsNewer, TempOf, Dataset, Kept
      <4>2. CASE ~Busy(q)
        BY <1>2, <4>2, KeepFacts DEF PayloadExpires, TempOf
      <4> QED
        BY <4>1, <4>2
    <3> QED
      BY <3>1 DEF TempIsNewer
  <2>7. OldIsRetired'
    <3>1. ASSUME NEW q \in Refreshers, refresher[q].pc = "cleanup", refresher[q].original # None
          PROVE  refresher[q].original \in Gens
      BY <2>5, <3>1, KeepFacts, Consts
    <3> QED
      BY <1>2, <2>2, <3>1 DEF PayloadExpires, KeepInv, OldIsRetired, Dataset
  <2> QED
    BY <2>3, <2>4, <2>6, <2>7
<1> QED
  BY <1>1, <1>2 DEF Expiry

LEMMA KeepNext == KeepInv /\ [Next]_vars => KeepInv'
<1> SUFFICES ASSUME KeepInv, [Next]_vars
             PROVE  KeepInv'
  OBVIOUS
<1>1. TypeOK'
  BY NextTypes DEF KeepInv
<1> DEFINE Rest == Owned' /\ StillOriginal' /\ ActiveIsStored' /\ TempIsNewer' /\ OldIsRetired'
<1>2. ASSUME UNCHANGED <<lock, active, store, made, refresher>> PROVE Rest
  <2>1. Owned' /\ StillOriginal' /\ ActiveIsStored'
    BY <1>2 DEF KeepInv, Owned, StillOriginal, ActiveIsStored, Busy, Dataset, Kept
  <2>2. TempIsNewer' /\ OldIsRetired'
    BY <1>2 DEF KeepInv, TempIsNewer, TempOf, OldIsRetired, Dataset, Kept
  <2> QED
    BY <2>1, <2>2
<1>3. ASSUME ReadStep \/ ReaderStep \/ UNCHANGED vars PROVE Rest
  BY <1>2, <1>3 DEF ReadStep, ReaderStep, vars, ReadMeta, ReadPayload, ReadAgain,
                    StartReading, AgentsRead, QueuesRead
<1>4. ASSUME RefreshStep PROVE Rest
  BY <1>4, KeepAcquire, KeepBegin, KeepMoves, KeepStore, KeepActivate, KeepDelete, KeepEnd
     DEF RefreshStep
<1>5. ASSUME Expiry PROVE Rest
  BY <1>5, KeepExpiry
<1> QED
  BY <1>1, <1>3, <1>4, <1>5 DEF Next, KeepInv

LEMMA KeepInit == Init => KeepInv
<1> SUFFICES ASSUME Init PROVE KeepInv
  OBVIOUS
<1>1. \A p \in Refreshers : refresher[p] = NoRefresh /\ refresher[p].pc = "idle"
  BY DEF Init, NoRefresh
<1>2. Owned /\ StillOriginal /\ TempIsNewer /\ OldIsRetired
  BY <1>1 DEF Owned, Busy, StillOriginal, TempIsNewer, TempOf, OldIsRetired
<1>3. ActiveIsStored
  BY DEF Init, ActiveIsStored, None
<1> QED
  BY <1>2, <1>3, InitTypes DEF KeepInv

\* The variables have their types.
THEOREM Types == Spec => []TypeOK
BY InitTypes, NextTypes, PTL DEF Spec

\* Killed, failing and competing refreshes leave readers what is active: it is
\* neither deleted nor yet to be written.
THEOREM ActiveGenerationKept == Spec => []ActiveIsKept
<1>1. KeepInv => ActiveIsKept
  BY DEF KeepInv, ActiveIsStored, ActiveIsKept, Kept
<1> QED
  BY <1>1, KeepInit, KeepNext, PTL DEF Spec

\* What is active only becomes newer.
LEMMA ActiveAdvances ==
  ASSUME KeepInv, [Next]_vars
  PROVE  \A d \in Datasets : active'[d] >= active[d]
<1>1. \A d \in Datasets : active[d] \in Nat
  BY KeepFacts
<1>2. ASSUME UNCHANGED active PROVE \A d \in Datasets : active'[d] >= active[d]
  BY <1>1, <1>2
<1>3. ASSUME NEW p \in Refreshers, Activate(p) PROVE \A d \in Datasets : active'[d] >= active[d]
  <2>1. /\ active[Dataset(p)] < refresher[p].temp /\ refresher[p].temp \in Nat
        /\ active'[Dataset(p)] = refresher[p].temp
        /\ \A d \in Datasets : d # Dataset(p) => active'[d] = active[d]
    BY <1>3, ActivateFacts, Consts
  <2> QED
    BY <1>1, <2>1
<1>4. ASSUME NEW p \in Refreshers, MarkRefreshing(p) \/ PutFailure(p) PROVE UNCHANGED active
  BY <1>4, PutOriginal DEF MarkRefreshing, PutFailure, Dataset
<1>5. CASE ReadStep \/ ReaderStep \/ Expiry \/ UNCHANGED vars
  BY <1>2, <1>5 DEF ReadStep, ReaderStep, vars, ReadMeta, ReadPayload, ReadAgain,
                    StartReading, AgentsRead, QueuesRead, Expiry, LockExpires, PayloadExpires
<1>6. CASE RefreshStep
  BY <1>2, <1>3, <1>4, <1>6 DEF RefreshStep, Acquire, Begin, BeginFails, ReadQueues, Fetch, FetchFails,
     RecheckQueues, StorePayload, PutRefused, Cleanup, DropTemp, Release, Kill
<1> QED
  BY <1>5, <1>6 DEF Next

\* A failing refresh puts back what is active, never what was.
THEOREM GenerationsGoForward == Spec => GenerationsAdvance
<1>1. KeepInv /\ [Next]_vars => [\A d \in Datasets : active'[d] >= active[d]]_vars
  BY ActiveAdvances
<1> QED
  BY <1>1, KeepInit, KeepNext, PTL DEF Spec, GenerationsAdvance

\* Only a put of metadata activates a generation and is told to the history.
LEMMA ActiveMoves ==
  ASSUME [Next]_vars
  PROVE  (\E d, g : PutMeta(d, g)) \/ UNCHANGED <<active, history>>
<1>1. CASE ReadStep
  BY <1>1 DEF ReadStep, ReadMeta, ReadPayload, ReadAgain
<1>2. CASE ReaderStep
  BY <1>2 DEF ReaderStep, StartReading, AgentsRead, QueuesRead
<1>3. CASE Expiry \/ UNCHANGED vars
  BY <1>3 DEF Expiry, LockExpires, PayloadExpires, vars
<1>4. CASE RefreshStep
  <2> PICK p \in Refreshers :
        \/ \E d \in Datasets : Acquire(p, d)
        \/ Begin(p) \/ BeginFails(p) \/ MarkRefreshing(p) \/ ReadQueues(p)
        \/ Fetch(p) \/ FetchFails(p) \/ RecheckQueues(p)
        \/ StorePayload(p) \/ Activate(p) \/ PutRefused(p)
        \/ Cleanup(p) \/ DropTemp(p) \/ PutFailure(p) \/ Release(p) \/ Kill(p)
    BY <1>4 DEF RefreshStep
  <2>1. CASE MarkRefreshing(p) \/ Activate(p) \/ PutFailure(p)
    BY <2>1 DEF MarkRefreshing, Activate, PutFailure
  <2>2. CASE Fetch(p) \/ FetchFails(p) \/ RecheckQueues(p) \/ ReadQueues(p) \/ StorePayload(p)
    BY <2>2 DEF Fetch, FetchFails, RecheckQueues, ReadQueues, StorePayload
  <2>3. CASE \/ \E d \in Datasets : Acquire(p, d)
             \/ Begin(p) \/ BeginFails(p) \/ PutRefused(p)
    BY <2>3 DEF Acquire, Begin, BeginFails, PutRefused
  <2>4. CASE Cleanup(p) \/ DropTemp(p) \/ Release(p) \/ Kill(p)
    BY <2>4 DEF Cleanup, DropTemp, Release, Kill
  <2> QED
    BY <2>1, <2>2, <2>3, <2>4
<1> QED
  BY <1>1, <1>2, <1>3, <1>4 DEF Next

\* How the payloads can change in a step.
LEMMA StoreMoves ==
  ASSUME [Next]_vars
  PROVE  \/ UNCHANGED <<store, made>>
         \/ UNCHANGED made /\ \E g : Delete(g)
         \/ UNCHANGED made /\ \E g \in Gens : PayloadExpires(g)
         \/ \E p \in Refreshers : StorePayload(p)
<1>1. CASE ReadStep
  BY <1>1 DEF ReadStep, ReadMeta, ReadPayload, ReadAgain
<1>2. CASE ReaderStep
  BY <1>2 DEF ReaderStep, StartReading, AgentsRead, QueuesRead
<1>3. CASE Expiry
  BY <1>3 DEF Expiry, LockExpires, PayloadExpires
<1>4. CASE UNCHANGED vars
  BY <1>4 DEF vars
<1>5. CASE RefreshStep
  <2> PICK p \in Refreshers :
        \/ \E d \in Datasets : Acquire(p, d)
        \/ Begin(p) \/ BeginFails(p) \/ MarkRefreshing(p) \/ ReadQueues(p)
        \/ Fetch(p) \/ FetchFails(p) \/ RecheckQueues(p)
        \/ StorePayload(p) \/ Activate(p) \/ PutRefused(p)
        \/ Cleanup(p) \/ DropTemp(p) \/ PutFailure(p) \/ Release(p) \/ Kill(p)
    BY <1>5 DEF RefreshStep
  <2>1. CASE MarkRefreshing(p) \/ Activate(p) \/ PutFailure(p)
    BY <2>1 DEF MarkRefreshing, Activate, PutFailure
  <2>2. CASE Fetch(p) \/ FetchFails(p) \/ RecheckQueues(p) \/ ReadQueues(p)
    BY <2>2 DEF Fetch, FetchFails, RecheckQueues, ReadQueues
  <2>3. CASE \/ \E d \in Datasets : Acquire(p, d)
             \/ Begin(p) \/ BeginFails(p) \/ PutRefused(p)
    BY <2>3 DEF Acquire, Begin, BeginFails, PutRefused
  <2>4. CASE Cleanup(p) \/ DropTemp(p) \/ Release(p) \/ Kill(p)
    BY <2>4 DEF Cleanup, DropTemp, Release, Kill
  <2>5. CASE StorePayload(p)
    BY <2>5
  <2> QED
    BY <2>1, <2>2, <2>3, <2>4, <2>5
<1> QED
  BY <1>1, <1>2, <1>3, <1>4, <1>5 DEF Next

-----------------------------------------------------------------------------
(* Agents come with queues that were active together with them. *)

\* Agents of generation g have been active with the queues they were built from,
\* or those were replaced before.
Met(g) ==
  \/ store[g].queues < active["queues"]
  \/ <<g, store[g].queues>> \in history.together

\* What has been read is not newer than what is active.
ReadOf(c) ==
  read[c] # NoRead =>
    /\ read[c].gen <= active[read[c].dataset]
    /\ read[c].dataset = "agents" /\ read[c].gen # None => Met(read[c].gen)

\* A refresh reads queues, and has none newer than the active ones.
BuildOf(p) ==
  Busy(p) =>
    /\ refresher[p].queues <= active["queues"]
    /\ refresher[p].pc \in {"queues", "recheck"} => read[p] # NoRead /\ read[p].dataset = "queues"

\* If the agents a page has read were never active with their queues, those had
\* been replaced before the page reads the queues.
PageOf(c) ==
  LET A == reader[c].agents
  IN /\ reader[c].pc = "agents" => read[c] # NoRead /\ read[c].dataset = "agents"
     /\ reader[c].pc = "queues" =>
          /\ read[c] # NoRead /\ read[c].dataset = "queues"
          /\ A # None /\ A <= made
          /\ \/ <<A, store[A].queues>> \in history.together
             \/ /\ store[A].queues < active["queues"]
                /\ read[c].gen = None \/ store[A].queues < read[c].gen
     /\ reader[c].pc = "done" /\ A # None =>
          /\ A <= made
          /\ store[A].queues = reader[c].queues
          /\ <<A, reader[c].queues>> \in history.together

PairInv ==
  /\ <<active["agents"], active["queues"]>> \in history.together
  /\ \A g \in Gens : store[g].queues <= active["queues"]
  /\ \A c \in Clients : ReadOf(c)
  /\ \A p \in Refreshers : BuildOf(p)
  /\ \A c \in Readers : PageOf(c)

\* A read goes on: what it holds is dropped, kept or what is active.
Onward(c) ==
  /\ read[c] = NoRead => read'[c] = NoRead
  /\ read[c] # NoRead =>
       /\ read'[c] # NoRead /\ read'[c].dataset = read[c].dataset
       /\ \/ read'[c].gen = None \/ read'[c].gen = read[c].gen
          \/ read'[c].gen = active[read[c].dataset] /\ UNCHANGED <<active, store, made, history>>

LEMMA SameIsOnward == \A c : read'[c] = read[c] => Onward(c)
BY DEF Onward

LEMMA ReadIsOnward ==
  ASSUME TypeOK, NEW c \in Clients, NEW e \in Clients, ReadMeta(e) \/ ReadPayload(e) \/ ReadAgain(e)
  PROVE  Onward(c)
<1>1. read \in [Clients -> Read \cup {NoRead}]
  BY DEF TypeOK
<1>2. CASE c # e
  BY <1>1, <1>2 DEF Onward, ReadMeta, ReadPayload, ReadAgain, NextAttempt
<1>3. CASE c = e
  <2>1. read[c] \in Read /\ read[c] # NoRead
    BY <1>1, <1>3 DEF ReadMeta, ReadPayload, ReadAgain, NoRead
  <2>2. ASSUME NextAttempt(c) PROVE read'[c].pc # "idle" /\ read'[c].dataset = read[c].dataset /\ read'[c].gen = None
    <3> DEFINE pc == IF read[c].attempt = 1 THEN "meta" ELSE "done"
    <3>1. pc # "idle"
      OBVIOUS
    <3>2. read'[c] = [read[c] EXCEPT !.pc = pc, !.attempt = 2, !.gen = None]
      BY <1>1, <2>2 DEF NextAttempt
    <3> HIDE DEF pc
    <3> QED
      BY <2>1, <3>1, <3>2 DEF Read
  <2>3. CASE ReadMeta(c)
    <3>1. CASE NextAttempt(c)
      BY <2>1, <2>2, <3>1 DEF Onward, NoRead
    <3>2. CASE read' = [read EXCEPT ![c].pc = "payload", ![c].gen = active[read[c].dataset]]
      <4>1. read'[c].pc = "payload" /\ read'[c].dataset = read[c].dataset /\ read'[c].gen = active[read[c].dataset]
        BY <1>1, <2>1, <3>2 DEF Read
      <4> QED
        BY <2>1, <2>3, <4>1 DEF Onward, NoRead, ReadMeta
    <3> QED
      BY <2>3, <3>1, <3>2 DEF ReadMeta
  <2>4. CASE ReadPayload(c)
    <3>1. read'[c].pc = "again" /\ read'[c].dataset = read[c].dataset /\ read'[c].gen = read[c].gen
      BY <1>1, <2>1, <2>4 DEF Read, ReadPayload
    <3> QED
      BY <2>1, <3>1 DEF Onward, NoRead
  <2>5. CASE ReadAgain(c)
    <3>1. CASE NextAttempt(c)
      BY <2>1, <2>2, <3>1 DEF Onward, NoRead
    <3>2. CASE read' = [read EXCEPT ![c].pc = "done"]
      <4>1. read'[c].pc = "done" /\ read'[c].dataset = read[c].dataset /\ read'[c].gen = read[c].gen
        BY <1>1, <2>1, <3>2 DEF Read
      <4> QED
        BY <2>1, <4>1 DEF Onward, NoRead
    <3> QED
      BY <2>5, <3>1, <3>2 DEF ReadAgain
  <2> QED
    BY <1>3, <2>3, <2>4, <2>5
<1> QED
  BY <1>2, <1>3

\* A read begins with nothing; a read ended is none.
LEMMA BeginsAndEnds ==
  ASSUME TypeOK, NEW c \in Clients
  PROVE  /\ \A d : BeginRead(c, d) => /\ read'[c] # NoRead /\ read'[c].dataset = d /\ read'[c].gen = None
                                      /\ \A e \in Clients : e # c => read'[e] = read[e]
         /\ EndRead(c) => /\ read'[c] = NoRead
                          /\ \A e \in Clients : e # c => read'[e] = read[e]
<1>1. read \in [Clients -> Read \cup {NoRead}]
  BY DEF TypeOK
<1>2. ASSUME NEW d, BeginRead(c, d)
      PROVE  read'[c].pc = "meta" /\ read'[c].dataset = d /\ read'[c].gen = None
             /\ \A e \in Clients : e # c => read'[e] = read[e]
  BY <1>1, <1>2 DEF BeginRead
<1> QED
  BY <1>1, <1>2 DEF EndRead, NoRead

\* What can happen to the reads of others than the one who acts.
LEMMA ReadsOfOthers ==
  ASSUME TypeOK, NEW c \in Clients
  PROVE  /\ ReadStep \/ Expiry => Onward(c)
         /\ \A e \in Readers : e # c /\ (StartReading(e) \/ AgentsRead(e) \/ QueuesRead(e)) => Onward(c)
         /\ \A p \in Refreshers :
              /\ p # c /\ (MarkRefreshing(p) \/ ReadQueues(p) \/ Fetch(p) \/ FetchFails(p) \/ RecheckQueues(p) \/ Kill(p))
                   => Onward(c)
              /\ \/ \E d \in Datasets : Acquire(p, d)
                 \/ Begin(p) \/ BeginFails(p) \/ StorePayload(p) \/ Activate(p)
                 \/ PutRefused(p) \/ Cleanup(p) \/ DropTemp(p) \/ PutFailure(p) \/ Release(p)
                 => Onward(c)
<1>1. ReadStep => Onward(c)
  BY ReadIsOnward DEF ReadStep
<1>2. Expiry => Onward(c)
  BY SameIsOnward DEF Expiry, LockExpires, PayloadExpires
<1>3. ASSUME NEW e \in Readers, e # c, StartReading(e) \/ AgentsRead(e) \/ QueuesRead(e) PROVE Onward(c)
  <2>1. e \in Clients /\ (EndRead(e) \/ \E d \in Datasets : BeginRead(e, d))
    BY <1>3, Consts DEF StartReading, AgentsRead, QueuesRead
  <2> QED
    BY <1>3, <2>1, BeginsAndEnds, SameIsOnward
<1>4. ASSUME NEW p \in Refreshers, p # c,
             MarkRefreshing(p) \/ ReadQueues(p) \/ Fetch(p) \/ FetchFails(p) \/ RecheckQueues(p) \/ Kill(p)
      PROVE  Onward(c)
  <2>1. p \in Clients /\ (EndRead(p) \/ BeginRead(p, "queues") \/ UNCHANGED read)
    BY <1>4, Consts DEF MarkRefreshing, ReadQueues, Fetch, FetchFails, RecheckQueues, Kill
  <2> QED
    BY <1>4, <2>1, BeginsAndEnds, SameIsOnward
<1>5. ASSUME NEW p \in Refreshers,
             \/ \E d \in Datasets : Acquire(p, d)
             \/ Begin(p) \/ BeginFails(p) \/ StorePayload(p) \/ Activate(p)
             \/ PutRefused(p) \/ Cleanup(p) \/ DropTemp(p) \/ PutFailure(p) \/ Release(p)
      PROVE  Onward(c)
  BY <1>5, SameIsOnward DEF Acquire, Begin, BeginFails, StorePayload, Activate,
     PutRefused, Cleanup, DropTemp, PutFailure, Release
<1> QED
  BY <1>1, <1>2, <1>3, <1>4, <1>5

\* What a step leaves as it was, and where it goes.
LEMMA Progress ==
  ASSUME KeepInv, PairInv, [Next]_vars
  PROVE  /\ \A d \in Datasets : active[d] \in Nat /\ active'[d] \in Nat /\ active[d] <= active'[d]
         /\ made \in Nat /\ made' \in Nat /\ made <= made'
         /\ history.together \subseteq history'.together
         /\ <<active'["agents"], active'["queues"]>> \in history'.together
         /\ \A g \in Gens : store[g].queues \in Nat /\ (g <= made => store'[g].queues = store[g].queues)
         /\ \A g \in Gens : store'[g].queues = store[g].queues \/ store'[g].queues <= active["queues"]
<1>1. KeepInv' /\ \A d \in Datasets : active'[d] >= active[d]
  BY KeepNext, ActiveAdvances
<1>2. (\A d \in Datasets : active[d] \in Nat /\ active'[d] \in Nat) /\ made \in Nat /\ made' \in Nat
  <2>1. \A d \in Datasets : active[d] \in Nat
    BY KeepFacts
  <2>2. active' \in [Datasets -> GenOrNone] /\ made' \in Nat
    BY <1>1 DEF KeepInv, TypeOK
  <2>3. \A d \in Datasets : active'[d] \in Nat
    BY <2>2, Consts
  <2>4. made \in Nat
    BY KeepFacts
  <2> QED
    BY <2>1, <2>2, <2>3, <2>4
<1>3. history.together \subseteq history'.together /\ <<active'["agents"], active'["queues"]>> \in history'.together
  <2>1. ASSUME NEW d, NEW g, PutMeta(d, g)
        PROVE  history.together \subseteq history'.together /\ <<active'["agents"], active'["queues"]>> \in history'.together
    BY <2>1 DEF PutMeta
  <2>2. ASSUME UNCHANGED <<active, history>>
        PROVE  history.together \subseteq history'.together /\ <<active'["agents"], active'["queues"]>> \in history'.together
    BY <2>2 DEF PairInv
  <2>3. (\E d, g : PutMeta(d, g)) \/ UNCHANGED <<active, history>>
    BY ActiveMoves
  <2> QED
    BY <2>1, <2>2, <2>3
<1>4. \/ UNCHANGED <<store, made>>
      \/ (\E g : OnlyLoses(g)) /\ UNCHANGED made
      \/ \E p \in Refreshers : StorePayload(p)
  <2>1. ASSUME NEW g \in Gens, PayloadExpires(g) PROVE OnlyLoses(g)
    <3>1. store \in [Gens -> Payload]
      BY DEF KeepInv, TypeOK
    <3> QED
      BY <2>1, <3>1 DEF PayloadExpires, OnlyLoses, Kept, Payload
  <2> QED
    BY <2>1, StoreMoves, DeleteLoses
<1>5. store \in [Gens -> Payload] /\ \A g \in Gens : store[g].queues \in Nat
  BY Consts DEF KeepInv, TypeOK, Payload
<1>6. ASSUME NEW p \in Refreshers, StorePayload(p)
      PROVE  /\ made <= made'
             /\ \A g \in Gens : g <= made => store'[g].queues = store[g].queues
             /\ \A g \in Gens : store'[g].queues = store[g].queues \/ store'[g].queues <= active["queues"]
  <2>1. Busy(p) /\ refresher[p].queues <= active["queues"]
    BY <1>6, KeepFacts DEF StorePayload, PairInv, BuildOf
  <2>2. made' = made + 1 /\ store' = [store EXCEPT ![made + 1] = [state |-> "stored", dataset |-> refresher[p].dataset,
                                           queues |-> refresher[p].queues]]
    BY <1>6 DEF StorePayload
  <2>3. \A g \in Gens : g # made + 1 => store'[g] = store[g]
    BY <1>5, <2>2
  <2>4. \A g \in Gens : g = made + 1 => store'[g].queues = refresher[p].queues
    BY <1>5, <2>2
  <2> QED
    BY <1>2, <2>1, <2>2, <2>3, <2>4, Consts
<1>7. /\ made <= made'
      /\ \A g \in Gens : g <= made => store'[g].queues = store[g].queues
      /\ \A g \in Gens : store'[g].queues = store[g].queues \/ store'[g].queues <= active["queues"]
  BY <1>2, <1>4, <1>6 DEF OnlyLoses
<1> QED
  BY <1>1, <1>2, <1>3, <1>5, <1>7

\* Agents once met stay so.
MetThen(g) ==
  \/ store'[g].queues < active'["queues"]
  \/ <<g, store'[g].queues>> \in history'.together

LEMMA MetStays ==
  ASSUME KeepInv, PairInv, [Next]_vars, NEW g \in Gens, g <= made, Met(g)
  PROVE  MetThen(g)
<1>1. store'[g].queues = store[g].queues /\ store[g].queues \in Nat
  BY Progress
<1>2. active["queues"] \in Nat /\ active'["queues"] \in Nat /\ active["queues"] <= active'["queues"]
  BY Progress, Consts
<1> QED
  BY <1>1, <1>2, Progress DEF Met, MetThen

\* The active agents have been met.
LEMMA ActiveIsMet ==
  ASSUME KeepInv, PairInv, active["agents"] # None
  PROVE  Met(active["agents"])
<1>1. active["agents"] \in Gens /\ active["queues"] \in Nat
  BY KeepFacts, Consts
<1>2. store[active["agents"]].queues <= active["queues"] /\ store[active["agents"]].queues \in Nat
  BY <1>1, Consts DEF PairInv, KeepInv, TypeOK, Payload
<1> QED
  BY <1>1, <1>2 DEF PairInv, Met

LEMMA ReadOfStep ==
  ASSUME KeepInv, PairInv, [Next]_vars, NEW c \in Clients,
         Onward(c) \/ read'[c] = NoRead \/ read'[c].gen = None
  PROVE  ReadOf(c)'
<1>1. TypeOK' /\ TypeOK
  BY NextTypes DEF KeepInv
<1> SUFFICES ASSUME read'[c] # NoRead
             PROVE  /\ read'[c].gen <= active'[read'[c].dataset]
                    /\ read'[c].dataset = "agents" /\ read'[c].gen # None => MetThen(read'[c].gen)
  BY DEF ReadOf, Met, MetThen
<1>2. read'[c] \in Read /\ read'[c].dataset \in Datasets /\ read'[c].gen \in GenOrNone
  BY <1>1 DEF TypeOK, Read
<1>3. CASE read'[c].gen = None
  BY <1>2, <1>3, Progress DEF None
<1>4. CASE read'[c].gen # None /\ Onward(c)
  <2>1. read[c] # NoRead /\ read'[c].dataset = read[c].dataset
    BY <1>4 DEF Onward
  <2>2. CASE read'[c].gen = read[c].gen
    <3>1. /\ read[c].gen \in Gens /\ read[c].gen <= active[read[c].dataset]
          /\ read[c].dataset = "agents" => Met(read[c].gen)
      BY <1>2, <1>4, <2>1, <2>2, Consts DEF PairInv, ReadOf
    <3>2. active[read[c].dataset] <= made /\ active[read[c].dataset] \in Nat /\ made \in Nat
      BY <1>2, <2>1, KeepFacts DEF KeepInv, ActiveIsStored
    <3>a. read[c].gen \in Nat
      BY <3>1, Consts
    <3>3. read[c].gen <= made
      BY <3>1, <3>2, <3>a
    <3>4. read[c].dataset = "agents" => MetThen(read[c].gen)
      BY <3>1, <3>3, MetStays
    <3>5. active[read[c].dataset] <= active'[read[c].dataset] /\ active'[read[c].dataset] \in Nat
      BY <1>2, <2>1, Progress
    <3> QED
      BY <2>1, <2>2, <3>1, <3>2, <3>a, <3>4, <3>5
  <2>3. CASE read'[c].gen = active[read[c].dataset] /\ UNCHANGED <<active, store, made, history>>
    <3>1. read'[c].gen <= active'[read'[c].dataset]
      BY <1>2, <2>1, <2>3, KeepFacts
    <3>2. read'[c].dataset = "agents" => Met(active["agents"])
      BY <1>4, <2>1, <2>3, ActiveIsMet
    <3>3. read'[c].dataset = "agents" => MetThen(read'[c].gen)
      BY <2>1, <2>3, <3>2 DEF Met, MetThen
    <3> QED
      BY <3>1, <3>3
  <2> QED
    BY <1>4, <2>1, <2>2, <2>3 DEF Onward
<1> QED
  BY <1>3, <1>4

\* A refresh that does not act.
LEMMA BuildOfStays ==
  ASSUME KeepInv, PairInv, [Next]_vars, NEW p \in Refreshers,
         refresher'[p] = refresher[p], Onward(p)
  PROVE  BuildOf(p)'
<1>1. active["queues"] \in Nat /\ active'["queues"] \in Nat /\ active["queues"] <= active'["queues"]
  BY Progress, Consts
<1>2. BuildOf(p) /\ (Busy(p) => refresher[p].queues \in Nat)
  BY KeepFacts, Consts DEF PairInv, Refresh
<1> QED
  BY <1>1, <1>2 DEF BuildOf, Onward, Busy

LEMMA GotoQueues ==
  ASSUME KeepInv, NEW p \in Refreshers, Busy(p), NEW pc, Goto(p, pc)
  PROVE  refresher'[p].pc = pc /\ refresher'[p].queues = refresher[p].queues
<1>1. refresher[p] \in Refresh /\ refresher \in [Refreshers -> Refresh \cup {NoRefresh}]
  BY KeepFacts DEF KeepInv, TypeOK
<1>2. refresher'[p] = [refresher[p] EXCEPT !.pc = pc]
  BY <1>1 DEF Goto
<1> QED
  BY <1>1, <1>2 DEF Refresh

\* The steps of the refresh itself.
LEMMA BuildOfOwn ==
  ASSUME KeepInv, PairInv, [Next]_vars, NEW p \in Refreshers,
         \/ \E d \in Datasets : Acquire(p, d)
         \/ Begin(p) \/ BeginFails(p) \/ MarkRefreshing(p) \/ ReadQueues(p)
         \/ Fetch(p) \/ FetchFails(p) \/ RecheckQueues(p)
         \/ StorePayload(p) \/ Activate(p) \/ PutRefused(p)
         \/ Cleanup(p) \/ DropTemp(p) \/ PutFailure(p) \/ Release(p) \/ Kill(p)
  PROVE  BuildOf(p)'
<1>1. active["queues"] \in Nat /\ active'["queues"] \in Nat /\ active["queues"] <= active'["queues"]
  BY Progress, Consts
<1>2. BuildOf(p) /\ (Busy(p) => refresher[p].queues \in Nat /\ refresher[p] \in Refresh)
  BY KeepFacts, Consts DEF PairInv, Refresh
<1>3. refresher \in [Refreshers -> Refresh \cup {NoRefresh}] /\ TypeOK /\ p \in Clients
  BY Consts DEF KeepInv, TypeOK
<1>4. ASSUME NEW pc, Busy(p), Goto(p, pc), pc \notin {"queues", "recheck"} PROVE BuildOf(p)'
  BY <1>1, <1>2, <1>4, GotoQueues DEF BuildOf
<1>5. ASSUME NEW pc, Busy(p), Goto(p, pc), BeginRead(p, "queues") PROVE BuildOf(p)'
  BY <1>1, <1>2, <1>3, <1>5, GotoQueues, BeginsAndEnds DEF BuildOf
<1>6. ASSUME NEW d \in Datasets, Acquire(p, d) PROVE BuildOf(p)'
  <2>1. refresher'[p].pc = "locked" /\ refresher'[p].queues = None
    BY <1>3, <1>6 DEF Acquire
  <2> QED
    BY <1>1, <2>1 DEF BuildOf, None
<1>7. CASE Begin(p)
  <2>1. Busy(p) /\ refresher'[p].pc = "begun" /\ refresher'[p].queues = refresher[p].queues
    <3>1. Busy(p)
      BY <1>7, KeepFacts DEF Begin
    <3> QED
      BY <1>2, <1>3, <1>7, <3>1 DEF Begin, Refresh
  <2> QED
    BY <1>1, <1>2, <2>1 DEF BuildOf
<1>8. CASE \/ BeginFails(p) \/ MarkRefreshing(p) \/ Fetch(p) \/ FetchFails(p) \/ RecheckQueues(p)
           \/ Activate(p) \/ PutRefused(p) \/ Cleanup(p) \/ DropTemp(p) \/ PutFailure(p)
  <2>1. Busy(p)
    BY <1>8, KeepFacts DEF BeginFails, MarkRefreshing, Fetch, FetchFails, RecheckQueues, Activate,
                           PutRefused, Cleanup, DropTemp, PutFailure
  <2> QED
    BY <1>4, <1>5, <1>8, <2>1 DEF BeginFails, MarkRefreshing, Fetch, FetchFails, RecheckQueues, Activate,
                           PutRefused, Cleanup, DropTemp, PutFailure
<1>9. CASE ReadQueues(p)
  <2>1. Busy(p) /\ read[p] # NoRead /\ read[p].dataset = "queues"
    BY <1>2, <1>9, KeepFacts DEF ReadQueues, BuildOf
  <2>2. read[p].gen <= active["queues"] /\ read[p].gen \in Nat
    BY <1>3, <2>1, Consts DEF PairInv, ReadOf, TypeOK, Read
  <2>3. \/ refresher'[p].pc = "failed" /\ refresher'[p].queues = refresher[p].queues
        \/ refresher'[p].pc = "fetch" /\ refresher'[p].queues = read[p].gen
    BY <1>2, <1>3, <1>9, <2>1 DEF ReadQueues, Refresh, Returned
  <2> QED
    BY <1>1, <1>2, <2>1, <2>2, <2>3 DEF BuildOf
<1>10. CASE StorePayload(p)
  <2>1. Busy(p)
    BY <1>10, KeepFacts DEF StorePayload
  <2>2. refresher'[p].pc = "activate" /\ refresher'[p].queues = refresher[p].queues
    BY <1>2, <1>3, <1>10, <2>1 DEF StorePayload, Refresh
  <2> QED
    BY <1>1, <1>2, <2>1, <2>2 DEF BuildOf
<1>11. CASE Release(p) \/ Kill(p)
  BY <1>3, <1>11 DEF Release, Kill, BuildOf, Busy
<1> QED
  BY <1>6, <1>7, <1>8, <1>9, <1>10, <1>11

\* A page that does not act.
LEMMA PageOfStays ==
  ASSUME KeepInv, PairInv, [Next]_vars, NEW c \in Readers, reader'[c] = reader[c], Onward(c)
  PROVE  PageOf(c)'
<1> DEFINE A == reader[c].agents
<1>1. /\ active["queues"] \in Nat /\ active'["queues"] \in Nat /\ active["queues"] <= active'["queues"]
      /\ made \in Nat /\ made' \in Nat /\ made <= made' /\ history.together \subseteq history'.together
  BY Progress, Consts
<1>2. c \in Clients /\ PageOf(c) /\ reader[c].agents \in GenOrNone
  BY Consts DEF PairInv, KeepInv, TypeOK, Reading
<1>3. A # None /\ A <= made => /\ A \in Nat /\ store'[A].queues = store[A].queues
                               /\ store[A].queues \in Nat
  BY <1>2, Progress, Consts
<1>4. store[A].queues < active["queues"] /\ A # None /\ A <= made => store[A].queues < active'["queues"]
  BY <1>1, <1>3
<1>5. reader'[c].agents = A
  OBVIOUS
<1> HIDE DEF A
<1>6. reader'[c].pc = "queues" =>
          /\ read'[c] # NoRead /\ read'[c].dataset = "queues"
          /\ A # None /\ A <= made'
          /\ \/ <<A, store'[A].queues>> \in history'.together
             \/ /\ store'[A].queues < active'["queues"]
                /\ read'[c].gen = None \/ store'[A].queues < read'[c].gen
  <2> SUFFICES ASSUME reader[c].pc = "queues"
               PROVE  /\ read'[c] # NoRead /\ read'[c].dataset = "queues"
                      /\ A # None /\ A <= made'
                      /\ \/ <<A, store'[A].queues>> \in history'.together
                         \/ /\ store'[A].queues < active'["queues"]
                            /\ read'[c].gen = None \/ store'[A].queues < read'[c].gen
    OBVIOUS
  <2>1. /\ read[c] # NoRead /\ read[c].dataset = "queues" /\ A # None /\ A <= made
        /\ \/ <<A, store[A].queues>> \in history.together
           \/ /\ store[A].queues < active["queues"]
              /\ read[c].gen = None \/ store[A].queues < read[c].gen
    BY <1>2 DEF PageOf, A
  <2>2. /\ read'[c] # NoRead /\ read'[c].dataset = "queues"
        /\ read'[c].gen = None \/ read'[c].gen = read[c].gen \/ read'[c].gen = active["queues"]
    BY <2>1 DEF Onward
  <2>3. A <= made'
    BY <1>1, <1>3, <2>1
  <2>4. CASE <<A, store[A].queues>> \in history.together
    BY <1>1, <1>3, <2>1, <2>2, <2>3, <2>4
  <2>5. CASE store[A].queues < active["queues"] /\ (read[c].gen = None \/ store[A].queues < read[c].gen)
    BY <1>3, <1>4, <2>1, <2>2, <2>3, <2>5
  <2> QED
    BY <2>1, <2>4, <2>5
<1>7. reader'[c].pc = "done" /\ A # None =>
          /\ A <= made'
          /\ store'[A].queues = reader'[c].queues
          /\ <<A, reader'[c].queues>> \in history'.together
  BY <1>1, <1>2, <1>3 DEF PageOf, A
<1>8. reader'[c].pc = "agents" => read'[c] # NoRead /\ read'[c].dataset = "agents"
  BY <1>2 DEF PageOf, Onward
<1> QED
  BY <1>5, <1>6, <1>7, <1>8 DEF PageOf

\* The steps of the page itself.
LEMMA PageOfOwn ==
  ASSUME KeepInv, PairInv, [Next]_vars, NEW c \in Readers,
         StartReading(c) \/ AgentsRead(c) \/ QueuesRead(c)
  PROVE  PageOf(c)'
<1>1. c \in Clients /\ TypeOK /\ reader \in [Readers -> Reading]
  BY Consts DEF KeepInv, TypeOK
<1>2. CASE StartReading(c)
  <2>1. reader'[c].pc = "agents" /\ BeginRead(c, "agents")
    BY <1>1, <1>2 DEF StartReading
  <2> QED
    BY <1>1, <2>1, BeginsAndEnds DEF PageOf
<1>3. CASE AgentsRead(c)
  <2>1. /\ read[c] # NoRead /\ read[c].dataset = "agents" /\ read[c] \in Read
        /\ UNCHANGED <<active, store, made, history>>
    BY <1>1, <1>3 DEF AgentsRead, PairInv, PageOf, TypeOK
  <2>2. CASE Returned(c) = None
    <3>1. reader'[c].pc = "done" /\ reader'[c].agents = None
      BY <1>1, <1>3, <2>2 DEF AgentsRead, Answer
    <3> QED
      BY <3>1 DEF PageOf
  <2>3. CASE Returned(c) # None
    <3>1. reader'[c].pc = "queues" /\ reader'[c].agents = read[c].gen /\ BeginRead(c, "queues")
      BY <1>1, <1>3, <2>3 DEF AgentsRead, Returned, Reading
    <3>2. read'[c] # NoRead /\ read'[c].dataset = "queues" /\ read'[c].gen = None
      BY <1>1, <3>1, BeginsAndEnds
    <3>3. Met(read[c].gen) /\ read[c].gen \in GenOrNone /\ read[c].gen <= active["agents"]
      BY <1>1, <2>1, <2>3 DEF PairInv, ReadOf, Returned, Read
    <3>a. active["agents"] <= made /\ active["agents"] \in Nat /\ made \in Nat /\ read[c].gen \in Nat
      BY <3>3, KeepFacts, Consts DEF KeepInv, ActiveIsStored
    <3>4. read[c].gen <= made
      BY <3>3, <3>a
    <3> QED
      BY <2>1, <2>3, <3>1, <3>2, <3>3, <3>4 DEF PageOf, Met, Returned
  <2> QED
    BY <2>2, <2>3
<1>4. CASE QueuesRead(c)
  <2> DEFINE A == reader[c].agents
  <2>1. /\ read[c] # NoRead /\ read[c] \in Read /\ A # None /\ A <= made /\ A \in Gens
        /\ \/ <<A, store[A].queues>> \in history.together
           \/ /\ store[A].queues < active["queues"]
              /\ read[c].gen = None \/ store[A].queues < read[c].gen
        /\ UNCHANGED <<active, store, made, history>>
    BY <1>1, <1>4, Consts DEF QueuesRead, PairInv, PageOf, TypeOK, Reading
  <2>2. CASE Matches(c)
    <3>1. reader'[c].pc = "done" /\ reader'[c].agents = A /\ reader'[c].queues = read[c].gen
      BY <1>1, <1>4, <2>2 DEF QueuesRead, Answer, Returned
    <3>2. read[c].gen # None /\ store[A].queues = read[c].gen /\ read[c].gen \in Nat
      BY <2>1, <2>2, Consts DEF Matches, Returned, Read
    <3> QED
      BY <2>1, <3>1, <3>2 DEF PageOf
  <2>3. CASE ~Matches(c)
    <3>1. reader'[c].pc = "done" /\ reader'[c].agents = None
      BY <1>1, <1>4, <2>3 DEF QueuesRead, Answer
    <3> QED
      BY <3>1 DEF PageOf
  <2> QED
    BY <2>2, <2>3
<1> QED
  BY <1>2, <1>3, <1>4

LEMMA PairNext == KeepInv /\ PairInv /\ [Next]_vars => PairInv'
<1> SUFFICES ASSUME KeepInv, PairInv, [Next]_vars
             PROVE  PairInv'
  OBVIOUS
<1>a. TypeOK
  BY DEF KeepInv
<1>b. /\ active["queues"] \in Nat /\ active'["queues"] \in Nat /\ active["queues"] <= active'["queues"]
      /\ <<active'["agents"], active'["queues"]>> \in history'.together
  BY Progress, Consts
<1>1. \A g \in Gens : store'[g].queues <= active'["queues"]
  <2>1. ASSUME NEW g \in Gens PROVE store'[g].queues <= active'["queues"]
    <3>1. store[g].queues <= active["queues"] /\ store[g].queues \in Nat
      BY Progress DEF PairInv
    <3>2. store'[g].queues = store[g].queues \/ store'[g].queues <= active["queues"]
      BY Progress
    <3>3. store'[g].queues \in Nat
      BY NextTypes, Consts DEF KeepInv, TypeOK, Payload
    <3> QED
      BY <1>b, <3>1, <3>2, <3>3
  <2> QED
    BY <2>1
<1>2. ASSUME NEW c \in Clients PROVE Onward(c) \/ read'[c] = NoRead \/ read'[c].gen = None
  <2>1. ASSUME NEW e \in Readers, StartReading(e) \/ AgentsRead(e) \/ QueuesRead(e)
        PROVE  Onward(c) \/ read'[c] = NoRead \/ read'[c].gen = None
    <3>1. e \in Clients /\ (EndRead(e) \/ BeginRead(e, "queues") \/ BeginRead(e, "agents"))
      BY <2>1, Consts DEF StartReading, AgentsRead, QueuesRead
    <3> QED
      BY <1>a, <2>1, <3>1, BeginsAndEnds, ReadsOfOthers
  <2>2. ASSUME NEW p \in Refreshers,
               MarkRefreshing(p) \/ ReadQueues(p) \/ Fetch(p) \/ FetchFails(p) \/ RecheckQueues(p) \/ Kill(p)
        PROVE  Onward(c) \/ read'[c] = NoRead \/ read'[c].gen = None
    <3>1. p \in Clients /\ (EndRead(p) \/ BeginRead(p, "queues") \/ UNCHANGED read)
      BY <2>2, Consts DEF MarkRefreshing, ReadQueues, Fetch, FetchFails, RecheckQueues, Kill
    <3> QED
      BY <1>a, <2>2, <3>1, BeginsAndEnds, SameIsOnward, ReadsOfOthers
  <2>3. CASE UNCHANGED vars
    BY <2>3, SameIsOnward DEF vars
  <2> QED
    BY <1>a, <2>1, <2>2, <2>3, ReadsOfOthers DEF Next, ReaderStep, RefreshStep
<1>3. ASSUME NEW c \in Clients PROVE ReadOf(c)'
  BY <1>2, ReadOfStep
<1>4. ASSUME NEW p \in Refreshers PROVE BuildOf(p)'
  <2>1. CASE refresher'[p] = refresher[p] /\ Onward(p)
    BY <2>1, BuildOfStays
  <2>2. p \in Clients /\ p \notin Readers
    BY Consts
  <2>3. CASE ReadStep \/ ReaderStep \/ Expiry \/ UNCHANGED vars
    <3>1. UNCHANGED refresher
      BY <2>3 DEF ReadStep, ReaderStep, vars, ReadMeta, ReadPayload, ReadAgain,
                  StartReading, AgentsRead, QueuesRead, Expiry, LockExpires, PayloadExpires
    <3>2. Onward(p)
      BY <1>a, <2>2, <2>3, ReadsOfOthers, SameIsOnward DEF ReaderStep, vars
    <3> QED
      BY <2>1, <3>1, <3>2
  <2>4. CASE RefreshStep
    <3>1. PICK q \in Refreshers :
             \/ \E d \in Datasets : Acquire(q, d)
             \/ Begin(q) \/ BeginFails(q) \/ MarkRefreshing(q) \/ ReadQueues(q)
             \/ Fetch(q) \/ FetchFails(q) \/ RecheckQueues(q)
             \/ StorePayload(q) \/ Activate(q) \/ PutRefused(q)
             \/ Cleanup(q) \/ DropTemp(q) \/ PutFailure(q) \/ Release(q) \/ Kill(q)
      BY <2>4 DEF RefreshStep
    <3>2. CASE q = p
      BY <3>1, <3>2, BuildOfOwn
    <3>3. CASE q # p
      <4>1. refresher'[p] = refresher[p]
        BY <1>a, <3>1, <3>3 DEF TypeOK, Goto, Acquire, Begin, BeginFails, MarkRefreshing, ReadQueues, Fetch,
           FetchFails, RecheckQueues, StorePayload, Activate, PutRefused, Cleanup, DropTemp, PutFailure,
           Release, Kill
      <4>2. Onward(p)
        BY <1>a, <2>2, <3>1, <3>3, ReadsOfOthers
      <4> QED
        BY <2>1, <4>1, <4>2
    <3> QED
      BY <3>2, <3>3
  <2> QED
    BY <2>3, <2>4 DEF Next
<1>5. ASSUME NEW c \in Readers PROVE PageOf(c)'
  <2>1. CASE reader'[c] = reader[c] /\ Onward(c)
    BY <2>1, PageOfStays
  <2>2. c \in Clients /\ c \notin Refreshers
    BY Consts
  <2>3. CASE ReadStep \/ RefreshStep \/ Expiry \/ UNCHANGED vars
    <3>1. UNCHANGED reader
      BY <2>3 DEF ReadStep, RefreshStep, vars, ReadMeta, ReadPayload, ReadAgain, Acquire, Begin, BeginFails,
         MarkRefreshing, ReadQueues, Fetch, FetchFails, RecheckQueues, StorePayload, Activate, PutRefused,
         Cleanup, DropTemp, PutFailure, Release, Kill, Expiry, LockExpires, PayloadExpires
    <3>2. Onward(c)
      BY <1>a, <2>2, <2>3, ReadsOfOthers, SameIsOnward DEF RefreshStep, vars
    <3> QED
      BY <2>1, <3>1, <3>2
  <2>4. CASE ReaderStep
    <3>1. PICK e \in Readers : StartReading(e) \/ AgentsRead(e) \/ QueuesRead(e)
      BY <2>4 DEF ReaderStep
    <3>2. CASE e = c
      BY <3>1, <3>2, PageOfOwn
    <3>3. CASE e # c
      <4>1. reader'[c] = reader[c]
        BY <1>a, <3>1, <3>3 DEF TypeOK, StartReading, AgentsRead, QueuesRead, Answer
      <4>2. Onward(c)
        BY <1>a, <2>2, <3>1, <3>3, ReadsOfOthers
      <4> QED
        BY <2>1, <4>1, <4>2
    <3> QED
      BY <3>2, <3>3
  <2> QED
    BY <2>3, <2>4 DEF Next
<1> QED
  BY <1>b, <1>1, <1>3, <1>4, <1>5 DEF PairInv

LEMMA PairInit == Init => PairInv
<1> SUFFICES ASSUME Init PROVE PairInv
  OBVIOUS
<1>1. \A c \in Clients : ReadOf(c)
  BY DEF Init, ReadOf
<1>2. \A p \in Refreshers : BuildOf(p)
  BY DEF Init, BuildOf, Busy
<1>3. \A c \in Readers : PageOf(c)
  BY DEF Init, PageOf
<1>4. /\ <<active["agents"], active["queues"]>> \in history.together
      /\ \A g \in Gens : store[g].queues <= active["queues"]
  BY DEF Init, Datasets, None
<1> QED
  BY <1>1, <1>2, <1>3, <1>4 DEF PairInv

\* The agents a page gets were built from the queues it is told, and were active
\* together with them.
THEOREM AgentsComeWithTheirQueues == Spec => []PairWasCurrent
<1>1. PairInv => PairWasCurrent
  BY DEF PairInv, PageOf, PairWasCurrent
<1> QED
  BY <1>1, KeepInit, KeepNext, PairInit, PairNext, PTL DEF Spec

-----------------------------------------------------------------------------
(* A read misses what is there only when it is replaced twice under it. *)

\* A generation once active was replaced by others only, and what has not been
\* written has not expired.
Replacements ==
  /\ \A d \in Datasets : history.activated[d] > 0 => active[d] # None
  /\ \A g \in Gens : g > made => store[g].state = "unwritten"

\* What excuses a read of d that has missed: as many activations, or a payload
\* that has outlived its lifetime.
Excused(d, n) == history.activated[d] >= n \/ Expired(d)

\* The read r began with a snapshot there and has missed once for a replacement;
\* what it has read is what is active, or it is going to miss once more.
Chance(r) ==
  r.since > 0 =>
    /\ history.activated[r.dataset] >= r.since
    /\ r.attempt = 2 => Excused(r.dataset, r.since + 1)
    /\ r.pc \in {"payload", "again"} =>
         /\ r.gen # None
         /\ active[r.dataset] = r.gen \/ Excused(r.dataset, r.since + r.attempt)
    /\ r.pc = "again" /\ ~r.found => Excused(r.dataset, r.since + r.attempt)
    /\ r.pc = "done" /\ r.gen = None => Excused(r.dataset, r.since + 2)

MissInv == Replacements /\ \A c \in Clients : read[c] # NoRead => Chance(read[c])

\* What has expired stays so, and what was not written is written next or not.
LEMMA ExpiredStays ==
  ASSUME KeepInv, Replacements, [Next]_vars
  PROVE  /\ \A d \in Datasets : Expired(d) => Expired(d)'
         /\ \A g \in Gens : g > made' => store'[g].state = "unwritten"
<1>1. store \in [Gens -> Payload] /\ made \in Nat /\ Gens \subseteq Nat
  BY Consts DEF KeepInv, TypeOK
<1>2. ASSUME NEW p \in Refreshers, StorePayload(p)
      PROVE  /\ made' = made + 1
             /\ \A g \in Gens : g # made + 1 => store'[g] = store[g]
             /\ \A g \in Gens : store[g].state = "expired" => g # made + 1
  BY <1>1, <1>2 DEF StorePayload, Replacements
<1>3. ASSUME NEW g \in Gens, store[g].state = "expired"
      PROVE  store'[g].state = "expired" /\ store'[g].dataset = store[g].dataset
  BY <1>1, <1>2, <1>3, StoreMoves DEF Delete, PayloadExpires
<1>4. \A d \in Datasets : Expired(d) => Expired(d)'
  BY <1>3 DEF Expired
<1>5. ASSUME NEW g \in Gens, g > made' PROVE store'[g].state = "unwritten"
  <2>1. g > made /\ store[g].state = "unwritten"
    BY <1>1, <1>2, <1>5, StoreMoves DEF Replacements
  <2> QED
    BY <1>1, <1>2, <1>5, <2>1, StoreMoves DEF Delete, PayloadExpires
<1> QED
  BY <1>4, <1>5

\* Activations are counted.
LEMMA ActivationsCount ==
  ASSUME KeepInv, Replacements, [Next]_vars, NEW d \in Datasets
  PROVE  /\ history.activated[d] \in Nat /\ history'.activated[d] \in Nat
         /\ history.activated[d] <= history'.activated[d]
         /\ active'[d] # active[d] => history'.activated[d] = history.activated[d] + 1
         /\ active'[d] = active[d] => history'.activated[d] = history.activated[d]
<1>1. history.activated \in [Datasets -> Nat] /\ active \in [Datasets -> GenOrNone]
  BY DEF KeepInv, TypeOK
<1>2. (\E e, g : PutMeta(e, g)) \/ UNCHANGED <<active, history>>
  BY ActiveMoves
<1>3. ASSUME NEW e, NEW g, PutMeta(e, g)
      PROVE  /\ active'[d] = IF d = e THEN g ELSE active[d]
             /\ history'.activated[d] = IF d = e /\ g # active[e] THEN history.activated[d] + 1
                                        ELSE history.activated[d]
  BY <1>1, <1>3 DEF PutMeta
<1> QED
  BY <1>1, <1>2, <1>3

\* Init and steps: a generation replaces another.
LEMMA ReplacementsNext ==
  ASSUME KeepInv, Replacements, [Next]_vars
  PROVE  Replacements'
<1>1. ASSUME NEW d \in Datasets, history'.activated[d] > 0 PROVE active'[d] # None
  <2>1. active[d] \in Nat /\ active'[d] >= active[d] /\ active'[d] \in Nat
    <3>1. active' \in [Datasets -> GenOrNone]
      BY NextTypes DEF KeepInv, TypeOK
    <3> QED
      BY <3>1, KeepFacts, ActiveAdvances, Consts
  <2>2. CASE active'[d] = active[d]
    BY <1>1, <2>2, ActivationsCount DEF Replacements
  <2>3. CASE active'[d] # active[d]
    BY <2>1, <2>3 DEF None
  <2> QED
    BY <2>2, <2>3
<1> QED
  BY <1>1, ExpiredStays DEF Replacements

\* A read's chance after a step, whatever the read is.
LEMMA ChanceThen ==
  ASSUME NEW c, NEW r, read'[c] = r, Chance(r)'
  PROVE  Chance(read[c])'
BY DEF Chance, Excused, Expired

\* An excuse counts on.
LEMMA ExcusedStays ==
  ASSUME KeepInv, Replacements, [Next]_vars, NEW d \in Datasets, NEW n \in Nat
  PROVE  /\ Excused(d, n) => Excused(d, n)'
         /\ history.activated[d] >= n => history'.activated[d] >= n
         /\ Excused(d, n) /\ active'[d] # active[d] => Excused(d, n + 1)'
         /\ history.activated[d] >= n /\ active'[d] # active[d] => Excused(d, n + 1)'
BY ActivationsCount, ExpiredStays DEF Excused

\* A read that does nothing keeps its chance.
LEMMA ChanceStays ==
  ASSUME KeepInv, Replacements, [Next]_vars, NEW r \in Read, Chance(r)
  PROVE  Chance(r)'
<1> SUFFICES ASSUME r.since > 0 PROVE Chance(r)'
  BY DEF Chance
<1>1. /\ r.dataset \in Datasets /\ r.since \in Nat /\ r.since + 1 \in Nat /\ r.since + 2 \in Nat
      /\ r.attempt \in {1, 2} /\ r.since + r.attempt \in Nat
      /\ (r.since + 1) + 1 = r.since + 2
  BY DEF Read
<1>2. history'.activated[r.dataset] >= r.since
  BY <1>1, ExcusedStays DEF Chance
<1>3. r.attempt = 2 => Excused(r.dataset, r.since + 1)'
  BY <1>1, ExcusedStays DEF Chance
<1>4. ASSUME r.pc \in {"payload", "again"}
      PROVE  /\ r.gen # None
             /\ active'[r.dataset] = r.gen \/ Excused(r.dataset, r.since + r.attempt)'
  <2>1. CASE Excused(r.dataset, r.since + r.attempt)
    BY <1>1, <1>4, <2>1, ExcusedStays DEF Chance
  <2>2. CASE active[r.dataset] = r.gen /\ active'[r.dataset] # active[r.dataset]
    <3>1. CASE r.attempt = 1
      BY <1>1, <1>4, <2>2, <3>1, ExcusedStays DEF Chance
    <3>2. CASE r.attempt = 2
      BY <1>1, <1>4, <2>2, <3>2, ExcusedStays DEF Chance
    <3> QED
      BY <1>1, <3>1, <3>2
  <2>3. CASE active[r.dataset] = r.gen /\ active'[r.dataset] = active[r.dataset]
    BY <1>4, <2>3 DEF Chance
  <2> QED
    BY <1>4, <2>1, <2>2, <2>3 DEF Chance
<1>5. r.pc = "again" /\ ~r.found => Excused(r.dataset, r.since + r.attempt)'
  BY <1>1, ExcusedStays DEF Chance
<1>6. r.pc = "done" /\ r.gen = None => Excused(r.dataset, r.since + 2)'
  BY <1>1, ExcusedStays DEF Chance
<1> QED
  BY <1>2, <1>3, <1>4, <1>5, <1>6 DEF Chance

\* A missed attempt is excused, and the next one is as good as the first.
LEMMA MissedAttempt ==
  ASSUME KeepInv, NEW c \in Clients, read[c] # NoRead, Chance(read[c]), NextAttempt(c),
         read[c].since > 0 => Excused(read[c].dataset, read[c].since + read[c].attempt)
  PROVE  read'[c] \in Read /\ Chance(read'[c])
<1>1. read \in [Clients -> Read \cup {NoRead}] /\ None \in GenOrNone
  BY Consts DEF KeepInv, TypeOK
<1> PICK r \in Read : r = read[c]
  BY <1>1
<1> DEFINE pc == IF r.attempt = 1 THEN "meta" ELSE "done"
           r1 == [r EXCEPT !.pc = pc]
           r2 == [r1 EXCEPT !.attempt = 2]
           new == [r2 EXCEPT !.gen = None]
<1>2. read'[c] = new
  BY <1>1 DEF NextAttempt
<1>3. pc \in {"meta", "done"} /\ (pc = "done" => r.attempt = 2)
  BY DEF Read
<1> HIDE DEF pc
<1>4. /\ new \in Read /\ new.pc = pc /\ new.attempt = 2 /\ new.gen = None
      /\ new.dataset = r.dataset /\ new.since = r.since
  <2>1. r1 \in Read /\ r1.pc = pc /\ r1.dataset = r.dataset /\ r1.since = r.since
    BY <1>3, ReadFields DEF Read
  <2> HIDE DEF r1
  <2>2. r2 \in Read /\ r2.pc = pc /\ r2.attempt = 2 /\ r2.dataset = r.dataset /\ r2.since = r.since
    BY <2>1, ReadFields DEF Read
  <2> HIDE DEF r2
  <2> QED
    BY <1>1, <2>2, ReadFields DEF Read
<1> HIDE DEF r1, r2, new
<1>5. r.attempt \in {1, 2}
  BY DEF Read
<1>6. r.since > 0 => Excused(r.dataset, r.since + 1)
  <2>1. CASE r.attempt = 1
    BY <2>1
  <2>2. CASE r.attempt = 2
    BY <2>2 DEF Chance
  <2> QED
    BY <1>5, <2>1, <2>2
<1>7. Chance(new)
  BY <1>3, <1>4, <1>6 DEF Chance
<1> QED
  BY <1>2, <1>4, <1>7

\* A read that goes on.
LEMMA ChanceGoesOn ==
  ASSUME KeepInv, MissInv, NEW c \in Clients, ReadMeta(c) \/ ReadPayload(c) \/ ReadAgain(c)
  PROVE  read'[c] \in Read /\ Chance(read'[c])
<1>1. read \in [Clients -> Read \cup {NoRead}] /\ read[c] # NoRead
  BY DEF KeepInv, TypeOK, ReadMeta, ReadPayload, ReadAgain, NoRead
<1>2. read[c] \in Read /\ Chance(read[c])
  BY <1>1 DEF MissInv
<1> PICK r \in Read : r = read[c]
  BY <1>2
<1>3. /\ r.dataset \in Datasets /\ r.since \in Nat /\ r.attempt \in {1, 2} /\ r.gen \in GenOrNone
      /\ Chance(r)
  BY <1>2 DEF Read
<1>4. CASE ReadMeta(c)
  <2>1. CASE active[r.dataset] = None
    <3>1. NextAttempt(c)
      BY <1>4, <2>1 DEF ReadMeta
    <3>2. ~(r.since > 0)
      <4>1. history.activated[r.dataset] \in Nat
        BY <1>3 DEF KeepInv, TypeOK
      <4> QED
        BY <1>3, <2>1, <4>1 DEF MissInv, Replacements, Chance
    <3> QED
      BY <1>1, <1>2, <3>1, <3>2, MissedAttempt
  <2>2. CASE active[r.dataset] # None
    <3> DEFINE new == [r EXCEPT !.pc = "payload", !.gen = active[r.dataset]]
    <3>1. read'[c] = new
      BY <1>1, <1>4, <2>2 DEF ReadMeta
    <3>2. active[r.dataset] \in GenOrNone
      BY <1>3 DEF KeepInv, TypeOK
    <3>3. /\ new \in Read /\ new.pc = "payload" /\ new.gen = active[r.dataset]
          /\ new.dataset = r.dataset /\ new.since = r.since /\ new.attempt = r.attempt
      BY <3>2 DEF Read
    <3> HIDE DEF new
    <3> QED
      BY <1>3, <2>2, <3>1, <3>3 DEF Chance
  <2> QED
    BY <2>1, <2>2
<1>5. CASE ReadPayload(c)
  <2> DEFINE found == store[r.gen].state = "stored"
             new == [r EXCEPT !.pc = "again", !.found = found]
  <2>1. read'[c] = new /\ r.pc = "payload"
    BY <1>1, <1>5 DEF ReadPayload
  <2>2. r.since > 0 /\ ~found => Excused(r.dataset, r.since + r.attempt)
    <3> SUFFICES ASSUME r.since > 0, ~found, active[r.dataset] = r.gen, r.gen # None
                 PROVE  Expired(r.dataset)
      BY <1>3, <2>1 DEF Chance, Excused
    <3>1. store[r.gen].state = "expired" /\ store[r.gen].dataset = r.dataset
      BY <1>3 DEF KeepInv, ActiveIsStored, Kept
    <3>2. r.gen \in Gens
      BY <1>3, Consts
    <3> QED
      BY <3>1, <3>2 DEF Expired
  <2>b. found \in BOOLEAN
    OBVIOUS
  <2> HIDE DEF found
  <2>3. /\ new \in Read /\ new.pc = "again" /\ new.gen = r.gen /\ new.dataset = r.dataset
        /\ new.since = r.since /\ new.attempt = r.attempt
    BY <2>b DEF Read
  <2>4. new.found = found
    BY DEF Read
  <2> HIDE DEF new
  <2>5. Chance(new)
    BY <1>3, <2>1, <2>2, <2>3, <2>4 DEF Chance
  <2> QED
    BY <2>1, <2>3, <2>5
<1>6. CASE ReadAgain(c)
  <2>1. CASE r.found /\ active[r.dataset] = r.gen
    <3> DEFINE new == [r EXCEPT !.pc = "done"]
    <3>1. read'[c] = new /\ r.pc = "again"
      BY <1>1, <1>6, <2>1 DEF ReadAgain
    <3>2. /\ new \in Read /\ new.pc = "done" /\ new.gen = r.gen /\ new.dataset = r.dataset
          /\ new.since = r.since /\ new.attempt = r.attempt
      BY DEF Read
    <3> HIDE DEF new
    <3> QED
      BY <1>3, <3>1, <3>2 DEF Chance
  <2>2. CASE ~(r.found /\ active[r.dataset] = r.gen)
    <3>1. NextAttempt(c) /\ r.pc = "again"
      BY <1>6, <2>2 DEF ReadAgain
    <3>2. r.since > 0 => Excused(r.dataset, r.since + r.attempt)
      BY <1>3, <2>2, <3>1 DEF Chance
    <3> QED
      BY <1>1, <1>2, <3>1, <3>2, MissedAttempt
  <2> QED
    BY <2>1, <2>2
<1> QED
  BY <1>4, <1>5, <1>6

\* What can happen to a read.
LEMMA ReadMoves ==
  ASSUME KeepInv, [Next]_vars, NEW c \in Clients
  PROVE  \/ read'[c] = read[c]
         \/ read'[c] = NoRead
         \/ \E d \in Datasets : BeginRead(c, d)
         \/ ReadMeta(c) \/ ReadPayload(c) \/ ReadAgain(c)
<1>1. read \in [Clients -> Read \cup {NoRead}]
  BY DEF KeepInv, TypeOK
<1>2. \/ UNCHANGED read
      \/ \E e \in Clients : EndRead(e) \/ \E d \in Datasets : BeginRead(e, d)
      \/ \E e \in Clients : ReadMeta(e) \/ ReadPayload(e) \/ ReadAgain(e)
  BY Consts DEF Next, vars, ReadStep, ReaderStep, RefreshStep, Expiry,
     StartReading, AgentsRead, QueuesRead, Acquire, Begin, BeginFails, MarkRefreshing, ReadQueues,
     Fetch, FetchFails, RecheckQueues, StorePayload, Activate, PutRefused, Cleanup, DropTemp,
     PutFailure, Release, Kill, LockExpires, PayloadExpires
<1>3. ASSUME NEW e \in Clients, e # c, EndRead(e) \/ \E d \in Datasets : BeginRead(e, d)
      PROVE  read'[c] = read[c]
  BY <1>1, <1>3 DEF EndRead, BeginRead
<1>4. ASSUME NEW e \in Clients, e # c, ReadMeta(e) \/ ReadPayload(e) \/ ReadAgain(e)
      PROVE  read'[c] = read[c]
  BY <1>1, <1>4 DEF ReadMeta, ReadPayload, ReadAgain, NextAttempt
<1>5. EndRead(c) => read'[c] = NoRead
  BY <1>1 DEF EndRead
<1> QED
  BY <1>2, <1>3, <1>4, <1>5

\* Every step keeps the chances of the reads.
LEMMA MissNext == KeepInv /\ MissInv /\ [Next]_vars => MissInv'
<1> SUFFICES ASSUME KeepInv, MissInv, [Next]_vars
             PROVE  MissInv'
  OBVIOUS
<1>1. Replacements /\ Replacements' /\ read \in [Clients -> Read \cup {NoRead}]
  BY ReplacementsNext DEF MissInv, KeepInv, TypeOK
<1>2. ASSUME NEW c \in Clients, read'[c] # NoRead PROVE Chance(read[c])'
  <2>1. CASE read'[c] = read[c]
    <3> PICK r \in Read : r = read[c]
      BY <1>1, <1>2, <2>1
    <3>1. Chance(r)
      BY <1>2, <2>1 DEF MissInv
    <3>2. Chance(r)'
      BY <1>1, <3>1, ChanceStays
    <3> QED
      BY <2>1, <3>2, ChanceThen
  <2>2. ASSUME NEW d \in Datasets, BeginRead(c, d) PROVE Chance(read[c])'
    <3> PICK n : n = history.activated[d]
      OBVIOUS
    <3> DEFINE r == [pc |-> "meta", dataset |-> d, attempt |-> 1, gen |-> None,
                     found |-> FALSE, since |-> n]
    <3>1. read'[c] = r
      BY <1>1, <2>2 DEF BeginRead
    <3>2. history'.activated[d] >= n
      BY <1>1, ActivationsCount
    <3>3. Chance(r)'
      BY <3>2 DEF Chance
    <3> QED
      BY <3>1, <3>3, ChanceThen
  <2>3. CASE ReadMeta(c) \/ ReadPayload(c) \/ ReadAgain(c)
    <3> PICK r \in Read : r = read'[c] /\ Chance(r)
      BY <2>3, ChanceGoesOn
    <3>1. Chance(r)'
      BY <1>1, ChanceStays
    <3> QED
      BY <3>1, ChanceThen
  <2> QED
    BY <1>2, <2>1, <2>2, <2>3, ReadMoves
<1> QED
  BY <1>1, <1>2 DEF MissInv

LEMMA MissInit == Init => MissInv
<1> SUFFICES ASSUME Init PROVE MissInv
  OBVIOUS
<1>1. Replacements
  BY DEF Init, Replacements
<1> QED
  BY <1>1 DEF Init, MissInv

\* A page or a refresh that is sent away without a snapshot, although there was one
\* when it began to read, has seen it replaced twice, or one has expired.
THEOREM OneRefreshHidesNothing == Spec => []OneRefreshIsNoMiss
<1>1. KeepInv /\ MissInv => OneRefreshIsNoMiss
  <2> SUFFICES ASSUME KeepInv, MissInv, NEW c \in Clients,
                      read[c].pc = "done", read[c].gen = None, read[c].since > 0
               PROVE  \/ history.activated[read[c].dataset] > read[c].since + 1
                      \/ Expired(read[c].dataset)
    BY DEF OneRefreshIsNoMiss, Returned
  <2>1. read[c] # NoRead
    BY DEF NoRead
  <2>2. Excused(read[c].dataset, read[c].since + 2)
    BY <2>1 DEF MissInv, Chance
  <2>3. read[c] \in Read /\ read[c].since \in Nat /\ history.activated[read[c].dataset] \in Nat
    <3>1. read[c] \in Read
      BY <2>1 DEF KeepInv, TypeOK
    <3> QED
      BY <3>1 DEF Read, KeepInv, TypeOK
  <2> QED
    BY <2>2, <2>3 DEF Excused
<1> QED
  BY <1>1, KeepInit, KeepNext, MissInit, MissNext, PTL DEF Spec
=============================================================================
