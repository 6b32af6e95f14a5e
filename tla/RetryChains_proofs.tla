------------------------ MODULE RetryChains_proofs ------------------------
(***************************************************************************)
(* What holds of retry chains for every number of runs, tickets and        *)
(* workers, on top of the invariant of single runs.                        *)
(***************************************************************************)
EXTENDS TicketPipeline_proofs

chainVars == <<root, parent, seq, resolution>>

(* Only Materialize and the operators change chains: a worker's write moves  *)
(* a run on without inserting or removing a row.                             *)
LEMMA WorkKeepsRows ==
  ASSUME PipelineInv, NEW w \in Workers, Work(w) \/ Fault(w), ~Materialize(w)
  PROVE  /\ UNCHANGED chainVars
         /\ \A r \in Runs : Present(r)' <=> Present(r)
         /\ \A r \in Runs : status[r] \in {"failed", "uncertain"} =>
              status'[r] \in {"failed", "uncertain"}
<1> USE DEF PipelineInv, TypeOK, TablesTypeOK, WorkerTypeOK, ExclusiveClaim,
        Processing, chainVars, Present, tables, runVars, workerVars
<1>1. CASE Work(w)
  <2>1. CASE Claim(w)
    BY <2>1 DEF Claim
  <2>2. CASE FinishSuccess(w) \/ FinishNotSent(w)
    BY <2>2 DEF FinishSuccess, FinishNotSent
  <2>3. CASE FinishFailed(w)
    BY <2>3 DEF FinishFailed
  <2>4. CASE FinishUncertain(w)
    BY <2>4 DEF FinishUncertain, Finished
  <2>5. CASE \/ Acquire(w) \/ TakeBatch(w) \/ SwitchedOff(w) \/ EndBatch(w)
             \/ SkipClaimed(w) \/ PreflightRefuses(w) \/ DuplicateGuard(w)
    BY <2>5 DEF Acquire, TakeBatch, SwitchedOff, EndBatch, SkipClaimed,
                PreflightRefuses, DuplicateGuard
  <2>6. CASE \/ CreateAttempt(w) \/ SendCreate(w)
             \/ ReplyCreated(w) \/ ReplyMissing(w) \/ ReplyUnclear(w)
    BY <2>6 DEF CreateAttempt, SendCreate, ReplyCreated, ReplyMissing,
                ReplyUnclear, GetReply
  <2>7. CASE \/ RecordCreated(w) \/ RecordMissing(w) \/ RecordUnclear(w)
             \/ Reconcile(w) \/ SettleReconciled(w)
    BY <2>7 DEF RecordCreated, RecordMissing, RecordUnclear, Reconcile,
                SettleReconciled
  <2> QED
    BY <1>1, <2>1, <2>2, <2>3, <2>4, <2>5, <2>6, <2>7 DEF Work
<1>2. CASE Fault(w)
  BY <1>2 DEF Fault, DbFails, StartFails, SuccessUnsaved, ReconcileFails,
              BatchAborted, Crash
<1> QED
  BY <1>1, <1>2

(* Where no row is inserted and no link changes, chains keep their shape.    *)
LEMMA KeptRowsKeepChains ==
  ASSUME PipelineInv, ChainInv, UNCHANGED chainVars,
         \A r \in Runs : Present(r)' <=> Present(r),
         \A r \in Runs : status[r] \in {"failed", "uncertain"} =>
           status'[r] \in {"failed", "uncertain"}
  PROVE  ChainInv'
<1> USE DEF chainVars
<1>1. \A r \in Runs : Children(r)' = Children(r) /\ RootOf(r)' = RootOf(r)
  BY DEF Children, RootOf
<1>2. \A r \in Runs : IsLeaf(r)' <=> IsLeaf(r)
  BY <1>1 DEF IsLeaf
<1>3. RetryLine'
  <2>1. \A r \in Runs : Children(r) \subseteq Runs
    BY DEF Children
  <2> QED
    BY <1>1, <2>1 DEF ChainInv, RetryLine
<1>4. ChainShape'
  <2>1. root \in [Runs -> Runs \cup {NoRun}] /\ parent \in [Runs -> Runs \cup {NoRun}]
    BY DEF PipelineInv, TypeOK, TablesTypeOK
  <2>2. \A c \in Runs : /\ IsRoot(c)' <=> IsRoot(c)
                        /\ Members(c)' = Members(c) /\ Members(c) \subseteq Runs
    BY DEF IsRoot, Members
  <2> QED
    BY <1>1, <1>2, <2>1, <2>2 DEF ChainInv, ChainShape
<1>5. RowsInOrder'
  BY DEF ChainInv, RowsInOrder
<1> QED
  BY <1>3, <1>4, <1>5 DEF ChainInv

(* A run inserted for an occurrence, or by hand, is a chain of its own. *)
LEMMA NewRunKeepsChains ==
  ASSUME PipelineInv, ChainInv,
         (\E w \in Workers : Materialize(w)) \/ QueueRun
  PROVE  ChainInv'
<1>1. PICK new \in Runs : /\ IsNext(new) /\ ~Present(new)
                          /\ status' = [status EXCEPT ![new] = "pending"]
  BY DEF Materialize, QueueRun, IsNext
<1>2. UNCHANGED chainVars
  BY DEF Materialize, QueueRun, chainVars
<1>3. TablesTypeOK
  BY DEF PipelineInv, TypeOK
<1>4. \A r \in Runs : Present(r)' <=> Present(r) \/ r = new
  BY <1>1, <1>3 DEF Present, TablesTypeOK
<1>5. root[new] = NoRun /\ parent[new] = NoRun /\ resolution[new] = "none"
  BY <1>1 DEF ChainInv, ChainShape, PipelineInv, ResolvedByOperators, Present
<1>6. \A r \in Runs : Children(r)' = Children(r)
  BY <1>2, <1>4, <1>5 DEF Children, chainVars, Runs, NoRun
<1>7. Children(new) = {}
  BY <1>1, <1>3 DEF Children, ChainInv, ChainShape, TablesTypeOK, Runs, NoRun
<1>8. \A r \in Runs : RootOf(r)' = RootOf(r)
  BY <1>2 DEF RootOf, chainVars
<1>9. RetryLine'
  <2>1. \A r \in Runs : status[r] \in {"failed", "uncertain"} => status'[r] = status[r]
    BY <1>1, <1>3 DEF Present, TablesTypeOK
  <2>2. \A r \in Runs : Children(r) \subseteq Runs
    BY DEF Children
  <2> QED
    BY <1>2, <1>4, <1>5, <1>6, <1>7, <1>8, <2>1, <2>2
       DEF ChainInv, RetryLine, chainVars
<1>10. ChainShape'
  <2>1. \A a \in Runs : IsLeaf(a) /\ RootOf(a) = new => FALSE
    BY <1>1, <1>3
       DEF IsLeaf, IsRoot, RootOf, ChainInv, ChainShape, TablesTypeOK, Runs, NoRun
  <2>2. RootOf(new) = new
    BY <1>5 DEF RootOf
  <2>3. \A a \in Runs : IsLeaf(a)' <=> IsLeaf(a) \/ a = new
    BY <1>4, <1>6, <1>7 DEF IsLeaf
  <2>4. \A a, b \in Runs : IsLeaf(a)' /\ IsLeaf(b)' /\ RootOf(a)' = RootOf(b)' => a = b
    BY <1>8, <2>1, <2>2, <2>3 DEF ChainInv, ChainShape
  <2>5. ASSUME NEW r \in Runs, root'[r] # NoRun PROVE IsRoot(root[r])'
    <3>1. root[r] \in Runs /\ Present(root[r]) /\ root[root[r]] = NoRun
      BY <1>2, <1>3, <2>5 DEF ChainInv, ChainShape, IsRoot, chainVars, TablesTypeOK
    <3> QED
      BY <1>2, <1>4, <3>1 DEF IsRoot, chainVars
  <2>6. ASSUME NEW d \in Runs, IsRoot(d)' PROVE \E r \in Members(d)' : IsLeaf(r)'
    <3>1. CASE d = new
      BY <1>4, <2>3, <3>1 DEF Members
    <3>2. CASE d # new
      <4>1. PICK r \in Members(d) : IsLeaf(r)
        BY <1>2, <1>4, <2>6, <3>2 DEF IsRoot, ChainInv, ChainShape, chainVars
      <4>2. r \in Runs /\ r \in Members(d)'
        BY <1>2, <1>4 DEF Members, chainVars
      <4> QED
        BY <2>3, <4>1, <4>2
    <3> QED
      BY <3>1, <3>2
  <2>7. \A r \in Runs : /\ ~Present(r)' => root'[r] = NoRun /\ parent'[r] = NoRun
                        /\ parent'[r] # NoRun => Present(parent[r])'
    BY <1>2, <1>3, <1>4 DEF ChainInv, ChainShape, chainVars, TablesTypeOK
  <2> QED
    BY <2>4, <2>5, <2>6, <2>7 DEF ChainShape
<1>11. RowsInOrder'
  <2>1. seq[new] = 0 /\ \A q \in Runs : q < new => Present(q)
    BY <1>1, <1>5 DEF ChainInv, RowsInOrder, IsNext
  <2> QED
    BY <1>2, <1>4, <2>1 DEF ChainInv, RowsInOrder, chainVars, Runs
<1> QED
  BY <1>9, <1>10, <1>11 DEF ChainInv

(* retry() finds the open leaf of a chain under lock and puts a new run      *)
(* behind it.                                                               *)
ReplacesLeaf(c, leaf, new) ==
  /\ IsRoot(c) /\ IsLeaf(leaf) /\ RootOf(leaf) = c
  /\ IsNext(new) /\ ~Present(new)
  /\ status[leaf] \in {"failed", "uncertain"} /\ resolution[leaf] = "none"
  /\ status' = [status EXCEPT ![new] = "pending"]
  /\ root' = [root EXCEPT ![new] = c]
  /\ parent' = [parent EXCEPT ![new] = leaf]
  /\ seq' = [seq EXCEPT ![new] = seq[leaf] + 1]
  /\ resolution' = [resolution EXCEPT ![leaf] = "retry_created"]
  /\ UNCHANGED runTicket

LEMMA RetryReplacesLeaf ==
  ASSUME PipelineInv, NEW d \in checked, Retry(d)
  PROVE  \E c, leaf, new \in Runs : ReplacesLeaf(c, leaf, new)
<1>1. TablesTypeOK /\ d.run \in Runs
  BY DEF PipelineInv, TypeOK, ReviewTypeOK, Decision
<1>2. PICK c \in Runs : c = RootOf(d.run)
  BY <1>1 DEF RootOf, TablesTypeOK
<1>3. PICK leaf \in Members(c), new \in Runs :
        /\ OpenLeaf(leaf) /\ WellFormed(c) /\ IsNext(new) /\ ~Present(new)
        /\ status' = [status EXCEPT ![new] = "pending"]
        /\ root' = [root EXCEPT ![new] = c]
        /\ parent' = [parent EXCEPT ![new] = leaf]
        /\ seq' = [seq EXCEPT ![new] = seq[leaf] + 1]
        /\ resolution' = [resolution EXCEPT ![leaf] = "retry_created"]
  BY <1>2 DEF Retry, IsNext
<1>4. leaf \in Runs /\ RootOf(leaf) = c
  BY <1>1, <1>3 DEF RootOf, WellFormed, Members, Runs, NoRun
<1>5. UNCHANGED runTicket
  BY DEF Retry
<1> QED
  BY <1>3, <1>4, <1>5 DEF ReplacesLeaf, OpenLeaf, IsRoot, WellFormed

(* The new run is the one leaf the chain then has, and the old one settled.  *)
LEMMA RetryKeepsChains ==
  ASSUME PipelineInv, ChainInv, NEW d \in checked, Retry(d)
  PROVE  ChainInv'
<1>1. TablesTypeOK
  BY DEF PipelineInv, TypeOK
<1>2. PICK c \in Runs, leaf \in Runs, new \in Runs : ReplacesLeaf(c, leaf, new)
  BY RetryReplacesLeaf
<1> USE DEF ReplacesLeaf
<1>3. /\ Present(c) /\ Present(leaf) /\ Children(leaf) = {}
      /\ root[c] = NoRun
  BY <1>2 DEF IsRoot, IsLeaf
<1>4. RootOf(leaf) = c
  BY <1>2
<1>5. leaf # new /\ c # new
  BY <1>2, <1>3
<1>6. \A r \in Runs : Present(r)' <=> Present(r) \/ r = new
  BY <1>1, <1>2 DEF Present, TablesTypeOK
<1>7. /\ \A r \in Runs : r # leaf => Children(r)' = Children(r)
      /\ Children(leaf)' = {new}
  <2>1. \A q \in Runs : parent'[q] = IF q = new THEN leaf ELSE parent[q]
    BY <1>1, <1>2 DEF TablesTypeOK
  <2>2. parent[new] = NoRun
    BY <1>2 DEF ChainInv, ChainShape
  <2>3. \A r, q \in Runs : q \in Children(r)' <=>
          Present(q)' /\ parent'[q] = r
    BY DEF Children
  <2>4. \A r, q \in Runs : q \in Children(r) <=> Present(q) /\ parent[q] = r
    BY DEF Children
  <2>5. \A r \in Runs : Children(r) \subseteq Runs /\ Children(r)' \subseteq Runs
    BY DEF Children
  <2>6. \A r, q \in Runs : q \in Children(r)' <=>
          q \in Children(r) \/ (q = new /\ r = leaf)
    BY <1>2, <1>6, <2>1, <2>2, <2>3, <2>4 DEF Runs, NoRun
  <2>7. ASSUME NEW r \in Runs, r # leaf PROVE Children(r)' = Children(r)
    <3>1. \A q \in Runs : q \in Children(r)' <=> q \in Children(r)
      BY <2>6, <2>7
    <3> QED
      BY <2>5, <3>1
  <2>8. \A q : q \in Children(leaf)' <=> q = new
    BY <1>2, <1>3, <2>5, <2>6
  <2> QED
    BY <2>7, <2>8
<1>8. Children(new) = {}
  BY <1>1, <1>2 DEF Children, ChainInv, ChainShape, TablesTypeOK, Runs, NoRun
<1>9. /\ \A r \in Runs : r # new => RootOf(r)' = RootOf(r)
      /\ RootOf(new)' = c
  BY <1>1, <1>2, <1>3 DEF RootOf, TablesTypeOK, Runs, NoRun
<1>10. RetryLine'
  <2>1. \A r \in Runs : r # new => status'[r] = status[r] /\ seq'[r] = seq[r]
    BY <1>1, <1>2 DEF TablesTypeOK
  <2>2. resolution[new] = "none"
    BY <1>2 DEF PipelineInv, ResolvedByOperators, Present
  <2>3. SUFFICES ASSUME NEW r \in Runs, Present(r)'
                 PROVE /\ \A a, b \in Children(r)' : a = b
                       /\ Children(r)' # {} <=> resolution'[r] = "retry_created"
                       /\ Children(r)' # {} => status'[r] \in {"failed", "uncertain"}
                       /\ \A q \in Children(r)' : RootOf(q)' = RootOf(r)'
                                                  /\ seq'[q] = seq'[r] + 1
    BY DEF RetryLine
  <2>4. CASE r = leaf
    <3>1. resolution'[leaf] = "retry_created" /\ seq'[new] = seq[leaf] + 1
      BY <1>1, <1>2, <1>3 DEF TablesTypeOK
    <3> QED
      BY <1>2, <1>4, <1>5, <1>7, <1>9, <2>1, <2>4, <3>1
  <2>5. CASE r = new
    <3>1. resolution'[new] = "none" /\ Children(new)' = {}
      BY <1>1, <1>2, <1>5, <1>7, <1>8, <2>2 DEF TablesTypeOK
    <3> QED
      BY <2>5, <3>1
  <2>6. CASE r # leaf /\ r # new
    <3>1. resolution'[r] = resolution[r]
      BY <1>1, <1>2, <1>3, <2>6 DEF TablesTypeOK
    <3>2. Present(r)
      BY <1>6, <2>3, <2>6
    <3>3. Children(r)' = Children(r)
      BY <1>7, <2>6
    <3>4. \A q \in Children(r) : q \in Runs /\ q # new
      BY <1>2 DEF Children
    <3> QED
      BY <1>9, <2>1, <2>6, <3>1, <3>2, <3>3, <3>4 DEF ChainInv, RetryLine
  <2> QED
    BY <2>4, <2>5, <2>6
<1>11. ChainShape'
  <2>1. /\ \A r \in Runs : r # new => root'[r] = root[r] /\ parent'[r] = parent[r]
        /\ root'[new] = c /\ parent'[new] = leaf
    BY <1>1, <1>2 DEF TablesTypeOK
  <2>2. root \in [Runs -> Runs \cup {NoRun}] /\ parent \in [Runs -> Runs \cup {NoRun}]
    BY <1>1 DEF TablesTypeOK
  <2>3. \A a \in Runs : IsLeaf(a)' <=> (IsLeaf(a) /\ a # leaf) \/ a = new
    BY <1>2, <1>3, <1>5, <1>6, <1>7, <1>8 DEF IsLeaf
  <2>4. \A a \in Runs : IsLeaf(a) => a # new
    BY <1>2, <1>3 DEF IsLeaf
  <2>5. \A a, b \in Runs : IsLeaf(a)' /\ IsLeaf(b)' /\ RootOf(a)' = RootOf(b)' => a = b
    BY <1>2, <1>9, <2>3, <2>4 DEF ChainInv, ChainShape
  <2>6. ASSUME NEW r \in Runs, root'[r] # NoRun PROVE IsRoot(root[r])'
    <3>1. root'[r] \in Runs /\ Present(root'[r]) /\ root[root'[r]] = NoRun
      BY <1>2, <1>3, <2>1, <2>2, <2>6
         DEF ChainInv, ChainShape, IsRoot, WellFormed
    <3>2. root'[r] # new
      BY <1>2, <3>1
    <3> QED
      BY <1>6, <2>1, <3>1, <3>2 DEF IsRoot
  <2>7. ASSUME NEW e \in Runs, IsRoot(e)' PROVE \E r \in Members(e)' : IsLeaf(r)'
    <3>1. e # new /\ IsRoot(e)
      BY <1>3, <1>6, <2>1, <2>7 DEF IsRoot, Runs, NoRun
    <3>2. PICK r \in Members(e) : IsLeaf(r)
      BY <3>1 DEF ChainInv, ChainShape
    <3>3. r \in Runs /\ r # new /\ r \in Members(e)'
      BY <1>2, <1>6, <2>1 DEF Members
    <3>4. CASE r # leaf
      BY <2>3, <3>2, <3>3, <3>4
    <3>5. CASE r = leaf
      <4>1. e = c
        BY <1>4, <3>1, <3>2, <3>5 DEF Members, RootOf, IsRoot, Runs, NoRun
      <4> QED
        BY <1>6, <2>1, <2>3, <4>1 DEF Members
    <3> QED
      BY <3>4, <3>5
  <2>8. \A r \in Runs : /\ ~Present(r)' => root'[r] = NoRun /\ parent'[r] = NoRun
                        /\ parent'[r] # NoRun => Present(parent[r])'
    BY <1>3, <1>6, <2>1, <2>2 DEF ChainInv, ChainShape
  <2> QED
    BY <2>5, <2>6, <2>7, <2>8 DEF ChainShape
<1>12. RowsInOrder'
  <2>1. leaf < new /\ seq[leaf] < leaf
    BY <1>2, <1>3, <1>5 DEF ChainInv, RowsInOrder, Runs
  <2>2. /\ \A r \in Runs : r # new => /\ root'[r] = root[r] /\ parent'[r] = parent[r]
                                     /\ seq'[r] = seq[r]
        /\ root'[new] = c /\ parent'[new] = leaf /\ seq'[new] = seq[leaf] + 1
    BY <1>1, <1>2 DEF TablesTypeOK
  <2>3. \A r \in Runs : r # new => (Present(r)' <=> Present(r))
    BY <1>6
  <2>4. seq[leaf] \in Nat /\ leaf \in Nat /\ new \in Nat /\ c # NoRun /\ leaf # NoRun
    BY <1>1, RunsAssumption DEF TablesTypeOK, Runs, NoRun
  <2>5. seq'[new] < new
    BY <2>1, <2>2, <2>4
  <2>6. \A q \in Runs : q < new => Present(q)
    BY <1>2 DEF IsNext
  <2>7. \A r \in Runs : Present(r) => Present(r)'
    BY <1>6
  <2> QED
    BY <2>2, <2>3, <2>4, <2>5, <2>6, <2>7 DEF ChainInv, RowsInOrder
<1> QED
  BY <1>10, <1>11, <1>12 DEF ChainInv

(* link() and close() settle the one open leaf of a chain without a retry.   *)
LEMMA SettlingKeepsChains ==
  ASSUME PipelineInv, ChainInv, NEW r \in Runs, IsLeaf(r),
         resolution[r] = "none", NEW how \in {"manual_link", "manual_closed"},
         resolution' = [resolution EXCEPT ![r] = how],
         UNCHANGED <<status, root, parent, seq>>
  PROVE  ChainInv'
<1>1. TablesTypeOK
  BY DEF PipelineInv, TypeOK
<1>2. \A q \in Runs : /\ Children(q)' = Children(q) /\ RootOf(q)' = RootOf(q)
                      /\ Present(q)' = Present(q) /\ IsLeaf(q)' = IsLeaf(q)
  BY DEF Children, RootOf, Present, IsLeaf
<1>3. \A q \in Runs :
        resolution'[q] = "retry_created" <=> resolution[q] = "retry_created"
  BY <1>1 DEF TablesTypeOK
<1>4. \A q \in Runs : Children(q) \subseteq Runs
  BY DEF Children
<1>5. RetryLine'
  BY <1>2, <1>3, <1>4 DEF ChainInv, RetryLine
<1>6. ChainShape'
  <2>1. \A c \in Runs : /\ IsRoot(c)' <=> IsRoot(c)
                        /\ Members(c)' = Members(c) /\ Members(c) \subseteq Runs
    BY DEF IsRoot, Members, Present
  <2>2. root \in [Runs -> Runs \cup {NoRun}] /\ parent \in [Runs -> Runs \cup {NoRun}]
    BY <1>1 DEF TablesTypeOK
  <2> QED
    BY <1>2, <2>1, <2>2 DEF ChainInv, ChainShape
<1>7. RowsInOrder'
  BY <1>2 DEF ChainInv, RowsInOrder
<1> QED
  BY <1>5, <1>6, <1>7 DEF ChainInv

LEMMA ChainStep == PipelineInv /\ ChainInv /\ [Next]_vars => ChainInv'
<1> SUFFICES ASSUME PipelineInv, ChainInv, [Next]_vars PROVE ChainInv'
  OBVIOUS
<1>1. ASSUME NEW w \in Workers, Work(w) \/ Fault(w) PROVE ChainInv'
  BY <1>1, WorkKeepsRows, KeptRowsKeepChains, NewRunKeepsChains
<1>2. CASE Environment \/ UNCHANGED vars
  <2>1. UNCHANGED runVars
    BY <1>2 DEF Environment, LockExpires, SafetyStep, ZnunyStep, ZnunyCreates,
                ZnunyRefuses, vars, tables
  <2> QED
    BY <2>1, KeptRowsKeepChains DEF runVars, chainVars, Present
<1>3. ASSUME ReviewStep PROVE ChainInv'
  <2>1. ASSUME NEW r \in Runs, NEW t \in Tickets, CheckLink(r, t) PROVE ChainInv'
    <3>1. UNCHANGED runVars
      BY <2>1 DEF CheckLink, tables
    <3> QED
      BY <3>1, KeptRowsKeepChains DEF runVars, chainVars, Present
  <2>2. ASSUME NEW r \in Runs, CheckRetry(r) PROVE ChainInv'
    <3>1. UNCHANGED runVars
      BY <2>2 DEF CheckRetry, tables
    <3> QED
      BY <3>1, KeptRowsKeepChains DEF runVars, chainVars, Present
  <2>3. ASSUME NEW r \in Runs, Close(r) PROVE ChainInv'
    BY <2>3, SettlingKeepsChains DEF Close, Closable, OpenLeaf
  <2>4. ASSUME NEW d \in checked, Link(d) PROVE ChainInv'
    <3>1. d.run \in Runs
      BY DEF PipelineInv, TypeOK, ReviewTypeOK, Decision
    <3> QED
      BY <2>4, <3>1, SettlingKeepsChains DEF Link
  <2>5. ASSUME NEW d \in checked, Retry(d) PROVE ChainInv'
    BY <2>5, RetryKeepsChains
  <2> QED
    BY <1>3, <2>1, <2>2, <2>3, <2>4, <2>5, NewRunKeepsChains DEF ReviewStep
<1> QED
  BY <1>1, <1>2, <1>3 DEF Next, Worker, Faulty, Operator

LEMMA ChainInit == Init => ChainInv
<1> SUFFICES ASSUME Init PROVE ChainInv
  OBVIOUS
<1>1. \A r \in Runs : /\ ~Present(r) /\ ~IsLeaf(r)
                      /\ root[r] = NoRun /\ parent[r] = NoRun /\ seq[r] = 0
  BY DEF Init, TablesInit, Present, IsLeaf
<1> QED
  BY <1>1 DEF ChainInv, RetryLine, ChainShape, RowsInOrder, IsRoot

(* Retry chains are lines with one leaf each, whatever operators and workers *)
(* do in between.                                                            *)
THEOREM ChainInvariant == Spec => []ChainInv
<1>1. PipelineInv /\ ChainInv /\ [Next]_vars => ChainInv'
  BY ChainStep
<1> QED
  BY <1>1, ChainInit, PipelineInvariant, PTL DEF Spec

(* retry(), close() and link() keep every chain a line whose replaced runs   *)
(* were replaced exactly once.                                               *)
THEOREM RetriesFormALine == Spec => []RetryLine
<1>1. ChainInv => RetryLine
  BY DEF ChainInv
<1> QED
  BY <1>1, ChainInvariant, PTL

(* One occurrence of a task is booked with at most one ticket, however often *)
(* it is retried.                                                            *)
THEOREM OccurrenceBookedOnce == Spec => []OneRecordedTicketPerChain
<1>1. PipelineInv /\ ChainInv => OneRecordedTicketPerChain
  <2> SUFFICES ASSUME PipelineInv, ChainInv, NEW r \in Runs, NEW q \in Runs,
                      Present(r), Present(q), RootOf(r) = RootOf(q),
                      runTicket[r] # NoTicket, runTicket[q] # NoTicket
               PROVE  r = q
    BY DEF OneRecordedTicketPerChain
  <2>1. ASSUME NEW x \in Runs, Present(x), runTicket[x] # NoTicket
        PROVE  IsLeaf(x)
    <3>1. resolution[x] # "retry_created"
      BY <2>1 DEF PipelineInv, ResolvedByOperators
    <3> QED
      BY <2>1, <3>1 DEF ChainInv, RetryLine, IsLeaf
  <2> QED
    BY <2>1 DEF ChainInv, ChainShape
<1> QED
  BY <1>1, ChainInvariant, PipelineInvariant, PTL

----------------------------------------------------------------------------
(* Seen from its leaves, the pipeline is the ledger of occurrences.         *)

(* The leaf of a chain is the one run without a retry that leads to its root;*)
(* there is one for every chain.                                            *)
OneLeafPerChain ==
  /\ \A r \in Runs : IsLeaf(r) =>
       RootOf(r) \in Runs /\ IsRoot(RootOf(r)) /\ LeafOf(RootOf(r)) = r
  /\ \A c \in Runs : IsRoot(c) =>
       LeafOf(c) \in Runs /\ IsLeaf(LeafOf(c)) /\ RootOf(LeafOf(c)) = c

LEMMA LeafOfChain == PipelineInv /\ ChainInv => OneLeafPerChain
<1> SUFFICES ASSUME PipelineInv, ChainInv PROVE OneLeafPerChain
  OBVIOUS
<1>1. ASSUME NEW c \in Runs, IsRoot(c)
      PROVE  \A r \in Members(c) : r \in Runs /\ RootOf(r) = c
  BY <1>1 DEF Members, RootOf, IsRoot, Runs, NoRun
<1>2. ASSUME NEW c \in Runs, IsRoot(c)
      PROVE  LeafOf(c) \in Members(c) /\ IsLeaf(LeafOf(c))
  BY <1>2 DEF ChainInv, ChainShape, LeafOf
<1>3. ASSUME NEW r \in Runs, IsLeaf(r)
      PROVE  RootOf(r) \in Runs /\ IsRoot(RootOf(r))
  BY <1>3 DEF RootOf, IsRoot, IsLeaf, ChainInv, ChainShape, PipelineInv, TypeOK,
              TablesTypeOK
<1>4. ASSUME NEW r \in Runs, IsLeaf(r) PROVE LeafOf(RootOf(r)) = r
  BY <1>1, <1>2, <1>3, <1>4 DEF ChainInv, ChainShape
<1> QED
  BY <1>1, <1>2, <1>3, <1>4 DEF OneLeafPerChain

LEMMA LeafOfChainNext == PipelineInv' /\ ChainInv' => OneLeafPerChain'
  BY LeafOfChain, PTL

(* The state a step starts from and the one it ends in. *)
ChainsBefore == PipelineInv /\ ChainInv /\ OneLeafPerChain
ChainsAfter == PipelineInv' /\ ChainInv' /\ OneLeafPerChain'

(* The bills of the chains are a function of the runs.                       *)
LEMMA BillIsAFunction == ChainBill = [c \in Runs |-> ChainBill[c]]
BY Zenon DEF ChainBill

(* Where no run is inserted and no leaf changes its standing, the ledger     *)
(* does not move.                                                            *)
LEMMA QuietStepsKeepLedger ==
  ASSUME ChainsBefore, ChainsAfter, UNCHANGED chainVars,
         \A r \in Runs : Present(r)' <=> Present(r),
         \A r \in Runs : StageOfRun(r)' = StageOfRun(r) /\ runTicket'[r] = runTicket[r]
  PROVE  UNCHANGED Ledger!vars
<1>1. \A r \in Runs : /\ IsRoot(r)' <=> IsRoot(r)
                      /\ IsLeaf(r)' <=> IsLeaf(r)
                      /\ RootOf(r)' = RootOf(r)
  BY DEF chainVars, IsRoot, IsLeaf, RootOf, Children
<1>2. ASSUME NEW c \in Runs, IsRoot(c)
      PROVE  LeafOf(c)' = LeafOf(c) /\ LeafOf(c) \in Runs
  BY <1>1, <1>2 DEF ChainsBefore, ChainsAfter, OneLeafPerChain
<1>3. \A c \in Runs : /\ ChainStage'[c] = ChainStage[c]
                      /\ ChainBill'[c] = ChainBill[c]
  BY <1>1, <1>2 DEF ChainStage, ChainBill
<1> QED
  BY <1>3 DEF ChainStage, ChainBill, Ledger!vars

(* Where one leaf changes its standing, its chain does, and no other.        *)
LEMMA LeafMovesItsChain ==
  ASSUME ChainsBefore, ChainsAfter, UNCHANGED <<root, parent>>,
         \A q \in Runs : Present(q)' <=> Present(q),
         NEW r \in Runs, IsLeaf(r),
         \A q \in Runs \ {r} :
           StageOfRun(q)' = StageOfRun(q) /\ runTicket'[q] = runTicket[q]
  PROVE  /\ RootOf(r) \in Runs
         /\ ChainStage[RootOf(r)] = StageOfRun(r)
         /\ ChainStage' = [ChainStage EXCEPT ![RootOf(r)] = StageOfRun(r)']
         /\ ChainBill[RootOf(r)] = runTicket[r]
         /\ ChainBill' = [ChainBill EXCEPT ![RootOf(r)] = runTicket'[r]]
<1>1. \A q \in Runs : /\ IsRoot(q)' <=> IsRoot(q)
                      /\ IsLeaf(q)' <=> IsLeaf(q)
                      /\ RootOf(q)' = RootOf(q)
  BY DEF IsRoot, IsLeaf, RootOf, Children
<1>2. PICK c \in Runs : c = RootOf(r) /\ IsRoot(c) /\ LeafOf(c) = r
  BY DEF ChainsBefore, OneLeafPerChain
<1>3. ASSUME NEW d \in Runs, IsRoot(d)
      PROVE  LeafOf(d)' = LeafOf(d) /\ LeafOf(d) \in Runs /\ (d # c => LeafOf(d) # r)
  <2>1. LeafOf(d)' = LeafOf(d)
    BY <1>1, <1>3 DEF ChainsBefore, ChainsAfter, OneLeafPerChain
  <2>2. LeafOf(d) \in Runs /\ RootOf(LeafOf(d)) = d
    BY <1>3 DEF ChainsBefore, OneLeafPerChain
  <2> QED
    BY <1>2, <2>1, <2>2
<1>4. /\ ChainStage[c] = StageOfRun(r) /\ ChainStage'[c] = StageOfRun(r)'
      /\ ChainBill[c] = runTicket[r] /\ ChainBill'[c] = runTicket'[r]
  <2>1. LeafOf(c)' = r /\ IsRoot(c)'
    BY <1>1, <1>2, <1>3
  <2> QED
    BY <1>2, <2>1 DEF ChainStage, ChainBill
<1>5. ASSUME NEW d \in Runs, d # c
      PROVE  ChainStage'[d] = ChainStage[d] /\ ChainBill'[d] = ChainBill[d]
  <2>1. CASE IsRoot(d)
    BY <1>1, <1>3, <1>5, <2>1 DEF ChainStage, ChainBill
  <2>2. CASE ~IsRoot(d)
    BY <1>1, <2>2 DEF ChainStage, ChainBill
  <2> QED
    BY <2>1, <2>2
<1>6. /\ ChainStage' = [ChainStage EXCEPT ![c] = StageOfRun(r)']
      /\ ChainBill' = [ChainBill EXCEPT ![c] = runTicket'[r]]
  <2>1. /\ ChainStage = [d \in Runs |-> ChainStage[d]]
        /\ ChainStage' = [d \in Runs |-> ChainStage'[d]]
        /\ ChainBill = [d \in Runs |-> ChainBill[d]]
        /\ ChainBill' = [d \in Runs |-> ChainBill'[d]]
    BY DEF ChainStage, ChainBill
  <2> QED
    BY <1>2, <1>4, <1>5, <2>1
<1> QED
  BY <1>2, <1>4, <1>6

(* A run inserted for an occurrence, or by hand, opens a chain.              *)
LEMMA NewRunOpensAChain ==
  ASSUME ChainsBefore, ChainsAfter, (\E w \in Workers : Materialize(w)) \/ QueueRun
  PROVE  Ledger!Next
<1>1. TablesTypeOK
  BY DEF ChainsBefore, PipelineInv, TypeOK
<1>2. PICK new \in Runs : /\ ~Present(new)
                          /\ status' = [status EXCEPT ![new] = "pending"]
  BY DEF Materialize, QueueRun, IsNext
<1>3. UNCHANGED chainVars /\ UNCHANGED runTicket
  BY DEF Materialize, QueueRun, chainVars
<1>4. /\ root[new] = NoRun /\ parent[new] = NoRun /\ runTicket[new] = NoTicket
      /\ resolution[new] = "none"
  BY <1>2 DEF ChainsBefore, ChainInv, ChainShape, PipelineInv, ResolvedByOperators,
              Present
<1>5. \A r \in Runs : Present(r)' <=> Present(r) \/ r = new
  BY <1>1, <1>2 DEF Present, TablesTypeOK
<1>6. \A r \in Runs : Children(r)' = Children(r) /\ RootOf(r)' = RootOf(r)
  BY <1>3, <1>4, <1>5 DEF Children, RootOf, chainVars, Runs, NoRun
<1>7. Children(new) = {}
  BY <1>1, <1>2 DEF Children, ChainsBefore, ChainInv, ChainShape, TablesTypeOK, Runs,
                    NoRun
<1>8. \A r \in Runs : /\ IsLeaf(r)' <=> IsLeaf(r) \/ r = new
                      /\ IsRoot(r)' <=> IsRoot(r) \/ r = new
  BY <1>3, <1>4, <1>5, <1>6, <1>7 DEF IsLeaf, IsRoot, chainVars
<1>9. LeafOf(new)' = new
  BY <1>4, <1>6, <1>8 DEF ChainsAfter, OneLeafPerChain, RootOf
<1>10. ASSUME NEW c \in Runs, c # new
       PROVE  ChainStage'[c] = ChainStage[c] /\ ChainBill'[c] = ChainBill[c]
  <2>1. CASE IsRoot(c)
    <3>1. PICK x \in Runs : x = LeafOf(c) /\ IsLeaf(x) /\ RootOf(x) = c
      BY <2>1 DEF ChainsBefore, OneLeafPerChain
    <3>2. LeafOf(c)' = x
      BY <1>6, <1>8, <3>1 DEF ChainsAfter, OneLeafPerChain
    <3>3. x # new
      BY <1>2, <3>1 DEF IsLeaf
    <3>4. StageOfRun(x)' = StageOfRun(x)
      BY <1>1, <1>2, <1>3, <3>3 DEF StageOfRun, chainVars, TablesTypeOK
    <3> QED
      BY <1>3, <1>8, <2>1, <3>1, <3>2, <3>4 DEF ChainStage, ChainBill
  <2>2. CASE ~IsRoot(c)
    BY <1>8, <1>10, <2>2 DEF ChainStage, ChainBill
  <2> QED
    BY <2>1, <2>2
<1>11. ChainStage[new] = "none" /\ ChainBill[new] = NoTicket
  BY <1>2 DEF ChainStage, ChainBill, IsRoot
<1>12. ChainStage'[new] = "open" /\ ChainBill'[new] = NoTicket
  <2>1. StageOfRun(new)' = "open"
    <3>1. status'[new] = "pending"
      BY <1>1, <1>2 DEF TablesTypeOK
    <3> QED
      BY <3>1 DEF StageOfRun, Active
  <2>2. IsRoot(new)'
    BY <1>8
  <2> QED
    BY <1>3, <1>4, <1>9, <2>1, <2>2 DEF ChainStage, ChainBill
<1>13. /\ ChainStage = [c \in Runs |-> ChainStage[c]]
       /\ ChainStage' = [c \in Runs |-> ChainStage'[c]]
       /\ ChainBill = [c \in Runs |-> ChainBill[c]]
       /\ ChainBill' = [c \in Runs |-> ChainBill'[c]]
  BY DEF ChainStage, ChainBill
<1>14. /\ ChainStage' = [ChainStage EXCEPT ![new] = "open"]
       /\ ChainBill' = ChainBill
  BY <1>10, <1>11, <1>12, <1>13
<1> QED
  BY <1>11, <1>12, <1>14 DEF Ledger!Next, Ledger!Occur, Ledger!Move

(* A retry opens the chain of the run it replaces again.                     *)
LEMMA RetryReopensItsChain ==
  ASSUME ChainsBefore, ChainsAfter, NEW d \in checked, Retry(d)
  PROVE  Ledger!Next
<1>1. TablesTypeOK
  BY DEF ChainsBefore, PipelineInv, TypeOK
<1>2. PICK c \in Runs, leaf \in Runs, new \in Runs : ReplacesLeaf(c, leaf, new)
  BY RetryReplacesLeaf DEF ChainsBefore
<1> USE DEF ReplacesLeaf
<1>3. /\ IsRoot(c) /\ IsLeaf(leaf) /\ RootOf(leaf) = c /\ leaf # new /\ c # new
      /\ UNCHANGED runTicket
  BY <1>2 DEF IsRoot, IsLeaf
<1>4. \A r \in Runs : Present(r)' <=> Present(r) \/ r = new
  BY <1>1, <1>2 DEF Present, TablesTypeOK
<1>5. /\ \A r \in Runs : r # new => root'[r] = root[r] /\ parent'[r] = parent[r]
      /\ root'[new] = c /\ parent'[new] = leaf /\ parent[new] = NoRun
  BY <1>1, <1>2 DEF ChainsBefore, ChainInv, ChainShape, TablesTypeOK
<1>6. \A r \in Runs : r # new =>
        RootOf(r)' = RootOf(r) /\ (IsRoot(r)' <=> IsRoot(r))
  BY <1>4, <1>5 DEF RootOf, IsRoot
<1>7. RootOf(new)' = c /\ ~IsRoot(new)' /\ ~IsRoot(new)
  BY <1>2, <1>5 DEF RootOf, IsRoot, Runs, NoRun
<1>8. ASSUME NEW r \in Runs, IsLeaf(r), r # leaf PROVE IsLeaf(r)'
  <2>1. Present(r)' /\ Children(r) = {}
    BY <1>4, <1>8 DEF IsLeaf
  <2>2. Children(r)' = {}
    BY <1>4, <1>5, <1>8, <2>1 DEF Children
  <2> QED
    BY <2>1, <2>2 DEF IsLeaf
<1>9. IsLeaf(new)'
  <2>1. \A q \in Runs : parent'[q] # new
    BY <1>1, <1>2, <1>3, <1>5
       DEF ChainsBefore, ChainInv, ChainShape, TablesTypeOK, Runs, NoRun
  <2> QED
    BY <1>4, <2>1 DEF IsLeaf, Children
<1>10. LeafOf(c) = leaf /\ LeafOf(c)' = new
  BY <1>3, <1>7, <1>9 DEF ChainsBefore, ChainsAfter, OneLeafPerChain
<1>11. ASSUME NEW e \in Runs, e # c
       PROVE  ChainStage'[e] = ChainStage[e] /\ ChainBill'[e] = ChainBill[e]
  <2>1. CASE IsRoot(e)
    <3>1. PICK x \in Runs : x = LeafOf(e) /\ IsLeaf(x) /\ RootOf(x) = e
      BY <2>1 DEF ChainsBefore, OneLeafPerChain
    <3>2. x # leaf /\ x # new
      BY <1>2, <1>3, <1>11, <3>1 DEF IsLeaf
    <3>3. LeafOf(e)' = x
      BY <1>6, <1>8, <3>1, <3>2 DEF ChainsAfter, OneLeafPerChain
    <3>4. StageOfRun(x)' = StageOfRun(x)
      BY <1>1, <1>2, <3>2 DEF StageOfRun, TablesTypeOK
    <3>5. IsRoot(e)'
      BY <1>6, <1>7, <2>1
    <3> QED
      BY <1>3, <2>1, <3>1, <3>3, <3>4, <3>5 DEF ChainStage, ChainBill
  <2>2. CASE ~IsRoot(e)
    <3>1. ~IsRoot(e)'
      BY <1>6, <1>7, <2>2
    <3> QED
      BY <2>2, <3>1 DEF ChainStage, ChainBill
  <2> QED
    BY <2>1, <2>2
<1>12. ChainStage[c] = "review" /\ ChainBill[c] = NoTicket
  <2>1. StageOfRun(leaf) = "review" /\ runTicket[leaf] = NoTicket
    BY <1>2 DEF StageOfRun, Active, ChainsBefore, PipelineInv, ResolvedByOperators
  <2> QED
    BY <1>3, <1>10, <2>1 DEF ChainStage, ChainBill
<1>13. ChainStage'[c] = "open" /\ ChainBill'[c] = NoTicket
  <2>1. status'[new] = "pending" /\ runTicket[new] = NoTicket
    BY <1>1, <1>2 DEF TablesTypeOK, ChainsBefore, PipelineInv, ResolvedByOperators,
                      Present
  <2>2. IsRoot(c)'
    BY <1>3, <1>6
  <2> QED
    BY <1>3, <1>10, <2>1, <2>2 DEF ChainStage, ChainBill, StageOfRun, Active
<1>14. /\ ChainStage = [e \in Runs |-> ChainStage[e]]
       /\ ChainStage' = [e \in Runs |-> ChainStage'[e]]
       /\ ChainBill = [e \in Runs |-> ChainBill[e]]
       /\ ChainBill' = [e \in Runs |-> ChainBill'[e]]
  BY DEF ChainStage, ChainBill
<1>15. /\ ChainStage' = [ChainStage EXCEPT ![c] = "open"]
       /\ ChainBill' = ChainBill
  BY <1>11, <1>12, <1>13, <1>14
<1> QED
  BY <1>12, <1>13, <1>15 DEF Ledger!Next, Ledger!Requeue, Ledger!Move

(* The ticket a leaf is booked with pays for its chain, for no other chain   *)
(* names it.                                                                *)
LEMMA BookingPaysForTheChain ==
  ASSUME ChainsBefore, ChainsAfter, UNCHANGED <<root, parent, marker>>,
         \A q \in Runs : Present(q)' <=> Present(q),
         NEW r \in Runs, IsLeaf(r), StageOfRun(r) \in {"open", "review"},
         StageOfRun(r)' = "ticketed", runTicket'[r] # NoTicket,
         \A q \in Runs \ {r} :
           StageOfRun(q)' = StageOfRun(q) /\ runTicket'[q] = runTicket[q]
  PROVE  Ledger!Next
<1>1. PICK c \in Runs : c = RootOf(r)
  BY DEF ChainsBefore, OneLeafPerChain
<1>2. PICK t \in Tickets : runTicket'[r] = t /\ marker[t] = r
  BY DEF ChainsAfter, PipelineInv, BooksNameOwnTicket, TypeOK, TablesTypeOK
<1>3. runTicket[r] = NoTicket
  BY DEF StageOfRun, ChainsBefore, PipelineInv, ResolvedByOperators, Active
<1>4. /\ ChainStage[c] \in {"open", "review"}
      /\ ChainStage' = [ChainStage EXCEPT ![c] = "ticketed"]
      /\ ChainBill' = [ChainBill EXCEPT ![c] = t]
  BY <1>1, <1>2, LeafMovesItsChain
<1>5. ASSUME NEW d \in Runs, ChainBill[d] = t PROVE FALSE
  <2>1. PICK x \in Runs : runTicket[x] = t
    BY <1>2, <1>5, RunsAssumption DEF ChainBill, ChainsBefore, OneLeafPerChain
  <2>2. x = r
    BY <1>2, <2>1, RunsAssumption DEF ChainsBefore, PipelineInv, BooksNameOwnTicket
  <2> QED
    BY <1>2, <1>3, <2>1, <2>2, RunsAssumption
<1>6. ChainStage'[c] = "ticketed"
  BY <1>4 DEF ChainStage
<1> QED
  BY <1>4, <1>5, <1>6 DEF Ledger!Next, Ledger!Pay, Ledger!Move

(* The final write for a run changes the standing of its chain once.         *)
LEMMA WorkKeepsLedger ==
  ASSUME ChainsBefore, ChainsAfter, NEW w \in Workers, Work(w) \/ Fault(w)
  PROVE  [Ledger!Next]_(Ledger!vars)
<1>1. CASE Materialize(w)
  BY <1>1, NewRunOpensAChain
<1>2. CASE ~Materialize(w)
  <2>1. /\ UNCHANGED chainVars
        /\ \A q \in Runs : Present(q)' <=> Present(q)
    BY <1>2, WorkKeepsRows DEF ChainsBefore
  <2>2. TablesTypeOK /\ WorkerTypeOK
    BY DEF ChainsBefore, PipelineInv, TypeOK
  <2>3. ASSUME UNCHANGED <<status, runTicket>> PROVE UNCHANGED Ledger!vars
    <3>1. \A r \in Runs : StageOfRun(r)' = StageOfRun(r) /\ runTicket'[r] = runTicket[r]
      BY <2>1, <2>3 DEF StageOfRun, chainVars
    <3> QED
      BY <2>1, <3>1, QuietStepsKeepLedger
  <2>4. CASE Claim(w)
    <3>1. UNCHANGED runTicket /\ \E r \in Runs : /\ status[r] = "pending"
                       /\ status' = [status EXCEPT ![r] = "running"]
      BY <2>4 DEF Claim
    <3>2. \A r \in Runs : /\ status'[r] \in Active <=> status[r] \in Active
                          /\ status[r] \notin Active => status'[r] = status[r]
      BY <2>2, <3>1 DEF Active, TablesTypeOK
    <3>3. \A r \in Runs : StageOfRun(r)' = StageOfRun(r) /\ runTicket'[r] = runTicket[r]
      BY <2>1, <3>1, <3>2 DEF StageOfRun, chainVars
    <3> QED
      BY <2>1, <3>3, QuietStepsKeepLedger
  <2>5. ASSUME NEW r \in Runs, NEW s, status[r] = "running",
               status' = [status EXCEPT ![r] = s]
        PROVE  /\ IsLeaf(r) /\ StageOfRun(r) = "open" /\ resolution[r] = "none"
               /\ status'[r] = s
               /\ \A q \in Runs \ {r} : StageOfRun(q)' = StageOfRun(q)
    <3>1. Present(r) /\ Children(r) = {} /\ resolution[r] = "none"
      BY <2>5 DEF Present, ChainsBefore, ChainInv, RetryLine, PipelineInv,
                  ResolvedByOperators
    <3>2. status'[r] = s /\ \A q \in Runs \ {r} : status'[q] = status[q]
      BY <2>2, <2>5 DEF TablesTypeOK
    <3> QED
      BY <2>1, <2>5, <3>1, <3>2 DEF IsLeaf, StageOfRun, Active, chainVars
  <2>6. ASSUME NEW r \in Runs, status[r] = "running",
               NEW s \in {"failed", "uncertain"},
               status' = [status EXCEPT ![r] = s], UNCHANGED runTicket
        PROVE  Ledger!Next
    <3>1. PICK c \in Runs : c = RootOf(r)
      BY <2>5, <2>6 DEF ChainsBefore, OneLeafPerChain
    <3>2. StageOfRun(r)' = "review"
      BY <2>1, <2>5, <2>6 DEF StageOfRun, Active, chainVars
    <3>3. /\ ChainStage[c] = "open" /\ ChainStage' = [ChainStage EXCEPT ![c] = "review"]
          /\ ChainBill' = [ChainBill EXCEPT ![c] = runTicket[r]]
          /\ ChainBill[c] = runTicket[r]
      <4>1. /\ UNCHANGED <<root, parent>> /\ IsLeaf(r) /\ StageOfRun(r) = "open"
            /\ \A q \in Runs : (Present(q)' <=> Present(q)) /\ runTicket'[q] = runTicket[q]
        BY <2>1, <2>5, <2>6 DEF chainVars
      <4>2. \A q \in Runs \ {r} : StageOfRun(q)' = StageOfRun(q)
        BY <2>5, <2>6
      <4> QED
        BY <3>1, <3>2, <4>1, <4>2, LeafMovesItsChain
    <3>4. ChainBill' = ChainBill
      <4>1. ChainBill' = [x \in Runs |-> ChainBill[x]]
        BY <3>3, BillIsAFunction
      <4> QED
        BY <4>1, BillIsAFunction
    <3>5. ChainStage'[c] = "review"
      BY <3>3 DEF ChainStage
    <3> QED
      BY <3>3, <3>4, <3>5 DEF Ledger!Next, Ledger!Fail, Ledger!Move
  <2>7. ASSUME pc[w] = "finish" PROVE cur[w] \in Runs /\ status[cur[w]] = "running"
    BY <2>2, <2>7 DEF ChainsBefore, PipelineInv, ExclusiveClaim, Processing, WorkerTypeOK
  <2>8. CASE FinishNotSent(w) \/ FinishFailed(w)
    BY <2>6, <2>7, <2>8 DEF FinishNotSent, FinishFailed
  <2>9. CASE FinishUncertain(w)
    BY <2>6, <2>7, <2>9 DEF FinishUncertain, Finished
  <2>10. CASE FinishSuccess(w)
    <3>1. PICK r \in Runs :
            /\ r = cur[w] /\ status[r] = "running"
            /\ status' = [status EXCEPT ![r] = "success"]
            /\ runTicket' = [runTicket EXCEPT ![r] = found[w]]
            /\ UNCHANGED marker
      BY <2>7, <2>10 DEF FinishSuccess, znunyVars
    <3>2. /\ status'[r] = "success" /\ IsLeaf(r) /\ StageOfRun(r) = "open"
          /\ \A q \in Runs \ {r} : StageOfRun(q)' = StageOfRun(q)
      BY <2>5, <3>1
    <3>3. \A q \in Runs \ {r} : runTicket'[q] = runTicket[q]
      BY <2>2, <3>1 DEF TablesTypeOK
    <3>4. StageOfRun(r)' = "ticketed"
      BY <3>2 DEF StageOfRun, Active
    <3>5. runTicket'[r] # NoTicket
      BY <3>2 DEF ChainsAfter, PipelineInv, SuccessHasTicket
    <3> QED
      BY <2>1, <3>1, <3>2, <3>3, <3>4, <3>5, BookingPaysForTheChain DEF chainVars
  <2>11. CASE \/ Acquire(w) \/ TakeBatch(w) \/ SwitchedOff(w) \/ EndBatch(w)
              \/ SkipClaimed(w) \/ PreflightRefuses(w) \/ DuplicateGuard(w)
    BY <2>3, <2>11 DEF Acquire, TakeBatch, SwitchedOff, EndBatch, SkipClaimed,
                       PreflightRefuses, DuplicateGuard, tables, runVars
  <2>12. CASE \/ CreateAttempt(w) \/ SendCreate(w)
              \/ ReplyCreated(w) \/ ReplyMissing(w) \/ ReplyUnclear(w)
    BY <2>3, <2>12 DEF CreateAttempt, SendCreate, ReplyCreated, ReplyMissing,
                       ReplyUnclear, GetReply, tables, runVars
  <2>13. CASE \/ RecordCreated(w) \/ RecordMissing(w) \/ RecordUnclear(w)
              \/ Reconcile(w) \/ SettleReconciled(w)
    BY <2>3, <2>13 DEF RecordCreated, RecordMissing, RecordUnclear, Reconcile,
                       SettleReconciled, tables, runVars
  <2>14. CASE Fault(w)
    BY <2>3, <2>14 DEF Fault, DbFails, StartFails, SuccessUnsaved, ReconcileFails,
                       BatchAborted, Crash, tables, runVars
  <2> QED
    BY <1>2, <2>4, <2>8, <2>9, <2>10, <2>11, <2>12, <2>13, <2>14 DEF Work
<1> QED
  BY <1>1, <1>2

(* Linking a ticket pays for a chain under review, closing dismisses it, a   *)
(* retry opens it again; looking at the page changes nothing.                *)
LEMMA ReviewKeepsLedger ==
  ASSUME ChainsBefore, ChainsAfter, ReviewStep
  PROVE  [Ledger!Next]_(Ledger!vars)
<1>1. TablesTypeOK /\ TicketsInHand /\ ResolvedByOperators
  BY DEF ChainsBefore, PipelineInv, TypeOK
<1>2. ASSUME UNCHANGED runVars PROVE UNCHANGED Ledger!vars
  <2>1. UNCHANGED chainVars /\ \A r \in Runs :
          /\ Present(r)' <=> Present(r)
          /\ StageOfRun(r)' = StageOfRun(r) /\ runTicket'[r] = runTicket[r]
    BY <1>2 DEF Present, StageOfRun, runVars, chainVars
  <2> QED
    BY <2>1, QuietStepsKeepLedger
<1>3. ASSUME NEW r \in Runs, NEW how \in Resolution, UNCHANGED status,
             status[r] \in {"failed", "uncertain"}, resolution[r] = "none",
             resolution' = [resolution EXCEPT ![r] = how]
      PROVE  /\ resolution'[r] = how /\ StageOfRun(r) = "review"
             /\ \A q \in Runs \ {r} : StageOfRun(q)' = StageOfRun(q)
  <2>1. resolution'[r] = how /\ \A q \in Runs \ {r} : resolution'[q] = resolution[q]
    BY <1>1, <1>3 DEF TablesTypeOK
  <2> QED
    BY <1>3, <2>1 DEF StageOfRun, Active
<1>4. ASSUME NEW r \in Runs, CheckRetry(r) PROVE UNCHANGED Ledger!vars
  BY <1>2, <1>4 DEF CheckRetry, tables
<1>5. ASSUME NEW r \in Runs, NEW t \in Tickets, CheckLink(r, t)
      PROVE  UNCHANGED Ledger!vars
  BY <1>2, <1>5 DEF CheckLink, tables
<1>6. ASSUME NEW r \in Runs, Close(r) PROVE Ledger!Next
  <2>1. /\ IsLeaf(r) /\ status[r] \in {"failed", "uncertain"}
        /\ resolution[r] = "none"
        /\ resolution' = [resolution EXCEPT ![r] = "manual_closed"]
        /\ UNCHANGED <<status, root, parent, runTicket>>
    BY <1>6 DEF Close, Closable, OpenLeaf
  <2>2. /\ resolution'[r] = "manual_closed" /\ StageOfRun(r) = "review"
        /\ \A q \in Runs \ {r} : StageOfRun(q)' = StageOfRun(q)
    BY <1>3, <2>1 DEF Resolution
  <2>3. StageOfRun(r)' = "closed"
    BY <2>1, <2>2 DEF StageOfRun, Active
  <2>4. PICK c \in Runs : c = RootOf(r)
    BY <2>1 DEF ChainsBefore, OneLeafPerChain
  <2>5. /\ ChainStage[c] = "review"
        /\ ChainStage' = [ChainStage EXCEPT ![c] = "closed"]
        /\ ChainBill[c] = runTicket[r]
        /\ ChainBill' = [ChainBill EXCEPT ![c] = runTicket[r]]
    BY <2>1, <2>2, <2>3, <2>4, LeafMovesItsChain DEF Present
  <2>6. ChainBill' = ChainBill /\ ChainStage'[c] = "closed"
    BY <2>5 DEF ChainBill, ChainStage
  <2> QED
    BY <2>5, <2>6 DEF Ledger!Next, Ledger!Dismiss, Ledger!Move
<1>7. ASSUME NEW d \in checked, Link(d) PROVE Ledger!Next
  <2>1. PICK r \in Runs : r = d.run /\ status[r] \in {"failed", "uncertain"}
    BY <1>1 DEF TicketsInHand, ChainsBefore, PipelineInv, TypeOK, ReviewTypeOK, Decision
  <2>2. /\ IsLeaf(r) /\ resolution[r] = "none"
        /\ resolution' = [resolution EXCEPT ![r] = "manual_link"]
        /\ runTicket' = [runTicket EXCEPT ![r] = d.ticket]
        /\ UNCHANGED <<status, root, parent, marker>>
    BY <1>7, <2>1 DEF Link, znunyVars
  <2>3. /\ resolution'[r] = "manual_link" /\ StageOfRun(r) = "review"
        /\ \A q \in Runs \ {r} : StageOfRun(q)' = StageOfRun(q)
    BY <1>3, <2>1, <2>2 DEF Resolution
  <2>4. StageOfRun(r)' = "ticketed"
    BY <2>1, <2>2, <2>3 DEF StageOfRun, Active
  <2>5. \A q \in Runs \ {r} : runTicket'[q] = runTicket[q]
    BY <1>1, <2>2 DEF TablesTypeOK
  <2>6. runTicket'[r] # NoTicket
    BY <2>3 DEF ChainsAfter, PipelineInv, SuccessHasTicket
  <2>7. \A q \in Runs : Present(q)' <=> Present(q)
    BY <2>2 DEF Present
  <2> QED
    BY <2>2, <2>3, <2>4, <2>5, <2>6, <2>7, BookingPaysForTheChain
<1> QED
  BY <1>4, <1>5, <1>6, <1>7, RetryReopensItsChain, NewRunOpensAChain DEF ReviewStep

LEMMA LedgerStep ==
  /\ PipelineInv /\ ChainInv /\ OneLeafPerChain
  /\ PipelineInv' /\ ChainInv' /\ OneLeafPerChain'
  /\ [Next]_vars
  => [Ledger!Next]_(Ledger!vars)
<1> SUFFICES ASSUME ChainsBefore, ChainsAfter, [Next]_vars
             PROVE  [Ledger!Next]_(Ledger!vars)
  BY DEF ChainsBefore, ChainsAfter
<1>1. CASE Environment \/ UNCHANGED vars
  <2>1. UNCHANGED runVars
    BY <1>1 DEF Environment, LockExpires, SafetyStep, ZnunyStep, ZnunyCreates,
                ZnunyRefuses, vars, tables
  <2>2. UNCHANGED chainVars /\ \A r \in Runs :
          /\ Present(r)' <=> Present(r)
          /\ StageOfRun(r)' = StageOfRun(r) /\ runTicket'[r] = runTicket[r]
    BY <2>1 DEF Present, StageOfRun, runVars, chainVars
  <2> QED
    BY <2>2, QuietStepsKeepLedger
<1> QED
  BY <1>1, WorkKeepsLedger, ReviewKeepsLedger DEF Next, Worker, Faulty, Operator

LEMMA LedgerInit == Init => Ledger!Init
<1> SUFFICES ASSUME Init PROVE Ledger!Init
  OBVIOUS
<1>1. \A c \in Runs : ~IsRoot(c)
  BY DEF Init, TablesInit, IsRoot, Present
<1> QED
  BY <1>1 DEF Ledger!Init, ChainStage, ChainBill

(* The pipeline, with its overlapping processes, crashes, late answers and   *)
(* operators, implements the ledger of occurrences: an occurrence is opened  *)
(* once, is paid for by one ticket that pays for nothing else, or dismissed, *)
(* and what is paid for or dismissed never moves again.                      *)
THEOREM PipelineKeepsLedger == Spec => KeepsLedger
<1>1. Init => Ledger!Init
  BY LedgerInit
<1>2. PipelineInv /\ ChainInv => OneLeafPerChain
  BY LeafOfChain
<1> QED
  BY <1>1, <1>2, LedgerStep, PipelineInvariant, ChainInvariant, PTL
     DEF Spec, KeepsLedger, Ledger!Spec

(* What any ledger keeps: paid chains have a ticket, each one of its own.    *)
LEMMA LedgerStaysBalanced ==
  ASSUME Ledger!TypeOK, Ledger!Balanced, [Ledger!Next]_(Ledger!vars)
  PROVE  Ledger!TypeOK' /\ Ledger!Balanced'
<1> USE RunsAssumption DEF Ledger!TypeOK, Ledger!Balanced, Ledger!Stage
<1>1. CASE UNCHANGED Ledger!vars
  BY <1>1 DEF Ledger!vars
<1>2. ASSUME NEW c \in Runs,
             Ledger!Occur(c) \/ Ledger!Fail(c) \/ Ledger!Requeue(c) \/ Ledger!Dismiss(c)
      PROVE  Ledger!TypeOK' /\ Ledger!Balanced'
  BY <1>2 DEF Ledger!Occur, Ledger!Fail, Ledger!Requeue, Ledger!Dismiss, Ledger!Move
<1>3. ASSUME NEW c \in Runs, Ledger!Pay(c)
      PROVE  Ledger!TypeOK' /\ Ledger!Balanced'
  <2>1. PICK t \in Tickets :
          /\ \A d \in Runs : ChainBill[d] # t
          /\ ChainBill' = [ChainBill EXCEPT ![c] = t]
          /\ ChainStage' = [ChainStage EXCEPT ![c] = "ticketed"]
    BY <1>3 DEF Ledger!Pay, Ledger!Move
  <2>2. Ledger!TypeOK'
    BY <2>1
  <2>3. \A d \in Runs : /\ d # c => /\ ChainBill'[d] = ChainBill[d]
                                    /\ ChainStage'[d] = ChainStage[d]
                        /\ d = c => ChainBill'[d] = t /\ ChainStage'[d] = "ticketed"
    BY <2>1
  <2> QED
    BY <2>1, <2>2, <2>3
<1> QED
  BY <1>1, <1>2, <1>3 DEF Ledger!Next

(* On the books of the pipeline, the occurrences with a ticket are those     *)
(* that are paid for, and no two of them share one.                          *)
THEOREM LedgerIsBalanced == Spec => []Ledger!Balanced
<1>1. Ledger!Init => Ledger!TypeOK /\ Ledger!Balanced
  BY RunsAssumption DEF Ledger!Init, Ledger!TypeOK, Ledger!Balanced, Ledger!Stage
<1>2. Ledger!TypeOK /\ Ledger!Balanced /\ [Ledger!Next]_(Ledger!vars)
        => Ledger!TypeOK' /\ Ledger!Balanced'
  BY LedgerStaysBalanced
<1> QED
  BY <1>1, <1>2, PipelineKeepsLedger, PTL DEF KeepsLedger, Ledger!Spec
=============================================================================
