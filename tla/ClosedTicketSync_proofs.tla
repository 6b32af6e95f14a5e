------------------------ MODULE ClosedTicketSync_proofs ------------------------
(***************************************************************************)
(* Syncs of the closed tickets follow one another without a gap: inductive  *)
(* invariants of ClosedTicketSync.  The tickets, the size of a page, the    *)
(* interval, the lifetime of the lock, the number of processes, the faults  *)
(* and the times at which agents work are arbitrary.                       *)
(*                                                                         *)
(* A search lists the closed tickets in an order that is linear, so that a  *)
(* ticket is on the page its rank in the list says.  The rank of a ticket   *)
(* nobody touches can only grow while none leaves the list; a sync that has *)
(* gone past a rank has therefore met every such ticket below it.           *)
(*                                                                         *)
(* A small sync goes back to the completion it follows at least.  What was   *)
(* left alone while that one ran has thus been met by it or before it; what  *)
(* changed while it ran is remembered as exposed.                           *)
(***************************************************************************)
EXTENDS ClosedTicketSync, FiniteSetTheorems, TLAPS

----------------------------------------------------------------------------
(* The inductive invariant. *)

(* Every ticket of the window that is closed and as it was since before d is *)
(* in the cache, unless its change may have been missed.                    *)
Covered(d) ==
  \A t \in closed :
    InWindow(t) /\ changed[t] < d /\ changed[t] \notin history.exposed => t \in cached

(* Nothing lies in the future, complete metadata name a completion, and a    *)
(* small sync goes back to the completion it follows at least.                   *)
ClockInv ==
  /\ \A t \in Tickets : changed[t] <= now
  /\ meta.last <= now /\ (meta.complete => meta.last # Never)
  /\ \A s \in Syncs : sync[s].busy =>
       /\ sync[s].started <= now /\ sync[s].base.last <= sync[s].started
       /\ sync[s].base.complete => sync[s].base.last # Never
       /\ sync[s].mode = "small" /\ sync[s].base.complete =>
            sync[s].boundary <= sync[s].base.last

(* What was left alone since the start of the sync s is cached as far as the *)
(* sync has come in the list.                                               *)
Met(s) ==
  \A t \in closed :
    /\ InWindow(t) /\ changed[t] < sync[s].started
    /\ Rank(sync[s].mode, t) < sync[s].offset
    => t \in cached

(* So it is for every sync under which no ticket has left the list.         *)
PagesInv == \A s \in Syncs : sync[s].busy /\ sync[s].calm => Met(s)

(* The completion named by the metadata, or by the metadata that a sync has  *)
(* read and may yet write back, left no gap.                                *)
GapInv ==
  history.orderly =>
    /\ meta.complete => Covered(meta.last)
    /\ \A s \in Syncs : sync[s].busy /\ sync[s].base.complete => Covered(sync[s].base.last)

SyncInv == TypeOK /\ ClockInv /\ PagesInv /\ GapInv

----------------------------------------------------------------------------
(* The list of closed tickets. *)

\* A nonempty set of natural numbers has a least element.
LEMMA LeastElement ==
  ASSUME NEW S \in SUBSET Nat, S # {}
  PROVE  \E m \in S : \A n \in S : m <= n
<1>1. PICK m \in S : \A n \in S : <<n, m>> \notin OpToRel(<, Nat)
  BY NatLessThanWellFounded, WFMin
<1>2. OpToRel(<, Nat) = {ss \in Nat \X Nat : ss[1] < ss[2]}
  BY DEF OpToRel
<1>3. ASSUME NEW n \in S PROVE m <= n
  <2>1. <<n, m>> \notin {ss \in Nat \X Nat : ss[1] < ss[2]}
    BY <1>1, <1>2
  <2>2. <<n, m>> \in Nat \X Nat
    OBVIOUS
  <2> QED BY <2>1, <2>2
<1> QED BY <1>3

\* The greater of two integers, which the lookback of a sync is.
LEMMA MaxOfTwo ==
  ASSUME NEW a \in Int, NEW b \in Int
  PROVE  Max({a, b}) \in Int /\ Max({a, b}) >= a /\ Max({a, b}) >= b
<1>1. \E x \in {a, b} : \A y \in {a, b} : x >= y
  OBVIOUS
<1>2. Max({a, b}) \in {a, b} /\ \A y \in {a, b} : Max({a, b}) >= y
  BY <1>1 DEF Max
<1> QED BY <1>2

\* Either order of the list, by creation or by change, is linear.
LEMMA LinearOrder ==
  ASSUME Tickets \subseteq Nat, changed \in [Tickets -> Times], NEW mode \in {"small", "full"}
  PROVE  /\ \A t \in Tickets : ~Precedes(mode, t, t)
         /\ \A t, u \in Tickets : t # u => Precedes(mode, t, u) \/ Precedes(mode, u, t)
         /\ \A t, u, v \in Tickets :
              Precedes(mode, t, u) /\ Precedes(mode, u, v) => Precedes(mode, t, v)
<1>1. \A t \in Tickets : t \in Nat /\ changed[t] \in Nat
  BY SyncAssumption DEF Times
<1>2. CASE mode = "small"
  BY <1>1, <1>2 DEF Precedes
<1>3. CASE mode = "full"
  BY <1>1, <1>3 DEF Precedes
<1> QED BY <1>2, <1>3

\* The tickets before another one can be counted.
LEMMA RankType ==
  ASSUME closed \subseteq Tickets, NEW mode, NEW t
  PROVE  /\ IsFiniteSet(closed) /\ Cardinality(closed) \in Nat
         /\ IsFiniteSet({u \in closed : Precedes(mode, u, t)})
         /\ Rank(mode, t) \in Nat
<1>1. IsFiniteSet(closed)
  BY SyncAssumption, FS_Subset
<1>2. {u \in closed : Precedes(mode, u, t)} \in SUBSET closed
  OBVIOUS
<1>3. IsFiniteSet({u \in closed : Precedes(mode, u, t)})
  BY <1>1, <1>2, FS_Subset
<1> QED BY <1>1, <1>3, FS_CardinalityType DEF Rank

\* The ranks follow the order of the list.
LEMMA RankGrows ==
  ASSUME closed \subseteq Tickets, changed \in [Tickets -> Times],
         NEW mode \in {"small", "full"}, NEW t \in closed, NEW u \in closed, Precedes(mode, u, t)
  PROVE  Rank(mode, u) < Rank(mode, t)
<1> DEFINE Below(v) == {w \in closed : Precedes(mode, w, v)}
<1>1. IsFiniteSet(Below(t)) /\ Rank(mode, t) \in Nat /\ Rank(mode, u) \in Nat
  BY RankType
<1>2. Below(u) \in SUBSET Below(t)
  BY SyncAssumption, LinearOrder
<1>3. u \in Below(t) /\ u \notin Below(u)
  BY SyncAssumption, LinearOrder
<1>4. Cardinality(Below(u)) <= Cardinality(Below(t)) /\ Cardinality(Below(u)) # Cardinality(Below(t))
  BY <1>1, <1>2, <1>3, FS_Subset
<1>5. Rank(mode, u) = Cardinality(Below(u)) /\ Rank(mode, t) = Cardinality(Below(t))
  BY DEF Rank
<1> QED BY <1>1, <1>4, <1>5

\* No two tickets have the same rank, and the order can be read off the ranks.
LEMMA RankDecides ==
  ASSUME closed \subseteq Tickets, changed \in [Tickets -> Times],
         NEW mode \in {"small", "full"}, NEW t \in closed, NEW u \in closed
  PROVE  /\ Rank(mode, t) = Rank(mode, u) => t = u
         /\ Rank(mode, u) < Rank(mode, t) => Precedes(mode, u, t)
<1>1. Rank(mode, t) \in Nat /\ Rank(mode, u) \in Nat
  BY RankType
<1>2. t = u \/ Precedes(mode, t, u) \/ Precedes(mode, u, t)
  BY SyncAssumption, LinearOrder
<1>3. CASE Precedes(mode, t, u)
  BY <1>1, <1>3, RankGrows
<1>4. CASE Precedes(mode, u, t)
  BY <1>1, <1>4, RankGrows
<1> QED BY <1>1, <1>2, <1>3, <1>4

\* No rank reaches the length of the list.
LEMMA RankBound ==
  ASSUME closed \subseteq Tickets, changed \in [Tickets -> Times],
         NEW mode \in {"small", "full"}, NEW t \in closed
  PROVE  Rank(mode, t) < Cardinality(Tickets)
<1> DEFINE Below == {u \in closed : Precedes(mode, u, t)}
<1>1. Below \in SUBSET Tickets /\ t \in Tickets /\ t \notin Below
  BY SyncAssumption, LinearOrder
<1>2. Cardinality(Below) <= Cardinality(Tickets) /\ Cardinality(Below) # Cardinality(Tickets)
  BY <1>1, SyncAssumption, FS_Subset
<1>3. Cardinality(Tickets) \in Nat
  BY SyncAssumption, FS_CardinalityType
<1> QED BY <1>2, <1>3, RankType DEF Rank

\* No rank below that of a ticket is vacant.
LEMMA RanksAreTaken ==
  ASSUME closed \subseteq Tickets, changed \in [Tickets -> Times],
         NEW mode \in {"small", "full"}, NEW t \in closed,
         NEW k \in Nat, k <= Rank(mode, t)
  PROVE  \E u \in closed : Rank(mode, u) = k
<1>t. \A u \in closed : Rank(mode, u) \in Nat
  BY RankType
<1> DEFINE High == {Rank(mode, u) : u \in {v \in closed : Rank(mode, v) >= k}}
<1>1. High \in SUBSET Nat /\ High # {}
  BY <1>t
<1>2. PICK n \in High : \A m \in High : n <= m
  BY <1>1, LeastElement
<1>3. PICK u \in closed : Rank(mode, u) = n /\ n >= k
  BY <1>2
<1> DEFINE Below == {v \in closed : Precedes(mode, v, u)}
           f == [v \in Below |-> Rank(mode, v)]
<1>4. ASSUME NEW v \in Below PROVE Rank(mode, v) \in 0 .. k - 1
  <2>1. Rank(mode, v) < n
    BY <1>3, RankGrows
  <2>2. Rank(mode, v) \notin High
    BY <1>t, <1>1, <1>2, <2>1
  <2> QED BY <1>t, <2>2
<1>5. f \in Injection(Below, 0 .. k - 1)
  <2>1. f \in [Below -> 0 .. k - 1]
    BY <1>4
  <2>2. ASSUME NEW v \in Below, NEW w \in Below, f[v] = f[w] PROVE v = w
    <3>1. v \in closed /\ w \in closed /\ Rank(mode, v) = Rank(mode, w)
      BY <2>2
    <3> QED BY <3>1, RankDecides
  <2> QED BY <2>1, <2>2 DEF Injection, IsInjective
<1>6. Cardinality(Below) <= k
  <2>1. IsFiniteSet(0 .. k - 1) /\ Cardinality(0 .. k - 1) = k
    <3>1. PICK last \in Int : last = k - 1
      OBVIOUS
    <3>2. IsFiniteSet(0 .. last)
      BY ONLY last \in Int, FS_Interval
    <3>3. Cardinality(0 .. last) = IF 0 > last THEN 0 ELSE last - 0 + 1
      BY ONLY last \in Int, FS_Interval
    <3> QED
      BY <3>1, <3>2, <3>3
  <2> QED BY <1>5, <2>1, FS_Injection
<1>7. n <= k
  BY <1>3, <1>6 DEF Rank
<1>8. n \in Nat
  BY <1>1
<1> QED BY <1>3, <1>7, <1>8

\* A page that tickets follow is a full one.
LEMMA FullPage ==
  ASSUME closed \subseteq Tickets, changed \in [Tickets -> Times],
         NEW mode \in {"small", "full"}, NEW t \in closed,
         NEW offset \in Nat, Rank(mode, t) >= offset + PageSize
  PROVE  Cardinality(Page(mode, offset)) >= PageSize /\ Page(mode, offset) # {}
<1>s. PageSize \in Nat \ {0}
  BY SyncAssumption
<1>t. Rank(mode, t) \in Nat
  BY RankType
<1> DEFINE Ranks == offset .. offset + PageSize - 1
           P == Page(mode, offset)
<1>1. ASSUME NEW k \in Ranks PROVE \E u \in P : Rank(mode, u) = k
  <2>1. k \in Nat /\ k <= Rank(mode, t)
    BY <1>s, <1>t
  <2>2. PICK u \in closed : Rank(mode, u) = k
    BY <2>1, RanksAreTaken
  <2> QED BY <2>2 DEF Page
<1> DEFINE f == [k \in Ranks |-> CHOOSE u \in P : Rank(mode, u) = k]
<1>2. \A k \in Ranks : f[k] \in P /\ Rank(mode, f[k]) = k
  BY <1>1
<1>3. f \in Injection(Ranks, P)
  <2>1. f \in [Ranks -> P]
    BY <1>2
  <2>2. \A k, l \in Ranks : f[k] = f[l] => k = l
    BY <1>2
  <2> QED BY <2>1, <2>2 DEF Injection, IsInjective
<1>4. IsFiniteSet(P)
  <2>1. P \in SUBSET closed
    BY DEF Page
  <2> QED BY <2>1, RankType, FS_Subset
<1>5. Cardinality(Ranks) = PageSize
  BY <1>s, FS_Interval
<1>6. Cardinality(Ranks) <= Cardinality(P)
  BY <1>3, <1>4, FS_Injection
<1>7. offset \in Ranks
  BY <1>s
<1> QED BY <1>1, <1>5, <1>6, <1>7

\* The last page of a sync: what was left alone since its start, in the window
\* and as far back as the sync goes, is on it or was met before.
LEMMA LastPage ==
  ASSUME TypeOK, PagesInv, NEW s \in Syncs, sync[s].busy, sync[s].calm,
         NEW page, page = Page(sync[s].mode, sync[s].offset),
         page = {} \/ Last(s, page),
         NEW t \in closed, InWindow(t), changed[t] < sync[s].started,
         sync[s].mode = "small" => changed[t] >= sync[s].boundary
  PROVE  t \in page \/ t \in cached
<1> DEFINE mode == sync[s].mode
           offset == sync[s].offset
<1>1. closed \subseteq Tickets /\ changed \in [Tickets -> Times] /\ sync[s] \in SyncState
  BY DEF TypeOK
<1>2. mode \in {"small", "full"} /\ offset \in Nat /\ sync[s].boundary \in Int
  BY <1>1 DEF SyncState
<1>3. PageSize \in Nat /\ Rank(mode, t) \in Nat
  BY <1>1, SyncAssumption, RankType
<1>4. CASE Rank(mode, t) < offset
  BY <1>4 DEF PagesInv, Met
<1>5. CASE Rank(mode, t) \in offset .. offset + PageSize - 1
  BY <1>5 DEF Page
<1>6. CASE Rank(mode, t) >= offset + PageSize
  <2> HIDE DEF mode, offset
  <2>0. page = Page(mode, offset)
    BY DEF mode, offset
  <2>1. Cardinality(page) >= PageSize /\ page # {}
    BY <1>1, <1>2, <1>6, <2>0, FullPage
  <2>2. page \subseteq closed /\ IsFiniteSet(page) /\ Cardinality(page) \in Nat
    <3>1. page \in SUBSET closed /\ IsFiniteSet(closed)
      BY <1>1, <2>0, RankType DEF Page
    <3> QED BY <3>1, FS_Subset, FS_CardinalityType
  <2>3. Reaches(s, page)
    BY <1>3, <2>1, <2>2 DEF Last
  <2>4. ASSUME NEW u \in page PROVE Precedes(mode, u, t)
    <3>1. u \in closed /\ Rank(mode, u) \in offset .. offset + PageSize - 1
      BY <2>0, <2>4 DEF Page
    <3>2. Rank(mode, u) < Rank(mode, t)
      BY <1>2, <1>3, <1>6, <3>1
    <3> QED BY <1>1, <1>2, <3>1, <3>2, RankDecides
  <2>5. CASE mode = "full"
    <3>1. PICK u \in page : u \in Old
      BY <2>3, <2>5 DEF Reaches, mode
    <3>2. u > t
      BY <2>4, <2>5, <3>1 DEF Precedes
    <3>3. t \in Old
      BY <1>1, <3>1, <3>2, SyncAssumption
    <3> QED BY <3>3 DEF InWindow
  <2>6. CASE mode = "small"
    <3>1. PICK u \in page : changed[u] < sync[s].boundary
      BY <2>3, <2>6 DEF Reaches, mode
    <3>2. changed[u] >= changed[t] /\ changed[u] \in Int /\ changed[t] \in Int
      BY <1>1, <2>2, <2>4, <2>6, <3>1 DEF Precedes, Times
    <3>3. changed[t] >= sync[s].boundary
      BY <2>6 DEF mode
    <3> QED BY <1>2, <3>1, <3>2, <3>3
  <2> QED BY <1>2, <2>5, <2>6
<1> QED BY <1>2, <1>3, <1>4, <1>5, <1>6

----------------------------------------------------------------------------
(* Types. *)

\* The metadata and the register of an idle sync have their types.
LEMMA IdleType == NoMeta \in Meta /\ Idle \in SyncState /\ 0 \in Times
<1>1. 0 \in Times /\ NoMeta \in Meta
  BY SyncAssumption DEF Times, NoMeta, Meta
<1>2. 0 \in 0 .. Cardinality(Tickets) + PageSize - 1
  BY SyncAssumption, FS_CardinalityType
<1> QED BY <1>1, <1>2 DEF Idle, SyncState

\* The minutes a small sync looks back are a whole number.
LEMMA LookbackType ==
  ASSUME TypeOK
  PROVE  Lookback \in Int /\ Lookback * Minute \in Int
<1>1. now \in Int /\ meta.last \in Int /\ 2 * Interval \in Int /\ Minute \in Nat \ {0}
  BY SyncAssumption DEF TypeOK, Times, Meta, Never
<1>2. SinceLast \in Int
  BY <1>1 DEF SinceLast
<1>3. SinceLast \div Minute + 1 \in Int
  BY <1>1, <1>2
<1>4. Lookback \in Int
  BY <1>1, <1>3, MaxOfTwo DEF Lookback
<1> QED BY <1>1, <1>4

\* One minute more than the whole minutes of a time is longer than that time.
LEMMA MinuteAdded ==
  ASSUME NEW x \in Nat, NEW m \in Nat \ {0}, NEW k \in Int, k >= x \div m + 1
  PROVE  k * m >= x + 1
<1> DEFINE q == x \div m
<1>1. q \in Int /\ x = m * q + (x % m) /\ x % m \in 0 .. m - 1
  OBVIOUS
<1> HIDE DEF q
<1>2. q + 1 \in Int /\ k >= q + 1
  BY <1>1 DEF q
<1>3. k * m >= (q + 1) * m
  BY ONLY <1>2, k \in Int, m \in Nat \ {0}
<1>4. (q + 1) * m = m * q + m
  BY ONLY <1>1, m \in Nat \ {0}
<1>5. k * m \in Int /\ m * q \in Int /\ x % m \in Int
  BY <1>1
<1> QED BY <1>1, <1>3, <1>4, <1>5

\* A small sync looks back a second beyond the last completion at least, though
\* the fraction of a minute is dropped.
LEMMA LookbackReaches ==
  ASSUME TypeOK, meta.last <= now, meta.last # Never
  PROVE  Lookback * Minute >= now - meta.last + 1
<1>1. now \in Int /\ meta.last \in Int /\ 2 * Interval \in Int /\ Minute \in Nat \ {0}
  BY SyncAssumption DEF TypeOK, Times, Meta, Never
<1>2. SinceLast = now - meta.last /\ SinceLast \in Nat
  BY <1>1 DEF SinceLast
<1>3. SinceLast \div Minute + 1 \in Int
  BY <1>1, <1>2
<1>4. Lookback \in Int /\ Lookback >= SinceLast \div Minute + 1
  BY <1>1, <1>3, MaxOfTwo DEF Lookback
<1>5. Lookback * Minute >= SinceLast + 1
  BY <1>1, <1>2, <1>4, MinuteAdded
<1> QED BY <1>2, <1>5

\* The history of which nothing is known has its type.
LEMMA DisorderedType == Disordered \in [orderly : BOOLEAN, exposed : SUBSET Times]
BY DEF Disordered

\* Init establishes the types.
LEMMA TypeInit ==
  ASSUME Init
  PROVE  TypeOK
<1>1. 0 \in Times /\ 0 \in 0 .. MaxChanges /\ Never \in Times \cup {Never}
  BY SyncAssumption, IdleType DEF Times
<1>2. sync \in [Syncs -> SyncState] /\ meta \in Meta
  BY IdleType DEF Init
<1>3. closed \subseteq Tickets /\ changed \in [Tickets -> Times] /\ cached \subseteq Tickets \ Old
  BY <1>1 DEF Init
<1> QED BY <1>1, <1>2, <1>3, DisorderedType DEF Init, TypeOK

\* A beginning sync keeps the types.
LEMMA TypeBegin ==
  ASSUME TypeOK, NEW s \in Syncs, NEW mode \in {"small", "full"}, Begin(s, mode)
  PROVE  TypeOK'
<1> DEFINE new == [Idle EXCEPT !.busy = TRUE, !.mode = mode, !.base = meta, !.started = now,
                               !.boundary = IF mode = "full" THEN 0 ELSE now - Lookback * Minute]
<1>1. new \in SyncState
  <2>1. now \in Times /\ now \in Int /\ meta \in Meta
    BY DEF TypeOK, Times
  <2>2. (IF mode = "full" THEN 0 ELSE now - Lookback * Minute) \in Int
    BY <2>1, LookbackType
  <2> QED BY <2>1, <2>2, IdleType DEF SyncState, Idle
<1>2. sync' = [sync EXCEPT ![s] = new]
  BY DEF Begin
<1> HIDE DEF new
<1>3. sync' \in [Syncs -> SyncState]
  BY <1>1, <1>2 DEF TypeOK
<1> QED BY <1>3 DEF TypeOK, Begin, znunyVars

\* A sync that ends, well or badly, keeps the types.
LEMMA TypeLeave ==
  ASSUME TypeOK, NEW s \in Syncs, NEW metadata \in Meta, Leave(s, metadata)
  PROVE  meta' \in Meta /\ locked' \in Times \cup {Never} /\ sync' \in [Syncs -> SyncState]
BY IdleType DEF TypeOK, Leave

\* What a completed sync writes into the metadata.
LEMMA CompletedMeta ==
  ASSUME TypeOK, NEW s \in Syncs
  PROVE  [complete |-> sync[s].base.complete \/ sync[s].mode = "full", last |-> now] \in Meta
<1>1. sync[s].base \in Meta /\ now \in Times
  BY DEF TypeOK, SyncState
<1>2. (sync[s].base.complete \/ sync[s].mode = "full") \in BOOLEAN
  OBVIOUS
<1> QED BY <1>1, <1>2 DEF Meta

\* A completed sync keeps the types.
LEMMA TypeComplete ==
  ASSUME TypeOK, NEW s \in Syncs, Complete(s)
  PROVE  /\ meta' \in Meta /\ locked' \in Times \cup {Never} /\ sync' \in [Syncs -> SyncState]
         /\ history' \in [orderly : BOOLEAN, exposed : SUBSET Times]
<1>1. Leave(s, [complete |-> sync[s].base.complete \/ sync[s].mode = "full", last |-> now])
  BY DEF Complete
<1>2. meta' \in Meta /\ locked' \in Times \cup {Never} /\ sync' \in [Syncs -> SyncState]
  BY <1>1, CompletedMeta, TypeLeave
<1>3. history' \in [orderly : BOOLEAN, exposed : SUBSET Times]
  <2>1. sync[s].started \in Times /\ now \in Times /\ history \in [orderly : BOOLEAN, exposed : SUBSET Times]
    BY DEF TypeOK, SyncState
  <2>2. sync[s].started .. now - 1 \in SUBSET Times
    BY <2>1, SyncAssumption DEF Times
  <2>3. {d \in history.exposed : d < sync[s].boundary} \in SUBSET Times
    BY <2>1
  <2> QED BY <2>2, <2>3, DisorderedType DEF Complete
<1> QED BY <1>2, <1>3

\* Turning a page keeps the types; a page that is not the last lies within the list.
LEMMA TypeTurn ==
  ASSUME TypeOK, NEW s \in Syncs, Turn(s)
  PROVE  TypeOK'
<1> DEFINE page == Page(sync[s].mode, sync[s].offset)
<1>1. page \subseteq closed /\ page # {}
  BY DEF Page, Turn
<1>2. cached' \subseteq Tickets \ Old
  BY <1>1 DEF TypeOK, Turn, InWindow
<1>3. /\ meta' \in Meta /\ locked' \in Times \cup {Never} /\ sync' \in [Syncs -> SyncState]
      /\ history' \in [orderly : BOOLEAN, exposed : SUBSET Times]
  <2>1. CASE Last(s, page)
    BY <2>1, TypeComplete DEF Turn
  <2>2. CASE ~Last(s, page)
    <3>1. NextPage(s, page) /\ UNCHANGED <<meta, locked, history>>
      BY <2>2 DEF Turn
    <3>s. sync[s] \in SyncState /\ closed \subseteq Tickets /\ changed \in [Tickets -> Times]
      BY DEF TypeOK
    <3>2. sync[s].offset + PageSize \in 0 .. Cardinality(Tickets) + PageSize - 1
      <4>1. PICK t \in page : t \in closed /\ Rank(sync[s].mode, t) >= sync[s].offset
        <5>1. PICK t \in page : TRUE
          BY <1>1
        <5>2. t \in closed /\ Rank(sync[s].mode, t) \in sync[s].offset .. sync[s].offset + PageSize - 1
          BY <5>1 DEF Page
        <5>3. Rank(sync[s].mode, t) \in Nat
          BY <3>s, RankType
        <5>4. sync[s].offset \in Nat /\ PageSize \in Nat
          BY <3>s, SyncAssumption DEF SyncState
        <5> QED BY <5>1, <5>2, <5>3, <5>4
      <4>2. Rank(sync[s].mode, t) < Cardinality(Tickets) /\ Rank(sync[s].mode, t) \in Nat
        BY <3>s, <4>1, RankBound, RankType DEF SyncState
      <4>3. Cardinality(Tickets) \in Nat /\ PageSize \in Nat \ {0}
        BY SyncAssumption, FS_CardinalityType
      <4> QED BY <3>s, <4>1, <4>2, <4>3 DEF SyncState
    <3>3. sync[s].seen \cup page \in SUBSET Tickets
      BY <1>1, <3>s DEF SyncState
    <3> DEFINE new == [sync[s] EXCEPT !.seen = @ \cup page, !.offset = @ + PageSize]
    <3>4. new \in SyncState
      BY <3>s, <3>2, <3>3 DEF SyncState
    <3>5. sync' = [sync EXCEPT ![s] = new]
      BY <3>1 DEF NextPage, TypeOK
    <3>6. sync' \in [Syncs -> SyncState]
      BY <3>4, <3>5 DEF TypeOK
    <3> QED BY <3>1, <3>6 DEF TypeOK
  <2> QED BY <2>1, <2>2
<1> QED BY <1>2, <1>3 DEF TypeOK, Turn, znunyVars

\* A disturbance keeps the types.
LEMMA TypeDisturb ==
  ASSUME TypeOK, Disturb
  PROVE  sync' \in [Syncs -> SyncState]
<1>1. ASSUME NEW s \in Syncs PROVE [sync[s] EXCEPT !.calm = ~sync[s].busy] \in SyncState
  <2>1. sync[s] \in SyncState
    BY DEF TypeOK
  <2>2. (~sync[s].busy) \in BOOLEAN
    OBVIOUS
  <2> QED BY <2>1, <2>2 DEF SyncState
<1> QED BY <1>1 DEF Disturb

\* A change of a ticket keeps the types.
LEMMA TypeChange ==
  ASSUME TypeOK, NEW t \in Restless, Change(t)
  PROVE  /\ changed' \in [Tickets -> Times] /\ changes' \in 0 .. MaxChanges
         /\ now' = now /\ t \in Tickets
<1>1. t \in Tickets /\ MaxChanges \in Nat
  BY SyncAssumption
<1>2. changes \in Nat /\ now \in Times
  BY DEF TypeOK
<1> QED BY <1>1, <1>2 DEF TypeOK, Change

\* What begins, whoever asks for it, begins as a small or a full sync.
LEMMA Beginnings ==
  ASSUME NEW s, BeginAuto(s) \/ BeginFull(s) \/ BeginManual(s)
  PROVE  \E mode \in {"small", "full"} : Begin(s, mode)
BY DEF BeginAuto, BeginFull, BeginManual

\* Every step keeps the types.
LEMMA TypeStep ==
  ASSUME TypeOK, [Next]_vars
  PROVE  TypeOK'
<1>1. ASSUME NEW s \in Syncs, BeginAuto(s) \/ BeginFull(s) \/ BeginManual(s) PROVE TypeOK'
  <2>1. PICK mode \in {"small", "full"} : Begin(s, mode)
    BY <1>1, Beginnings
  <2> QED BY <2>1, TypeBegin
<1>2. ASSUME NEW s \in Syncs, Turn(s) PROVE TypeOK'
  BY <1>2, TypeTurn
<1>3. ASSUME NEW s \in Syncs, Exhausted(s) PROVE TypeOK'
  BY <1>3, TypeComplete DEF Exhausted, TypeOK, znunyVars
<1>4. ASSUME NEW s \in Syncs, Fail(s) PROVE TypeOK'
  <2>1. sync[s].base \in Meta
    BY DEF TypeOK, SyncState
  <2>2. meta' \in Meta /\ locked' \in Times \cup {Never} /\ sync' \in [Syncs -> SyncState]
    BY <1>4, <2>1, TypeLeave DEF Fail
  <2>3. history' \in [orderly : BOOLEAN, exposed : SUBSET Times]
    BY <1>4, DisorderedType DEF Fail, TypeOK
  <2> QED BY <1>4, <2>2, <2>3 DEF Fail, TypeOK, znunyVars
<1>5. ASSUME NEW s \in Syncs, Crash(s) PROVE TypeOK'
  BY <1>5, IdleType DEF Crash, TypeOK, znunyVars, cacheVars
<1>6. CASE LockExpires
  BY <1>6 DEF LockExpires, TypeOK, znunyVars
<1>7. CASE Purge
  BY <1>7, IdleType, DisorderedType, TypeDisturb DEF Purge, TypeOK, znunyVars
<1>8. CASE Tick
  <2>1. now' \in Times
    BY <1>8, SyncAssumption DEF Tick, TypeOK, Times
  <2> QED BY <1>8, <2>1 DEF Tick, TypeOK, znunyVars, cacheVars
<1>9. ASSUME NEW t \in Restless, TouchClosed(t) PROVE TypeOK'
  BY <1>9, TypeChange DEF TouchClosed, Change, TypeOK, cacheVars
<1>10. ASSUME NEW t \in Restless, ReopenTicket(t) PROVE TypeOK'
  BY <1>10, TypeChange, TypeDisturb DEF ReopenTicket, Change, TypeOK, cacheVars
<1>11. CASE UNCHANGED vars
  BY <1>11 DEF vars, znunyVars, cacheVars, TypeOK
<1> QED BY <1>1, <1>2, <1>3, <1>4, <1>5, <1>6, <1>7, <1>8, <1>9, <1>10, <1>11 DEF Next

----------------------------------------------------------------------------
(* Clocks. *)

\* Init establishes the order of the times.
LEMMA ClockInit ==
  ASSUME Init
  PROVE  ClockInv
BY SyncAssumption DEF Init, ClockInv, Idle, NoMeta, Never

\* What is known of a sync that goes on does not change when time passes and
\* other syncs begin and end.
LEMMA ClockKept ==
  ASSUME TypeOK, TypeOK', ClockInv, now' >= now,
         \A t \in Tickets : changed'[t] = changed[t] \/ changed'[t] = now,
         meta'.last <= now, meta'.complete => meta'.last # Never,
         \A s \in Syncs : sync'[s].busy =>
           /\ sync[s].busy
           /\ sync'[s].started = sync[s].started /\ sync'[s].base = sync[s].base
           /\ sync'[s].mode = sync[s].mode /\ sync'[s].boundary = sync[s].boundary
  PROVE  ClockInv'
<1>1. now \in Int /\ now' \in Int /\ meta'.last \in Int
  BY DEF TypeOK, Times, Meta, Never
<1>2. \A t \in Tickets : changed[t] \in Int
  BY DEF TypeOK, Times
<1>3. \A t \in Tickets : changed'[t] <= now'
  BY <1>1, <1>2 DEF ClockInv
<1>4. meta'.last <= now'
  BY <1>1
<1>5. ASSUME NEW s \in Syncs, sync'[s].busy
      PROVE  /\ sync'[s].started <= now' /\ sync'[s].base.last <= sync'[s].started
             /\ sync'[s].base.complete => sync'[s].base.last # Never
             /\ sync'[s].mode = "small" /\ sync'[s].base.complete =>
                  sync'[s].boundary <= sync'[s].base.last
  <2>1. sync[s].started \in Int
    BY DEF TypeOK, SyncState, Times
  <2>2. sync[s].started <= now' 
    BY <1>1, <1>5, <2>1 DEF ClockInv
  <2> QED BY <1>5, <2>2 DEF ClockInv
<1> QED BY <1>3, <1>4, <1>5 DEF ClockInv

\* Every step keeps the order of the times.
LEMMA ClockStep ==
  ASSUME TypeOK, TypeOK', ClockInv, [Next]_vars
  PROVE  ClockInv'
<1>n. now \in Int /\ meta.last <= now /\ (meta.complete => meta.last # Never)
  BY DEF TypeOK, Times, ClockInv
<1>s. sync \in [Syncs -> SyncState] /\ changed \in [Tickets -> Times]
  BY DEF TypeOK
<1>i. ~Idle.busy
  BY DEF Idle
<1>1. ASSUME NEW s \in Syncs, BeginAuto(s) \/ BeginFull(s) \/ BeginManual(s) PROVE ClockInv'
  <2>1. PICK mode \in {"small", "full"} : Begin(s, mode)
    BY <1>1, Beginnings
  <2> DEFINE new == [Idle EXCEPT !.busy = TRUE, !.mode = mode, !.base = meta, !.started = now,
                                 !.boundary = IF mode = "full" THEN 0 ELSE now - Lookback * Minute]
  <2>2. sync' = [sync EXCEPT ![s] = new]
    BY <2>1 DEF Begin
  <2>3. /\ new.started = now /\ new.base = meta /\ new.mode = mode
        /\ mode = "small" => new.boundary = now - Lookback * Minute
    BY DEF Idle
  <2> HIDE DEF new
  <2>4. sync'[s] = new /\ \A r \in Syncs \ {s} : sync'[r] = sync[r]
    BY <1>s, <2>2
  <2>5. UNCHANGED <<now, changed, meta>>
    BY <2>1 DEF Begin, znunyVars
  <2>6. mode = "small" /\ meta.complete => new.boundary <= meta.last
    <3>1. meta.last \in Int /\ Lookback * Minute \in Int
      BY LookbackType DEF TypeOK, Meta, Times, Never
    <3>2. meta.complete => Lookback * Minute >= now - meta.last + 1
      BY <1>n, LookbackReaches
    <3> QED BY <1>n, <2>3, <3>1, <3>2
  <2>7. /\ new.started <= now /\ new.base.last <= new.started
        /\ new.base.complete => new.base.last # Never
        /\ new.mode = "small" /\ new.base.complete => new.boundary <= new.base.last
    BY <1>n, <2>3, <2>6
  <2> QED BY <2>4, <2>5, <2>7 DEF ClockInv
<1>c. ASSUME NEW s \in Syncs, Complete(s), UNCHANGED <<now, changed>> PROVE ClockInv'
  <2>1. meta' = [complete |-> sync[s].base.complete \/ sync[s].mode = "full", last |-> now]
    BY <1>c DEF Complete, Leave
  <2>2. meta'.last <= now /\ now # Never
    BY <2>1, <1>n, SyncAssumption DEF TypeOK, Times, Never
  <2>3. sync' = [sync EXCEPT ![s] = Idle]
    BY <1>c DEF Complete, Leave
  <2> QED BY <1>s, <1>i, <1>n, <1>c, <2>1, <2>2, <2>3, ClockKept
<1>2. ASSUME NEW s \in Syncs, Turn(s) PROVE ClockInv'
  <2> DEFINE page == Page(sync[s].mode, sync[s].offset)
  <2>1. CASE Last(s, page)
    BY <1>2, <1>c, <2>1 DEF Turn, znunyVars
  <2>2. CASE ~Last(s, page)
    <3>1. NextPage(s, page) /\ UNCHANGED <<now, changed, meta>>
      BY <1>2, <2>2 DEF Turn, znunyVars
    <3>2. sync' = [sync EXCEPT ![s].seen = @ \cup page, ![s].offset = @ + PageSize]
      BY <3>1 DEF NextPage
    <3>3. \A r \in Syncs : sync'[r].busy =>
            /\ sync[r].busy
            /\ sync'[r].started = sync[r].started /\ sync'[r].base = sync[r].base
            /\ sync'[r].mode = sync[r].mode /\ sync'[r].boundary = sync[r].boundary
      <4> HIDE DEF page
      <4> QED BY <1>s, <3>2 DEF SyncState
    <3> QED BY <1>n, <3>1, <3>3, ClockKept
  <2> QED BY <2>1, <2>2
<1>3. ASSUME NEW s \in Syncs, Exhausted(s) PROVE ClockInv'
  BY <1>3, <1>c DEF Exhausted, znunyVars
<1>4. ASSUME NEW s \in Syncs, Fail(s) PROVE ClockInv'
  <2>1. meta' = sync[s].base /\ sync' = [sync EXCEPT ![s] = Idle] /\ UNCHANGED <<now, changed>>
    BY <1>4 DEF Fail, Leave, znunyVars
  <2>2. sync[s].busy
    BY <1>4 DEF Fail
  <2>3. sync[s].base.last <= now /\ (sync[s].base.complete => sync[s].base.last # Never)
    <3>1. sync[s].base.last \in Int /\ sync[s].started \in Int
      BY <1>s DEF SyncState, Meta, Times, Never
    <3> QED BY <1>n, <2>2, <3>1 DEF ClockInv
  <2> QED BY <1>s, <1>i, <1>n, <2>1, <2>3, ClockKept
<1>5. ASSUME NEW s \in Syncs, Crash(s) PROVE ClockInv'
  <2>1. sync' = [sync EXCEPT ![s] = Idle] /\ UNCHANGED <<now, changed, meta>>
    BY <1>5 DEF Crash, znunyVars, cacheVars
  <2> QED BY <1>s, <1>i, <1>n, <2>1, ClockKept
<1>6. CASE LockExpires
  BY <1>6, <1>n, ClockKept DEF LockExpires, znunyVars
<1>7. CASE Purge
  <2>1. UNCHANGED <<now, changed>> /\ meta' = NoMeta /\ Disturb
    BY <1>7 DEF Purge, znunyVars
  <2>2. NoMeta.last <= now /\ ~NoMeta.complete
    BY <1>n, SyncAssumption DEF NoMeta, Never, TypeOK, Times
  <2> QED BY <1>s, <1>n, <2>1, <2>2, ClockKept DEF Disturb, SyncState
<1>8. CASE Tick
  BY <1>8, <1>n, ClockKept DEF Tick, znunyVars, cacheVars
<1>h. ASSUME NEW t \in Restless, Change(t) PROVE
        now' = now /\ meta' = meta /\ \A u \in Tickets : changed'[u] = changed[u] \/ changed'[u] = now
  BY <1>h, <1>s DEF Change, cacheVars
<1>9. ASSUME NEW t \in Restless, TouchClosed(t) PROVE ClockInv'
  BY <1>9, <1>n, <1>h, ClockKept DEF TouchClosed
<1>10. ASSUME NEW t \in Restless, ReopenTicket(t) PROVE ClockInv'
  <2>1. Change(t) /\ Disturb
    BY <1>10 DEF ReopenTicket
  <2> QED BY <1>s, <1>n, <1>h, <2>1, ClockKept DEF Disturb, SyncState
<1>11. CASE UNCHANGED vars
  BY <1>11, <1>n, ClockKept DEF vars, znunyVars, cacheVars
<1> QED BY <1>1, <1>2, <1>3, <1>4, <1>5, <1>6, <1>7, <1>8, <1>9, <1>10, <1>11 DEF Next

----------------------------------------------------------------------------
(* Pages. *)

\* A ticket that stays closed and as it is keeps its rank or moves to a higher
\* one, if none leaves the list and those that change have changed after it.
LEMMA RankKept ==
  ASSUME TypeOK, TypeOK', NEW mode \in {"small", "full"}, NEW t \in closed, t \in closed',
         changed'[t] = changed[t], closed \subseteq closed',
         \A u \in closed : changed'[u] = changed[u] \/ changed'[u] > changed[t]
  PROVE  Rank(mode, t) <= Rank(mode, t)'
<1> DEFINE Below == {u \in closed : Precedes(mode, u, t)}
           After == {u \in closed' : Precedes(mode, u, t)'}
<1>0. closed \subseteq Tickets /\ closed' \subseteq Tickets
  BY DEF TypeOK
<1>1. /\ changed[t] \in Int /\ Tickets \subseteq Nat
      /\ \A u \in Tickets : changed[u] \in Int /\ changed'[u] \in Int
  BY <1>0, SyncAssumption DEF TypeOK, Times
<1>2. Below \in SUBSET After
  <2>1. ASSUME NEW u \in closed, Precedes(mode, u, t) PROVE Precedes(mode, u, t)'
    BY <1>0, <1>1, <2>1 DEF Precedes
  <2> QED BY <2>1
<1>3. IsFiniteSet(After)
  <2>1. After \in SUBSET Tickets
    BY <1>0
  <2> QED BY <2>1, SyncAssumption, FS_Subset
<1>4. Cardinality(Below) <= Cardinality(After)
  BY <1>2, <1>3, FS_Subset
<1> QED BY <1>4 DEF Rank

\* Ranks are numbers before and after a step.
LEMMA RankTypeHere ==
  closed \subseteq Tickets =>
    \A mode \in {"small", "full"}, t \in Tickets : Rank(mode, t) \in Nat
BY RankType

LEMMA RankTypeNext ==
  closed' \subseteq Tickets =>
    \A mode \in {"small", "full"}, t \in Tickets : Rank(mode, t)' \in Nat
<1>1. (closed \subseteq Tickets =>
         \A mode \in {"small", "full"}, t \in Tickets : Rank(mode, t) \in Nat)'
  BY RankTypeHere, PTL
<1> QED BY <1>1

\* The rank of a ticket in the order of the sync s.
LEMMA RankOf ==
  ASSUME NEW s, NEW t, NEW mode, sync'[s].mode = mode
  PROVE  Rank(sync[s].mode, t)' = Rank(mode, t)'
BY DEF Rank, Precedes

\* What a sync has met stays met when the sync does nothing, while no ticket
\* leaves the list and what changes in Znuny changes now.
LEMMA MetKept ==
  ASSUME TypeOK, TypeOK', ClockInv, NEW s \in Syncs, sync[s].busy, Met(s), sync'[s] = sync[s],
         cached \subseteq cached', closed \subseteq closed',
         \A t \in Tickets : changed'[t] = changed[t] \/ changed'[t] = now,
         \A t \in closed' \ closed : changed'[t] = now
  PROVE  Met(s)'
<1> PICK mode \in {"small", "full"} : mode = sync[s].mode
  BY DEF TypeOK, SyncState
<1>c. closed \subseteq Tickets /\ closed' \subseteq Tickets
  BY DEF TypeOK
<1>i. /\ now \in Int /\ sync[s].started \in Int /\ sync[s].started <= now /\ sync[s].offset \in Int
      /\ \A t \in Tickets : changed[t] \in Int
  BY DEF TypeOK, SyncState, Times, ClockInv
<1> SUFFICES ASSUME NEW t \in closed', InWindow(t), changed'[t] < sync[s].started,
                    Rank(mode, t)' < sync[s].offset
             PROVE  t \in cached'
  BY RankOf DEF Met, InWindow
<1>1. t \in closed /\ changed'[t] = changed[t] /\ changed[t] < now
  BY <1>c, <1>i
<1>2. Rank(mode, t) <= Rank(mode, t)'
  BY <1>c, <1>1, RankKept
<1>3. Rank(mode, t) \in Nat /\ Rank(mode, t)' \in Nat
  <2>1. Rank(mode, t) \in Nat
    BY <1>c, RankType
  <2> QED BY <1>c, <2>1, RankTypeNext
<1>4. Rank(mode, t) < sync[s].offset
  BY <1>i, <1>2, <1>3
<1> QED BY <1>1, <1>4 DEF Met

\* Init: no sync has begun.
LEMMA PagesInit ==
  ASSUME Init
  PROVE  PagesInv
BY DEF Init, PagesInv, Idle

\* A sync that has begun has met nothing yet.
LEMMA PagesBegin ==
  ASSUME TypeOK, TypeOK', ClockInv, PagesInv,
         NEW s \in Syncs, NEW mode \in {"small", "full"}, Begin(s, mode)
  PROVE  PagesInv'
<1> DEFINE new == [Idle EXCEPT !.busy = TRUE, !.mode = mode, !.base = meta, !.started = now,
                               !.boundary = IF mode = "full" THEN 0 ELSE now - Lookback * Minute]
<1>1. sync' = [sync EXCEPT ![s] = new] /\ UNCHANGED <<now, closed, changed, cached>>
  BY DEF Begin, znunyVars
<1>2. new.mode = mode /\ new.offset = 0
  BY DEF Idle
<1> HIDE DEF new
<1>3. sync'[s] = new /\ \A r \in Syncs \ {s} : sync'[r] = sync[r]
  BY <1>1 DEF TypeOK
<1>4. Met(s)'
  <2>1. ASSUME NEW t \in closed' PROVE ~(Rank(sync[s].mode, t)' < sync'[s].offset)
    <3>1. Rank(mode, t)' \in Nat
      BY RankTypeNext DEF TypeOK
    <3>2. Rank(sync[s].mode, t)' = Rank(mode, t)'
      BY <1>2, <1>3, RankOf
    <3> QED BY <1>2, <1>3, <3>1, <3>2
  <2> QED BY <2>1 DEF Met
<1>5. ASSUME NEW r \in Syncs \ {s}, sync'[r].busy, sync'[r].calm PROVE Met(r)'
  BY <1>1, <1>3, <1>5, MetKept DEF PagesInv
<1> QED BY <1>4, <1>5 DEF PagesInv

\* Turning a page, a sync meets what is on it.
LEMMA PagesTurn ==
  ASSUME TypeOK, TypeOK', ClockInv, PagesInv, NEW s \in Syncs, Turn(s)
  PROVE  PagesInv'
<1> DEFINE page == Page(sync[s].mode, sync[s].offset)
<1>1. UNCHANGED <<now, closed, changed>> /\ cached' = cached \cup {t \in page : InWindow(t)}
  BY DEF Turn, znunyVars
<1>2. \A r \in Syncs \ {s} : sync'[r] = sync[r]
  BY DEF Turn, Complete, Leave, NextPage, TypeOK
<1>3. ASSUME NEW r \in Syncs \ {s}, sync'[r].busy, sync'[r].calm PROVE Met(r)'
  BY <1>1, <1>2, <1>3, MetKept DEF PagesInv
<1>4. ASSUME sync'[s].busy, sync'[s].calm PROVE Met(s)'
  <2>1. NextPage(s, page)
    <3>1. CASE Last(s, page)
      <4>1. sync'[s] = Idle
        BY <3>1 DEF Turn, Complete, Leave, TypeOK
      <4> QED BY <1>4, <4>1 DEF Idle
    <3>2. CASE ~Last(s, page)
      BY <3>2 DEF Turn
    <3> QED BY <3>1, <3>2
  <2>s. sync[s] \in SyncState /\ closed \subseteq Tickets
    BY DEF TypeOK
  <2>2. /\ sync'[s].mode = sync[s].mode /\ sync'[s].started = sync[s].started
        /\ sync'[s].offset = sync[s].offset + PageSize
        /\ sync'[s].calm = sync[s].calm
    <3> HIDE DEF page
    <3> QED BY <2>1, <2>s DEF NextPage, TypeOK, SyncState
  <2>3. Met(s)
    BY <1>4, <2>2 DEF PagesInv, Turn
  <2> PICK mode \in {"small", "full"} : mode = sync[s].mode
    BY <2>s DEF SyncState
  <2> SUFFICES ASSUME NEW t \in closed, InWindow(t), changed[t] < sync[s].started,
                      Rank(mode, t)' < sync[s].offset + PageSize
               PROVE  t \in cached'
    BY <1>1, <2>2, RankOf DEF Met, InWindow
  <2>4. Rank(mode, t)' = Rank(mode, t) /\ Rank(mode, t) \in Nat
    <3>1. Rank(mode, t) \in Nat
      BY <2>s, RankType
    <3>2. UNCHANGED <<closed, changed>>
      BY <1>1
    <3>3. Rank(mode, t)' = Rank(mode, t)
      BY <3>2 DEF Rank, Precedes
    <3> QED
      BY <3>1, <3>3
  <2>5. sync[s].offset \in Nat /\ PageSize \in Nat
    BY <2>s, SyncAssumption DEF SyncState
  <2>6. CASE Rank(mode, t) < sync[s].offset
    BY <1>1, <2>3, <2>6 DEF Met
  <2>7. CASE Rank(mode, t) \in sync[s].offset .. sync[s].offset + PageSize - 1
    BY <1>1, <2>7 DEF Page
  <2> QED BY <2>4, <2>5, <2>6, <2>7
<1> QED BY <1>3, <1>4 DEF PagesInv

\* Nobody but a sync itself ends it or has it go on, and when it ends it is idle.
LEMMA PagesEnd ==
  ASSUME TypeOK, TypeOK', ClockInv, PagesInv, NEW s \in Syncs,
         sync' = [sync EXCEPT ![s] = Idle], UNCHANGED <<now, closed, changed, cached>>
  PROVE  PagesInv'
<1>1. ~sync'[s].busy /\ \A r \in Syncs \ {s} : sync'[r] = sync[r]
  BY DEF TypeOK, Idle
<1>2. ASSUME NEW r \in Syncs \ {s}, sync'[r].busy, sync'[r].calm PROVE Met(r)'
  BY <1>1, <1>2, MetKept DEF PagesInv
<1> QED BY <1>1, <1>2 DEF PagesInv

\* Every step keeps what the syncs have met.
LEMMA PagesStep ==
  ASSUME TypeOK, TypeOK', ClockInv, PagesInv, [Next]_vars
  PROVE  PagesInv'
<1>s. sync \in [Syncs -> SyncState] /\ changed \in [Tickets -> Times] /\ closed \subseteq Tickets
  BY DEF TypeOK
<1>1. ASSUME NEW s \in Syncs, BeginAuto(s) \/ BeginFull(s) \/ BeginManual(s) PROVE PagesInv'
  <2>1. PICK mode \in {"small", "full"} : Begin(s, mode)
    BY <1>1, Beginnings
  <2> QED BY <2>1, PagesBegin
<1>2. ASSUME NEW s \in Syncs, Turn(s) PROVE PagesInv'
  BY <1>2, PagesTurn
<1>3. ASSUME NEW s \in Syncs, Exhausted(s) PROVE PagesInv'
  BY <1>3, PagesEnd DEF Exhausted, Complete, Leave, znunyVars
<1>4. ASSUME NEW s \in Syncs, Fail(s) PROVE PagesInv'
  BY <1>4, PagesEnd DEF Fail, Leave, znunyVars
<1>5. ASSUME NEW s \in Syncs, Crash(s) PROVE PagesInv'
  BY <1>5, PagesEnd DEF Crash, znunyVars, cacheVars
<1>k. ASSUME sync' = sync, cached \subseteq cached', closed \subseteq closed',
             \A t \in Tickets : changed'[t] = changed[t] \/ changed'[t] = now,
             \A t \in closed' \ closed : changed'[t] = now
      PROVE  PagesInv'
  BY <1>k, MetKept DEF PagesInv
<1>6. CASE LockExpires
  BY <1>6, <1>k DEF LockExpires, znunyVars
<1>d. ASSUME Disturb PROVE PagesInv'
  BY <1>d, <1>s DEF Disturb, PagesInv, SyncState
<1>7. CASE Purge
  BY <1>7, <1>d DEF Purge
<1>8. CASE Tick
  BY <1>8, <1>k DEF Tick, znunyVars, cacheVars
<1>9. ASSUME NEW t \in Restless, TouchClosed(t) PROVE PagesInv'
  <2>1. /\ sync' = sync /\ cached' = cached /\ closed' = closed \cup {t}
        /\ changed' = [changed EXCEPT ![t] = now]
    BY <1>9 DEF TouchClosed, Change, cacheVars
  <2>2. t \in Tickets
    BY SyncAssumption
  <2> QED BY <1>s, <1>k, <2>1, <2>2
<1>10. ASSUME NEW t \in Restless, ReopenTicket(t) PROVE PagesInv'
  BY <1>10, <1>d DEF ReopenTicket
<1>11. CASE UNCHANGED vars
  BY <1>11, <1>k DEF vars, znunyVars, cacheVars
<1> QED BY <1>1, <1>2, <1>3, <1>4, <1>5, <1>6, <1>7, <1>8, <1>9, <1>10, <1>11 DEF Next

----------------------------------------------------------------------------
(* Gaps. *)

\* A sync that ends well has loaded what it was to load.
LEMMA EndLoads ==
  ASSUME TypeOK, PagesInv, NEW s \in Syncs, sync[s].calm, ~sync'[s].busy, Turn(s) \/ Exhausted(s),
         NEW t \in closed, InWindow(t), changed[t] < sync[s].started,
         sync[s].mode = "small" => changed[t] >= sync[s].boundary
  PROVE  t \in cached'
<1> DEFINE page == Page(sync[s].mode, sync[s].offset)
<1>1. CASE Turn(s)
  <2>1. sync[s].busy /\ cached' = cached \cup {u \in page : InWindow(u)}
    BY <1>1 DEF Turn
  <2>2. Last(s, page)
    <3>1. CASE ~Last(s, page)
      <4>1. NextPage(s, page)
        BY <1>1, <3>1 DEF Turn
      <4>2. sync'[s].busy = sync[s].busy
        <5> HIDE DEF page
        <5> QED BY <4>1 DEF NextPage, TypeOK, SyncState
      <4> QED BY <2>1, <4>2
    <3> QED BY <3>1
  <2>3. t \in page \/ t \in cached
    BY <2>1, <2>2, LastPage
  <2> QED BY <2>1, <2>3
<1>2. CASE Exhausted(s)
  <2>1. sync[s].busy /\ page = {} /\ cached' = cached
    BY <1>2 DEF Exhausted
  <2>2. t \in page \/ t \in cached
    BY <2>1, LastPage
  <2> QED BY <2>1, <2>2
<1> QED BY <1>1, <1>2

\* While syncs only begin, go on and fail, and what changes changes now, no gap
\* opens: the metadata are those of a completion a sync has read.
LEMMA GapKept ==
  ASSUME TypeOK, TypeOK', ClockInv, GapInv, history'.orderly => history' = history,
         cached \subseteq cached',
         \A t \in closed' : (t \in closed /\ changed'[t] = changed[t]) \/ changed'[t] = now,
         \/ meta' = meta
         \/ \E s \in Syncs : sync[s].busy /\ meta' = sync[s].base,
         \A s \in Syncs : sync'[s].busy =>
            \/ sync[s].busy /\ sync'[s].base = sync[s].base
            \/ sync'[s].base = meta
  PROVE  GapInv'
<1> SUFFICES ASSUME history'.orderly PROVE
      /\ meta'.complete => Covered(meta.last)'
      /\ \A s \in Syncs : sync'[s].busy /\ sync'[s].base.complete => Covered(sync[s].base.last)'
  BY DEF GapInv
<1>h. history' = history /\ history.orderly
  OBVIOUS
<1>m. now \in Int /\ meta.last \in Int /\ meta.last <= now /\ (meta.complete => Covered(meta.last))
  BY <1>h DEF TypeOK, Times, Meta, Never, ClockInv, GapInv
<1>s. ASSUME NEW s \in Syncs, sync[s].busy
      PROVE  /\ sync[s].base.last \in Int /\ sync[s].base.last <= now
             /\ sync[s].base.complete => Covered(sync[s].base.last)
  <2>1. sync[s].base.last \in Int /\ sync[s].started \in Int
    BY DEF TypeOK, SyncState, Meta, Times, Never
  <2> QED BY <1>s, <1>m, <1>h, <2>1 DEF ClockInv, GapInv
<1>1. ASSUME NEW d \in Int, d <= now, Covered(d)
      PROVE  \A t \in closed' :
               InWindow(t) /\ changed'[t] < d /\ changed'[t] \notin history'.exposed => t \in cached'
  BY <1>m, <1>h, <1>1 DEF Covered
<1>2. meta'.complete => Covered(meta.last)'
  <2>1. CASE meta' = meta
    <3>1. meta.complete =>
            \A t \in closed' :
              InWindow(t) /\ changed'[t] < meta.last /\ changed'[t] \notin history'.exposed => t \in cached'
      BY <1>m, <1>1
    <3> QED BY <2>1, <3>1 DEF Covered, InWindow
  <2>2. CASE \E s \in Syncs : sync[s].busy /\ meta' = sync[s].base
    <3>1. PICK s \in Syncs : sync[s].busy /\ meta' = sync[s].base
      BY <2>2
    <3>2. sync[s].base.complete =>
            \A t \in closed' :
              InWindow(t) /\ changed'[t] < sync[s].base.last /\ changed'[t] \notin history'.exposed => t \in cached'
      BY <1>s, <1>1, <3>1
    <3> QED BY <3>1, <3>2 DEF Covered, InWindow
  <2> QED BY <2>1, <2>2
<1>3. ASSUME NEW s \in Syncs, sync'[s].busy, sync'[s].base.complete PROVE Covered(sync[s].base.last)'
  <2>1. CASE sync[s].busy /\ sync'[s].base = sync[s].base
    <3>1. \A t \in closed' :
            InWindow(t) /\ changed'[t] < sync[s].base.last /\ changed'[t] \notin history'.exposed => t \in cached'
      BY <1>s, <1>1, <1>3, <2>1
    <3> QED BY <2>1, <3>1 DEF Covered, InWindow
  <2>2. CASE sync'[s].base = meta
    <3>1. \A t \in closed' :
            InWindow(t) /\ changed'[t] < meta.last /\ changed'[t] \notin history'.exposed => t \in cached'
      BY <1>m, <1>1, <1>3, <2>2
    <3> QED BY <2>2, <3>1 DEF Covered, InWindow
  <2> QED BY <1>3, <2>1, <2>2
<1> QED BY <1>2, <1>3

\* A full sync that ends well and undisturbed leaves no gap but what changed while
\* it ran; a small one leaves none if the completion it follows left none.
LEMMA GapComplete ==
  ASSUME TypeOK, TypeOK', ClockInv, PagesInv, GapInv, NEW s \in Syncs, sync[s].busy, Complete(s),
         Turn(s) \/ Exhausted(s), UNCHANGED <<now, closed, changed>>, cached \subseteq cached'
  PROVE  GapInv'
<1> SUFFICES ASSUME history'.orderly PROVE GapInv'
  BY DEF GapInv
<1>1. /\ meta' = [complete |-> sync[s].base.complete \/ sync[s].mode = "full", last |-> now]
      /\ ~sync'[s].busy /\ \A r \in Syncs \ {s} : sync'[r] = sync[r]
  BY DEF Complete, Leave, TypeOK, Idle
<1>2. /\ history.orderly \/ sync[s].mode = "full"
      /\ sync[s].calm
      /\ history'.exposed = {d \in history.exposed : d < sync[s].boundary}
                              \cup sync[s].started .. now - 1
  BY DEF Complete, Disordered
<1>3. sync[s] \in SyncState /\ now \in Int /\ \A t \in closed : changed[t] \in Int
  BY DEF TypeOK, Times
<1>4. sync[s].started \in Int /\ sync[s].boundary \in Int /\ sync[s].base.last \in Int
  BY <1>3 DEF SyncState, Times, Meta, Never
<1>5. ASSUME NEW t \in closed, changed[t] < now, changed[t] \notin history'.exposed
      PROVE  changed[t] < sync[s].started
  BY <1>2, <1>3, <1>4, <1>5
<1>6. ASSUME NEW t \in closed, InWindow(t), changed[t] < now, changed[t] \notin history'.exposed,
             sync[s].mode = "small" => changed[t] >= sync[s].boundary
      PROVE  t \in cached'
  BY <1>1, <1>2, <1>5, <1>6, EndLoads
<1>7. ASSUME NEW t \in closed, changed[t] \in history.exposed, changed[t] \notin history'.exposed
      PROVE  changed[t] >= sync[s].boundary
  BY <1>2, <1>3, <1>4, <1>7
<1>8. meta'.complete =>
        \A t \in closed :
          InWindow(t) /\ changed[t] < now /\ changed[t] \notin history'.exposed => t \in cached'
  <2> SUFFICES ASSUME meta'.complete, NEW t \in closed, InWindow(t), changed[t] < now,
                      changed[t] \notin history'.exposed,
                      sync[s].mode = "small", changed[t] < sync[s].boundary
               PROVE  t \in cached'
    BY <1>3, <1>4, <1>6
  <2>1. history.orderly /\ sync[s].base.complete
    BY <1>1, <1>2
  <2>2. Covered(sync[s].base.last) /\ sync[s].boundary <= sync[s].base.last
    BY <2>1 DEF GapInv, ClockInv
  <2>3. changed[t] < sync[s].base.last
    BY <1>3, <1>4, <2>2
  <2>4. changed[t] \notin history.exposed
    BY <1>3, <1>4, <1>7
  <2> QED BY <2>2, <2>3, <2>4 DEF Covered
<1>9. Covered(meta.last)' \/ ~meta'.complete
  BY <1>1, <1>8 DEF Covered, InWindow
<1>10. ASSUME NEW r \in Syncs \ {s}, sync[r].busy, sync[r].base.complete,
              NEW t \in closed, InWindow(t), changed[t] < sync[r].base.last,
              changed[t] \notin history'.exposed
       PROVE  t \in cached'
  <2>1. changed[t] < now
    <3>1. sync[r].base.last \in Int /\ sync[r].started \in Int
      BY DEF TypeOK, SyncState, Times, Meta, Never
    <3> QED BY <1>3, <1>10, <3>1 DEF ClockInv
  <2>2. CASE sync[s].mode = "full"
    BY <1>6, <1>10, <2>1, <2>2
  <2>3. CASE sync[s].mode # "full" /\ changed[t] \in history.exposed
    BY <1>6, <1>7, <1>10, <2>1, <2>3
  <2>4. CASE sync[s].mode # "full" /\ changed[t] \notin history.exposed
    <3>1. Covered(sync[r].base.last)
      BY <1>2, <1>10, <2>4 DEF GapInv
    <3> QED BY <1>10, <2>4, <3>1 DEF Covered
  <2> QED BY <2>2, <2>3, <2>4
<1>11. ASSUME NEW r \in Syncs, sync'[r].busy, sync'[r].base.complete PROVE Covered(sync[r].base.last)'
  <2>1. r \in Syncs \ {s} /\ sync'[r] = sync[r]
    BY <1>1, <1>11
  <2>2. \A t \in closed :
          InWindow(t) /\ changed[t] < sync[r].base.last /\ changed[t] \notin history'.exposed
            => t \in cached'
    BY <1>10, <1>11, <2>1
  <2> QED BY <2>1, <2>2 DEF Covered, InWindow
<1> QED BY <1>9, <1>11 DEF GapInv

\* Every step leaves no gap while syncs are orderly.
LEMMA GapStep ==
  ASSUME TypeOK, TypeOK', ClockInv, PagesInv, GapInv, [Next]_vars
  PROVE  GapInv'
<1>s. sync \in [Syncs -> SyncState] /\ changed \in [Tickets -> Times] /\ closed \subseteq Tickets
  BY DEF TypeOK
<1>i. ~Idle.busy
  BY DEF Idle
<1>1. ASSUME NEW s \in Syncs, BeginAuto(s) \/ BeginFull(s) \/ BeginManual(s) PROVE GapInv'
  <2>1. PICK mode \in {"small", "full"} : Begin(s, mode)
    BY <1>1, Beginnings
  <2> DEFINE new == [Idle EXCEPT !.busy = TRUE, !.mode = mode, !.base = meta, !.started = now,
                                 !.boundary = IF mode = "full" THEN 0 ELSE now - Lookback * Minute]
  <2>2. sync' = [sync EXCEPT ![s] = new] /\ new.base = meta
    BY <2>1 DEF Begin, Idle
  <2> HIDE DEF new
  <2>3. \A r \in Syncs : sync'[r].base = meta \/ sync'[r] = sync[r]
    BY <1>s, <2>2
  <2>4. UNCHANGED <<now, changed, closed, cached, meta, history>>
    BY <2>1 DEF Begin, znunyVars
  <2> QED BY <2>3, <2>4, GapKept
<1>2. ASSUME NEW s \in Syncs, Turn(s) PROVE GapInv'
  <2> DEFINE page == Page(sync[s].mode, sync[s].offset)
  <2>1. UNCHANGED <<now, closed, changed>> /\ cached \subseteq cached' /\ sync[s].busy
    BY <1>2 DEF Turn, znunyVars
  <2>2. CASE Last(s, page)
    BY <1>2, <2>1, <2>2, GapComplete DEF Turn
  <2>3. CASE ~Last(s, page)
    <3>1. NextPage(s, page) /\ UNCHANGED <<meta, history>>
      BY <1>2, <2>3 DEF Turn
    <3>2. \A r \in Syncs : sync'[r].busy => sync[r].busy /\ sync'[r].base = sync[r].base
      <4> HIDE DEF page
      <4> QED BY <1>s, <3>1 DEF NextPage, SyncState
    <3> QED BY <2>1, <3>1, <3>2, GapKept
  <2> QED BY <2>2, <2>3
<1>3. ASSUME NEW s \in Syncs, Exhausted(s) PROVE GapInv'
  BY <1>3, GapComplete DEF Exhausted, znunyVars
<1>4. ASSUME NEW s \in Syncs, Fail(s) PROVE GapInv'
  <2>1. /\ meta' = sync[s].base /\ sync' = [sync EXCEPT ![s] = Idle] /\ sync[s].busy
        /\ UNCHANGED <<now, closed, changed, cached>> /\ (history'.orderly => history' = history)
    BY <1>4 DEF Fail, Disordered, Leave, znunyVars
  <2> QED BY <1>s, <1>i, <2>1, GapKept
<1>5. ASSUME NEW s \in Syncs, Crash(s) PROVE GapInv'
  <2>1. /\ sync' = [sync EXCEPT ![s] = Idle]
        /\ UNCHANGED <<now, closed, changed, cached, meta, history>>
    BY <1>5 DEF Crash, znunyVars, cacheVars
  <2> QED BY <1>s, <1>i, <2>1, GapKept
<1>6. CASE LockExpires
  BY <1>6, GapKept DEF LockExpires, znunyVars
<1>7. CASE Purge
  BY <1>7 DEF Purge, Disordered, GapInv
<1>8. CASE Tick
  BY <1>8, GapKept DEF Tick, znunyVars, cacheVars
<1>9. ASSUME NEW t \in Restless, TouchClosed(t) PROVE GapInv'
  <2>1. /\ UNCHANGED <<now, cached, meta, history, sync>> /\ closed' = closed \cup {t}
        /\ changed' = [changed EXCEPT ![t] = now]
    BY <1>9 DEF TouchClosed, Change, cacheVars
  <2>2. t \in Tickets
    BY SyncAssumption
  <2>3. \A u \in closed' : (u \in closed /\ changed'[u] = changed[u]) \/ changed'[u] = now
    BY <1>s, <2>1, <2>2
  <2> QED BY <2>1, <2>3, GapKept
<1>10. ASSUME NEW t \in Restless, ReopenTicket(t) PROVE GapInv'
  <2>1. /\ UNCHANGED <<now, cached, meta, history>> /\ closed' = closed \ {t}
        /\ changed' = [changed EXCEPT ![t] = now] /\ Disturb
    BY <1>10 DEF ReopenTicket, Change, cacheVars
  <2>2. \A u \in closed' : u \in closed /\ changed'[u] = changed[u]
    BY <1>s, <2>1
  <2>3. \A r \in Syncs : sync'[r].busy = sync[r].busy /\ sync'[r].base = sync[r].base
    BY <1>s, <2>1 DEF Disturb, SyncState
  <2> QED BY <2>1, <2>2, <2>3, GapKept
<1>11. CASE UNCHANGED vars
  BY <1>11, GapKept DEF vars, znunyVars, cacheVars
<1> QED BY <1>1, <1>2, <1>3, <1>4, <1>5, <1>6, <1>7, <1>8, <1>9, <1>10, <1>11 DEF Next

----------------------------------------------------------------------------
(* Theorems. *)

\* The invariant is inductive.
LEMMA SyncInductive == Spec => []SyncInv
<1>1. Init => SyncInv
  <2> SUFFICES ASSUME Init PROVE SyncInv
    OBVIOUS
  <2>1. GapInv
    BY DEF Init, Disordered, GapInv
  <2> QED BY <2>1, TypeInit, ClockInit, PagesInit DEF SyncInv
<1>2. SyncInv /\ [Next]_vars => SyncInv'
  <2> SUFFICES ASSUME SyncInv, [Next]_vars PROVE SyncInv'
    OBVIOUS
  <2>1. TypeOK'
    BY TypeStep DEF SyncInv
  <2>2. ClockInv' /\ PagesInv' /\ GapInv'
    BY <2>1, ClockStep, PagesStep, GapStep DEF SyncInv
  <2> QED BY <2>1, <2>2 DEF SyncInv
<1> QED BY <1>1, <1>2, PTL DEF Spec

\* Types, in particular: what is cached lies in the window, and no sync asks for
\* a page that begins beyond the end of the list by more than a page.
THEOREM SyncTypes == Spec => []TypeOK
<1>1. SyncInv => TypeOK
  BY DEF SyncInv
<1> QED BY <1>1, SyncInductive, PTL

\* However many tickets, processes and faults there are, however long a sync takes
\* and whatever agents do meanwhile: since a full sync no ticket that was closed
\* and left alone is missing in the cache, if no sync that ended well since was
\* disturbed, but one that changed while a sync ran and to whose change no later
\* one has gone back (runSmallSync, runFullSync).
THEOREM NoTicketSlipsThrough == Spec => []NothingSlipsThrough
<1>1. SyncInv => NothingSlipsThrough
  BY DEF SyncInv, GapInv, Covered, NothingSlipsThrough, Valid
<1> QED BY <1>1, SyncInductive, PTL

\* A sync that ends well, under which no ticket left the list, has loaded all
\* that it was to load, however tickets moved from page to page meanwhile.
THEOREM SyncsLoadWhatStayed == Spec => SyncLoadsWhatStayed
<1>1. SyncInv /\ [Next]_vars =>
        [\A s \in Syncs : sync[s].calm /\ ~sync'[s].busy /\ (Turn(s) \/ Exhausted(s)) =>
           \A t \in closed :
             /\ InWindow(t) /\ changed[t] < sync[s].started
             /\ sync[s].mode = "small" => changed[t] >= sync[s].boundary
             => t \in cached']_vars
  BY EndLoads DEF SyncInv
<1> QED BY <1>1, SyncInductive, PTL DEF Spec, SyncLoadsWhatStayed
===============================================================================
