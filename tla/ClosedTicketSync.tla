-------------------------- MODULE ClosedTicketSync --------------------------
(***************************************************************************)
(* The cache of recently closed tickets (ClosedTicketSyncService and        *)
(* ClosedTicketCacheService).  A sync pages through the closed tickets of   *)
(* Znuny while agents close, reopen and change them: a small one goes back  *)
(* some minutes in the order of changes, a full one goes back to the end of *)
(* the window in the order of creation.  What a sync has missed is noted    *)
(* nowhere; the next one only knows when the last one was completed.  Time  *)
(* is counted in seconds, of which a minute has Minute.                     *)
(***************************************************************************)
EXTENDS Integers, FiniteSets, FiniteSetsExt

CONSTANTS Tickets,     \* numbered in the order of their creation
          Old,         \* created before the window of znuny_closed_ticket_window_days
          Open,        \* not closed when the model begins
          Restless,    \* bound of the model: tickets agents still work on
          PageSize,    \* Limit of a search
          Minute,      \* seconds of a minute
          Interval,    \* znuny_closed_ticket_small_sync_interval_minutes
          LockLife,    \* lifetime of the lock, in seconds
          Syncs,       \* processes that sync: schedules, commands by hand, the button
          Faults,      \* what may go wrong: "error", "crash", "expiry", "purge"
          MaxTime,     \* bound of the model: seconds
          LongestSync, \* bound of the model: seconds a sync takes at most
          LastEvent,   \* bound of the model: last second of changes and faults
          MaxChanges   \* bound of the model: changes of tickets in Znuny

ASSUME SyncAssumption ==
  /\ Tickets \subseteq Nat /\ IsFiniteSet(Tickets)
  /\ Old \cup Open \cup Restless \subseteq Tickets
  /\ \A t \in Old, u \in Tickets : u < t => u \in Old
  /\ PageSize \in Nat \ {0} /\ LockLife \in Nat \ {0}
  /\ Minute \in Nat \ {0} /\ Interval \in Nat \ {0}
  /\ Faults \subseteq {"error", "crash", "expiry", "purge"}
  /\ MaxTime \in Nat /\ LongestSync \in Nat /\ LastEvent \in Nat /\ MaxChanges \in Nat

VARIABLES
  now,
  closed,     \* tickets whose state type is closed
  changed,    \* ticket -> when it was last changed
  changes,    \* number of changes so far
  cached,     \* tickets with a payload in the cache
  meta,       \* znuny:closed_ticket:sync:metadata
  locked,     \* when znuny:closed_ticket:sync:lock was taken
  sync,       \* process -> the sync it is in
  history     \* what has happened: no variable of the program

znunyVars == <<closed, changed, changes>>
cacheVars == <<cached, meta, locked>>
vars == <<now, znunyVars, cacheVars, sync, history>>

Times == 0 .. MaxTime
Never == -1
NoMeta == [complete |-> FALSE, last |-> Never]
Meta == [complete : BOOLEAN, last : Times \cup {Never}]

(* calm is history: no ticket has left the list, and nobody has purged the   *)
(* cache, under this sync.                                                  *)
Idle == [busy |-> FALSE, mode |-> "full", offset |-> 0, seen |-> {},
         boundary |-> 0, base |-> NoMeta, started |-> 0, calm |-> TRUE]

Disordered == [orderly |-> FALSE, exposed |-> {}]

(* A sync never asks far beyond the end of the list, however it moves.       *)
SyncState == [busy : BOOLEAN, mode : {"small", "full"},
              offset : 0 .. Cardinality(Tickets) + PageSize - 1,
              seen : SUBSET Tickets, boundary : Int, base : Meta,
              started : Times, calm : BOOLEAN]

TypeOK ==
  /\ now \in Times /\ changes \in 0 .. MaxChanges
  /\ closed \subseteq Tickets /\ changed \in [Tickets -> Times]
  /\ cached \subseteq Tickets \ Old
  /\ meta \in Meta /\ locked \in Times \cup {Never}
  /\ sync \in [Syncs -> SyncState]
  /\ history \in [orderly : BOOLEAN,       \* every sync since a full one was calm
                  exposed : SUBSET Times]  \* changes that may have been missed

Init ==
  /\ now = 0 /\ closed = Tickets \ Open
  /\ changed = [t \in Tickets |-> 0] /\ changes = 0
  /\ cached = {} /\ meta = NoMeta /\ locked = Never
  /\ sync = [s \in Syncs |-> Idle]
  /\ history = Disordered

----------------------------------------------------------------------------
(* A search for closed tickets, sorted by Created or by Changed, the newest  *)
(* first.                                                                   *)

InWindow(t) == t \notin Old

Precedes(mode, t, u) ==
  \/ mode = "small" /\ changed[t] > changed[u]
  \/ (mode = "full" \/ changed[t] = changed[u]) /\ t > u

Rank(mode, t) == Cardinality({u \in closed : Precedes(mode, u, t)})

Page(mode, offset) ==
  {t \in closed : Rank(mode, t) \in offset .. offset + PageSize - 1}

----------------------------------------------------------------------------
(* A sync begins. *)

Valid == meta.complete     \* validateMetadata, the window being the same

SinceLast == IF meta.last = Never THEN 0 ELSE now - meta.last

(* Faulty: the fraction of a minute is dropped and nothing added for it.     *)
LookbackBare == Max({2 * Interval, SinceLast \div Minute})

(* In whole minutes: (int) drops the fraction of a minute, so that the minute *)
(* added leaves a second of it at least.                                    *)
Lookback == Max({2 * Interval, SinceLast \div Minute + 1})

(* Cache::add takes the lock, or the sync is skipped. *)
Begin(s, mode) ==
  /\ ~sync[s].busy /\ locked = Never
  /\ locked' = now
  /\ sync' = [sync EXCEPT ![s] =
       [Idle EXCEPT !.busy = TRUE, !.mode = mode, !.base = meta, !.started = now,
                    !.boundary = IF mode = "full" THEN 0 ELSE now - Lookback * Minute]]
  /\ UNCHANGED <<now, znunyVars, cached, meta, history>>

BeginAuto(s) ==
  \/ Valid /\ now - meta.last >= Interval * Minute /\ Begin(s, "small")
  \/ ~Valid /\ Begin(s, "full")
BeginFull(s) == Begin(s, "full")
BeginManual(s) == Begin(s, "small")

----------------------------------------------------------------------------
(* A sync turns pages. *)

(* The metadata read at the beginning goes back with what is new in it, and  *)
(* the lock is forgotten whoever has taken it meanwhile.                    *)
Leave(s, metadata) ==
  /\ meta' = metadata /\ locked' = Never
  /\ sync' = [sync EXCEPT ![s] = Idle]

(* A change made while a sync was running may have been missed, until a later *)
(* sync that is calm goes back to it.                                       *)
Complete(s) ==
  /\ Leave(s, [complete |-> sync[s].base.complete \/ sync[s].mode = "full",
               last |-> now])
  /\ history' = IF sync[s].calm /\ (history.orderly \/ sync[s].mode = "full")
                  THEN [orderly |-> TRUE,
                        exposed |-> {d \in history.exposed : d < sync[s].boundary}
                                      \cup sync[s].started .. now - 1]
                  ELSE Disordered

Reaches(s, page) ==
  IF sync[s].mode = "full" THEN page \cap Old # {}
  ELSE \E t \in page : changed[t] < sync[s].boundary

Last(s, page) == Reaches(s, page) \/ Cardinality(page) < PageSize

(* Faulty: the next page starts one too late. *)
NextPageLate(s, page) ==
  sync' = [sync EXCEPT ![s].seen = @ \cup page, ![s].offset = @ + PageSize + 1]

NextPage(s, page) ==
  sync' = [sync EXCEPT ![s].seen = @ \cup page, ![s].offset = @ + PageSize]

(* Faulty: a ticket is cached whenever it was created. *)
TurnUnfiltered(s) ==
  LET page == Page(sync[s].mode, sync[s].offset)
  IN /\ sync[s].busy /\ page # {} /\ ~ page \subseteq sync[s].seen
     /\ cached' = cached \cup page
     /\ IF Last(s, page) THEN Complete(s)
        ELSE NextPage(s, page) /\ UNCHANGED <<meta, locked, history>>
     /\ UNCHANGED <<now, znunyVars>>

(* A page with something new: what is in the window is cached. *)
Turn(s) ==
  LET page == Page(sync[s].mode, sync[s].offset)
  IN /\ sync[s].busy /\ page # {} /\ ~ page \subseteq sync[s].seen
     /\ cached' = cached \cup {t \in page : InWindow(t)}
     /\ IF Last(s, page) THEN Complete(s)
        ELSE NextPage(s, page) /\ UNCHANGED <<meta, locked, history>>
     /\ UNCHANGED <<now, znunyVars>>

(* An empty page is the end of the list. *)
Exhausted(s) ==
  /\ sync[s].busy /\ Page(sync[s].mode, sync[s].offset) = {}
  /\ Complete(s)
  /\ UNCHANGED <<now, znunyVars, cached>>

Trouble(fault) == fault \in Faults /\ now <= LastEvent

(* No answer, or a page with nothing but what this sync has seen: an         *)
(* exception, after which only the error is new in the metadata.            *)
Fail(s) ==
  LET page == Page(sync[s].mode, sync[s].offset)
  IN /\ sync[s].busy
     /\ Trouble("error") \/ (page # {} /\ page \subseteq sync[s].seen)
     /\ Leave(s, sync[s].base)
     /\ history' = IF sync[s].calm THEN history ELSE Disordered
     /\ UNCHANGED <<now, znunyVars, cached>>

----------------------------------------------------------------------------
(* Faults, time, and agents at work in Znuny. *)

Crash(s) ==
  /\ Trouble("crash") /\ sync[s].busy
  /\ sync' = [sync EXCEPT ![s] = Idle]
  /\ UNCHANGED <<now, znunyVars, cacheVars, history>>

LockExpires ==
  /\ Trouble("expiry") /\ locked # Never /\ now - locked >= LockLife
  /\ locked' = Never
  /\ UNCHANGED <<now, znunyVars, cached, meta, sync, history>>

Disturb ==
  sync' = [s \in Syncs |-> [sync[s] EXCEPT !.calm = ~sync[s].busy]]

(* --purge asks for no lock. *)
Purge ==
  /\ Trouble("purge")
  /\ cached' = {} /\ meta' = NoMeta /\ Disturb /\ history' = Disordered
  /\ UNCHANGED <<now, znunyVars, locked>>

Change(t) ==
  /\ changes < MaxChanges /\ now <= LastEvent
  /\ changes' = changes + 1 /\ changed' = [changed EXCEPT ![t] = now]
  /\ UNCHANGED <<now, cacheVars, history>>

(* An agent closes a ticket, or changes a closed one. *)
TouchClosed(t) == Change(t) /\ closed' = closed \cup {t} /\ UNCHANGED sync

(* Leaving the list, a ticket moves all that follow it to lower offsets. *)
ReopenTicket(t) ==
  t \in closed /\ Change(t) /\ closed' = closed \ {t} /\ Disturb

Tick ==
  /\ now < MaxTime /\ now' = now + 1
  /\ \A s \in Syncs : sync[s].busy => now - sync[s].started < LongestSync
  /\ UNCHANGED <<znunyVars, cacheVars, sync, history>>

----------------------------------------------------------------------------

Next ==
  \/ \E s \in Syncs :
       \/ BeginAuto(s) \/ BeginFull(s) \/ BeginManual(s)
       \/ Turn(s) \/ Exhausted(s) \/ Fail(s) \/ Crash(s)
  \/ LockExpires \/ Purge \/ Tick
  \/ \E t \in Restless : TouchClosed(t) \/ ReopenTicket(t)

Spec == Init /\ [][Next]_vars

----------------------------------------------------------------------------

(* One sync follows another without a gap: from a full sync on, as long as   *)
(* no sync that ends is disturbed, every ticket of the window closed and     *)
(* unchanged since before the last completion is cached, unless it changed   *)
(* while a sync was running and no later one has gone back to that moment,   *)
(* whatever syncs fail, die or outlive their lock, come late or on demand    *)
(* (runSmallSync's lookback, setMetadata).                                  *)
NothingSlipsThrough ==
  history.orderly /\ Valid =>
    \A t \in closed :
      InWindow(t) /\ changed[t] < meta.last /\ changed[t] \notin history.exposed
        => t \in cached

(* A sync that ends well has met every ticket that stayed closed and as it   *)
(* was since before its start, however tickets come, change and move from    *)
(* page to page meanwhile, unless one left the list (runFullSync,            *)
(* runSmallSync).                                                           *)
SyncLoadsWhatStayed ==
  [][\A s \in Syncs : sync[s].calm /\ ~sync'[s].busy
        /\ (Turn(s) \/ Exhausted(s)) =>
       \A t \in closed :
         /\ InWindow(t) /\ changed[t] < sync[s].started
         /\ sync[s].mode = "small" => changed[t] >= sync[s].boundary
         => t \in cached']_vars
=============================================================================
