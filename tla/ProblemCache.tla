---------------------------- MODULE ProblemCache ----------------------------
(***************************************************************************)
(* A Zabbix problem and what the integration knows of it.  The poller      *)
(* (app:poll-zabbix-problems) copies the active problems into Redis: an    *)
(* index of them, one key per problem, and the status of the last poll,    *)
(* each with a time to live.  This module follows the one trigger a linked *)
(* ticket was created for; LinkedEvent is the event it was created for,    *)
(* later events of the trigger are returns of the problem.                 *)
(*                                                                         *)
(* Time passes in ticks that are longer than a run of the poller or of an  *)
(* evaluation; 0 stands for a null timestamp.                              *)
(***************************************************************************)
EXTENDS Naturals

CONSTANTS Ttl,            \* zabbix_problem_cache_ttl_minutes
          PollInterval,   \* zabbix_poll_interval_minutes, 0: less than half a tick
          MaxTime,        \* bound of the model: last tick
          MaxEvents       \* bound of the model: events of the trigger

ASSUME CacheAssumption ==
  /\ Ttl \in Nat /\ PollInterval \in Nat
  /\ MaxTime \in Nat \ {0} /\ MaxEvents \in Nat \ {0}

VARIABLES now,       \* the clock
          problem,   \* the last problem event of the trigger in Zabbix
          cache      \* the keys in Redis

feedVars == <<now, problem, cache>>

Null == 0
LinkedEvent == 1
NoEvent == [id |-> Null, since |-> Null]
Times == 0..MaxTime
Events == [id : 0..MaxEvents, since : Times]

FeedTypeOK ==
  /\ now \in 1..MaxTime
  /\ problem \in Events
  /\ cache \in [listed   : Events,    \* the event in zabbix:problems:index
                linkedAt : Times,     \* when zabbix:problem:<LinkedEvent> was last written
                polledAt : Times,     \* last_successful_polled_at
                markedAt : Times]     \* when zabbix:problems:last_poll was last written

\* The ticket has just been created from a problem the last poll listed.
FeedInit ==
  LET first == [id |-> LinkedEvent, since |-> 1]
  IN /\ now = 1
     /\ problem = first
     /\ cache = [listed |-> first, linkedAt |-> 1, polledAt |-> 1, markedAt |-> 1]

-----------------------------------------------------------------------------
(* Reading the cache. *)

Alive(written) == written # Null /\ now <= written + Ttl

\* last_successful_polled_at, if the key of the last poll still exists.
LastSuccess == IF Alive(cache.markedAt) THEN cache.polledAt ELSE Null

\* Faulty: one tick too many.
MaxStalePlusOne == Ttl + 1

MaxStale == IF Ttl >= 2 * PollInterval THEN Ttl ELSE 2 * PollInterval

IsCacheFresh == LastSuccess # Null /\ LastSuccess + MaxStale >= now

\* findActiveProblemForTicket: a listed problem of the host and trigger, else
\* the key of the linked event, which outlives its absence from the index.
ActiveProblem ==
  IF cache.listed # NoEvent /\ Alive(cache.polledAt) THEN cache.listed
  ELSE IF Alive(cache.linkedAt) THEN [id |-> LinkedEvent, since |-> 1]
  ELSE NoEvent

-----------------------------------------------------------------------------
(* The poller. *)

\* Whether a poll lists the last event: it does while the problem is active or
\* was resolved recently, unless filters, disabled hosts or items, suppression
\* or the limit on the number of problems hide it.  Either is possible here.
PollSucceeds ==
  \E seen \in {problem, NoEvent} :
     /\ cache' = [listed   |-> seen,
                  linkedAt |-> IF seen.id = LinkedEvent THEN now ELSE cache.linkedAt,
                  polledAt |-> now,
                  markedAt |-> now]
     /\ UNCHANGED <<now, problem>>

PollFails ==
  /\ cache' = [cache EXCEPT !.polledAt = LastSuccess, !.markedAt = now]
  /\ UNCHANGED <<now, problem>>

(* Zabbix and the clock. *)

ProblemReturns ==
  /\ problem.id < MaxEvents
  /\ problem' = [id |-> problem.id + 1, since |-> now]
  /\ UNCHANGED <<now, cache>>

Tick == now < MaxTime /\ now' = now + 1 /\ UNCHANGED <<problem, cache>>

FeedStep == PollSucceeds \/ PollFails \/ ProblemReturns
=============================================================================
