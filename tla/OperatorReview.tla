--------------------------- MODULE OperatorReview ---------------------------
(***************************************************************************)
(* What administrators do: queue a run of a task; and, to a run that did   *)
(* not succeed, queue a manual retry, link a ticket found at Znuny, or     *)
(* close the run.  Retry and link look first and change later, so an    *)
(* operator who has looked is remembered in "checked" and may act at any   *)
(* later moment, whatever others did meanwhile; entries stay, for several  *)
(* operators may have seen the same page.                                  *)
(***************************************************************************)
EXTENDS ScheduledRuns

VARIABLE checked   \* decisions operators reached and may still carry out

Decision == [act: {"retry", "link"}, run: Runs, ticket: Tickets \cup {NoTicket}]

ReviewTypeOK == checked \subseteq Decision
ReviewInit == checked = {}

(* isManualRetryAvailable: no attempt was made, or the lookup in the        *)
(* workspace cache, which may be stale, shows no ticket.                    *)
RetryOffered(r) ==
  /\ OpenLeaf(r)
  /\ \/ status[r] = "failed" /\ attempt[r] = "none"
     \/ attempt[r] = "uncertain" /\ {} \in Lookups(r)

CheckRetry(r) ==
  /\ RetryOffered(r)
  /\ checked' = checked \cup {[act |-> "retry", run |-> r, ticket |-> NoTicket]}
  /\ UNCHANGED tables

(* The page shows ticket t for the marker, and so does the fresh lookup at  *)
(* the start of link().                                                     *)
CheckLink(r, t) ==
  /\ OpenLeaf(r)
  /\ attempt[r] = "uncertain"
  /\ \E matches \in Lookups(r) : t \in matches
  /\ checked' = checked \cup {[act |-> "link", run |-> r, ticket |-> t]}
  /\ UNCHANGED tables

(* Faulty variants, here and below: what the code would be with a likely    *)
(* slip.  No specification uses one; each breaks a property.                *)

(* faulty: trusts the run the operator saw to be the leaf still *)
RetryTheSeenRun(d) ==
  /\ d \in checked /\ d.act = "retry"
  /\ \E new \in Runs :
       /\ IsNext(new)
       /\ status' = [status EXCEPT ![new] = "pending"]
       /\ root' = [root EXCEPT ![new] = RootOf(d.run)]
       /\ parent' = [parent EXCEPT ![new] = d.run]
       /\ seq' = [seq EXCEPT ![new] = seq[d.run] + 1]
       /\ resolution' = [resolution EXCEPT ![d.run] = "retry_created"]
  /\ UNCHANGED <<runTicket, attemptVars, znunyVars, checked>>

(* faulty: replaces the leaf whatever became of it *)
RetryAnyLeaf(d) ==
  /\ d \in checked /\ d.act = "retry"
  /\ \E leaf \in Members(RootOf(d.run)), new \in Runs :
       /\ IsLeaf(leaf)
       /\ IsNext(new)
       /\ status' = [status EXCEPT ![new] = "pending"]
       /\ root' = [root EXCEPT ![new] = RootOf(d.run)]
       /\ parent' = [parent EXCEPT ![new] = leaf]
       /\ seq' = [seq EXCEPT ![new] = seq[leaf] + 1]
       /\ resolution' = [resolution EXCEPT ![leaf] = "retry_created"]
  /\ UNCHANGED <<runTicket, attemptVars, znunyVars, checked>>

(* retry() walks from the run the operator saw to the leaf of its chain as  *)
(* it is now, and replaces that one; it refuses or reports the existing     *)
(* retry in every other state.                                              *)
Retry(d) ==
  /\ d \in checked /\ d.act = "retry"
  /\ \E leaf \in Members(RootOf(d.run)), new \in Runs :
       /\ OpenLeaf(leaf)
       /\ WellFormed(RootOf(d.run))
       /\ IsNext(new)
       /\ status' = [status EXCEPT ![new] = "pending"]
       /\ root' = [root EXCEPT ![new] = RootOf(d.run)]
       /\ parent' = [parent EXCEPT ![new] = leaf]
       /\ seq' = [seq EXCEPT ![new] = seq[leaf] + 1]
       /\ resolution' = [resolution EXCEPT ![leaf] = "retry_created"]
  /\ UNCHANGED <<runTicket, attemptVars, znunyVars, checked>>

(* faulty: links a run a retry has replaced *)
LinkAnyRun(d) ==
  /\ d \in checked /\ d.act = "link"
  /\ attempt[d.run] = "uncertain"
  /\ attempt' = [attempt EXCEPT ![d.run] = "manually_linked"]
  /\ attemptTicket' = [attemptTicket EXCEPT ![d.run] = d.ticket]
  /\ runTicket' = [runTicket EXCEPT ![d.run] = d.ticket]
  /\ UNCHANGED <<status, root, parent, seq, resolution, znunyVars, checked>>

(* The transaction of link(): the reviewed run must still be the leaf and   *)
(* its attempt still uncertain.                                             *)
Link(d) ==
  /\ d \in checked /\ d.act = "link"
  /\ WellFormed(RootOf(d.run))
  /\ IsLeaf(d.run) /\ resolution[d.run] = "none"
  /\ attempt[d.run] = "uncertain"
  /\ attempt' = [attempt EXCEPT ![d.run] = "manually_linked"]
  /\ attemptTicket' = [attemptTicket EXCEPT ![d.run] = d.ticket]
  /\ runTicket' = [runTicket EXCEPT ![d.run] = d.ticket]
  /\ resolution' = [resolution EXCEPT ![d.run] = "manual_link"]
  /\ UNCHANGED <<status, root, parent, seq, znunyVars, checked>>

(* faulty: insists on an attempt to resolve *)
ClosableIfUncertain(r) ==
  OpenLeaf(r) /\ WellFormed(RootOf(r)) /\ attempt[r] = "uncertain"

(* The transaction of close(); an attempt that may still be under way or    *)
(* already has its ticket is refused.                                       *)
Closable(r) ==
  /\ OpenLeaf(r)
  /\ WellFormed(RootOf(r))
  /\ attempt[r] \in {"none", "uncertain", "confirmed_failed",
                     "resolved_without_ticket"}

(* faulty: leaves the attempt uncertain *)
CloseKeepsAttempt(r) ==
  /\ Closable(r)
  /\ resolution' = [resolution EXCEPT ![r] = "manual_closed"]
  /\ UNCHANGED <<status, root, parent, seq, runTicket, attemptVars,
                 znunyVars, checked>>

Close(r) ==
  /\ Closable(r)
  /\ attempt' = [attempt EXCEPT ![r] = IF @ = "uncertain"
                                         THEN "resolved_without_ticket" ELSE @]
  /\ resolution' = [resolution EXCEPT ![r] = "manual_closed"]
  /\ UNCHANGED <<status, root, parent, seq, runTicket, attemptTicket,
                 znunyVars, checked>>

(* "Queue run" on the page of a task inserts a run at any time. *)
QueueRun ==
  /\ \E r \in Runs :
       /\ IsNext(r)
       /\ status' = [status EXCEPT ![r] = "pending"]
  /\ UNCHANGED <<root, parent, seq, resolution, runTicket, attemptVars,
                 znunyVars, checked>>

ReviewStep ==
  \/ QueueRun
  \/ \E r \in Runs :
       \/ CheckRetry(r)
       \/ Close(r)
       \/ \E t \in Tickets : CheckLink(r, t)
  \/ \E d \in checked : Retry(d) \/ Link(d)
=============================================================================
