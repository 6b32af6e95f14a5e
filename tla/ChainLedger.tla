---------------------------- MODULE ChainLedger ----------------------------
(***************************************************************************)
(* What the scheduled-ticket pipeline promises for one occurrence of a     *)
(* scheduled task, however many runs it takes: it is open, or waits for an *)
(* administrator, until it is paid for with one ticket of its own or       *)
(* closed without one; then nothing about it changes any more.             *)
(***************************************************************************)
CONSTANTS Chains, Tickets, NoTicket

VARIABLES stage,  \* occurrence -> where it stands
          bill    \* occurrence -> the ticket it was paid for with

vars == <<stage, bill>>

Stage == {"none", "open", "review", "ticketed", "closed"}

TypeOK == /\ stage \in [Chains -> Stage]
          /\ bill \in [Chains -> Tickets \cup {NoTicket}]

Init == /\ stage = [c \in Chains |-> "none"]
        /\ bill = [c \in Chains |-> NoTicket]

Move(c, from, to) == stage[c] = from /\ stage' = [stage EXCEPT ![c] = to]

Occur(c) == Move(c, "none", "open") /\ UNCHANGED bill
Fail(c) == Move(c, "open", "review") /\ UNCHANGED bill
Requeue(c) == Move(c, "review", "open") /\ UNCHANGED bill
Dismiss(c) == Move(c, "review", "closed") /\ UNCHANGED bill

(* A ticket pays for one occurrence only. *)
Pay(c) ==
  /\ Move(c, "open", "ticketed") \/ Move(c, "review", "ticketed")
  /\ \E t \in Tickets : /\ \A d \in Chains : bill[d] # t
                        /\ bill' = [bill EXCEPT ![c] = t]

Next == \E c \in Chains :
          /\ stage'[c] # stage[c]
          /\ Occur(c) \/ Fail(c) \/ Requeue(c) \/ Dismiss(c) \/ Pay(c)

Spec == Init /\ [][Next]_vars

(* The ticketed occurrences are the paid ones, each with a ticket of its     *)
(* own: what the abstract ledger guarantees and the tables must keep.        *)
Balanced ==
  /\ \A c \in Chains : stage[c] = "ticketed" <=> bill[c] # NoTicket
  /\ \A c, d \in Chains : bill[c] # NoTicket /\ bill[c] = bill[d] => c = d
=============================================================================
