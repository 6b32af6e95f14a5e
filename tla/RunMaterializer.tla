--------------------------- MODULE RunMaterializer ---------------------------
(***************************************************************************)
(* How the occurrences of one scheduled task become rows of               *)
(* scheduled_znuny_task_runs.                                              *)
(*                                                                         *)
(*   passes      the every-minute command loads the enabled tasks, brings   *)
(*               next_run_at into order, walks it over the occurrences that *)
(*               are due and saves it; passes may overlap                   *)
(*   processor   finishes pending runs and notes the task's last_run_at     *)
(*   pages       enable and disable the task, edit its expression and its   *)
(*               time zone, queue and retry runs                            *)
(*   retention   deletes old rows                                           *)
(*                                                                         *)
(* next_run_at is written by passes and pages alike, and nobody locks it: a *)
(* pass works with the expression it has loaded, and saves the successor of *)
(* that one whatever a page has made of the task meanwhile.                 *)
(* The unique key (task, scheduled_for) names a row by its time.  Time is   *)
(* counted in ticks that are longer than a pass; 0 stands for null.         *)
(***************************************************************************)
EXTENDS Naturals, FiniteSets

CONSTANTS Schedules,     \* cron expressions, each with the time zone it is read in
          MissedAge,     \* scheduled_tasks_missed_run_max_age_days
          CatchUpLimit,  \* scheduled_tasks_catchup_batch_limit
          Retention,     \* scheduled_task_logs_retention_days
          Passes,        \* processes that run the command
          Pages,         \* pages in use: "switch", "cell", "form", "runs"
          LastEdit,      \* bound of the model: last tick at which pages are used
          MaxManual,     \* bound of the model: manual runs at a time
          MaxTime        \* bound of the model: last tick

\* The defaults are 30 days for MissedAge and 180 for Retention.
ASSUME MaterializerAssumption ==
  /\ MaxTime \in Nat \ {0} /\ Schedules \subseteq [fires : SUBSET (1..MaxTime), offset : Nat]
  /\ MissedAge \in Nat /\ Retention \in Nat /\ LastEdit \in Nat /\ MaxManual \in Nat
  /\ CatchUpLimit \in Nat \ {0}
  /\ MissedAge <= Retention

VARIABLES now,      \* the clock
          task,     \* the row of scheduled_znuny_tasks
          runs,     \* scheduled_for -> the row of scheduled_znuny_task_runs
          pass,     \* process -> its pass
          history   \* what has happened: no variable of the program

vars == <<now, task, runs, pass, history>>

Null == 0
Moments == 1..MaxTime
Times == Moments \cup {Null}

\* Retries count as manual: they have a second of their own, no occurrence.
RunType == {"scheduled", "manual"}
Run == [type : RunType, processed : BOOLEAN, created : Moments]
NoRun == [type |-> "none"]

NoPass == [pc |-> "idle"]
Pass == [pc : {"prepare"}, schedule : Schedules, loaded : Times, lastRun : Times]
        \cup [pc       : {"loop"},
              schedule : Schedules,          \* cron_expression and timezone as loaded
              loaded   : Times,              \* next_run_at as last read or written
              next     : Times,              \* next_run_at of the model in memory
              made     : 0..CatchUpLimit]    \* runsForTask

\* The variables have their types.
TypeOK ==
  /\ now \in Moments
  /\ task \in [enabled : BOOLEAN, schedule : Schedules, next : Times, lastRun : Times]
  /\ runs \in [Moments -> Run \cup {NoRun}]
  /\ pass \in [Passes -> Pass \cup {NoPass}]
  /\ history \in [inserted  : [Moments -> Nat],   \* scheduled runs made for a time
                  freshFrom : Times,              \* the moment the schedule counts from
                  overtaken : Times,              \* next time saved of an edited schedule
                  taken     : SUBSET Moments]     \* times found taken by a manual run

Init ==
  /\ now = 1
  /\ task \in [enabled : {TRUE}, schedule : Schedules, next : {Null}, lastRun : {Null}]
  /\ runs = [t \in Moments |-> NoRun]
  /\ pass = [p \in Passes |-> NoPass]
  /\ history = [inserted |-> [t \in Moments |-> 0], freshFrom |-> Null,
                overtaken |-> Null, taken |-> {}]

\* calculateNextRunFrom: the first time after t, null when there is none.
NextAfter == [s \in Schedules |-> [t \in Times |->
  IF \E f \in s.fires : f > t
    THEN CHOOSE f \in s.fires : f > t /\ \A g \in s.fires : g > t => f <= g
    ELSE Null]]

-----------------------------------------------------------------------------
(* A pass: ScheduledZnunyTaskQueueService::materializePendingRuns. *)

Load(p) ==
  /\ pass[p] = NoPass /\ task.enabled
  /\ pass' = [pass EXCEPT ![p] = [pc |-> "prepare", schedule |-> task.schedule,
                                  loaded |-> task.next, lastRun |-> task.lastRun]]
  /\ UNCHANGED <<now, task, runs, history>>

NextOf(p, t) == NextAfter[pass[p].schedule][t]

\* save(): next_run_at is written when the model's value is not the loaded one,
\* and nothing else of the row is, as nothing else was touched.
SaveNext(p, next) ==
  task' = IF next # pass[p].loaded THEN [task EXCEPT !.next = next] ELSE task

\* History: a pass whose schedule was edited under it writes its next time.
Noted(p, next) ==
  IF /\ next # pass[p].loaded /\ next > history.overtaken
     /\ pass[p].schedule # task.schedule
    THEN [history EXCEPT !.overtaken = next]
    ELSE history

Initialise(p) ==
  /\ pass[p].pc = "prepare" /\ pass[p].loaded = Null
  /\ SaveNext(p, NextOf(p, now))
  /\ history' = [Noted(p, NextOf(p, now)) EXCEPT !.freshFrom = now]
  /\ pass' = [pass EXCEPT ![p] = NoPass]
  /\ UNCHANGED <<now, runs>>

EnterLoop(p, next) ==
  pass' = [pass EXCEPT ![p] = [pc |-> "loop", schedule |-> pass[p].schedule,
                               loaded |-> next, next |-> next, made |-> 0]]

Processed == {t \in Moments : runs[t].type = "scheduled" /\ runs[t].processed}
LastProcessed(t) == t \in Processed /\ \A u \in Processed : u <= t

\* next_run_at was not advanced past the last processed run s, or is its local
\* time, or is not after last_run_at.
IsStale(p, s) ==
  /\ pass[p].lastRun # Null
  /\ pass[p].loaded \in {s, s + pass[p].schedule.offset} \/ pass[p].loaded <= pass[p].lastRun

\* Faulty: a stale value is replaced by the next time from now.
NormaliseFromNow(p) ==
  \E s \in Moments :
    /\ pass[p].pc = "prepare" /\ pass[p].loaded # Null
    /\ LastProcessed(s) /\ IsStale(p, s)
    /\ SaveNext(p, NextOf(p, now)) /\ history' = Noted(p, NextOf(p, now))
    /\ EnterLoop(p, NextOf(p, now))
    /\ UNCHANGED <<now, runs>>

Normalise(p) ==
  \E s \in Moments :
    /\ pass[p].pc = "prepare" /\ pass[p].loaded # Null
    /\ LastProcessed(s) /\ IsStale(p, s)
    /\ SaveNext(p, NextOf(p, s)) /\ history' = Noted(p, NextOf(p, s))
    /\ EnterLoop(p, NextOf(p, s))
    /\ UNCHANGED <<now, runs>>

Prepared(p) ==
  /\ pass[p].pc = "prepare" /\ pass[p].loaded # Null
  /\ \A s \in Moments : LastProcessed(s) => ~IsStale(p, s)
  /\ EnterLoop(p, pass[p].loaded)
  /\ UNCHANGED <<now, task, runs, history>>

\* Faulty: one run too many.
HasDueOneMore(p) ==
  /\ pass[p].next # Null /\ pass[p].next <= now
  /\ pass[p].made <= CatchUpLimit

HasDue(p) ==
  /\ pass[p].next # Null /\ pass[p].next <= now
  /\ pass[p].made < CatchUpLimit

\* Faulty: old occurrences are caught up with as well.
InsertsAtAnyAge(p) == runs[pass[p].next] = NoRun

\* firstOrCreate finds no row, and the occurrence is not too old.
Inserts(p) ==
  /\ pass[p].next + MissedAge >= now
  /\ runs[pass[p].next] = NoRun

NewRun(type) == [type |-> type, processed |-> FALSE, created |-> now]

\* One turn of the loop, and on to the next occurrence.
CatchUp(p) ==
  LET due == pass[p].next
  IN /\ pass[p].pc = "loop" /\ HasDue(p)
     /\ runs' = IF Inserts(p) THEN [runs EXCEPT ![due] = NewRun("scheduled")] ELSE runs
     /\ history' = IF Inserts(p) THEN [history EXCEPT !.inserted[due] = @ + 1]
                   ELSE IF runs[due].type = "manual" THEN [history EXCEPT !.taken = @ \cup {due}]
                   ELSE history
     /\ pass' = [pass EXCEPT ![p].next = NextOf(p, due),
                             ![p].made = IF Inserts(p) THEN @ + 1 ELSE @]
     /\ UNCHANGED <<now, task>>

Save(p) ==
  /\ pass[p].pc = "loop" /\ ~HasDue(p)
  /\ SaveNext(p, pass[p].next) /\ history' = Noted(p, pass[p].next)
  /\ pass' = [pass EXCEPT ![p] = NoPass]
  /\ UNCHANGED <<now, runs>>

\* The process dies, or an exception ends the pass.
GiveUp(p) ==
  /\ pass[p] # NoPass
  /\ pass' = [pass EXCEPT ![p] = NoPass]
  /\ UNCHANGED <<now, task, runs, history>>

PassStep == \E p \in Passes :
  Load(p) \/ Initialise(p) \/ Normalise(p) \/ Prepared(p) \/ CatchUp(p) \/ Save(p) \/ GiveUp(p)

-----------------------------------------------------------------------------
(* The processor, which takes pending runs without a look at their time. *)

Process(t) ==
  /\ runs[t] # NoRun /\ ~runs[t].processed
  /\ runs' = [runs EXCEPT ![t].processed = TRUE]
  /\ task' = [task EXCEPT !.lastRun = now]
  /\ UNCHANGED <<now, pass, history>>

-----------------------------------------------------------------------------
(* Pages. *)

Uses(page) == page \in Pages /\ now <= LastEdit

\* next_run_at is computed from the moment t and saved with the schedule.  One
\* that is new counts from the moment it is saved.
Reschedule(schedule, t, enabled) ==
  /\ task' = [task EXCEPT !.schedule = schedule, !.next = NextAfter[schedule][t],
                          !.enabled = enabled]
  /\ history' = [history EXCEPT !.freshFrom = IF schedule # task.schedule THEN now
                                              ELSE IF @ >= t THEN @ ELSE t]

\* The switch in the list; a task without a next time cannot be enabled.
Enable ==
  /\ Uses("switch") /\ ~task.enabled /\ NextAfter[task.schedule][now] # Null
  /\ Reschedule(task.schedule, now, TRUE)
  /\ UNCHANGED <<now, runs, pass>>

Disable ==
  /\ Uses("switch") /\ task.enabled
  /\ Reschedule(task.schedule, now, FALSE)
  /\ UNCHANGED <<now, runs, pass>>

\* The cron cell of the list: a valid expression, read in the task's time zone.
EditCron ==
  /\ Uses("cell")
  /\ \E schedule \in Schedules :
       /\ schedule.offset = task.schedule.offset
       /\ Reschedule(schedule, now, task.enabled)
  /\ UNCHANGED <<now, runs, pass>>

\* An empty or invalid one is not saved, but next_run_at is cleared.
ClearCron ==
  /\ Uses("cell")
  /\ task' = [task EXCEPT !.next = Null]
  /\ UNCHANGED <<now, runs, pass, history>>

\* The edit form computes next_run_at when it opens and when the expression or
\* the time zone is edited, at some earlier moment, and saves it with the rest.
SaveForm ==
  /\ Uses("form")
  /\ \E opened \in 1..now, schedule \in Schedules, enabled \in BOOLEAN :
       Reschedule(schedule, opened, enabled)
  /\ UNCHANGED <<now, runs, pass>>

AddRun(t) ==
  /\ Cardinality({u \in Moments : runs[u].type = "manual"}) < MaxManual
  /\ runs[t] = NoRun
  /\ runs' = [runs EXCEPT ![t] = NewRun("manual")]
  /\ UNCHANGED <<now, task, pass, history>>

\* The unique key refuses a second row for the same second.
QueueRun == Uses("runs") /\ task.enabled /\ AddRun(now)

\* createRetry takes the first free second from now on.
RetryRun ==
  /\ Uses("runs")
  /\ \E t \in Moments : runs[t] # NoRun /\ runs[t].processed
  /\ \E t \in now..MaxTime : AddRun(t) /\ \A u \in now..(t - 1) : runs[u] # NoRun

PageStep == Enable \/ Disable \/ EditCron \/ ClearCron \/ SaveForm \/ QueueRun \/ RetryRun

-----------------------------------------------------------------------------
(* ScheduledZnunyTaskRetentionService::cleanupOldRuns: one statement, which  *)
(* may fail as a whole, as it does when an old row is the parent of another. *)

Old == {t \in Moments : runs[t] # NoRun /\ runs[t].created + Retention < now}

CleanUp ==
  /\ Old # {}
  /\ runs' = [t \in Moments |-> IF t \in Old THEN NoRun ELSE runs[t]]
  /\ UNCHANGED <<now, task, pass, history>>

Tick ==
  /\ now < MaxTime
  /\ \A p \in Passes : pass[p] = NoPass
  /\ now' = now + 1
  /\ UNCHANGED <<task, runs, pass, history>>

Next == PassStep \/ PageStep \/ CleanUp \/ Tick \/ \E t \in Moments : Process(t)

Spec == Init /\ [][Next]_vars

-----------------------------------------------------------------------------

\* An occurrence gets at most one scheduled run, ever: also when passes overlap,
\* when a stale pass or a form sets next_run_at back, and when retention has
\* deleted the run (materializePendingRuns, cleanupOldRuns).
OccurrenceOnce == \A t \in Moments : history.inserted[t] <= 1

TooOld(t) == t + MissedAge < now

\* next_run_at does not move past an occurrence of the task's expression unless
\* it is too old to be caught up with or has its own scheduled run, which stays
\* until it is too old: crashes, overlapping passes, corrections of next_run_at
\* and retention skip nothing (ScheduledZnunyTaskRunner.php:28).  Occurrences
\* count from the moment the expression was saved or somebody scheduled from.
\* Two things do skip them: a manual run in the same second, which a pass takes
\* for the occurrence's own, and a pass that saves the next time of an expression
\* edited under it, over what the edit has saved; it skips those before that time.
NoOccurrenceSkipped ==
  task.next # Null =>
    \A t \in task.schedule.fires :
      history.freshFrom < t /\ history.overtaken <= t /\ t < task.next
        => runs[t].type = "scheduled" \/ t \in history.taken \/ TooOld(t)
=============================================================================
