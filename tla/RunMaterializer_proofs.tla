----------------------- MODULE RunMaterializer_proofs -----------------------
(***************************************************************************)
(* Occurrences are neither skipped nor materialised twice: inductive       *)
(* invariants of RunMaterializer.  The expressions and time zones, the limit *)
(* on catching up and the moments at which passes and pages act are         *)
(* arbitrary.                                                               *)
(***************************************************************************)
EXTENDS RunMaterializer, WellFoundedInduction, TLAPS

(* The next occurrence. *)

\* A nonempty set of natural numbers has a least element.
LEMMA LeastElement ==
  ASSUME NEW S \in SUBSET Nat, S # {}
  PROVE  \E m \in S : \A n \in S : m <= n
<1>1. PICK m \in S : \A n \in S : <<n, m>> \notin OpToRel(<, Nat)
  BY NatLessThanWellFounded, WFMin
<1>2. OpToRel(<, Nat) = {ss \in Nat \X Nat : ss[1] < ss[2]}
  BY DEF OpToRel
<1>3. ASSUME NEW n \in S PROVE m <= n
  <2>1. <<n, m>> \notin {ss \in Nat \X Nat : ss[1] < ss[2]}
    BY <1>1, <1>2
  <2>2. <<n, m>> \in Nat \X Nat
    OBVIOUS
  <2> QED BY <2>1, <2>2
<1> QED BY <1>3

\* The next occurrence after t is the first one after t.
LEMMA NextOccurrence ==
  ASSUME NEW c \in Schedules, NEW t \in Times
  PROVE  /\ NextAfter[c][t] \in Times
         /\ NextAfter[c][t] # Null => /\ NextAfter[c][t] \in c.fires /\ t < NextAfter[c][t]
                                    /\ \A f \in c.fires : f < NextAfter[c][t] => f <= t
<1> DEFINE F == c.fires
           x == NextAfter[c][t]
<1>a. t \in Nat /\ F \subseteq Nat /\ F \subseteq Times
  BY MaterializerAssumption DEF Times, Moments, Null
<1>b. x = IF \E f \in F : f > t
            THEN CHOOSE f \in F : f > t /\ \A g \in F : g > t => f <= g
            ELSE Null
  BY DEF NextAfter
<1> HIDE DEF F, x
<1>1. CASE \E f \in F : f > t
  <2> DEFINE S == {f \in F : f > t}
  <2>1. S \subseteq Nat /\ S # {}
    BY <1>a, <1>1
  <2>2. PICK m \in S : \A n \in S : m <= n
    BY <2>1, LeastElement
  <2>3. m \in F /\ m > t /\ \A g \in F : g > t => m <= g
    BY <2>2
  <2>4. x = CHOOSE f \in F : f > t /\ \A g \in F : g > t => f <= g
    BY <1>1, <1>b
  <2>5. x \in F /\ x > t /\ \A g \in F : g > t => x <= g
    BY <2>3, <2>4
  <2>6. ASSUME NEW f \in F, f < x PROVE f <= t
    BY <1>a, <2>5, <2>6
  <2>7. x \in Times /\ t < x
    BY <1>a, <2>5
  <2> QED
    BY <2>5, <2>6, <2>7 DEF F, x
<1>2. CASE ~ \E f \in F : f > t
  <2>1. x = Null
    BY <1>2, <1>b
  <2> QED
    BY <2>1 DEF Times, x
<1> QED
  BY <1>1, <1>2

-----------------------------------------------------------------------------
(* Type correctness. *)

LEMMA InitTyped == Init => TypeOK
<1> SUFFICES ASSUME Init PROVE TypeOK
  OBVIOUS
<1>1. 1 \in Moments /\ Null \in Times
  BY MaterializerAssumption DEF Moments, Times
<1>2. task \in [enabled : BOOLEAN, schedule : Schedules, next : Times, lastRun : Times]
  BY <1>1 DEF Init
<1>3. history \in [inserted : [Moments -> Nat], freshFrom : Times, overtaken : Times,
                   taken : SUBSET Moments]
  BY <1>1 DEF Init
<1> QED
  BY <1>1, <1>2, <1>3 DEF Init, TypeOK

LEMMA PassTyped ==
  ASSUME TypeOK, NEW p \in Passes
  PROVE  /\ pass[p].pc = "prepare"
              => pass[p] \in [pc : {"prepare"}, schedule : Schedules, loaded : Times, lastRun : Times]
         /\ pass[p].pc = "loop"
              => pass[p] \in [pc : {"loop"}, schedule : Schedules, loaded : Times, next : Times, made : 0..CatchUpLimit]
         /\ pass[p].pc \in {"idle", "prepare", "loop"}
         /\ pass[p].pc = "idle" <=> pass[p] = NoPass
BY DEF TypeOK, Pass, NoPass

(* The rows a task and the history are. *)
TaskType == [enabled : BOOLEAN, schedule : Schedules, next : Times, lastRun : Times]
HistoryType == [inserted : [Moments -> Nat], freshFrom : Times, overtaken : Times,
                taken : SUBSET Moments]

\* What a busy pass computes and notes is of the right type.
LEMMA NextTyped ==
  ASSUME TypeOK, NEW p \in Passes, pass[p].pc \in {"prepare", "loop"}, NEW t \in Times
  PROVE  pass[p].schedule \in Schedules /\ NextOf(p, t) \in Times
<1>1. pass[p].schedule \in Schedules
  BY PassTyped
<1> QED
  BY <1>1, NextOccurrence DEF NextOf

LEMMA NotedTyped ==
  ASSUME TypeOK, NEW p, NEW next \in Times
  PROVE  /\ Noted(p, next) \in HistoryType
         /\ Noted(p, next).inserted = history.inserted
         /\ Noted(p, next).freshFrom = history.freshFrom
         /\ Noted(p, next).taken = history.taken
         /\ Noted(p, next).overtaken >= history.overtaken
<1>1. history \in HistoryType
  BY DEF TypeOK, HistoryType
<1>2. history.overtaken \in Nat /\ next \in Nat
  BY <1>1, MaterializerAssumption DEF HistoryType, Times, Moments, Null
<1> QED
  BY <1>1, <1>2 DEF Noted, HistoryType

LEMMA SaveTyped ==
  ASSUME TypeOK, NEW p, NEW next \in Times, SaveNext(p, next)
  PROVE  task' \in TaskType
BY DEF TypeOK, SaveNext, TaskType

LEMMA PassStepTyped == TypeOK /\ PassStep => TypeOK'
<1> SUFFICES ASSUME TypeOK, NEW p \in Passes,
                    \/ Load(p) \/ Initialise(p) \/ Normalise(p) \/ Prepared(p)
                    \/ CatchUp(p) \/ Save(p) \/ GiveUp(p)
             PROVE  TypeOK'
  BY DEF PassStep
<1> USE MaterializerAssumption
<1>1. now \in Times
  BY DEF TypeOK, Times
<1>2. CASE Load(p)
  BY <1>2 DEF Load, TypeOK, Pass
<1>3. CASE Initialise(p)
  <2> DEFINE next == NextOf(p, now)
  <2>1. next \in Times
    BY <1>1, <1>3, NextTyped DEF Initialise
  <2>2. task' \in TaskType
    BY <1>3, <2>1, SaveTyped DEF Initialise
  <2>3. Noted(p, next) \in HistoryType
    BY <2>1, NotedTyped
  <2>4. history' \in HistoryType
    BY <1>1, <1>3, <2>3 DEF Initialise, HistoryType
  <2> QED
    BY <1>3, <2>2, <2>4 DEF Initialise, TypeOK, TaskType, HistoryType
<1>4. ASSUME NEW next \in Times, EnterLoop(p, next), pass[p].pc = "prepare",
             task' \in TaskType, history' \in HistoryType, UNCHANGED <<now, runs>>
      PROVE  TypeOK'
  <2>1. pass[p].schedule \in Schedules
    BY <1>1, <1>4, NextTyped
  <2> QED
    BY <1>4, <2>1 DEF EnterLoop, TypeOK, Pass, TaskType, HistoryType
<1>5. CASE Normalise(p)
  <2>1. PICK s \in Moments : /\ SaveNext(p, NextOf(p, s)) /\ EnterLoop(p, NextOf(p, s))
                             /\ history' = Noted(p, NextOf(p, s))
                             /\ UNCHANGED <<now, runs>>
    BY <1>5 DEF Normalise
  <2>2. pass[p].pc = "prepare" /\ NextOf(p, s) \in Times
    BY <1>5, NextTyped DEF Normalise, Times
  <2>3. task' \in TaskType /\ history' \in HistoryType
    BY <2>1, <2>2, SaveTyped, NotedTyped
  <2> QED
    BY <1>4, <2>1, <2>2, <2>3
<1>6. CASE Prepared(p)
  <2>1. pass[p].loaded \in Times
    BY <1>6, PassTyped DEF Prepared
  <2>2. task' \in TaskType /\ history' \in HistoryType
    BY <1>6 DEF Prepared, TypeOK, TaskType, HistoryType
  <2> QED
    BY <1>4, <1>6, <2>1, <2>2 DEF Prepared
<1>7. CASE CatchUp(p)
  <2> DEFINE due == pass[p].next
  <2>1. pass[p] \in [pc : {"loop"}, schedule : Schedules, loaded : Times, next : Times,
                     made : 0..CatchUpLimit]
    BY <1>7, PassTyped DEF CatchUp
  <2>2. due \in Moments /\ NextOf(p, due) \in Times
    BY <1>7, <2>1, NextTyped DEF CatchUp, HasDue, Times
  <2>3. runs' \in [Moments -> Run \cup {NoRun}]
    BY <1>7, <2>2 DEF CatchUp, TypeOK, NewRun, Run, RunType
  <2>4. history' \in HistoryType
    BY <1>7, <2>2 DEF CatchUp, TypeOK, HistoryType
  <2>5. pass'[p] \in Pass
    <3> DEFINE made == IF Inserts(p) THEN pass[p].made + 1 ELSE pass[p].made
    <3>1. pass'[p] = [pass[p] EXCEPT !.next = NextOf(p, due), !.made = made]
      BY <1>7 DEF CatchUp, TypeOK
    <3>2. made \in 0..CatchUpLimit
      BY <1>7, <2>1 DEF CatchUp, HasDue
    <3> QED
      BY <2>1, <2>2, <3>1, <3>2 DEF Pass
  <2>6. pass' \in [Passes -> Pass \cup {NoPass}]
    BY <1>7, <2>5 DEF CatchUp, TypeOK
  <2> QED
    BY <1>7, <2>3, <2>4, <2>6 DEF CatchUp, TypeOK, HistoryType
<1>8. CASE Save(p)
  <2>1. pass[p].next \in Times
    BY <1>8, PassTyped DEF Save
  <2>2. task' \in TaskType /\ history' \in HistoryType
    BY <1>8, <2>1, SaveTyped, NotedTyped DEF Save
  <2> QED
    BY <1>8, <2>2 DEF Save, TypeOK, TaskType, HistoryType
<1>9. CASE GiveUp(p)
  BY <1>9 DEF GiveUp, TypeOK
<1> QED
  BY <1>2, <1>3, <1>5, <1>6, <1>7, <1>8, <1>9

LEMMA OtherStepTyped ==
  TypeOK /\ (PageStep \/ CleanUp \/ Tick \/ \E t \in Moments : Process(t)) => TypeOK'
<1> SUFFICES ASSUME TypeOK, PageStep \/ CleanUp \/ Tick \/ \E t \in Moments : Process(t)
             PROVE  TypeOK'
  OBVIOUS
<1> USE MaterializerAssumption
<1>1. ASSUME NEW c \in Schedules, NEW t \in Times, NEW enabled \in BOOLEAN,
             Reschedule(c, t, enabled), UNCHANGED <<now, runs, pass>>
      PROVE  TypeOK'
  <2>1. NextAfter[c][t] \in Times /\ now \in Times
    BY NextOccurrence DEF TypeOK, Times
  <2>2. task' \in TaskType
    BY <1>1, <2>1 DEF Reschedule, TypeOK, TaskType
  <2>3. history' \in HistoryType
    BY <1>1, <2>1 DEF Reschedule, TypeOK, HistoryType
  <2> QED
    BY <1>1, <2>2, <2>3 DEF TypeOK, TaskType, HistoryType
<1>2. ASSUME NEW t \in Moments, AddRun(t)
      PROVE  TypeOK'
  BY <1>2 DEF AddRun, NewRun, Run, RunType, TypeOK
<1>3. now \in Times /\ now \in Moments /\ \A t \in 1..now : t \in Times
  BY DEF TypeOK, Times, Moments
<1>4. CASE Enable \/ Disable \/ EditCron
  <2>1. task.schedule \in Schedules /\ task.enabled \in BOOLEAN
    BY DEF TypeOK
  <2>2. \E c \in Schedules, enabled \in BOOLEAN :
          Reschedule(c, now, enabled) /\ UNCHANGED <<now, runs, pass>>
    BY <1>4, <2>1 DEF Enable, Disable, EditCron
  <2> QED
    BY <1>1, <1>3, <2>2
<1>5. CASE ClearCron
  BY <1>5 DEF ClearCron, TypeOK, Times
<1>6. CASE SaveForm
  BY <1>1, <1>3, <1>6 DEF SaveForm
<1>7. CASE QueueRun \/ RetryRun
  <2>1. \A t \in now..MaxTime : t \in Moments
    BY DEF TypeOK, Moments
  <2> QED
    BY <1>2, <1>3, <1>7, <2>1 DEF QueueRun, RetryRun
<1>8. CASE CleanUp
  BY <1>8 DEF CleanUp, Old, TypeOK
<1>9. CASE Tick
  BY <1>9 DEF Tick, TypeOK, Moments
<1>10. CASE \E t \in Moments : Process(t)
  <2>1. PICK t \in Moments : Process(t)
    BY <1>10
  <2>2. runs[t] \in Run
    BY <2>1 DEF Process, TypeOK
  <2>3. runs' \in [Moments -> Run \cup {NoRun}]
    BY <2>1, <2>2 DEF Process, TypeOK, Run
  <2> QED
    BY <1>3, <2>1, <2>3 DEF Process, TypeOK
<1> QED
  BY <1>4, <1>5, <1>6, <1>7, <1>8, <1>9, <1>10 DEF PageStep

\* The variables have their types for every schedule and setting.
THEOREM MaterializerTypeCorrect == Spec => []TypeOK
<1>1. TypeOK /\ [Next]_vars => TypeOK'
  <2>1. TypeOK /\ UNCHANGED vars => TypeOK'
    BY DEF TypeOK, vars
  <2> QED
    BY <2>1, PassStepTyped, OtherStepTyped DEF Next
<1> QED
  BY <1>1, InitTyped, PTL DEF Spec

-----------------------------------------------------------------------------
(* One run per occurrence.  A time that has had a scheduled run still has it, *)
(* or is older than the retention period and thus too old to be caught up.    *)

OnceInv ==
  \A t \in Moments :
    /\ history.inserted[t] <= 1
    /\ history.inserted[t] = 1 => runs[t].type = "scheduled" \/ t + Retention < now
    /\ runs[t].type = "scheduled" => t <= runs[t].created

\* A pass notes no run but those it makes, and starts nothing afresh but when it
\* finds no next time.
LEMMA HistoryOfPass ==
  ASSUME TypeOK, NEW p \in Passes, Initialise(p) \/ Normalise(p) \/ Save(p)
  PROVE  /\ UNCHANGED <<now, runs, history.inserted, history.taken>>
         /\ history'.overtaken >= history.overtaken
         /\ history'.freshFrom = IF Initialise(p) THEN now ELSE history.freshFrom
<1> USE MaterializerAssumption
<1>1. now \in Times /\ \A s \in Moments : s \in Times
  BY DEF TypeOK, Times
<1>2. CASE Initialise(p)
  <2> DEFINE next == NextOf(p, now)
  <2>1. next \in Times
    BY <1>1, <1>2, NextTyped DEF Initialise
  <2>2. Noted(p, next) \in HistoryType
    BY <2>1, NotedTyped
  <2>3. history' = [Noted(p, next) EXCEPT !.freshFrom = now] /\ UNCHANGED <<now, runs>>
    BY <1>2 DEF Initialise
  <2>4. /\ history'.inserted = Noted(p, next).inserted
        /\ history'.taken = Noted(p, next).taken
        /\ history'.overtaken = Noted(p, next).overtaken
        /\ history'.freshFrom = now
    BY <2>2, <2>3 DEF HistoryType
  <2> QED
    BY <1>2, <2>1, <2>3, <2>4, NotedTyped
<1>3. CASE (Normalise(p) \/ Save(p)) /\ ~Initialise(p)
  <2>1. \E next \in Times : history' = Noted(p, next) /\ UNCHANGED <<now, runs>>
    <3>1. CASE Normalise(p)
      BY <1>1, <3>1, NextTyped DEF Normalise
    <3>2. CASE Save(p)
      BY <3>2, PassTyped DEF Save
    <3> QED
      BY <1>3, <3>1, <3>2
  <2> QED
    BY <1>3, <2>1, NotedTyped
<1> QED
  BY <1>2, <1>3

LEMMA OnceStep == TypeOK /\ OnceInv /\ [Next]_vars => OnceInv'
<1> SUFFICES ASSUME TypeOK, OnceInv, [Next]_vars
             PROVE  OnceInv'
  OBVIOUS
<1> USE MaterializerAssumption DEF OnceInv
<1>1. now \in Nat /\ Moments \subseteq Nat /\ history.inserted \in [Moments -> Nat]
      /\ runs \in [Moments -> Run \cup {NoRun}]
  BY DEF TypeOK, Moments
<1>2. \A t \in Moments : runs[t] # NoRun => runs[t] \in Run
  BY <1>1
<1>3. ASSUME UNCHANGED <<now, runs, history.inserted>>
      PROVE  OnceInv'
  BY <1>3
<1>4. ASSUME NEW p \in Passes, CatchUp(p)
      PROVE  OnceInv'
  <2> DEFINE due == pass[p].next
  <2>1. due \in Moments /\ due <= now
    BY <1>4, PassTyped DEF CatchUp, HasDue, Times
  <2>2. CASE Inserts(p)
    <3>1. /\ runs' = [runs EXCEPT ![due] = NewRun("scheduled")] /\ now' = now
          /\ history'.inserted = [history.inserted EXCEPT ![due] = @ + 1]
      BY <1>4, <2>1, <2>2 DEF CatchUp, TypeOK
    <3>2. runs[due] = NoRun /\ due + MissedAge >= now
      BY <2>2 DEF Inserts
    <3> HIDE DEF due
    <3>3. ~ due + Retention < now
      BY <1>1, <2>1, <3>2
    <3>4. history.inserted[due] = 0
      <4>1. runs[due].type # "scheduled"
        BY <3>2 DEF NoRun
      <4>2. history.inserted[due] # 1 /\ history.inserted[due] <= 1
        BY <2>1, <3>3, <4>1
      <4>3. history.inserted[due] \in Nat
        BY <1>1, <2>1
      <4> QED
        BY <4>2, <4>3
    <3> QED
      BY <1>1, <2>1, <3>1, <3>4 DEF NewRun
  <2>3. CASE ~Inserts(p)
    <3>1. UNCHANGED <<now, runs, history.inserted>>
      BY <1>4, <2>3 DEF CatchUp, TypeOK
    <3> QED
      BY <1>3, <3>1
  <2> QED
    BY <2>2, <2>3
<1>5. ASSUME NEW p \in Passes,
             \/ Load(p) \/ Initialise(p) \/ Normalise(p) \/ Prepared(p) \/ Save(p) \/ GiveUp(p)
      PROVE  OnceInv'
  <2>1. UNCHANGED <<now, runs, history.inserted>>
    BY <1>5, HistoryOfPass DEF Load, Prepared, GiveUp
  <2> QED
    BY <1>3, <2>1
<1>6. ASSUME NEW t \in Moments, Process(t)
      PROVE  OnceInv'
  BY <1>1, <1>2, <1>6 DEF Process, Run
<1>7. CASE Enable \/ Disable \/ EditCron \/ ClearCron \/ SaveForm
  <2>1. UNCHANGED <<now, runs, history.inserted>>
    BY <1>7 DEF Enable, Disable, EditCron, ClearCron, SaveForm, Reschedule, TypeOK
  <2> QED
    BY <1>3, <2>1
<1>8. ASSUME NEW t \in Moments, AddRun(t)
      PROVE  OnceInv'
  BY <1>1, <1>8 DEF AddRun, NewRun, NoRun
<1>9. CASE QueueRun \/ RetryRun
  <2>1. now \in Moments /\ \A t \in now..MaxTime : t \in Moments
    BY DEF TypeOK, Moments
  <2>2. \E t \in Moments : AddRun(t)
    BY <1>9, <2>1 DEF QueueRun, RetryRun
  <2> QED
    BY <1>8, <2>2
<1>10. CASE CleanUp
  <2>1. /\ runs' = [t \in Moments |-> IF t \in Old THEN NoRun ELSE runs[t]] /\ now' = now
        /\ history'.inserted = history.inserted
    BY <1>10 DEF CleanUp, TypeOK
  <2>2. ASSUME NEW t \in Old, runs[t].type = "scheduled"
        PROVE  t + Retention < now
    <3>1. t \in Moments /\ runs[t] \in Run /\ runs[t].created + Retention < now
      BY <1>2, <2>2 DEF Old
    <3>2. runs[t].created \in Moments /\ t <= runs[t].created
      BY <2>2, <3>1 DEF Run
    <3>3. t \in Nat /\ runs[t].created \in Nat
      BY <1>1, <3>1, <3>2
    <3> HIDE DEF OnceInv
    <3> QED
      BY <1>1, <3>1, <3>2, <3>3
  <2>3. ASSUME NEW t \in Moments
        PROVE  /\ runs'[t].type = "scheduled" => runs'[t] = runs[t]
               /\ runs[t].type = "scheduled" => runs'[t] = runs[t] \/ t + Retention < now
    BY <2>1, <2>2 DEF NoRun
  <2> QED
    BY <2>1, <2>3
<1>11. CASE Tick
  BY <1>1, <1>11 DEF Tick
<1>12. CASE UNCHANGED vars
  BY <1>3, <1>12 DEF vars
<1> QED
  BY <1>4, <1>5, <1>6, <1>7, <1>9, <1>10, <1>11, <1>12 DEF Next, PassStep, PageStep

\* No occurrence gets two scheduled runs (materializePendingRuns and
\* cleanupOldRuns), as long as the retention period covers the catch-up window.
THEOREM EachOccurrenceOnce == Spec => []OccurrenceOnce
<1>1. Init => OnceInv
  BY DEF Init, OnceInv, NoRun, Moments
<1>2. OnceInv => OccurrenceOnce
  BY DEF OnceInv, OccurrenceOnce
<1> QED
  BY <1>1, <1>2, OnceStep, MaterializerTypeCorrect, PTL DEF Spec

-----------------------------------------------------------------------------
(* No occurrence is skipped.  next_run_at is copied between the task and the *)
(* passes and recomputed from processed runs, so all of these must be times   *)
(* up to which the occurrences are covered: for a pass, those of the schedule *)
(* it has loaded, which is the task's unless that was edited a moment ago.    *)

Covered(o) == runs[o].type = "scheduled" \/ o \in history.taken \/ TooOld(o)

Reached(c, x) ==
  x # Null => \A o \in c.fires :
                history.freshFrom < o /\ history.overtaken <= o /\ o < x => Covered(o)

Busy(p) == pass[p].pc \in {"prepare", "loop"}

PassReached(p) ==
  /\ Reached(pass[p].schedule, pass[p].loaded)
  /\ pass[p].pc = "loop" => Reached(pass[p].schedule, pass[p].next)
  /\ pass[p].schedule # task.schedule => history.freshFrom = now

SkipInv ==
  /\ history.freshFrom <= now
  /\ Reached(task.schedule, task.next)
  /\ \A p \in Passes : Busy(p) => PassReached(p)
  /\ \A t \in Moments : runs[t].type = "scheduled" => t <= now /\ Reached(task.schedule, t)

\* What is covered stays covered, and a later fresh start asks for less.
Progress ==
  /\ history.freshFrom <= history'.freshFrom
  /\ history.overtaken <= history'.overtaken
  /\ \A o \in Moments : Covered(o) => Covered(o)'

\* What Reached says of a given time, in the next state.
ReachedAfter(c, x) ==
  x # Null => \A o \in c.fires :
                history'.freshFrom < o /\ history'.overtaken <= o /\ o < x => Covered(o)'

(* All times are numbers, the null value included. *)
LEMMA TimesAreNumbers ==
  /\ \A c \in Schedules : c.fires \subseteq Moments
  /\ Moments \subseteq Nat /\ MissedAge \in Nat /\ Times \subseteq Nat /\ Moments \subseteq Times
<1>1. /\ \A c \in Schedules : c.fires \subseteq Moments
      /\ Moments \subseteq Nat /\ MissedAge \in Nat
  BY MaterializerAssumption DEF Moments
<1>2. Null \in Nat
  BY DEF Null
<1> QED
  BY <1>1, <1>2, Zenon DEF Times

\* The moments of a state are numbers.
LEMMA MomentsTyped ==
  ASSUME TypeOK
  PROVE  /\ now \in Nat /\ now \in Times /\ now \in Moments
         /\ history.freshFrom \in Nat /\ history.overtaken \in Nat
         /\ task.schedule \in Schedules /\ task.next \in Times
<1>1. /\ now \in Moments /\ history.freshFrom \in Times /\ history.overtaken \in Times
      /\ task.schedule \in Schedules /\ task.next \in Times
  BY DEF TypeOK
<1> QED
  BY <1>1, TimesAreNumbers, Zenon

LEMMA MomentsTypedNext ==
  ASSUME TypeOK'
  PROVE  /\ now' \in Nat /\ history'.freshFrom \in Nat /\ history'.overtaken \in Nat
         /\ task'.schedule \in Schedules /\ task'.next \in Times
<1>1. /\ now' \in Moments /\ history'.freshFrom \in Times /\ history'.overtaken \in Times
      /\ task'.schedule \in Schedules /\ task'.next \in Times
  BY DEF TypeOK
<1> QED
  BY <1>1, TimesAreNumbers, Zenon

LEMMA ReachedStays ==
  ASSUME TypeOK, TypeOK', Progress, NEW c \in Schedules, NEW x \in Times, Reached(c, x)
  PROVE  ReachedAfter(c, x)
<1>1. /\ history.freshFrom \in Nat /\ history'.freshFrom \in Nat
      /\ history.overtaken \in Nat /\ history'.overtaken \in Nat
      /\ c.fires \subseteq Moments /\ Moments \subseteq Nat
  BY MomentsTyped, MomentsTypedNext, TimesAreNumbers
<1>2. SUFFICES ASSUME x # Null, NEW o \in c.fires,
                      history'.freshFrom < o, history'.overtaken <= o, o < x
               PROVE  Covered(o)'
  BY DEF ReachedAfter
<1>p. history.freshFrom <= history'.freshFrom /\ history.overtaken <= history'.overtaken
  BY DEF Progress
<1>3. o \in Moments /\ history.freshFrom < o /\ history.overtaken <= o
  <2>1. o \in Moments /\ o \in Nat
    BY <1>1
  <2> QED
    BY <1>1, <1>2, <1>p, <2>1
<1>4. Covered(o)
  BY <1>2, <1>3 DEF Reached
<1> QED
  BY <1>3, <1>4 DEF Progress

\* Every step is progress: retention deletes a scheduled run only when it is too
\* old, since it was made at its time or later.
LEMMA StepProgress ==
  ASSUME TypeOK, TypeOK', OnceInv, history.freshFrom <= now, [Next]_vars
  PROVE  Progress
<1>1. /\ history.freshFrom \in Nat /\ history.overtaken \in Nat /\ now \in Nat
      /\ Moments \subseteq Nat /\ MissedAge \in Nat
  BY MomentsTyped, TimesAreNumbers
<1>2. ASSUME history'.freshFrom >= history.freshFrom, history'.overtaken >= history.overtaken,
             UNCHANGED now, history.taken \subseteq history'.taken,
             \A o \in Moments : runs[o].type = "scheduled"
                                  => runs'[o].type = "scheduled" \/ TooOld(o)
      PROVE  Progress
  BY <1>1, <1>2 DEF Progress, Covered, TooOld
<1>3. ASSUME UNCHANGED <<now, runs>>, history'.taken = history.taken,
             history'.overtaken >= history.overtaken, history'.freshFrom >= history.freshFrom
      PROVE  Progress
  BY <1>2, <1>3
<1>4. ASSUME NEW p \in Passes, CatchUp(p)
      PROVE  Progress
  <2>a. pass[p].next \in Moments
    BY <1>4, PassTyped DEF CatchUp, HasDue, Times
  <2>1. /\ history'.freshFrom = history.freshFrom /\ history'.overtaken = history.overtaken
        /\ history.taken \subseteq history'.taken
    BY <1>4, <2>a DEF CatchUp, TypeOK
  <2>2. \A o \in Moments : runs[o].type = "scheduled" => runs'[o].type = "scheduled"
    BY <1>4, <2>a DEF CatchUp, TypeOK, NewRun
  <2> QED
    BY <1>1, <1>2, <1>4, <2>1, <2>2 DEF CatchUp
<1>5. ASSUME NEW p \in Passes, Load(p) \/ Prepared(p) \/ GiveUp(p)
      PROVE  Progress
  <2>1. UNCHANGED <<now, runs, history>>
    BY <1>5 DEF Load, Prepared, GiveUp
  <2> QED
    BY <1>1, <1>3, <2>1
<1>6. ASSUME NEW p \in Passes, Initialise(p) \/ Normalise(p) \/ Save(p)
      PROVE  Progress
  <2>1. /\ UNCHANGED <<now, runs, history.taken>> /\ history'.overtaken >= history.overtaken
        /\ history'.freshFrom \in {now, history.freshFrom}
    BY <1>6, HistoryOfPass
  <2> QED
    BY <1>1, <1>3, <2>1
<1>7. ASSUME NEW t \in Moments, Process(t)
      PROVE  Progress
  <2>1. runs[t] \in Run
    BY <1>7 DEF Process, TypeOK
  <2>2. \A o \in Moments : runs[o].type = "scheduled" => runs'[o].type = "scheduled"
    BY <1>7, <2>1 DEF Process, TypeOK, Run
  <2> QED
    BY <1>1, <1>2, <1>7, <2>2 DEF Process
<1>8. ASSUME NEW c, NEW t \in 1..now, NEW enabled, Reschedule(c, t, enabled),
             UNCHANGED <<now, runs, pass>>
      PROVE  Progress
  <2>1. /\ history'.freshFrom \in {now, history.freshFrom, t}
        /\ history'.freshFrom = t => (t = now \/ t >= history.freshFrom)
        /\ history'.overtaken = history.overtaken /\ history'.taken = history.taken
    BY <1>1, <1>8 DEF Reschedule, TypeOK
  <2>2. history'.freshFrom >= history.freshFrom
    BY <1>1, <2>1
  <2> QED
    BY <1>1, <1>3, <1>8, <2>1, <2>2
<1>9. CASE Enable \/ Disable \/ EditCron \/ SaveForm
  <2>1. now \in 1..now
    BY DEF TypeOK, Moments
  <2> QED
    BY <1>8, <1>9, <2>1 DEF Enable, Disable, EditCron, SaveForm
<1>10. CASE ClearCron
  BY <1>1, <1>3, <1>10 DEF ClearCron
<1>11. CASE QueueRun \/ RetryRun
  <2>1. PICK t : AddRun(t)
    BY <1>11 DEF QueueRun, RetryRun
  <2>2. \A o \in Moments : runs[o].type = "scheduled" => runs'[o].type = "scheduled"
    BY <2>1 DEF AddRun, TypeOK, NoRun
  <2> QED
    BY <1>1, <1>2, <2>1, <2>2 DEF AddRun
<1>12. CASE CleanUp
  <2>1. ASSUME NEW o \in Moments, runs[o].type = "scheduled"
        PROVE  runs'[o].type = "scheduled" \/ TooOld(o)
    <3>1. CASE o \notin Old
      BY <1>12, <2>1, <3>1 DEF CleanUp
    <3>2. CASE o \in Old
      <4>1. runs[o] \in Run /\ runs[o].created + Retention < now /\ o <= runs[o].created
        BY <2>1, <3>2 DEF Old, OnceInv, TypeOK
      <4>2. runs[o].created \in Nat /\ o \in Nat
        BY <1>1, <4>1 DEF Run
      <4>3. Retention \in Nat /\ MissedAge <= Retention
        BY MaterializerAssumption
      <4> QED
        BY <1>1, <4>1, <4>2, <4>3 DEF TooOld
    <3> QED
      BY <3>1, <3>2
  <2> QED
    BY <1>1, <1>2, <1>12, <2>1 DEF CleanUp
<1>13. CASE Tick
  BY <1>1, <1>13 DEF Tick, Progress, Covered, TooOld
<1>14. CASE UNCHANGED vars
  BY <1>1, <1>3, <1>14 DEF vars
<1> QED
  BY <1>4, <1>5, <1>6, <1>7, <1>9, <1>10, <1>11, <1>12, <1>13, <1>14
  DEF Next, PassStep, PageStep

\* Once t itself is covered, or nothing up to t is asked for, the next time after
\* t is reached.
LEMMA NextReached ==
  ASSUME TypeOK, TypeOK', NEW c \in Schedules, NEW t \in Times,
         history'.freshFrom >= t \/ (ReachedAfter(c, t) /\ t # Null /\ Covered(t)')
  PROVE  ReachedAfter(c, NextAfter[c][t])
<1>1. history'.freshFrom \in Nat /\ t \in Nat /\ c.fires \subseteq Nat
  BY MomentsTypedNext, TimesAreNumbers
<1>2. SUFFICES ASSUME NextAfter[c][t] # Null, NEW o \in c.fires, history'.freshFrom < o,
                      history'.overtaken <= o, o < NextAfter[c][t]
               PROVE  Covered(o)'
  BY DEF ReachedAfter
<1>3. o <= t
  BY <1>2, NextOccurrence
<1>4. history'.freshFrom < t
  BY <1>1, <1>2, <1>3
<1>5. ReachedAfter(c, t) /\ t # Null /\ Covered(t)'
  BY <1>1, <1>4
<1>6. CASE o = t
  BY <1>5, <1>6
<1>7. CASE o < t
  BY <1>2, <1>5, <1>7 DEF ReachedAfter
<1> QED
  BY <1>1, <1>3, <1>6, <1>7

\* The next time a pass computes after t is reached for the schedule it has
\* loaded, if t is, or if the schedule was edited under it and t is no later.
LEMMA NextOfReached ==
  ASSUME TypeOK, TypeOK', NEW p \in Passes, pass[p].pc \in {"prepare", "loop"}, NEW t \in Times,
         \/ history'.freshFrom >= t
         \/ ReachedAfter(pass[p].schedule, t) /\ t # Null /\ Covered(t)'
  PROVE  ReachedAfter(pass[p].schedule, NextOf(p, t))
<1>1. pass[p].schedule \in Schedules
  BY NextTyped
<1> QED
  BY <1>1, NextReached DEF NextOf

\* What a pass saves is reached for the task's schedule; if that is not the one
\* it works with, by definition.
LEMMA SaveReached ==
  ASSUME TypeOK, TypeOK', NEW p \in Passes, NEW next \in Times, SaveNext(p, next),
         history'.overtaken = Noted(p, next).overtaken,
         ReachedAfter(task.schedule, task.next), ReachedAfter(pass[p].schedule, next)
  PROVE  task'.schedule = task.schedule /\ ReachedAfter(task'.schedule, task'.next)
<1>1. task'.schedule = task.schedule
  BY DEF SaveNext, TypeOK
<1>2. CASE next = pass[p].loaded
  BY <1>1, <1>2 DEF SaveNext
<1>3. CASE next # pass[p].loaded
  <2>1. task'.next = next
    BY <1>3 DEF SaveNext, TypeOK
  <2>2. CASE pass[p].schedule = task.schedule
    BY <1>1, <2>1, <2>2
  <2>3. CASE pass[p].schedule # task.schedule
    <3>1. next \in Nat /\ history.overtaken \in Nat /\ history'.overtaken \in Nat
      BY MomentsTyped, MomentsTypedNext, TimesAreNumbers
    <3>2. history \in HistoryType
      BY DEF TypeOK, HistoryType
    <3>3. Noted(p, next).overtaken >= next
      BY <1>3, <2>3, <3>1, <3>2 DEF Noted, HistoryType
    <3>4. history'.overtaken >= next
      BY <3>3
    <3>5. task.schedule \in Schedules /\ task.schedule.fires \subseteq Nat
      BY MomentsTyped, TimesAreNumbers
    <3> QED
      BY <1>1, <2>1, <3>1, <3>4, <3>5 DEF ReachedAfter
  <2> QED
    BY <2>2, <2>3
<1> QED
  BY <1>2, <1>3

\* What PassReached says of a pass, in the next state.
PassReachedAfter(p) ==
  /\ ReachedAfter(pass'[p].schedule, pass'[p].loaded)
  /\ pass'[p].pc = "loop" => ReachedAfter(pass'[p].schedule, pass'[p].next)
  /\ pass'[p].schedule # task'.schedule => history'.freshFrom = now'

LEMMA SkipStep == TypeOK /\ TypeOK' /\ OnceInv /\ SkipInv /\ [Next]_vars => SkipInv'
<1> SUFFICES ASSUME TypeOK, TypeOK', OnceInv, SkipInv, [Next]_vars
             PROVE  SkipInv'
  OBVIOUS
<1> USE DEF Busy
<1>1. /\ history.freshFrom \in Nat /\ now \in Nat /\ now \in Times /\ now \in Moments
      /\ Moments \subseteq Nat /\ Moments \subseteq Times /\ task.next \in Times
      /\ task.schedule \in Schedules /\ history.freshFrom <= now
      /\ history'.freshFrom \in Nat
  BY MomentsTyped, MomentsTypedNext, TimesAreNumbers DEF SkipInv
<1>2. Progress
  BY StepProgress DEF SkipInv
<1>3. ASSUME NEW c \in Schedules, NEW x \in Times, Reached(c, x) PROVE ReachedAfter(c, x)
  BY <1>2, <1>3, ReachedStays
<1>4. ReachedAfter(task.schedule, task.next)
  BY <1>1, <1>3 DEF SkipInv
<1>5. ASSUME NEW q \in Passes, Busy(q)
      PROVE  /\ pass[q].schedule \in Schedules
             /\ ReachedAfter(pass[q].schedule, pass[q].loaded)
             /\ pass[q].pc = "loop" => ReachedAfter(pass[q].schedule, pass[q].next)
             /\ pass[q].schedule # task.schedule => history.freshFrom = now
  <2>1. PassReached(q)
    BY <1>5 DEF SkipInv
  <2>2. /\ pass[q].schedule \in Schedules /\ pass[q].loaded \in Times
        /\ pass[q].pc = "loop" => pass[q].next \in Times
    BY <1>5, PassTyped
  <2> QED
    BY <1>3, <2>1, <2>2 DEF PassReached
<1>6. \A t \in Moments : runs[t].type = "scheduled" => t <= now /\ ReachedAfter(task.schedule, t)
  BY <1>1, <1>3 DEF SkipInv
<1>7. ASSUME history'.freshFrom <= now', ReachedAfter(task'.schedule, task'.next),
             \A q \in Passes : Busy(q)' => PassReachedAfter(q),
             \A t \in Moments : runs'[t].type = "scheduled"
                                  => t <= now' /\ ReachedAfter(task'.schedule, t)
      PROVE  SkipInv'
  BY <1>7 DEF SkipInv, Reached, ReachedAfter, PassReached, PassReachedAfter
\* A pass that a step leaves alone, as it leaves the schedule.
<1>8. ASSUME NEW q \in Passes, Busy(q)', pass'[q] = pass[q], task'.schedule = task.schedule,
             UNCHANGED now, history'.freshFrom \in {history.freshFrom, now}
      PROVE  PassReachedAfter(q)
  BY <1>5, <1>8 DEF PassReachedAfter
<1>9. ASSUME NEW p \in Passes, Load(p) \/ Prepared(p) \/ GiveUp(p)
      PROVE  SkipInv'
  <2>1. UNCHANGED <<now, task, runs, history>>
    BY <1>9 DEF Load, Prepared, GiveUp
  <2>2. ASSUME NEW q \in Passes, Busy(q)' PROVE PassReachedAfter(q)
    <3>1. CASE pass'[q] = pass[q]
      BY <1>8, <2>1, <2>2, <3>1
    <3>2. CASE Load(p) /\ q = p
      BY <1>4, <2>1, <3>2 DEF Load, PassReachedAfter, TypeOK
    <3>3. CASE Prepared(p) /\ q = p
      <4>1. pass'[p] = [pc |-> "loop", schedule |-> pass[p].schedule, loaded |-> pass[p].loaded,
                        next |-> pass[p].loaded, made |-> 0]
        BY <3>3 DEF Prepared, EnterLoop, TypeOK
      <4> QED
        BY <1>5, <2>1, <3>3, <4>1 DEF Prepared, PassReachedAfter
    <3>4. q # p => pass'[q] = pass[q]
      BY <1>9 DEF Load, Prepared, GiveUp, EnterLoop, TypeOK
    <3>5. ~ (GiveUp(p) /\ q = p)
      BY <2>2 DEF GiveUp, NoPass, TypeOK
    <3> QED
      BY <1>9, <3>1, <3>2, <3>3, <3>4, <3>5
  <2> QED
    BY <1>1, <1>4, <1>6, <1>7, <2>1, <2>2
<1>10. ASSUME NEW p \in Passes, Initialise(p)
       PROVE  SkipInv'
  <2> DEFINE next == NextOf(p, now)
  <2>0. Busy(p) /\ next \in Times
    BY <1>1, <1>10, NextTyped DEF Initialise
  <2>1. history'.freshFrom = now /\ UNCHANGED <<now, runs>>
    BY <1>10, HistoryOfPass
  <2>2. ReachedAfter(pass[p].schedule, next)
    BY <1>1, <2>0, <2>1, NextOfReached
  <2>3. history'.overtaken = Noted(p, next).overtaken
    <3>1. Noted(p, next) \in HistoryType
      BY <2>0, NotedTyped
    <3> QED
      BY <1>10, <3>1 DEF Initialise, HistoryType
  <2>4. SaveNext(p, next)
    BY <1>10 DEF Initialise
  <2>5. task'.schedule = task.schedule /\ ReachedAfter(task'.schedule, task'.next)
    BY <1>4, <2>0, <2>2, <2>3, <2>4, SaveReached
  <2>6. ASSUME NEW q \in Passes, Busy(q)' PROVE PassReachedAfter(q)
    <3>1. pass'[q] = pass[q]
      BY <1>10, <2>6 DEF Initialise, NoPass, TypeOK
    <3> QED
      BY <1>8, <2>1, <2>5, <2>6, <3>1
  <2> QED
    BY <1>1, <1>6, <1>7, <2>1, <2>5, <2>6
<1>11. ASSUME NEW p \in Passes, Normalise(p)
       PROVE  SkipInv'
  <2>1. PICK s \in Moments : /\ LastProcessed(s)
                             /\ SaveNext(p, NextOf(p, s)) /\ history' = Noted(p, NextOf(p, s))
                             /\ EnterLoop(p, NextOf(p, s)) /\ UNCHANGED <<now, runs>>
    BY <1>11 DEF Normalise
  <2> DEFINE next == NextOf(p, s)
  <2>0. Busy(p) /\ next \in Times /\ s \in Times
    BY <1>1, <1>11, NextTyped DEF Normalise
  <2>2. runs[s].type = "scheduled" /\ s <= now
    BY <1>6, <2>1 DEF LastProcessed, Processed
  <2>3. Covered(s)'
    BY <2>1, <2>2 DEF Covered
  <2>4. history'.freshFrom = history.freshFrom
    BY <2>0, <2>1, NotedTyped
  <2>5. ReachedAfter(pass[p].schedule, next)
    <3>1. CASE pass[p].schedule = task.schedule
      <4>1. s # Null
        BY DEF Moments, Null
      <4> QED
        BY <1>6, <2>0, <2>2, <2>3, <3>1, <4>1, NextOfReached
    <3>2. CASE pass[p].schedule # task.schedule
      <4>1. history'.freshFrom >= s
        BY <1>1, <1>5, <2>0, <2>2, <2>4, <3>2
      <4> QED
        BY <2>0, <4>1, NextOfReached
    <3> QED
      BY <3>1, <3>2
  <2>6. task'.schedule = task.schedule /\ ReachedAfter(task'.schedule, task'.next)
    BY <1>4, <2>0, <2>1, <2>5, SaveReached
  <2>7. ASSUME NEW q \in Passes, Busy(q)' PROVE PassReachedAfter(q)
    <3>1. CASE q = p
      <4>1. pass'[p] = [pc |-> "loop", schedule |-> pass[p].schedule, loaded |-> next,
                        next |-> next, made |-> 0]
        BY <2>1 DEF EnterLoop, TypeOK
      <4> QED
        BY <1>5, <2>0, <2>1, <2>4, <2>5, <2>6, <3>1, <4>1 DEF PassReachedAfter
    <3>2. CASE q # p
      BY <1>8, <2>1, <2>4, <2>6, <2>7, <3>2 DEF EnterLoop, TypeOK
    <3> QED
      BY <3>1, <3>2
  <2> QED
    BY <1>1, <1>6, <1>7, <2>1, <2>4, <2>6, <2>7
<1>12. ASSUME NEW p \in Passes, CatchUp(p)
       PROVE  SkipInv'
  <2>a. pass[p].next \in Moments /\ pass[p].next <= now /\ Busy(p)
    BY <1>12, PassTyped DEF CatchUp, HasDue, Times
  <2>b. PICK due \in Moments : due = pass[p].next
    BY <2>a
  <2>0. due \in Times /\ due <= now /\ due # Null /\ due \in Nat
    BY <1>1, <2>a, <2>b DEF Moments, Null
  <2>1. ReachedAfter(pass[p].schedule, due)
    BY <1>5, <1>12, <2>a, <2>b DEF CatchUp
  <2>2. UNCHANGED <<now, task>> /\ history'.freshFrom = history.freshFrom
    BY <1>12 DEF CatchUp, TypeOK
  <2>3. Covered(due)'
    <3>1. CASE Inserts(p)
      <4>1. runs'[due] = NewRun("scheduled")
        BY <1>12, <2>b, <3>1 DEF CatchUp, TypeOK
      <4> QED
        BY <4>1 DEF Covered, NewRun
    <3>2. CASE ~Inserts(p) /\ runs[due].type = "manual"
      <4>1. due \in history'.taken
        BY <1>12, <2>b, <3>2 DEF CatchUp, TypeOK
      <4> QED
        BY <4>1 DEF Covered
    <3>3. CASE ~Inserts(p) /\ runs[due].type # "manual"
      <4>1. runs[due] # NoRun \/ due + MissedAge < now
        BY <1>1, <2>b, <3>3, MaterializerAssumption DEF Inserts
      <4>2. runs[due] # NoRun => runs[due].type = "scheduled"
        BY <3>3 DEF TypeOK, Run, RunType
      <4>3. UNCHANGED <<now, runs>>
        BY <1>12, <3>3 DEF CatchUp
      <4> QED
        BY <4>1, <4>2, <4>3 DEF Covered, TooOld
    <3> QED
      BY <3>1, <3>2, <3>3
  <2>4. ReachedAfter(pass[p].schedule, NextOf(p, due))
    BY <2>0, <2>1, <2>3, <2>a, NextOfReached
  <2>5. ASSUME NEW q \in Passes, Busy(q)' PROVE PassReachedAfter(q)
    <3>1. CASE q = p
      <4>1. /\ pass[p].pc = "loop" /\ pass'[p].loaded = pass[p].loaded
            /\ pass'[p].schedule = pass[p].schedule /\ pass'[p].next = NextOf(p, due)
        BY <1>12, <2>b, PassTyped DEF CatchUp, TypeOK
      <4> QED
        BY <1>5, <2>2, <2>4, <2>a, <3>1, <4>1 DEF PassReachedAfter
    <3>2. CASE q # p
      <4>1. pass'[q] = pass[q]
        BY <1>12, <3>2 DEF CatchUp, TypeOK
      <4> QED
        BY <1>8, <2>2, <2>5, <4>1
    <3> QED
      BY <3>1, <3>2
  <2>6. ReachedAfter(task.schedule, due)
    <3>1. CASE pass[p].schedule = task.schedule
      BY <2>1, <3>1
    <3>2. CASE pass[p].schedule # task.schedule
      <4>1. history'.freshFrom >= due
        BY <1>1, <1>5, <2>0, <2>2, <2>a, <3>2
      <4>2. task.schedule.fires \subseteq Nat
        BY <1>1, TimesAreNumbers
      <4> QED
        BY <1>1, <2>0, <4>1, <4>2 DEF ReachedAfter
    <3> QED
      BY <3>1, <3>2
  <2>7. \A t \in Moments : runs'[t].type = "scheduled" => runs[t].type = "scheduled" \/ t = due
    BY <1>12, <2>b DEF CatchUp, TypeOK
  <2> QED
    BY <1>1, <1>4, <1>6, <1>7, <2>0, <2>2, <2>5, <2>6, <2>7
<1>13. ASSUME NEW p \in Passes, Save(p)
       PROVE  SkipInv'
  <2> DEFINE next == pass[p].next
  <2>0. pass[p].pc = "loop" /\ Busy(p) /\ next \in Times
    BY <1>13, PassTyped DEF Save
  <2>1. SaveNext(p, next) /\ history' = Noted(p, next) /\ UNCHANGED <<now, runs>>
    BY <1>13 DEF Save
  <2>2. history'.freshFrom = history.freshFrom
    BY <2>0, <2>1, NotedTyped
  <2>3. task'.schedule = task.schedule /\ ReachedAfter(task'.schedule, task'.next)
    BY <1>4, <1>5, <2>0, <2>1, SaveReached
  <2>4. ASSUME NEW q \in Passes, Busy(q)' PROVE PassReachedAfter(q)
    <3>1. pass'[q] = pass[q]
      BY <1>13, <2>4 DEF Save, NoPass, TypeOK
    <3> QED
      BY <1>8, <2>1, <2>2, <2>3, <2>4, <3>1
  <2> QED
    BY <1>1, <1>6, <1>7, <2>1, <2>2, <2>3, <2>4
<1>14. ASSUME NEW t \in Moments, Process(t)
       PROVE  SkipInv'
  <2>1. /\ task'.next = task.next /\ task'.schedule = task.schedule
        /\ UNCHANGED <<now, pass, history>>
    BY <1>14 DEF Process, TypeOK
  <2>2. runs[t] \in Run
    BY <1>14 DEF Process, TypeOK
  <2>3. \A u \in Moments : runs'[u].type = runs[u].type
    BY <1>14, <2>2 DEF Process, TypeOK, Run
  <2> QED
    BY <1>1, <1>4, <1>6, <1>7, <1>8, <2>1, <2>3
<1>15. ASSUME NEW c \in Schedules, NEW t \in 1..now, NEW enabled \in BOOLEAN,
              Reschedule(c, t, enabled), UNCHANGED <<now, runs, pass>>
       PROVE  SkipInv'
  <2>1. t \in Times /\ t \in Nat /\ t <= now
    <3>1. now \in 1..MaxTime /\ MaxTime \in Nat
      BY <1>1, MaterializerAssumption DEF Moments
    <3> QED
      BY <3>1 DEF Times, Moments
  <2>2. /\ task'.next = NextAfter[c][t] /\ task'.schedule = c
        /\ history'.freshFrom = IF c # task.schedule THEN now
                                ELSE IF history.freshFrom >= t THEN history.freshFrom ELSE t
    BY <1>15 DEF Reschedule, TypeOK
  <2>3. history'.freshFrom >= t /\ history'.freshFrom <= now'
    BY <1>1, <1>15, <2>1, <2>2
  <2>4. ReachedAfter(task'.schedule, task'.next)
    BY <2>1, <2>2, <2>3, NextReached
  <2>5. ASSUME NEW q \in Passes, Busy(q)' PROVE PassReachedAfter(q)
    <3>1. Busy(q) /\ pass'[q] = pass[q]
      BY <1>15, <2>5
    <3>2. pass'[q].schedule # task'.schedule => history'.freshFrom = now'
      <4>1. CASE c # task.schedule
        BY <1>15, <2>2, <4>1
      <4>2. CASE c = task.schedule
        <5>1. pass[q].schedule # task.schedule => history.freshFrom = now
          BY <1>5, <3>1
        <5> QED
          BY <1>1, <1>15, <2>1, <2>2, <3>1, <4>2, <5>1
      <4> QED
        BY <4>1, <4>2
    <3> QED
      BY <1>5, <3>1, <3>2 DEF PassReachedAfter
  <2>6. ASSUME NEW u \in Moments, runs'[u].type = "scheduled"
        PROVE  u <= now' /\ ReachedAfter(task'.schedule, u)
    <3>1. u <= now /\ ReachedAfter(task.schedule, u)
      BY <1>6, <1>15, <2>6
    <3>2. CASE c = task.schedule
      BY <1>15, <2>2, <3>1, <3>2
    <3>3. CASE c # task.schedule
      <4>1. history'.freshFrom = now /\ u \in Nat /\ c.fires \subseteq Nat
        BY <1>1, <2>2, <3>3, TimesAreNumbers
      <4> QED
        BY <1>1, <1>15, <2>2, <3>1, <4>1 DEF ReachedAfter
    <3> QED
      BY <3>2, <3>3
  <2> QED
    BY <1>7, <2>3, <2>4, <2>5, <2>6
<1>16. CASE Enable \/ Disable \/ EditCron \/ SaveForm
  <2>1. now \in 1..now /\ task.enabled \in BOOLEAN
    BY DEF TypeOK, Moments
  <2>2. \E c \in Schedules, t \in 1..now, enabled \in BOOLEAN :
          Reschedule(c, t, enabled) /\ UNCHANGED <<now, runs, pass>>
    BY <1>1, <1>16, <2>1 DEF Enable, Disable, EditCron, SaveForm
  <2> QED
    BY <1>15, <2>2
<1>17. CASE ClearCron
  <2>1. /\ task'.next = Null /\ task'.schedule = task.schedule
        /\ UNCHANGED <<now, runs, pass, history>>
    BY <1>17 DEF ClearCron, TypeOK
  <2>2. ReachedAfter(task'.schedule, task'.next)
    BY <2>1 DEF ReachedAfter
  <2> QED
    BY <1>1, <1>6, <1>7, <1>8, <2>1, <2>2
<1>18. CASE QueueRun \/ RetryRun
  <2>1. PICK t : AddRun(t)
    BY <1>18 DEF QueueRun, RetryRun
  <2>2. \A u \in Moments : runs'[u].type = "scheduled" => runs[u].type = "scheduled"
    BY <2>1 DEF AddRun, NewRun, TypeOK
  <2> QED
    BY <1>1, <1>4, <1>6, <1>7, <1>8, <2>1, <2>2 DEF AddRun
<1>19. CASE CleanUp
  <2>1. UNCHANGED <<now, task, pass, history>>
    BY <1>19 DEF CleanUp
  <2>2. \A u \in Moments : runs'[u].type = "scheduled" => runs[u].type = "scheduled"
    BY <1>19 DEF CleanUp, NoRun
  <2> QED
    BY <1>1, <1>4, <1>6, <1>7, <1>8, <2>1, <2>2
<1>20. CASE UNCHANGED vars
  BY <1>1, <1>4, <1>6, <1>7, <1>8, <1>20 DEF vars
<1>21. CASE Tick
  <2>1. UNCHANGED <<task, runs, pass, history>> /\ now' = now + 1
    BY <1>21 DEF Tick
  <2>2. \A q \in Passes : ~Busy(q)'
    BY <1>21 DEF Tick, NoPass
  <2>3. ASSUME NEW u \in Moments, runs'[u].type = "scheduled"
        PROVE  u <= now' /\ ReachedAfter(task'.schedule, u)
    <3>1. u \in Nat /\ u <= now /\ ReachedAfter(task.schedule, u)
      BY <1>1, <1>6, <2>1, <2>3
    <3> QED
      BY <1>1, <2>1, <3>1
  <2>4. history'.freshFrom <= now' /\ ReachedAfter(task'.schedule, task'.next)
    BY <1>1, <1>4, <2>1
  <2> QED
    BY <1>7, <2>2, <2>3, <2>4
<1> QED
  BY <1>9, <1>10, <1>11, <1>12, <1>13, <1>14, <1>16, <1>17, <1>18, <1>19, <1>20, <1>21
  DEF Next, PassStep, PageStep

\* Crashes, overlapping passes, corrections of next_run_at and retention skip no
\* occurrence of the task's expression that lies in the catch-up window and after
\* the moment the expression counts from (materializePendingRuns), save at the
\* second of a manual run or before what a pass of an edited expression saved.
THEOREM NothingSkipped == Spec => []NoOccurrenceSkipped
<1>1. Init => OnceInv /\ SkipInv
  <2> SUFFICES ASSUME Init PROVE OnceInv /\ SkipInv
    OBVIOUS
  <2>1. OnceInv
    BY DEF Init, OnceInv, NoRun, Moments
  <2>2. task.next = Null /\ \A p \in Passes : ~Busy(p)
    BY DEF Init, NoPass, Busy
  <2>3. history.freshFrom <= now /\ \A t \in Moments : runs[t].type # "scheduled"
    BY DEF Init, NoRun, Null
  <2> QED
    BY <2>1, <2>2, <2>3 DEF SkipInv, Reached, Busy
<1>2. SkipInv => NoOccurrenceSkipped
  BY DEF SkipInv, Reached, Covered, NoOccurrenceSkipped
<1> QED
  BY <1>1, <1>2, OnceStep, SkipStep, MaterializerTypeCorrect, PTL DEF Spec
=============================================================================
