----------------------- MODULE BackupSchedules_proofs -----------------------
(***************************************************************************)
(* Theorems about the scheduler and its tables, for every set of           *)
(* processes, rows and requests: all but the last suppose nothing of how   *)
(* many run at once, which is about a reload that comes alone.             *)
(***************************************************************************)
EXTENDS BackupSchedules, TLAPS, FiniteSetTheorems

-----------------------------------------------------------------------------
(* What holds of the crons while requests reload.                          *)

Holds(i) == process[i] \in {"starting", "up"}

(* A request still to install a cron has given none to anybody else.       *)
Fresh(q) ==
    pc[q] \notin {"stop", "done"} =>
        /\ \A i \in Instances : Holds(i) => current[i].by # q
        /\ \A r \in Requests : pc[r] = "stop" => old[r].by # q

Owns(q) == pc[q] \in {"start", "swap", "stop"} => next[q].by = q

(* Each cron to be stopped was replaced by one request, and only by that.  *)
Replaced(q) ==
    pc[q] = "stop" =>
        /\ old[q] # current[at[q]]
        /\ \A r \in Requests : r # q /\ pc[r] = "stop" /\ at[r] = at[q] => old[r] # old[q]

(* The crons that run: the installed one, those about to be installed and  *)
(* those about to be stopped.                                              *)
Accounted(i, c) ==
    \/ c = current[i]
    \/ \E q \in Requests : at[q] = i /\ pc[q] = "swap" /\ c = next[q]
    \/ \E q \in Requests : at[q] = i /\ pc[q] = "stop" /\ c = old[q]

CronInv ==
    /\ \A q \in Requests : Fresh(q) /\ Owns(q) /\ Replaced(q)
    /\ \A i \in Instances : process[i] = "up" =>
          \A c \in Cron : c \in running[i] <=> Accounted(i, c)

-----------------------------------------------------------------------------
(* The steps of a request that ends.                                       *)
LEMMA AnswerOne ==
    ASSUME NEW q \in Requests, Answer({q})
    PROVE  /\ pc' = [r \in Requests |-> IF r = q THEN "done" ELSE pc[r]]
           /\ ask' = [r \in Requests |-> IF r = q THEN None ELSE ask[r]]
           /\ at' = [r \in Requests |-> IF r = q THEN None ELSE at[r]]
           /\ seen' = [r \in Requests |-> IF r = q THEN "enabled" ELSE seen[r]]
           /\ next' = [r \in Requests |-> IF r = q THEN None ELSE next[r]]
           /\ old' = [r \in Requests |-> IF r = q THEN None ELSE old[r]]
  BY DEF Answer, Cleared

(* The part of TypeOK about requests.                                      *)
RequestType ==
    /\ pc \in [Requests -> Locations]
    /\ ask \in [Requests -> Asks \cup {None}]
    /\ at \in [Requests -> Instances \cup {None}]
    /\ seen \in [Requests -> Live]
    /\ next \in [Requests -> Cron \cup {None}]
    /\ old \in [Requests -> Cron \cup {None}]

InHand(q) ==
    pc[q] \notin {"idle", "done"} =>
        /\ ask[q] \in Asks
        /\ at[q] \in Instances /\ process[at[q]] = "up"
        /\ pc[q] \in {"start", "swap", "stop"} => next[q] \in Cron
        /\ pc[q] = "stop" => old[q] \in Cron

(* Requests that end leave requests of the right type.                     *)
LEMMA AnswerType ==
    ASSUME RequestType, NEW Q, Q \subseteq Requests, Answer(Q)
    PROVE  RequestType'
<1>1. "done" \in Locations /\ "enabled" \in Live
  BY DEF Locations, Live
<1> QED
  BY <1>1 DEF RequestType, Answer, Cleared

(* ... and hold on to nothing; the others are as they were.                *)
LEMMA AnswerInHand ==
    ASSUME RequestType, \A q \in Requests : InHand(q),
           NEW Q, Q \subseteq Requests, Answer(Q),
           \A q \in Requests \ Q : at[q] \in Instances => process'[at[q]] = process[at[q]]
    PROVE  \A q \in Requests : InHand(q)'
<1> SUFFICES ASSUME NEW q \in Requests PROVE InHand(q)'
  OBVIOUS
<1>1. CASE q \in Q
  BY <1>1 DEF InHand, Answer, Cleared
<1>2. CASE q \notin Q
  <2>1. /\ pc'[q] = pc[q] /\ ask'[q] = ask[q] /\ at'[q] = at[q]
        /\ next'[q] = next[q] /\ old'[q] = old[q]
    BY <1>2 DEF Answer, Cleared
  <2>2. at[q] \in Instances \cup {None}
    BY DEF RequestType
  <2> QED
    BY <1>2, <2>1, <2>2 DEF InHand
<1> QED
  BY <1>1, <1>2

-----------------------------------------------------------------------------
(* TypeOK, in parts.                                                       *)

TableType ==
    /\ targets \in [Targets -> Status]
    /\ schedules \in [Schedules -> [status: Status, target: Targets]]

ProcessType ==
    /\ process \in [Instances -> {"down", "loading", "starting", "up"}]
    /\ running \in [Instances -> SUBSET Cron]
    /\ current \in [Instances -> Cron \cup {None}]
    /\ \A i \in Instances : Holds(i) => current[i] \in Cron

BudgetType == budget \in [faults: 0..MaxFaults, crashes: 0..MaxCrashes]

ObservedType == observed \in [Requests -> SUBSET {"row enabled", "target live"}]

Typed == /\ TableType /\ ProcessType /\ BudgetType /\ RequestType
         /\ \A q \in Requests : InHand(q)

LEMMA TypeParts ==
    TypeOK <=> /\ TableType /\ ProcessType /\ BudgetType /\ RequestType
               /\ \A q \in Requests : InHand(q)
               /\ ObservedType
<1>1. (\A q \in InFlight :
          /\ ask[q] \in Asks
          /\ at[q] \in Instances /\ process[at[q]] = "up"
          /\ pc[q] \in {"start", "swap", "stop"} => next[q] \in Cron
          /\ pc[q] = "stop" => old[q] \in Cron)
      <=> \A q \in Requests : InHand(q)
  BY DEF InFlight, InHand
<1> QED
  BY <1>1 DEF TypeOK, TableType, ProcessType, BudgetType, RequestType, Holds, ObservedType

(* What a step does to all of them but the history.                        *)
LEMMA TypePartsNext ==
    ASSUME TableType', ProcessType', BudgetType', RequestType',
           \A q \in Requests : InHand(q)'
    PROVE  Typed'
  BY DEF Typed

LEMMA TypePartsAfter ==
    ASSUME TableType', ProcessType', BudgetType', RequestType',
           \A q \in Requests : InHand(q)', ObservedType'
    PROVE  TypeOK'
<1>1. (\A q \in InFlight :
          /\ ask[q] \in Asks
          /\ at[q] \in Instances /\ process[at[q]] = "up"
          /\ pc[q] \in {"start", "swap", "stop"} => next[q] \in Cron
          /\ pc[q] = "stop" => old[q] \in Cron)'
  BY DEF InFlight, InHand
<1> QED
  BY <1>1 DEF TypeOK, TableType, ProcessType, BudgetType, RequestType, Holds, ObservedType

LEMMA FaultType ==
    ASSUME BudgetType, StatementFails
    PROVE  BudgetType'
  BY SchedulerAssumption DEF BudgetType, StatementFails

(* What a request writes has the type of the tables.                       *)
LEMMA WriteType ==
    ASSUME TableType, RequestType, NEW q \in Requests, ask[q] \in Asks,
           IF OnTarget(q) THEN WriteTarget(q) ELSE WriteSchedule(q)
    PROVE  TableType'
<1>1. Asked(q) \in Status /\ "deleted" \in Status
  BY DEF Asked, RequestType, Asks, TargetAsks, ScheduleAsks, Status, Live
<1>2. CASE OnTarget(q)
  <2>1. ask[q].target \in Targets
    BY <1>2 DEF OnTarget, Asks, TargetAsks, ScheduleAsks
  <2> QED
    BY <1>1, <1>2, <2>1 DEF WriteTarget, TableType
<1>3. CASE ~OnTarget(q)
  <2>1. ask[q].schedule \in Schedules
    BY <1>3 DEF OnTarget, Asks, TargetAsks, ScheduleAsks
  <2>2. ask[q].kind # "DeleteSchedule" => ask[q].target \in Targets
    BY <1>3 DEF OnTarget, Asks, TargetAsks, ScheduleAsks
  <2> QED
    BY <1>1, <1>3, <2>1, <2>2 DEF WriteSchedule, TableType
<1> QED
  BY <1>2, <1>3

(* A step of one request that goes on: only its own entries change.        *)
LEMMA GoesOn ==
    ASSUME RequestType, \A r \in Requests : InHand(r),
           NEW q \in Requests, NEW location \in Locations, Goto(q, location),
           NEW n \in Cron \cup {None}, NEW o \in Cron \cup {None}, NEW e \in Live,
           next' = [next EXCEPT ![q] = n], old' = [old EXCEPT ![q] = o],
           seen' = [seen EXCEPT ![q] = e], UNCHANGED <<ask, at, process>>,
           pc[q] \notin {"idle", "done"},
           location \in {"start", "swap", "stop"} => n \in Cron,
           location = "stop" => o \in Cron
    PROVE  RequestType' /\ \A r \in Requests : InHand(r)'
  BY DEF Goto, RequestType, InHand

LEMMA NewCron ==
    ASSUME NEW x \in Instances \cup Requests
    PROVE  [by |-> x, entries |-> ListSchedules] \in Cron
<1>1. ListSchedules \in SUBSET Entry
  BY DEF ListSchedules
<1> QED
  BY <1>1 DEF Cron

-----------------------------------------------------------------------------
(* TypeOK is inductive: one lemma per kind of step.                        *)

LEMMA TypeInit == Init => TypeOK
<1> SUFFICES ASSUME Init PROVE TypeOK
  OBVIOUS
<1>1. TableType
  BY DEF Init, TableType
<1>2. ProcessType
  BY DEF Init, ProcessType, Holds
<1>3. BudgetType
  BY SchedulerAssumption DEF Init, BudgetType
<1>4. RequestType
  BY DEF Init, RequestType, Locations, Live
<1>5. \A q \in Requests : InHand(q)
  BY DEF Init, InHand
<1>6. ObservedType
  BY DEF Init, ObservedType
<1> QED
  BY <1>1, <1>2, <1>3, <1>4, <1>5, <1>6, TypeParts

(* Requests keep their type and what they hold when they do not move and   *)
(* no process that serves one changes.                                     *)
LEMMA RequestsStay ==
    ASSUME RequestType, \A q \in Requests : InHand(q), UNCHANGED requestVars,
           \A i \in Instances : process[i] = "up" => process'[i] = "up"
    PROVE  RequestType' /\ \A q \in Requests : InHand(q)'
  BY DEF RequestType, InHand, requestVars

LEMMA TypeStart ==
    ASSUME TypeOK, NEW i \in Instances,
           StartProcess(i) \/ LoadSchedules(i) \/ StartScheduler(i)
    PROVE  Typed'
<1>1. /\ TableType /\ ProcessType /\ BudgetType /\ RequestType
      /\ \A q \in Requests : InHand(q)
  BY TypeParts
<1>2. CASE StartProcess(i)
  <2>1. TableType' /\ BudgetType'
    BY <1>1, <1>2 DEF StartProcess, tableVars, TableType, BudgetType
  <2>2. ProcessType'
    BY <1>1, <1>2 DEF StartProcess, cronVars, ProcessType, Holds
  <2>3. RequestType' /\ \A q \in Requests : InHand(q)'
    BY <1>1, <1>2, RequestsStay DEF StartProcess, ProcessType
  <2> QED
    BY <2>1, <2>2, <2>3, TypePartsNext
<1>3. CASE LoadSchedules(i)
  <2>1. TableType'
    BY <1>1, <1>3 DEF LoadSchedules, tableVars, TableType
  <2>2. BudgetType'
    BY <1>1, <1>3, FaultType DEF LoadSchedules, BudgetType
  <2>3. ProcessType'
    <3>1. [by |-> i, entries |-> ListSchedules] \in Cron
      BY NewCron
    <3>2. CASE /\ current' = [current EXCEPT ![i] = [by |-> i, entries |-> ListSchedules]]
               /\ process' = [process EXCEPT ![i] = "starting"]
      BY <1>1, <1>3, <3>1, <3>2 DEF LoadSchedules, ProcessType, Holds
    <3>3. CASE /\ process' = [process EXCEPT ![i] = "down"]
               /\ UNCHANGED current
      BY <1>1, <1>3, <3>3 DEF LoadSchedules, ProcessType, Holds
    <3> QED
      BY <1>3, <3>2, <3>3 DEF LoadSchedules
  <2>4. RequestType' /\ \A q \in Requests : InHand(q)'
    BY <1>1, <1>3, RequestsStay DEF LoadSchedules, ProcessType
  <2> QED
    BY <2>1, <2>2, <2>3, <2>4, TypePartsNext
<1>4. CASE StartScheduler(i)
  <2>1. TableType' /\ BudgetType'
    BY <1>1, <1>4 DEF StartScheduler, tableVars, TableType, BudgetType
  <2>2. ProcessType'
    BY <1>1, <1>4 DEF StartScheduler, ProcessType, Holds
  <2>3. RequestType' /\ \A q \in Requests : InHand(q)'
    BY <1>1, <1>4, RequestsStay DEF StartScheduler, ProcessType
  <2> QED
    BY <2>1, <2>2, <2>3, TypePartsNext
<1> QED
  BY <1>2, <1>3, <1>4

LEMMA TypeCrash ==
    ASSUME TypeOK, NEW i \in Instances, Crash(i)
    PROVE  Typed'
<1>1. /\ TableType /\ ProcessType /\ BudgetType /\ RequestType
      /\ \A q \in Requests : InHand(q)
  BY TypeParts
<1>2. TableType'
  BY <1>1 DEF Crash, tableVars, TableType
<1>3. BudgetType'
  BY <1>1, SchedulerAssumption DEF Crash, BudgetType
<1>4. ProcessType'
  BY <1>1 DEF Crash, ProcessType, Holds
<1>5. RequestType' /\ \A q \in Requests : InHand(q)'
  <2> DEFINE Q == {q \in Requests : at[q] = i}
  <2>1. Answer(Q) /\ Q \subseteq Requests
    BY DEF Crash
  <2>2. \A q \in Requests \ Q : at[q] \in Instances => process'[at[q]] = process[at[q]]
    BY <1>1 DEF Crash, ProcessType
  <2> HIDE DEF Q
  <2> QED
    BY <1>1, <2>1, <2>2, AnswerType, AnswerInHand
<1> QED
  BY <1>2, <1>3, <1>4, <1>5, TypePartsNext

(* A step that ends the request of q, in the process that goes on.         *)
LEMMA EndsType ==
    ASSUME TypeOK, NEW q \in Requests, Answer({q}), UNCHANGED process
    PROVE  RequestType' /\ \A r \in Requests : InHand(r)'
<1>1. RequestType /\ \A r \in Requests : InHand(r)
  BY TypeParts
<1> QED
  BY <1>1, AnswerType, AnswerInHand

LEMMA TypeReceive ==
    ASSUME TypeOK, NEW q \in Requests, Receive(q)
    PROVE  Typed'
<1>1. /\ TableType /\ ProcessType /\ BudgetType /\ RequestType
      /\ \A r \in Requests : InHand(r)
  BY TypeParts
<1>2. TableType' /\ BudgetType' /\ ProcessType'
  BY <1>1 DEF Receive, tableVars, cronVars, TableType, BudgetType, ProcessType, Holds
<1>3. RequestType' /\ \A r \in Requests : InHand(r)'
  <2>1. PICK i \in Instances, a \in Asks :
            /\ process[i] = "up"
            /\ at' = [at EXCEPT ![q] = i]
            /\ ask' = [ask EXCEPT ![q] = a]
            /\ Goto(q, FirstStep(a.kind))
    BY DEF Receive
  <2>2. FirstStep(a.kind) \in {"read", "check_target", "write"}
    BY DEF FirstStep
  <2>3. /\ pc' = [pc EXCEPT ![q] = FirstStep(a.kind)]
        /\ FirstStep(a.kind) \in Locations
    BY <2>1, <2>2 DEF Goto, Locations
  <2>4. UNCHANGED <<process, seen, next, old>>
    BY DEF Receive
  <2>5. RequestType'
    BY <1>1, <2>1, <2>3, <2>4 DEF RequestType
  <2>6. \A r \in Requests : InHand(r)'
    BY <1>1, <2>1, <2>2, <2>3, <2>4 DEF InHand, RequestType
  <2> QED
    BY <2>5, <2>6
<1> QED
  BY <1>2, <1>3, TypePartsNext

(* The statements before the write.                                        *)
LEMMA TypeCheck ==
    ASSUME TypeOK, NEW q \in Requests, Read(q) \/ CheckTarget(q)
    PROVE  Typed'
<1>1. /\ TableType /\ ProcessType /\ BudgetType /\ RequestType
      /\ \A r \in Requests : InHand(r)
  BY TypeParts
<1>2. TableType' /\ ProcessType' /\ UNCHANGED process
  BY <1>1 DEF Read, CheckTarget, Refused, tableVars, cronVars, TableType, ProcessType, Holds
<1>3. BudgetType'
  BY <1>1, FaultType DEF Read, CheckTarget, BudgetType
<1>4. RequestType' /\ \A r \in Requests : InHand(r)'
  <2>1. CASE Answer({q})
    BY <1>2, <2>1, EndsType
  <2>2. CASE ~Answer({q})
    <3>1. /\ pc[q] \notin {"idle", "done"}
          /\ \/ Goto(q, "write")
             \/ Goto(q, "check_target")
          /\ \E e \in Live : seen' = [seen EXCEPT ![q] = e]
          /\ UNCHANGED <<ask, at, next, old, process>>
      BY <1>1, <1>2, <2>2 DEF Read, CheckTarget, Refused, RequestType
    <3>2. next[q] \in Cron \cup {None} /\ old[q] \in Cron \cup {None}
      BY <1>1 DEF RequestType
    <3>3. next' = [next EXCEPT ![q] = next[q]] /\ old' = [old EXCEPT ![q] = old[q]]
      BY <1>1, <3>1 DEF RequestType
    <3>4. {"write", "check_target"} \subseteq Locations
      BY DEF Locations
    <3>5. PICK location \in {"write", "check_target"} : Goto(q, location)
      BY <3>1
    <3>6. location \in Locations /\ location \notin {"start", "swap", "stop"}
      BY <3>4, <3>5
    <3>7. PICK e \in Live : seen' = [seen EXCEPT ![q] = e]
      BY <3>1
    <3> QED
      BY <1>1, <3>1, <3>2, <3>3, <3>5, <3>6, <3>7, GoesOn
  <2> QED
    BY <2>1, <2>2
<1> QED
  BY <1>2, <1>3, <1>4, TypePartsNext

LEMMA TypeWrite ==
    ASSUME TypeOK, NEW q \in Requests, Write(q)
    PROVE  Typed'
<1>1. /\ TableType /\ ProcessType /\ BudgetType /\ RequestType
      /\ \A r \in Requests : InHand(r)
  BY TypeParts
<1>2. ProcessType' /\ UNCHANGED process
  BY <1>1 DEF Write, cronVars, ProcessType, Holds
<1>3. BudgetType'
  BY <1>1, FaultType DEF Write, BudgetType
<1>4. pc[q] = "write" /\ ask[q] \in Asks
  BY <1>1 DEF Write, InHand
<1>5. TableType'
  <2>1. CASE IF OnTarget(q) THEN WriteTarget(q) ELSE WriteSchedule(q)
    BY <1>1, <1>4, <2>1, WriteType
  <2>2. CASE UNCHANGED tableVars
    BY <1>1, <2>2 DEF tableVars, TableType
  <2> QED
    BY <2>1, <2>2 DEF Write, Refused
<1>6. RequestType' /\ \A r \in Requests : InHand(r)'
  <2>1. CASE Answer({q})
    BY <1>2, <2>1, EndsType
  <2>2. CASE ~Answer({q})
    <3>1. Goto(q, "list") /\ UNCHANGED <<ask, at, seen, next, old>>
      BY <2>2 DEF Write, Refused
    <3>2. /\ next[q] \in Cron \cup {None} /\ old[q] \in Cron \cup {None}
          /\ seen[q] \in Live
      BY <1>1 DEF RequestType
    <3>3. /\ next' = [next EXCEPT ![q] = next[q]] /\ old' = [old EXCEPT ![q] = old[q]]
          /\ seen' = [seen EXCEPT ![q] = seen[q]]
      BY <1>1, <3>1 DEF RequestType
    <3>4. "list" \in Locations
      BY DEF Locations
    <3>5. /\ pc[q] \notin {"idle", "done"}
          /\ "list" \notin {"start", "swap", "stop"}
      BY <1>4
    <3>6. Goto(q, "list") /\ UNCHANGED <<ask, at, process>>
      BY <1>2, <3>1
    <3> QED
      BY <1>1, <3>2, <3>3, <3>4, <3>5, <3>6, GoesOn
  <2> QED
    BY <2>1, <2>2
<1> QED
  BY <1>2, <1>3, <1>5, <1>6, TypePartsNext

LEMMA TypeReload ==
    ASSUME TypeOK, NEW q \in Requests, Reload(q)
    PROVE  Typed'
<1>1. /\ TableType /\ ProcessType /\ BudgetType /\ RequestType
      /\ \A r \in Requests : InHand(r)
  BY TypeParts
<1>2. TableType' /\ UNCHANGED process
  BY <1>1 DEF Reload, ListEnabled, StartNext, Swap, StopOld, Refused, tableVars, TableType
<1>3. BudgetType'
  BY <1>1, FaultType
  DEF Reload, ListEnabled, StartNext, Swap, StopOld, BudgetType
<1>4. pc[q] \in {"list", "start", "swap", "stop"} /\ at[q] \in Instances
  BY <1>1 DEF Reload, ListEnabled, StartNext, Swap, StopOld, InHand
<1>5. /\ next[q] \in Cron \cup {None} /\ old[q] \in Cron \cup {None} /\ seen[q] \in Live
      /\ next = [next EXCEPT ![q] = next[q]] /\ old = [old EXCEPT ![q] = old[q]]
      /\ seen = [seen EXCEPT ![q] = seen[q]]
  BY <1>1 DEF RequestType
<1>6. pc[q] \notin {"idle", "done"} /\ {"start", "swap", "stop"} \subseteq Locations
  BY <1>4 DEF Locations
<1>7. CASE Answer({q})
  <2>1. RequestType' /\ \A r \in Requests : InHand(r)'
    BY <1>2, <1>7, EndsType
  <2>2. ProcessType'
    <3>1. CASE UNCHANGED cronVars
      BY <1>1, <1>2, <3>1 DEF cronVars, ProcessType, Holds
    <3>2. CASE StopOld(q)
      BY <1>1, <1>2, <3>2 DEF StopOld, ProcessType, Holds
    <3>3. CASE StartNext(q) \/ Swap(q)
      BY <1>1, <1>7, <3>3, AnswerOne DEF StartNext, Swap, Goto, RequestType
    <3> QED
      BY <3>1, <3>2, <3>3 DEF Reload, ListEnabled
  <2> QED
    BY <1>2, <1>3, <2>1, <2>2, TypePartsNext
<1>8. CASE ListEnabled(q) /\ ~Answer({q})
  <2> DEFINE cron == [by |-> q, entries |-> ListSchedules]
  <2>1. cron \in Cron
    BY NewCron
  <2>2. /\ next' = [next EXCEPT ![q] = cron] /\ Goto(q, "start")
        /\ UNCHANGED <<ask, at, seen, old, process, cronVars>>
    BY <1>8 DEF ListEnabled, Refused
  <2>3. ProcessType'
    BY <1>1, <2>2 DEF cronVars, ProcessType, Holds
  <2> HIDE DEF cron
  <2>4. "start" \in Locations /\ "start" # "stop"
    BY <1>6
  <2>5. /\ Goto(q, "start") /\ UNCHANGED <<ask, at, process>>
        /\ next' = [next EXCEPT ![q] = cron] /\ old' = [old EXCEPT ![q] = old[q]]
        /\ seen' = [seen EXCEPT ![q] = seen[q]]
    BY <1>5, <2>2
  <2>6. RequestType' /\ \A r \in Requests : InHand(r)'
    BY <1>1, <1>5, <1>6, <2>1, <2>4, <2>5, GoesOn
  <2> QED
    BY <1>2, <1>3, <2>3, <2>6, TypePartsNext
<1>9. CASE StartNext(q)
  <2>1. next[q] \in Cron
    BY <1>1, <1>9 DEF StartNext, InHand
  <2>2. ProcessType'
    BY <1>1, <1>4, <1>9, <2>1 DEF StartNext, ProcessType, Holds
  <2>3. "swap" \in Locations /\ "swap" # "stop"
    BY <1>6
  <2>4. /\ Goto(q, "swap") /\ UNCHANGED <<ask, at, process>>
        /\ next' = [next EXCEPT ![q] = next[q]] /\ old' = [old EXCEPT ![q] = old[q]]
        /\ seen' = [seen EXCEPT ![q] = seen[q]]
    BY <1>5, <1>9 DEF StartNext
  <2>5. RequestType' /\ \A r \in Requests : InHand(r)'
    BY <1>1, <1>5, <1>6, <2>1, <2>3, <2>4, GoesOn
  <2> QED
    BY <1>2, <1>3, <2>2, <2>5, TypePartsNext
<1>10. CASE Swap(q)
  <2>1. next[q] \in Cron /\ process[at[q]] = "up"
    BY <1>1, <1>10 DEF Swap, InHand
  <2>2. ProcessType'
    BY <1>1, <1>4, <1>10, <2>1 DEF Swap, ProcessType, Holds
  <2>3. "stop" \in Locations
    BY <1>6
  <2>4. current[at[q]] \in Cron
    BY <1>1, <1>4, <2>1 DEF ProcessType, Holds
  <2>5. /\ Goto(q, "stop") /\ UNCHANGED <<ask, at, process>>
        /\ next' = [next EXCEPT ![q] = next[q]]
        /\ old' = [old EXCEPT ![q] = current[at[q]]]
        /\ seen' = [seen EXCEPT ![q] = seen[q]]
    BY <1>5, <1>10 DEF Swap
  <2>6. next[q] \in Cron \cup {None} /\ current[at[q]] \in Cron \cup {None}
    BY <2>1, <2>4
  <2>7. RequestType' /\ \A r \in Requests : InHand(r)'
    BY <1>1, <1>5, <1>6, <2>1, <2>3, <2>4, <2>5, <2>6, GoesOn
  <2> QED
    BY <1>2, <1>3, <2>2, <2>7, TypePartsNext
<1> QED
  BY <1>7, <1>8, <1>9, <1>10 DEF Reload, StopOld

LEMMA TypeStutter ==
    ASSUME TypeOK, UNCHANGED vars
    PROVE  TypeOK'
<1>1. /\ TableType /\ ProcessType /\ BudgetType /\ RequestType
      /\ \A r \in Requests : InHand(r)
  BY TypeParts
<1>2. TableType' /\ ProcessType' /\ BudgetType'
  BY <1>1 DEF vars, tableVars, cronVars, TableType, ProcessType, BudgetType, Holds
<1>3. RequestType' /\ \A r \in Requests : InHand(r)'
  BY <1>1, RequestsStay DEF vars, requestVars
<1>4. ObservedType'
  BY TypeParts DEF vars, ObservedType
<1> QED
  BY <1>2, <1>3, <1>4, TypePartsAfter

LEMMA TypeStep ==
    ASSUME TypeOK, [Next]_vars
    PROVE  TypeOK'
<1>1. CASE Next
  <2>1. Typed'
    BY <1>1, TypeStart, TypeCrash, TypeReceive, TypeCheck, TypeWrite, TypeReload
    DEF Next, Step, Serve
  <2>2. ObservedType'
    BY <1>1, TypeParts DEF Next, Observe, ObservedType, Facts
  <2> QED
    BY <2>1, <2>2, TypePartsAfter DEF Typed
<1> QED
  BY <1>1, TypeStutter

(* The variables keep their types, a request that is served is served by a *)
(* process that is up, and a request that reloads has the crons it handles. *)
THEOREM TypeCorrect == Spec => []TypeOK
<1>1. Init => TypeOK
  BY TypeInit
<1>2. TypeOK /\ [Next]_vars => TypeOK'
  BY TypeStep
<1> QED
  BY <1>1, <1>2, PTL DEF Spec

-----------------------------------------------------------------------------
(* CronInv is inductive.                                                   *)

LEMMA CronInit == Init => CronInv
  BY DEF Init, CronInv, Fresh, Owns, Replaced, Holds

(* Outside the exchange of crons a request moves as it likes, as long as   *)
(* it does not come back from its end and the cron it builds is its own.   *)
LEMMA CronQuiet ==
    ASSUME CronInv, UNCHANGED <<process, cronVars>>,
           \A r \in Requests :
              \/ UNCHANGED <<pc[r], at[r], next[r], old[r]>>
              \/ /\ pc[r] \notin {"start", "swap", "stop", "done"}
                 /\ pc'[r] \notin {"swap", "stop"}
                 /\ pc'[r] = "start" => next'[r].by = r
    PROVE  CronInv'
<1>1. ASSUME NEW q \in Requests
      PROVE  Fresh(q)' /\ Owns(q)' /\ Replaced(q)'
  <2>1. Fresh(q) /\ Owns(q) /\ Replaced(q)
    BY DEF CronInv
  <2>2. \A i \in Instances : Holds(i)' => Holds(i) /\ current'[i] = current[i]
    BY DEF Holds, cronVars
  <2>3. \A r \in Requests : pc'[r] = "stop" => pc[r] = "stop" /\ old'[r] = old[r] /\ at'[r] = at[r]
    OBVIOUS
  <2>4. Fresh(q)'
    BY <2>1, <2>2, <2>3 DEF Fresh
  <2>5. Owns(q)'
    BY <2>1 DEF Owns
  <2>6. Replaced(q)'
    BY <2>1, <2>3 DEF Replaced, cronVars
  <2> QED
    BY <2>4, <2>5, <2>6
<1>2. ASSUME NEW i \in Instances, process'[i] = "up", NEW c \in Cron
      PROVE  c \in running'[i] <=> Accounted(i, c)'
  <2>1. c \in running[i] <=> Accounted(i, c)
    BY <1>2 DEF CronInv
  <2>2. \A q \in Requests : at'[q] = i /\ pc'[q] = "swap" /\ c = next'[q]
                            <=> at[q] = i /\ pc[q] = "swap" /\ c = next[q]
    OBVIOUS
  <2>3. \A q \in Requests : at'[q] = i /\ pc'[q] = "stop" /\ c = old'[q]
                            <=> at[q] = i /\ pc[q] = "stop" /\ c = old[q]
    OBVIOUS
  <2> QED
    BY <2>1, <2>2, <2>3 DEF Accounted, cronVars
<1> QED
  BY <1>1, <1>2 DEF CronInv

LEMMA CronStart ==
    ASSUME TypeOK, CronInv, NEW i \in Instances,
           StartProcess(i) \/ LoadSchedules(i) \/ StartScheduler(i)
    PROVE  CronInv'
<1>1. ProcessType /\ RequestType /\ \A q \in Requests : InHand(q)
  BY TypeParts
<1>2. /\ UNCHANGED <<pc, at, next, old>> /\ process[i] # "up"
      /\ \A j \in Instances \ {i} : /\ process'[j] = process[j]
                                    /\ current'[j] = current[j]
                                    /\ running'[j] = running[j]
  BY <1>1 DEF StartProcess, LoadSchedules, StartScheduler, requestVars, cronVars, ProcessType
<1>3. Holds(i)' => \/ current'[i].by = i
                   \/ Holds(i) /\ current'[i] = current[i]
  BY <1>1 DEF StartProcess, LoadSchedules, StartScheduler, cronVars, ProcessType, Holds
<1>4. ASSUME NEW q \in Requests
      PROVE  Fresh(q)' /\ Owns(q)' /\ Replaced(q)'
  <2>1. Fresh(q) /\ Owns(q) /\ Replaced(q)
    BY DEF CronInv
  <2>2. Owns(q)'
    BY <1>2, <2>1 DEF Owns
  <2>3. Fresh(q)'
    <3>1. \A j \in Instances \ {i} : Holds(j)' => Holds(j)
      BY <1>2 DEF Holds
    <3>2. i # q
      BY SchedulerAssumption
    <3> QED
      BY <1>2, <1>3, <2>1, <3>1, <3>2 DEF Fresh
  <2>4. Replaced(q)'
    <3>1. pc[q] = "stop" => at[q] \in Instances \ {i}
      BY <1>1, <1>2 DEF InHand
    <3> QED
      BY <1>2, <2>1, <3>1 DEF Replaced
  <2> QED
    BY <2>2, <2>3, <2>4
<1>5. ASSUME NEW j \in Instances, process'[j] = "up", NEW c \in Cron
      PROVE  c \in running'[j] <=> Accounted(j, c)'
  <2>1. CASE j # i
    BY <1>2, <1>5, <2>1 DEF CronInv, Accounted
  <2>2. CASE j = i
    <3>1. running'[i] = {current'[i]}
      BY <1>1, <1>5, <2>2 DEF StartProcess, LoadSchedules, StartScheduler, ProcessType
    <3>2. \A q \in Requests : pc[q] \in {"swap", "stop"} => at[q] # i
      BY <1>1, <1>2 DEF InHand
    <3> QED
      BY <1>2, <2>2, <3>1, <3>2 DEF Accounted
  <2> QED
    BY <2>1, <2>2
<1> QED
  BY <1>4, <1>5 DEF CronInv

LEMMA CronCrash ==
    ASSUME TypeOK, CronInv, NEW i \in Instances, Crash(i)
    PROVE  CronInv'
<1>1. ProcessType /\ RequestType
  BY TypeParts
<1>2. \A q \in Requests : IF at[q] = i THEN pc'[q] = "done"
                          ELSE UNCHANGED <<pc[q], at[q], next[q], old[q]>>
  BY <1>1 DEF Crash, Answer, Cleared, RequestType
<1>3. /\ process'[i] = "down"
      /\ \A j \in Instances \ {i} : /\ process'[j] = process[j]
                                    /\ current'[j] = current[j]
                                    /\ running'[j] = running[j]
  BY <1>1 DEF Crash, ProcessType
<1>4. ASSUME NEW q \in Requests
      PROVE  Fresh(q)' /\ Owns(q)' /\ Replaced(q)'
  <2>1. CASE at[q] = i
    BY <1>2, <2>1 DEF Fresh, Owns, Replaced
  <2>2. CASE at[q] # i
    <3>1. Fresh(q) /\ Owns(q) /\ Replaced(q)
      BY DEF CronInv
    <3>2. \A r \in Requests : pc'[r] = "stop" => pc[r] = "stop" /\ UNCHANGED <<old[r], at[r]>>
      BY <1>2
    <3>3. \A j \in Instances : Holds(j)' => Holds(j) /\ current'[j] = current[j]
      BY <1>3 DEF Holds
    <3>4. Fresh(q)' /\ Owns(q)'
      BY <1>2, <2>2, <3>1, <3>2, <3>3 DEF Fresh, Owns
    <3>5. pc[q] = "stop" => at[q] \in Instances \ {i}
      BY <2>2, TypeParts DEF InHand
    <3>6. Replaced(q)'
      BY <1>2, <1>3, <2>2, <3>1, <3>2, <3>5 DEF Replaced
    <3> QED
      BY <3>4, <3>6
  <2> QED
    BY <2>1, <2>2
<1>5. ASSUME NEW j \in Instances, process'[j] = "up", NEW c \in Cron
      PROVE  c \in running'[j] <=> Accounted(j, c)'
  <2>1. j # i /\ (c \in running[j] <=> Accounted(j, c))
    BY <1>3, <1>5 DEF CronInv
  <2>2. \A q \in Requests : /\ at'[q] = j /\ pc'[q] = "swap" /\ c = next'[q]
                               <=> at[q] = j /\ pc[q] = "swap" /\ c = next[q]
                            /\ at'[q] = j /\ pc'[q] = "stop" /\ c = old'[q]
                               <=> at[q] = j /\ pc[q] = "stop" /\ c = old[q]
    BY <1>2, <2>1
  <2> QED
    BY <1>3, <2>1, <2>2 DEF Accounted
<1> QED
  BY <1>4, <1>5 DEF CronInv

LEMMA CronStartNext ==
    ASSUME TypeOK, CronInv, NEW q \in Requests, StartNext(q)
    PROVE  CronInv'
<1>1. ProcessType /\ RequestType /\ \A r \in Requests : InHand(r)
  BY TypeParts
<1>2. /\ pc[q] = "start" /\ pc' = [pc EXCEPT ![q] = "swap"]
      /\ UNCHANGED <<process, current, at, next, old>>
      /\ running' = [running EXCEPT ![at[q]] = @ \cup {next[q]}]
  BY DEF StartNext, Goto
<1>3. ASSUME NEW r \in Requests
      PROVE  Fresh(r)' /\ Owns(r)' /\ Replaced(r)'
  <2>1. Fresh(r) /\ Owns(r) /\ Replaced(r)
    BY DEF CronInv
  <2>2. \A s \in Requests : pc'[s] = "stop" <=> pc[s] = "stop"
    BY <1>1, <1>2 DEF RequestType
  <2>3. \A i \in Instances : Holds(i)' <=> Holds(i)
    BY <1>2 DEF Holds
  <2>4. pc'[r] \notin {"stop", "done"} => pc[r] \notin {"stop", "done"}
    BY <1>1, <1>2 DEF RequestType
  <2>5. pc'[r] \in {"start", "swap", "stop"} => pc[r] \in {"start", "swap", "stop"}
    BY <1>1, <1>2 DEF RequestType
  <2> QED
    BY <1>2, <2>1, <2>2, <2>3, <2>4, <2>5 DEF Fresh, Owns, Replaced
<1>4. ASSUME NEW i \in Instances, process'[i] = "up", NEW c \in Cron
      PROVE  c \in running'[i] <=> Accounted(i, c)'
  <2>1. c \in running[i] <=> Accounted(i, c)
    BY <1>2, <1>4 DEF CronInv
  <2>2. c \in running'[i] <=> c \in running[i] \/ (at[q] = i /\ c = next[q])
    BY <1>1, <1>2 DEF ProcessType
  <2>3. /\ \A r \in Requests : pc'[r] = "stop" <=> pc[r] = "stop"
        /\ \A r \in Requests : pc'[r] = "swap" <=> pc[r] = "swap" \/ r = q
    BY <1>1, <1>2 DEF RequestType
  <2> QED
    BY <1>2, <2>1, <2>2, <2>3 DEF Accounted
<1> QED
  BY <1>3, <1>4 DEF CronInv

LEMMA CronSwap ==
    ASSUME TypeOK, CronInv, NEW q \in Requests, Swap(q)
    PROVE  CronInv'
<1>1. ProcessType /\ RequestType /\ \A r \in Requests : InHand(r)
  BY TypeParts
<1>2. /\ pc[q] = "swap" /\ pc' = [pc EXCEPT ![q] = "stop"]
      /\ UNCHANGED <<process, running, at, next>>
      /\ old' = [old EXCEPT ![q] = current[at[q]]]
      /\ current' = [current EXCEPT ![at[q]] = next[q]]
  BY DEF Swap, Goto
<1>3. at[q] \in Instances /\ Holds(at[q]) /\ process[at[q]] = "up"
  BY <1>1, <1>2 DEF InHand, Holds
<1>4. Fresh(q) /\ Owns(q) /\ next[q].by = q
  BY <1>2 DEF CronInv, Owns
<1>5. /\ old'[q] = current[at[q]] /\ pc'[q] = "stop" /\ current'[at[q]] = next[q]
      /\ \A r \in Requests \ {q} : old'[r] = old[r] /\ pc'[r] = pc[r]
      /\ \A i \in Instances \ {at[q]} : current'[i] = current[i]
      /\ \A i \in Instances : Holds(i)' <=> Holds(i)
  BY <1>1, <1>2, <1>3 DEF RequestType, ProcessType, Holds
<1>6. current[at[q]].by # q /\ current[at[q]] # next[q]
  BY <1>2, <1>3, <1>4 DEF Fresh
<1>7. ASSUME NEW r \in Requests
      PROVE  Fresh(r)' /\ Owns(r)' /\ Replaced(r)'
  <2>1. Fresh(r) /\ Owns(r) /\ Replaced(r)
    BY DEF CronInv
  <2>2. Owns(r)'
    BY <1>2, <1>4, <1>5, <2>1 DEF Owns
  <2>3. Fresh(r)'
    BY <1>2, <1>3, <1>4, <1>5, <2>1 DEF Fresh
  <2>4. CASE r = q
    <3>1. \A s \in Requests : s # q /\ pc[s] = "stop" /\ at[s] = at[q] => old[s] # current[at[q]]
      BY DEF CronInv, Replaced
    <3> QED
      BY <1>2, <1>5, <1>6, <2>2, <2>3, <2>4, <3>1 DEF Replaced
  <2>5. CASE r # q
    <3>1. pc[r] = "stop" => at[r] \in Instances
      BY <1>1 DEF InHand
    <3>2. pc[r] = "stop" => old[r].by # q
      BY <1>2, <1>4 DEF Fresh
    <3>3. pc[r] = "stop" => old[r] # next[q]
      BY <1>4, <3>2
    <3> QED
      BY <1>2, <1>5, <2>1, <2>2, <2>3, <2>5, <3>1, <3>3 DEF Replaced
  <2> QED
    BY <2>4, <2>5
<1>8. ASSUME NEW i \in Instances, process'[i] = "up", NEW c \in Cron
      PROVE  c \in running'[i] <=> Accounted(i, c)'
  <2>1. c \in running[i] <=> Accounted(i, c)
    BY <1>2, <1>8 DEF CronInv
  <2>2. CASE i # at[q]
    BY <1>2, <1>5, <2>1, <2>2 DEF Accounted
  <2>3. CASE i = at[q]
    BY <1>2, <1>5, <2>1, <2>3 DEF Accounted
  <2> QED
    BY <2>2, <2>3
<1> QED
  BY <1>7, <1>8 DEF CronInv

LEMMA CronStopOld ==
    ASSUME TypeOK, CronInv, NEW q \in Requests, StopOld(q)
    PROVE  CronInv'
<1>1. ProcessType /\ RequestType /\ \A r \in Requests : InHand(r)
  BY TypeParts
<1>2. /\ pc[q] = "stop" /\ pc'[q] = "done"
      /\ \A r \in Requests \ {q} : UNCHANGED <<pc[r], at[r], next[r], old[r]>>
      /\ UNCHANGED <<process, current>>
      /\ running' = [running EXCEPT ![at[q]] = @ \ {old[q]}]
  BY <1>1, AnswerOne DEF StopOld, RequestType
<1>3. at[q] \in Instances /\ process[at[q]] = "up"
  BY <1>1, <1>2 DEF InHand
<1>4. ASSUME NEW r \in Requests
      PROVE  Fresh(r)' /\ Owns(r)' /\ Replaced(r)'
  <2>1. Fresh(r) /\ Owns(r) /\ Replaced(r)
    BY DEF CronInv
  <2>2. \A i \in Instances : Holds(i)' <=> Holds(i)
    BY <1>2 DEF Holds
  <2>3. CASE r = q
    BY <1>2, <2>3 DEF Fresh, Owns, Replaced
  <2>4. CASE r # q
    BY <1>2, <2>1, <2>2, <2>4 DEF Fresh, Owns, Replaced
  <2> QED
    BY <2>3, <2>4
<1>5. ASSUME NEW i \in Instances, process'[i] = "up", NEW c \in Cron
      PROVE  c \in running'[i] <=> Accounted(i, c)'
  <2>1. c \in running[i] <=> Accounted(i, c)
    BY <1>2, <1>5 DEF CronInv
  <2>2. CASE i # at[q]
    <3>1. running'[i] = running[i]
      BY <1>1, <1>2, <2>2 DEF ProcessType
    <3> QED
      BY <1>2, <2>1, <2>2, <3>1 DEF Accounted
  <2>3. CASE i = at[q]
    <3>1. c \in running'[i] <=> c \in running[i] /\ c # old[q]
      BY <1>1, <1>2, <2>3 DEF ProcessType
    <3>2. old[q] # current[i]
      BY <1>2, <2>3 DEF CronInv, Replaced
    <3>3. \A r \in Requests : pc[r] = "swap" => next[r] # old[q]
      <4>1. ASSUME NEW r \in Requests, pc[r] = "swap"
            PROVE  next[r].by = r /\ old[q].by # r
        BY <1>2, <4>1 DEF CronInv, Owns, Fresh
      <4> QED
        BY <4>1
    <3>4. \A r \in Requests : r # q /\ pc[r] = "stop" /\ at[r] = i => old[r] # old[q]
      BY <1>2, <2>3 DEF CronInv, Replaced
    <3> QED
      BY <1>2, <2>1, <2>3, <3>1, <3>2, <3>3, <3>4 DEF Accounted
  <2> QED
    BY <2>2, <2>3
<1> QED
  BY <1>4, <1>5 DEF CronInv

LEMMA CronOthers ==
    ASSUME TypeOK, CronInv, NEW q \in Requests,
           Receive(q) \/ Read(q) \/ CheckTarget(q) \/ Write(q) \/ ListEnabled(q)
    PROVE  CronInv'
<1>1. RequestType
  BY TypeParts
<1>2. UNCHANGED <<process, cronVars>>
  BY DEF Receive, Read, CheckTarget, Write, ListEnabled
<1>3. pc[q] \notin {"start", "swap", "stop", "done"}
  BY DEF Receive, Read, CheckTarget, Write, ListEnabled
<1>4. /\ pc'[q] \notin {"swap", "stop"}
      /\ pc'[q] = "start" => next'[q].by = q
      /\ \A r \in Requests \ {q} : UNCHANGED <<pc[r], at[r], next[r], old[r]>>
  <2>1. CASE Answer({q})
    BY <1>1, <2>1, AnswerOne DEF RequestType
  <2>2. CASE Receive(q)
    <3>1. PICK i \in Instances, a \in Asks :
              at' = [at EXCEPT ![q] = i] /\ Goto(q, FirstStep(a.kind))
      BY <2>2 DEF Receive
    <3>2. FirstStep(a.kind) \in {"read", "check_target", "write"}
      BY DEF FirstStep
    <3>3. UNCHANGED <<next, old>>
      BY <2>2 DEF Receive
    <3> QED
      BY <1>1, <3>1, <3>2, <3>3 DEF Goto, RequestType
  <2>3. CASE (Read(q) \/ CheckTarget(q) \/ Write(q)) /\ ~Answer({q})
    <3>1. /\ Goto(q, "write") \/ Goto(q, "check_target") \/ Goto(q, "list")
          /\ UNCHANGED <<at, next, old>>
      BY <2>3 DEF Read, CheckTarget, Write, Refused
    <3> QED
      BY <1>1, <3>1 DEF Goto, RequestType
  <2>4. CASE ListEnabled(q) /\ ~Answer({q})
    <3>1. /\ Goto(q, "start") /\ UNCHANGED <<at, old>>
          /\ next' = [next EXCEPT ![q] = [by |-> q, entries |-> ListSchedules]]
      BY <2>4 DEF ListEnabled, Refused
    <3> QED
      BY <1>1, <3>1 DEF Goto, RequestType
  <2> QED
    BY <2>1, <2>2, <2>3, <2>4
<1> QED
  BY <1>2, <1>3, <1>4, CronQuiet

LEMMA CronStep ==
    ASSUME TypeOK, CronInv, [Next]_vars
    PROVE  CronInv'
<1>1. CASE Next
  BY <1>1, CronStart, CronCrash, CronOthers, CronStartNext, CronSwap, CronStopOld
  DEF Next, Step, Serve, Reload
<1>2. CASE UNCHANGED vars
  BY <1>2, CronQuiet DEF vars, requestVars
<1> QED
  BY <1>1, <1>2

LEMMA CronInvImplies ==
    ASSUME TypeOK, CronInv
    PROVE  OneCronRuns
<1> SUFFICES ASSUME NEW i \in Instances, process[i] = "up"
             PROVE  /\ current[i] \in running[i]
                    /\ (\A q \in InFlight : at[q] = i => pc[q] \notin {"swap", "stop"})
                          => running[i] = {current[i]}
  BY DEF OneCronRuns
<1>1. current[i] \in Cron /\ running[i] \subseteq Cron
  BY TypeParts DEF ProcessType, Holds
<1>2. \A c \in Cron : c \in running[i] <=> Accounted(i, c)
  BY DEF CronInv
<1>3. ASSUME \A q \in InFlight : at[q] = i => pc[q] \notin {"swap", "stop"}
      PROVE  running[i] = {current[i]}
  <2>1. \A q \in Requests : at[q] = i => pc[q] \notin {"swap", "stop"}
    BY <1>3 DEF InFlight
  <2>2. \A c \in Cron : c \in running[i] <=> c = current[i]
    BY <1>2, <2>1 DEF Accounted
  <2> QED
    BY <1>1, <2>2
<1> QED
  BY <1>1, <1>2, <1>3 DEF Accounted

(* However many requests reload at once, the installed cron of a process   *)
(* runs, and nothing else does once no reload is exchanging crons.         *)
THEOREM ReloadKeepsOneCron == Spec => []OneCronRuns
<1>1. Init => CronInv
  BY CronInit
<1>2. TypeOK /\ CronInv /\ [Next]_vars => CronInv'
  BY CronStep
<1>3. TypeOK /\ CronInv => OneCronRuns
  BY CronInvImplies
<1> QED
  BY <1>1, <1>2, <1>3, TypeCorrect, PTL DEF Spec

-----------------------------------------------------------------------------
(* Only a write changes the tables, and only in a row it finds.            *)

LEMMA OnlyWrites ==
    ASSUME TypeOK, [Next]_vars
    PROVE  \/ UNCHANGED tableVars
           \/ \E q \in Requests : /\ ask[q] \in Asks
                                  /\ Writes(q) /\ Writable(q)
                                  /\ IF OnTarget(q) THEN WriteTarget(q) ELSE WriteSchedule(q)
<1>1. ASSUME NEW q \in Requests, Write(q)
      PROVE  ask[q] \in Asks /\ Writes(q)
  BY <1>1, AnswerOne, TypeParts DEF Write, Refused, Goto, InHand, RequestType, Writes
<1> QED
  BY <1>1 DEF Next, Step, Serve, Reload, StartProcess, LoadSchedules, StartScheduler, Crash,
              Receive, Read, CheckTarget, Write, ListEnabled, StartNext, Swap, StopOld,
              Refused, vars

LEMMA DeletedStays ==
    ASSUME TypeOK, NEW q \in Requests, ask[q] \in Asks, Writable(q),
           IF OnTarget(q) THEN WriteTarget(q) ELSE WriteSchedule(q)
    PROVE  /\ \A t \in Targets : targets[t] = "deleted" => targets'[t] = "deleted"
           /\ \A s \in Schedules : schedules[s].status = "deleted"
                                      => schedules'[s] = schedules[s]
<1>1. TableType
  BY TypeParts
<1>2. CASE OnTarget(q)
  <2>1. targets[ask[q].target] # "deleted"
    BY <1>2 DEF Writable, OnTarget, LiveTarget, Live
  <2>2. targets' = [targets EXCEPT ![ask[q].target] =
                       IF ask[q].kind = "DeleteTarget" THEN "deleted" ELSE Asked(q)]
    BY <1>2 DEF WriteTarget
  <2>3. \A s \in Schedules : ~LiveSchedule(s) => schedules'[s] = schedules[s]
    BY <1>2 DEF WriteTarget
  <2> QED
    BY <1>1, <2>1, <2>2, <2>3 DEF TableType, LiveSchedule, Live
<1>3. CASE ~OnTarget(q)
  <2>1. schedules[ask[q].schedule].status # "deleted"
    BY <1>3 DEF Writable, OnTarget, LiveSchedule, Live
  <2> QED
    BY <1>1, <1>3, <2>1 DEF WriteSchedule, TableType
<1> QED
  BY <1>2, <1>3

(* What is deleted stays deleted and is not changed again, whichever       *)
(* update read it before it was.                                           *)
THEOREM DeletionIsFinal == Spec => DeletedIsFinal
<1>1. TypeOK /\ [Next]_vars
         => [/\ \A t \in Targets : targets[t] = "deleted" => targets'[t] = "deleted"
             /\ \A s \in Schedules : schedules[s].status = "deleted"
                                        => schedules'[s] = schedules[s]]_vars
  <2>1. CASE UNCHANGED tableVars
    BY <2>1 DEF tableVars
  <2>2. CASE TypeOK /\ \E q \in Requests :
                /\ ask[q] \in Asks /\ Writable(q)
                /\ IF OnTarget(q) THEN WriteTarget(q) ELSE WriteSchedule(q)
    BY <2>2, DeletedStays
  <2> QED
    BY <2>1, <2>2, OnlyWrites
<1> QED
  BY <1>1, TypeCorrect, PTL DEF Spec, DeletedIsFinal

-----------------------------------------------------------------------------
(* What a request found before it writes was so while it ran.              *)

Witnessed(q) ==
    /\ Asking(q) => Facts(q) \subseteq observed[q]
    /\ pc[q] = "read" => ask[q].kind \in {"UpdateTarget", "UpdateSchedule"}
    /\ pc[q] = "check_target" => OnSchedule(q)
    /\ pc[q] = "write" /\ OnSchedule(q) => "target live" \in observed[q]
    /\ \/ pc[q] = "write" /\ ask[q].kind = "UpdateTarget"
       \/ pc[q] \in {"check_target", "write"} /\ ask[q].kind = "UpdateSchedule"
       => (seen[q] = "enabled" => "row enabled" \in observed[q])

WitnessInv == \A q \in Requests : Witnessed(q)

LEMMA NothingToWitness ==
    ASSUME NEW q \in Requests, ~Asking(q)'
    PROVE  Witnessed(q)'
  BY DEF Witnessed, Asking

LEMMA ObserveKeeps ==
    ASSUME Observe, NEW q \in Requests, Asking(q)'
    PROVE  Facts(q)' \subseteq observed'[q] /\ observed[q] \subseteq observed'[q]
  BY DEF Observe

LEMMA WitnessedStays ==
    ASSUME NEW q \in Requests, Witnessed(q), Observe \/ UNCHANGED vars,
           UNCHANGED <<pc[q], ask[q], seen[q]>>
    PROVE  Witnessed(q)'
<1>1. CASE UNCHANGED vars
  BY <1>1 DEF Witnessed, Asking, Facts, RowStatus, OnTarget, OnSchedule, LiveTarget, vars,
     tableVars, requestVars
<1>2. CASE Observe /\ Asking(q)'
  BY <1>2, ObserveKeeps DEF Witnessed, Asking, OnSchedule
<1> QED
  BY <1>1, <1>2, NothingToWitness

LEMMA WitnessedReceive ==
    ASSUME TypeOK, NEW q \in Requests, Receive(q), Observe
    PROVE  Witnessed(q)'
<1>1. RequestType
  BY TypeParts
<1>2. PICK i \in Instances, a \in Asks :
            ask' = [ask EXCEPT ![q] = a] /\ Goto(q, FirstStep(a.kind))
  BY DEF Receive
<1>3. ask'[q] = a /\ pc'[q] = FirstStep(a.kind)
  BY <1>1, <1>2 DEF RequestType, Goto
<1>4. a.kind \in {"CreateTarget", "UpdateTarget", "DeleteTarget", "CreateSchedule",
                  "UpdateSchedule", "DeleteSchedule"}
  BY DEF Asks, TargetAsks, ScheduleAsks
<1>5. /\ pc'[q] \in {"read", "check_target", "write"}
      /\ pc'[q] = "read" => a.kind \in {"UpdateTarget", "UpdateSchedule"}
      /\ pc'[q] = "check_target" => a.kind = "CreateSchedule"
      /\ pc'[q] = "write" => a.kind \in {"CreateTarget", "DeleteTarget", "DeleteSchedule"}
  BY <1>3, <1>4 DEF FirstStep
<1>6. Facts(q)' \subseteq observed'[q]
  BY <1>5, ObserveKeeps DEF Asking
<1> QED
  BY <1>3, <1>5, <1>6 DEF Witnessed, OnSchedule

LEMMA WitnessedRead ==
    ASSUME TypeOK, NEW q \in Requests, Witnessed(q), Read(q), ~Answer({q}), Observe
    PROVE  Witnessed(q)'
<1>1. RequestType
  BY TypeParts
<1>2. /\ ask' = ask /\ pc[q] = "read"
      /\ seen'[q] = IF ask[q].kind = "UpdateTarget" THEN targets[ask[q].target]
                                         ELSE schedules[ask[q].schedule].status
      /\ pc'[q] = IF ask[q].kind = "UpdateTarget" THEN "write" ELSE "check_target"
  BY <1>1 DEF Read, Refused, Goto, RequestType
<1>3. ask[q].kind \in {"UpdateTarget", "UpdateSchedule"} /\ Facts(q) \subseteq observed[q]
  BY <1>2 DEF Witnessed, Asking
<1>4. seen'[q] = RowStatus(q)
  BY <1>2, <1>3 DEF RowStatus, OnTarget
<1>5. seen'[q] = "enabled" => "row enabled" \in observed[q]
  BY <1>3, <1>4 DEF Facts
<1>6. Facts(q)' \subseteq observed'[q] /\ observed[q] \subseteq observed'[q]
  BY <1>2, ObserveKeeps DEF Asking
<1> QED
  BY <1>2, <1>3, <1>5, <1>6 DEF Witnessed, OnSchedule

LEMMA WitnessedCheck ==
    ASSUME TypeOK, NEW q \in Requests, Witnessed(q), CheckTarget(q), ~Answer({q}), Observe
    PROVE  Witnessed(q)'
<1>1. RequestType
  BY TypeParts
<1>2. /\ ask' = ask /\ seen' = seen /\ LiveTarget(ask[q].target)
      /\ pc[q] = "check_target" /\ pc'[q] = "write"
  BY <1>1 DEF CheckTarget, Refused, Goto, RequestType
<1>3. OnSchedule(q) /\ Facts(q) \subseteq observed[q]
  BY <1>2 DEF Witnessed, Asking
<1>4. "target live" \in observed[q]
  BY <1>2, <1>3 DEF Facts
<1>5. Facts(q)' \subseteq observed'[q] /\ observed[q] \subseteq observed'[q]
  BY <1>2, ObserveKeeps DEF Asking
<1>6. ask[q].kind # "UpdateTarget"
  BY <1>3 DEF OnSchedule
<1> QED
  BY <1>2, <1>3, <1>4, <1>5, <1>6 DEF Witnessed, OnSchedule

(* A request moves itself, and the requests of a process end with it.      *)
LEMMA HowRequestsMove ==
    ASSUME TypeOK, Step, NEW q \in Requests
    PROVE  \/ UNCHANGED <<pc[q], ask[q], seen[q]>>
           \/ ~Asking(q)'
           \/ Receive(q)
           \/ (Read(q) \/ CheckTarget(q)) /\ ~Answer({q})
<1>1. RequestType
  BY TypeParts
<1>2. ASSUME NEW i \in Instances, StartProcess(i) \/ LoadSchedules(i) \/ StartScheduler(i)
      PROVE  UNCHANGED <<pc[q], ask[q], seen[q]>>
  BY <1>2 DEF StartProcess, LoadSchedules, StartScheduler, requestVars
<1>3. ASSUME NEW i \in Instances, Crash(i)
      PROVE  UNCHANGED <<pc[q], ask[q], seen[q]>> \/ ~Asking(q)'
  BY <1>1, <1>3 DEF Crash, Answer, Cleared, RequestType, Asking
<1>4. ASSUME NEW r \in Requests, r # q, Receive(r) \/ Serve(r)
      PROVE  UNCHANGED <<pc[q], ask[q], seen[q]>>
  <2>1. CASE Answer({r})
    BY <1>4, <2>1, AnswerOne
  <2>2. CASE Receive(r)
    BY <1>1, <1>4, <2>2 DEF Receive, Goto, RequestType
  <2>3. CASE ~Answer({r}) /\ Serve(r)
    BY <1>1, <1>4, <2>3 DEF Serve, Read, CheckTarget, Write, Reload, ListEnabled, StartNext,
       Swap, StopOld, Refused, Goto, RequestType
  <2> QED
    BY <1>4, <2>1, <2>2, <2>3
<1>5. ASSUME Serve(q)
      PROVE  ~Asking(q)' \/ ((Read(q) \/ CheckTarget(q)) /\ ~Answer({q}))
  <2>1. Answer({q}) => ~Asking(q)'
    BY AnswerOne DEF Asking
  <2>2. Write(q) => Answer({q}) \/ ~Asking(q)'
    BY <1>1 DEF Write, Refused, Goto, RequestType, Asking
  <2>3. Reload(q) => Answer({q}) \/ ~Asking(q)'
    BY <1>1 DEF Reload, ListEnabled, StartNext, Swap, StopOld, Refused, Goto, RequestType,
       Asking
  <2> QED
    BY <1>5, <2>1, <2>2, <2>3 DEF Serve
<1>6. CASE \E i \in Instances :
              StartProcess(i) \/ LoadSchedules(i) \/ StartScheduler(i) \/ Crash(i)
  BY <1>2, <1>3, <1>6
<1>7. CASE \E r \in Requests : Receive(r) \/ Serve(r)
  <2>1. PICK r \in Requests : Receive(r) \/ Serve(r)
    BY <1>7
  <2>2. CASE r = q
    BY <1>5, <2>1, <2>2
  <2>3. CASE r # q
    BY <1>4, <2>1, <2>3
  <2> QED
    BY <2>2, <2>3
<1> QED
  BY <1>6, <1>7 DEF Step

LEMMA WitnessStep ==
    ASSUME TypeOK, WitnessInv, [Next]_vars
    PROVE  WitnessInv'
<1> SUFFICES ASSUME NEW q \in Requests PROVE Witnessed(q)'
  BY DEF WitnessInv
<1>1. Witnessed(q)
  BY DEF WitnessInv
<1>2. CASE UNCHANGED vars
  BY <1>1, <1>2, WitnessedStays DEF vars, requestVars
<1>3. CASE Next
  BY <1>1, <1>3, HowRequestsMove, WitnessedStays, NothingToWitness, WitnessedReceive,
     WitnessedRead, WitnessedCheck DEF Next
<1> QED
  BY <1>2, <1>3

LEMMA WitnessAlways == Spec => []WitnessInv
<1>1. Init => WitnessInv
  BY DEF Init, WitnessInv, Witnessed, Asking
<1>2. TypeOK /\ WitnessInv /\ [Next]_vars => WitnessInv'
  BY WitnessStep
<1> QED
  BY <1>1, <1>2, TypeCorrect, PTL DEF Spec

(* What a write may do to a schedule.                                      *)
LEMMA WriteKeepsTargets ==
    ASSUME TypeOK, WitnessInv, NEW q \in Requests, ask[q] \in Asks, Writes(q),
           Writable(q), IF OnTarget(q) THEN WriteTarget(q) ELSE WriteSchedule(q),
           NEW s \in Schedules, LiveSchedule(s)', ~LiveTarget(schedules[s].target)'
    PROVE  \/ schedules'[s] = schedules[s] /\ ~LiveTarget(schedules[s].target)
           \/ WritesSchedule(q, s) /\ "target live" \in observed[q]
<1>1. TableType /\ Asked(q) \in Live
  BY TypeParts DEF Asked, RequestType, Asks, TargetAsks, ScheduleAsks, Live
<1>2. CASE OnTarget(q)
  <2>1. ask[q].target \in Targets
    BY <1>2 DEF OnTarget, Asks, TargetAsks, ScheduleAsks
  <2>2. schedules'[s] = schedules[s] /\ LiveSchedule(s)
    BY <1>1, <1>2 DEF WriteTarget, LiveSchedule, TableType, Live
  <2>3. ask[q].kind = "DeleteTarget" => schedules[s].target # ask[q].target
    BY <1>1, <1>2, <2>2 DEF WriteTarget, LiveSchedule, TableType, Live
  <2>4. schedules[s].target \in Targets
    BY <1>1 DEF TableType
  <2> QED
    BY <1>1, <1>2, <2>1, <2>2, <2>3, <2>4 DEF WriteTarget, LiveTarget, TableType
<1>3. CASE ~OnTarget(q)
  <2>1. targets' = targets /\ ask[q].schedule \in Schedules
    BY <1>3 DEF WriteSchedule, OnTarget, Asks, TargetAsks, ScheduleAsks
  <2>2. CASE s = ask[q].schedule
    <3>1. OnSchedule(q)
      BY <1>1, <1>3, <2>1, <2>2
      DEF WriteSchedule, LiveSchedule, TableType, Live, OnTarget, OnSchedule, Asks,
          TargetAsks, ScheduleAsks
    <3>2. "target live" \in observed[q]
      BY <3>1 DEF WitnessInv, Witnessed, Writes
    <3> QED
      BY <1>3, <2>2, <3>2 DEF WritesSchedule
  <2>3. CASE s # ask[q].schedule
    <3>1. schedules'[s] = schedules[s]
      BY <1>1, <1>3, <2>1, <2>3 DEF WriteSchedule, TableType
    <3> QED
      BY <2>1, <3>1 DEF LiveTarget
  <2> QED
    BY <2>2, <2>3
<1> QED
  BY <1>2, <1>3

(* However requests overlap, fail and die, a schedule is left without a    *)
(* target only by a write whose target was there while its request ran: a  *)
(* deletion leaves no schedule behind that is on the target.               *)
THEOREM TargetsAreKept == Spec => SchedulesKeepTargets
<1> DEFINE Kept(s) ==
        LiveSchedule(s)' /\ ~LiveTarget(schedules[s].target)'
        => \/ schedules'[s] = schedules[s] /\ ~LiveTarget(schedules[s].target)
           \/ \E q \in Requests : WritesSchedule(q, s) /\ "target live" \in observed[q]
<1>1. TypeOK /\ WitnessInv /\ [Next]_vars => [\A s \in Schedules : Kept(s)]_vars
  <2> SUFFICES ASSUME TypeOK, WitnessInv, [Next]_vars, NEW s \in Schedules,
                      LiveSchedule(s)', ~LiveTarget(schedules[s].target)'
               PROVE  \/ schedules'[s] = schedules[s] /\ ~LiveTarget(schedules[s].target)
                      \/ \E q \in Requests :
                            WritesSchedule(q, s) /\ "target live" \in observed[q]
    OBVIOUS
  <2>1. CASE UNCHANGED tableVars
    BY <2>1 DEF tableVars, LiveTarget
  <2>2. CASE \E q \in Requests :
                /\ ask[q] \in Asks /\ Writes(q) /\ Writable(q)
                /\ IF OnTarget(q) THEN WriteTarget(q) ELSE WriteSchedule(q)
    BY <2>2, WriteKeepsTargets
  <2> QED
    BY <2>1, <2>2, OnlyWrites
<1> QED
  BY <1>1, TypeCorrect, WitnessAlways, PTL DEF Spec, SchedulesKeepTargets

(* What a write may enable.                                                *)
LEMMA AskedOnDemand ==
    ASSUME TypeOK, WitnessInv, NEW q \in Requests, ask[q] \in Asks, Writes(q),
           Asked(q) = "enabled", ask[q].kind \in {"UpdateTarget", "UpdateSchedule"}
    PROVE  OnDemand(q)
<1>1. ask[q].enabled # "keep" => ask[q].enabled = "enabled"
  BY DEF Asked
<1>2. ask[q].enabled = "keep" => seen[q] = "enabled"
  BY DEF Asked
<1>3. seen[q] = "enabled" => "row enabled" \in observed[q]
  BY DEF WitnessInv, Witnessed, Writes
<1> QED
  BY <1>1, <1>2, <1>3 DEF OnDemand

LEMMA WriteOnDemand ==
    ASSUME TypeOK, WitnessInv, NEW q \in Requests, ask[q] \in Asks, Writes(q),
           Writable(q), IF OnTarget(q) THEN WriteTarget(q) ELSE WriteSchedule(q)
    PROVE  /\ \A t \in Targets : targets[t] = "disabled" /\ targets'[t] = "enabled"
                 => WritesTarget(q, t) /\ OnDemand(q)
           /\ \A s \in Schedules :
                 schedules[s].status = "disabled" /\ schedules'[s].status = "enabled"
                 => WritesSchedule(q, s) /\ OnDemand(q)
<1>1. TableType
  BY TypeParts
<1>2. CASE OnTarget(q)
  <2>1. ASSUME NEW t \in Targets, targets[t] = "disabled", targets'[t] = "enabled"
        PROVE  WritesTarget(q, t) /\ OnDemand(q)
    <3>1. t = ask[q].target /\ ask[q].kind # "DeleteTarget" /\ Asked(q) = "enabled"
      BY <1>1, <1>2, <2>1 DEF WriteTarget, TableType
    <3>2. ask[q].kind = "UpdateTarget"
      BY <1>2, <2>1, <3>1 DEF Writable, OnTarget
    <3> QED
      BY <1>2, <3>1, <3>2, AskedOnDemand DEF WritesTarget
  <2>2. \A s \in Schedules : schedules'[s].status \in {schedules[s].status, "deleted"}
    BY <1>1, <1>2 DEF WriteTarget, TableType
  <2> QED
    BY <2>1, <2>2
<1>3. CASE ~OnTarget(q)
  <2>1. ask[q].schedule \in Schedules /\ targets' = targets
        /\ ask[q].kind \in {"CreateSchedule", "UpdateSchedule", "DeleteSchedule"}
    BY <1>3 DEF OnTarget, WriteSchedule, Asks, TargetAsks, ScheduleAsks
  <2>2. ASSUME NEW s \in Schedules, schedules[s].status = "disabled",
               schedules'[s].status = "enabled"
        PROVE  WritesSchedule(q, s) /\ OnDemand(q)
    <3>1. s = ask[q].schedule /\ ask[q].kind # "DeleteSchedule" /\ Asked(q) = "enabled"
      BY <1>1, <1>3, <2>1, <2>2 DEF WriteSchedule, TableType
    <3>2. ask[q].kind = "UpdateSchedule"
      BY <2>1, <2>2, <3>1 DEF Writable
    <3> QED
      BY <1>3, <3>1, <3>2, AskedOnDemand DEF WritesSchedule
  <2> QED
    BY <2>1, <2>2
<1> QED
  BY <1>2, <1>3

(* However updates overlap, a disabled row is enabled only by a request    *)
(* that asks for it, or by one that leaves the field out and in whose time *)
(* the row was enabled.                                                    *)
THEOREM DisabledRowsStay == Spec => EnabledOnDemand
<1> DEFINE Targeted(t) == targets[t] = "disabled" /\ targets'[t] = "enabled"
               => \E q \in Requests : WritesTarget(q, t) /\ OnDemand(q)
           Scheduled(s) == schedules[s].status = "disabled" /\ schedules'[s].status = "enabled"
               => \E q \in Requests : WritesSchedule(q, s) /\ OnDemand(q)
<1>1. TypeOK /\ WitnessInv /\ [Next]_vars
         => [/\ \A t \in Targets : Targeted(t)
             /\ \A s \in Schedules : Scheduled(s)]_vars
  <2> SUFFICES ASSUME TypeOK, WitnessInv, [Next]_vars
               PROVE  /\ \A t \in Targets : Targeted(t)
                      /\ \A s \in Schedules : Scheduled(s)
    OBVIOUS
  <2>1. CASE UNCHANGED tableVars
    BY <2>1 DEF tableVars
  <2>2. CASE \E q \in Requests :
                /\ ask[q] \in Asks /\ Writes(q) /\ Writable(q)
                /\ IF OnTarget(q) THEN WriteTarget(q) ELSE WriteSchedule(q)
    BY <2>2, WriteOnDemand
  <2> QED
    BY <2>1, <2>2, OnlyWrites
<1> QED
  BY <1>1, TypeCorrect, WitnessAlways, PTL DEF Spec, EnabledOnDemand

-----------------------------------------------------------------------------
(* A reload that comes alone: the cron it builds still lists what the      *)
(* tables say when it is installed.                                        *)

OneAtATime == IsFiniteSet(Requests) /\ MaxInFlight = 1

Settled(q) ==
    /\ pc[q] \in {"start", "swap"} => next[q].entries = ListSchedules
    /\ pc[q] = "stop" => current[at[q]].entries = ListSchedules

AloneInv ==
    /\ \A p, q \in InFlight : p = q
    /\ \A q \in Requests : Settled(q)

(* Nobody is served when a request is received.                            *)
LEMMA ReceivedAlone ==
    ASSUME OneAtATime, NEW q \in Requests, Receive(q)
    PROVE  InFlight = {}
<1>1. Cardinality(InFlight) < 1
  BY DEF Receive, OneAtATime
<1>2. InFlight \in SUBSET Requests /\ IsFiniteSet(Requests)
  BY DEF InFlight, OneAtATime
<1>3. IsFiniteSet(InFlight)
  BY <1>2, FS_Subset
<1>4. Cardinality(InFlight) \in Nat
  BY <1>3, FS_CardinalityType
<1>5. Cardinality(InFlight) = 0
  BY <1>1, <1>4
<1> QED
  BY <1>3, <1>5, FS_EmptySet

(* A request that has listed nothing yet has nothing to lose, one that     *)
(* neither moves nor sees the tables change keeps what it has.             *)
LEMMA NotListed ==
    ASSUME NEW q \in Requests, pc'[q] \notin {"start", "swap", "stop"}
    PROVE  Settled(q)'
  BY DEF Settled

LEMMA SettledStays ==
    ASSUME NEW q \in Requests, Settled(q), UNCHANGED tableVars,
           UNCHANGED <<pc[q], at[q], next[q]>>,
           pc[q] = "stop" => current'[at[q]] = current[at[q]]
    PROVE  Settled(q)'
  BY DEF Settled, tableVars, ListSchedules

(* The steps of the only request.                                          *)
LEMMA ReceiveSettles ==
    ASSUME TypeOK, NEW q \in Requests, Receive(q)
    PROVE  Settled(q)' /\ \A r \in Requests \ {q} : pc'[r] = pc[r]
<1>1. RequestType
  BY TypeParts
<1>2. PICK a \in Asks : Goto(q, FirstStep(a.kind))
  BY DEF Receive
<1>3. FirstStep(a.kind) \in {"read", "check_target", "write"}
  BY DEF FirstStep
<1>4. pc'[q] \notin {"start", "swap", "stop"}
  BY <1>1, <1>2, <1>3 DEF Goto, RequestType
<1>5. \A r \in Requests \ {q} : pc'[r] = pc[r]
  BY <1>1, <1>2 DEF Goto, RequestType
<1> QED
  BY <1>4, <1>5, NotListed

LEMMA ServeSettles ==
    ASSUME TypeOK, AloneInv, NEW q \in Requests, Serve(q)
    PROVE  Settled(q)' /\ pc[q] \notin {"idle", "done"}
           /\ \A r \in Requests \ {q} : pc'[r] = pc[r]
<1>1. /\ ProcessType /\ RequestType /\ Settled(q)
      /\ pc[q] \notin {"idle", "done"} /\ at[q] \in Instances
  BY TypeParts DEF AloneInv, InHand, Serve, Read, CheckTarget, Write, Reload, ListEnabled,
     StartNext, Swap, StopOld
<1>2. \A r \in Requests \ {q} : pc'[r] = pc[r]
  BY <1>1, AnswerOne DEF Serve, Read, CheckTarget, Write, Reload, ListEnabled,
     StartNext, Swap, StopOld, Refused, Goto, RequestType
<1>3. Answer({q}) => Settled(q)'
  <2>1. Answer({q}) => pc'[q] = "done"
    BY AnswerOne
  <2> QED
    BY <2>1, NotListed
<1>4. CASE (Read(q) \/ CheckTarget(q) \/ Write(q)) /\ ~Answer({q})
  <2>1. pc'[q] \notin {"start", "swap", "stop"}
    BY <1>1, <1>4 DEF Read, CheckTarget, Write, Refused, Goto, RequestType
  <2> QED
    BY <1>1, <1>2, <2>1, NotListed
<1>5. CASE Reload(q) /\ ~Answer({q})
  <2>1. UNCHANGED tableVars
    BY <1>5 DEF Reload, ListEnabled, StartNext, Swap, StopOld, Refused
  <2>2. ListSchedules' = ListSchedules
    BY <2>1 DEF tableVars, ListSchedules
  <2>3. CASE ListEnabled(q)
    <3>1. pc'[q] = "start" /\ next'[q].entries = ListSchedules
      BY <1>1, <1>5, <2>3 DEF ListEnabled, Refused, Goto, RequestType
    <3> QED
      BY <1>1, <1>2, <2>2, <3>1 DEF Settled
  <2>4. CASE StartNext(q)
    <3>1. pc[q] = "start" /\ pc'[q] = "swap" /\ next' = next
      BY <1>1, <2>4 DEF StartNext, Goto, RequestType
    <3> QED
      BY <1>1, <1>2, <2>2, <3>1 DEF Settled
  <2>5. CASE Swap(q)
    <3>1. pc[q] = "swap" /\ pc'[q] = "stop" /\ current'[at[q]] = next[q] /\ at' = at
      BY <1>1, <2>5 DEF Swap, Goto, RequestType, ProcessType
    <3> QED
      BY <1>1, <1>2, <2>2, <3>1 DEF Settled
  <2> QED
    BY <1>5, <2>3, <2>4, <2>5 DEF Reload, StopOld
<1> QED
  BY <1>1, <1>2, <1>3, <1>4, <1>5 DEF Serve

(* Together: what is served alone is settled.                              *)
LEMMA AloneStep ==
    ASSUME OneAtATime, TypeOK, AloneInv, [Next]_vars
    PROVE  AloneInv'
<1>1. RequestType /\ ProcessType /\ \A q \in Requests : InHand(q) /\ Settled(q)
  BY TypeParts DEF AloneInv
<1>2. \A p, q \in InFlight : p = q
  BY DEF AloneInv
<1>3. CASE UNCHANGED vars
  <2>1. \A q \in Requests : Settled(q)'
    BY <1>1, <1>3, SettledStays DEF vars, requestVars, cronVars
  <2>2. InFlight' = InFlight
    BY <1>3 DEF vars, requestVars, InFlight
  <2> QED
    BY <1>2, <2>1, <2>2 DEF AloneInv
<1>4. ASSUME NEW i \in Instances, StartProcess(i) \/ LoadSchedules(i) \/ StartScheduler(i)
      PROVE  AloneInv'
  <2>1. /\ UNCHANGED <<tableVars, requestVars>> /\ process[i] # "up"
        /\ \A j \in Instances \ {i} : current'[j] = current[j]
    BY <1>1, <1>4 DEF StartProcess, LoadSchedules, StartScheduler, ProcessType, cronVars
  <2>2. ASSUME NEW q \in Requests PROVE Settled(q)'
    <3>1. pc[q] = "stop" => at[q] \in Instances /\ at[q] # i
      BY <1>1, <2>1 DEF InHand
    <3> QED
      BY <1>1, <2>1, <3>1, SettledStays DEF requestVars
  <2>3. InFlight' = InFlight
    BY <2>1 DEF requestVars, InFlight
  <2> QED
    BY <1>2, <2>2, <2>3 DEF AloneInv
<1>5. ASSUME NEW i \in Instances, Crash(i) PROVE AloneInv'
  <2>1. /\ UNCHANGED tableVars
        /\ \A j \in Instances \ {i} : current'[j] = current[j]
        /\ \A q \in Requests :
              IF at[q] = i THEN pc'[q] = "done"
              ELSE UNCHANGED <<pc[q], at[q], next[q]>>
    BY <1>1, <1>5 DEF Crash, Answer, Cleared, ProcessType
  <2>2. ASSUME NEW q \in Requests PROVE Settled(q)'
    <3>1. CASE at[q] = i
      BY <2>1, <3>1, NotListed
    <3>2. CASE at[q] # i
      <4>1. pc[q] = "stop" => current'[at[q]] = current[at[q]]
        BY <1>1, <2>1, <3>2 DEF InHand
      <4> QED
        BY <1>1, <2>1, <3>2, <4>1, SettledStays
    <3> QED
      BY <3>1, <3>2
  <2>3. InFlight' \subseteq InFlight
    BY <2>1 DEF InFlight
  <2> QED
    BY <1>2, <2>2, <2>3 DEF AloneInv
<1>6. ASSUME NEW q \in Requests, Receive(q) PROVE AloneInv'
  <2>1. InFlight = {}
    BY <1>6, ReceivedAlone
  <2>2. /\ Settled(q)'
        /\ \A r \in Requests \ {q} : pc'[r] = pc[r] /\ pc'[r] \in {"idle", "done"}
    BY <1>6, <2>1, ReceiveSettles DEF InFlight
  <2>3. \A r \in Requests : Settled(r)'
    BY <2>2, NotListed
  <2>4. InFlight' \subseteq {q}
    BY <2>2 DEF InFlight
  <2> QED
    BY <2>3, <2>4 DEF AloneInv
<1>7. ASSUME NEW q \in Requests, Serve(q) PROVE AloneInv'
  <2>1. /\ Settled(q)' /\ q \in InFlight
        /\ \A r \in Requests \ {q} : pc'[r] = pc[r]
    BY <1>7, ServeSettles DEF InFlight
  <2>2. \A r \in Requests \ {q} : pc'[r] \in {"idle", "done"}
    BY <1>2, <2>1 DEF InFlight
  <2>3. \A r \in Requests : Settled(r)'
    BY <2>1, <2>2, NotListed
  <2>4. InFlight' \subseteq {q}
    BY <2>2 DEF InFlight
  <2> QED
    BY <2>3, <2>4 DEF AloneInv
<1> QED
  BY <1>3, <1>4, <1>5, <1>6, <1>7 DEF Next, Step

LEMMA AloneInit == Init => AloneInv
  BY DEF Init, AloneInv, InFlight, Settled

LEMMA AloneAlways == ASSUME OneAtATime PROVE Spec => []AloneInv
<1>1. TypeOK /\ AloneInv /\ [Next]_vars => AloneInv'
  BY AloneStep
<1> QED
  BY <1>1, AloneInit, TypeCorrect, PTL DEF Spec

(* What the tables say is to be fired.                                     *)
LEMMA ListedIs ==
    ASSUME TypeOK
    PROVE  ListSchedules =
              {[schedule |-> s, target |-> schedules[s].target] :
                  s \in {x \in Schedules :
                            /\ schedules[x].status = "enabled"
                            /\ targets[schedules[x].target] = "enabled"}}
<1>1. \A s \in Schedules : schedules[s].target \in Targets
  BY TypeParts DEF TableType
<1>2. \A e : e \in Entry <=> \E s \in Schedules, t \in Targets :
                                e = [schedule |-> s, target |-> t]
  BY DEF Entry
<1> QED
  BY <1>1, <1>2 DEF ListSchedules

(* A reload that comes alone makes its process fire what is enabled and    *)
(* nothing else.                                                           *)
THEOREM ReloadsAloneInstall == ASSUME OneAtATime PROVE Spec => ReloadInstalls
<1> DEFINE Enabled == {[schedule |-> s, target |-> schedules[s].target] :
                          s \in {x \in Schedules :
                                    /\ schedules[x].status = "enabled"
                                    /\ targets[schedules[x].target] = "enabled"}}
           Installs(q) == pc[q] = "stop" /\ pc'[q] = "done" /\ process'[at[q]] = "up"
                          => UNION {c.entries : c \in running'[at[q]]} = Enabled
<1>1. TypeOK /\ TypeOK' /\ AloneInv /\ AloneInv' /\ OneCronRuns' /\ [Next]_vars
         => [\A q \in Requests : Installs(q)]_vars
  <2> SUFFICES ASSUME TypeOK, TypeOK', AloneInv, AloneInv', OneCronRuns', Next,
                      NEW q \in Requests, pc[q] = "stop", pc'[q] = "done",
                      process'[at[q]] = "up"
               PROVE  UNION {c.entries : c \in running'[at[q]]} = Enabled
    OBVIOUS
  <2>1. RequestType /\ ProcessType /\ \A r \in Requests : InHand(r)
    BY TypeParts
  <2>2. at[q] \in Instances /\ q \in InFlight
    BY <2>1 DEF InHand, InFlight
  <2>3. PICK r \in Requests : Receive(r) \/ Serve(r) \/ \E i \in Instances : Crash(i)
    <3>1. \A i \in Instances : StartProcess(i) \/ LoadSchedules(i) \/ StartScheduler(i)
                                  => pc' = pc
      BY DEF StartProcess, LoadSchedules, StartScheduler, requestVars
    <3> QED
      BY <3>1 DEF Next, Step
  <2>4. ~\E i \in Instances : Crash(i)
    <3> SUFFICES ASSUME NEW i \in Instances, Crash(i) PROVE FALSE
      OBVIOUS
    <3>1. at[q] # i
      BY <2>1 DEF Crash, ProcessType
    <3>2. pc'[q] = pc[q]
      BY <2>1, <3>1 DEF Crash, Answer, Cleared
    <3> QED
      BY <3>2
  <2>5. StopOld(q)
    <3>1. CASE Receive(r)
      BY <2>1, <3>1 DEF Receive, Goto, RequestType, FirstStep
    <3>2. CASE Serve(r)
      <4>1. r = q
        BY <3>2, ServeSettles
      <4> QED
        BY <3>2, <4>1 DEF Serve, Read, CheckTarget, Write, Reload, ListEnabled, StartNext,
           Swap
    <3> QED
      BY <2>3, <2>4, <3>1, <3>2
  <2>6. /\ UNCHANGED <<tableVars, current, process>>
        /\ \A p \in Requests \ {q} : pc'[p] = pc[p]
    BY <2>1, <2>5, AnswerOne DEF StopOld, RequestType
  <2>7. InFlight' = {}
    BY <2>2, <2>6 DEF AloneInv, InFlight
  <2>8. running'[at[q]] = {current[at[q]]}
    BY <2>2, <2>6, <2>7 DEF OneCronRuns
  <2>9. current[at[q]].entries = ListSchedules
    BY DEF AloneInv, Settled
  <2>10. UNION {c.entries : c \in {current[at[q]]}} = current[at[q]].entries
    OBVIOUS
  <2> QED
    BY <2>8, <2>9, <2>10, ListedIs
<1> QED
  BY <1>1, TypeCorrect, AloneAlways, ReloadKeepsOneCron, PTL DEF Spec, ReloadInstalls
=============================================================================
