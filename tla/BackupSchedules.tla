-------------------------- MODULE BackupSchedules --------------------------
(***************************************************************************)
(* Backup targets, backup schedules and the scheduler: the handlers that   *)
(* read, check and write the tables backup_targets and backup_schedules    *)
(* (internal/backup/httpapi/handlers.go, internal/backup/store/postgres.go) *)
(* and the cron of every API process, which each of these handlers rebuilds *)
(* from the tables (internal/backup/scheduler.go).                         *)
(*                                                                         *)
(* A request runs once, in one process, next to the other requests: every  *)
(* statement is a step, and so is every part of Scheduler.Reload, which    *)
(* holds its mutex only while it exchanges the crons.  A cron is known by  *)
(* who built it and by its entries, the schedules it fires with the target *)
(* each had when they were listed.  What an entry does when it fires is    *)
(* CreateBackupRun of BackupJobs.  Names, cron expressions, retention and  *)
(* configurations are left out.  A process never stops its scheduler: it   *)
(* ends in logger.Fatal, which exits.                                      *)
(***************************************************************************)
EXTENDS Naturals, FiniteSets

CONSTANTS
    Instances,     \* API processes
    Targets,       \* rows that may be in backup_targets
    Schedules,     \* rows that may be in backup_schedules
    Requests,      \* requests that change a target or a schedule
    None,          \* no cron, no process
    MaxInFlight,   \* bound: requests served at a time
    MaxFaults,     \* bound: statements that end in an error
    MaxCrashes     \* bound: processes killed

ASSUME SchedulerAssumption ==
    /\ None \notin Instances \cup Requests
    /\ Instances \cap Requests = {}
    /\ {MaxInFlight, MaxFaults, MaxCrashes} \subseteq Nat

VARIABLES
    targets,       \* the status of every target
    schedules,     \* the status and the target of every schedule
    process,       \* "down", "loading", "starting" or "up"
    running,       \* the crons of a process that are started and not stopped
    current,       \* Scheduler.cron
    pc, ask,       \* where a request is and what it asks for
    at,            \* the process that serves it
    seen,          \* the status it read, which it keeps unless asked otherwise
    next, old,     \* Reload: the cron that was built, the cron it replaces
    observed,      \* history: what was so of a request's rows before it wrote
    budget         \* faults and crashes so far

tableVars   == <<targets, schedules>>
cronVars    == <<running, current>>
requestVars == <<pc, ask, at, seen, next, old>>
vars == <<tableVars, process, cronVars, requestVars, observed, budget>>

-----------------------------------------------------------------------------
Live   == {"enabled", "disabled"}
Status == {"absent", "deleted"} \cup Live

(* deleted_at IS NULL                                                      *)
LiveTarget(t)   == targets[t] \in Live
LiveSchedule(s) == schedules[s].status \in Live

Entry == [schedule: Schedules, target: Targets]
Cron  == [by: Instances \cup Requests, entries: SUBSET Entry]

(* Mutated: deleted targets are not left out.                              *)
ListSchedulesNoJoin ==
    {e \in Entry : /\ schedules[e.schedule].status = "enabled"
                   /\ schedules[e.schedule].target = e.target}

(* ListSchedules(ctx, enabledOnly = true).                                 *)
ListSchedules ==
    {e \in Entry : /\ schedules[e.schedule].status = "enabled"
                   /\ schedules[e.schedule].target = e.target
                   /\ targets[e.target] = "enabled"}

InFlight == {q \in Requests : pc[q] \notin {"idle", "done"}}

Goto(q, location) == pc' = [pc EXCEPT ![q] = location]

(* The requests Q end, and what they held in memory is gone.               *)
Cleared(f, Q, value) == [q \in Requests |-> IF q \in Q THEN value ELSE f[q]]

Answer(Q) ==
    /\ pc' = Cleared(pc, Q, "done")
    /\ ask' = Cleared(ask, Q, None) /\ at' = Cleared(at, Q, None)
    /\ seen' = Cleared(seen, Q, "enabled")
    /\ next' = Cleared(next, Q, None) /\ old' = Cleared(old, Q, None)

StatementFails ==
    /\ budget.faults < MaxFaults
    /\ budget' = [budget EXCEPT !.faults = @ + 1]

-----------------------------------------------------------------------------
(* The start of a process: main reloads the scheduler before it serves     *)
(* requests and gives up when that fails.                                  *)

StartProcess(i) ==
    /\ process[i] = "down"
    /\ process' = [process EXCEPT ![i] = "loading"]
    /\ UNCHANGED <<tableVars, cronVars, requestVars, budget>>

(* Mutated: a listing that fails at the start is only logged.              *)
LoadSchedulesLogged(i) ==
    /\ process[i] = "loading"
    /\ process' = [process EXCEPT ![i] = "starting"]
    /\ \/ /\ current' = [current EXCEPT ![i] = [by |-> i, entries |-> ListSchedules]]
          /\ UNCHANGED budget
       \/ StatementFails /\ UNCHANGED current
    /\ UNCHANGED <<tableVars, running, requestVars>>

LoadSchedules(i) ==
    /\ process[i] = "loading"
    /\ \/ /\ current' = [current EXCEPT ![i] = [by |-> i, entries |-> ListSchedules]]
          /\ process' = [process EXCEPT ![i] = "starting"]
          /\ UNCHANGED budget
       \/ /\ StatementFails
          /\ process' = [process EXCEPT ![i] = "down"]
          /\ UNCHANGED current
    /\ UNCHANGED <<tableVars, running, requestVars>>

StartScheduler(i) ==
    /\ process[i] = "starting"
    /\ running' = [running EXCEPT ![i] = {current[i]}]
    /\ process' = [process EXCEPT ![i] = "up"]
    /\ UNCHANGED <<tableVars, current, requestVars, budget>>

Crash(i) ==
    /\ process[i] # "down"
    /\ budget.crashes < MaxCrashes
    /\ budget' = [budget EXCEPT !.crashes = @ + 1]
    /\ process' = [process EXCEPT ![i] = "down"]
    /\ running' = [running EXCEPT ![i] = {}]
    /\ current' = [current EXCEPT ![i] = None]
    /\ Answer({q \in Requests : at[q] = i})
    /\ UNCHANGED tableVars

-----------------------------------------------------------------------------
(* Requests.                                                               *)

TargetAsks ==
    [kind: {"CreateTarget", "UpdateTarget"}, target: Targets, enabled: Live \cup {"keep"}]
    \cup [kind: {"DeleteTarget"}, target: Targets, enabled: {"keep"}]

ScheduleAsks ==
    [kind: {"CreateSchedule", "UpdateSchedule"}, schedule: Schedules, target: Targets,
     enabled: Live \cup {"keep"}]
    \cup [kind: {"DeleteSchedule"}, schedule: Schedules, enabled: {"keep"}]

Asks == TargetAsks \cup ScheduleAsks

FirstStep(kind) ==
    CASE kind \in {"UpdateTarget", "UpdateSchedule"} -> "read"
      [] kind = "CreateSchedule"                     -> "check_target"
      [] OTHER                                       -> "write"

Receive(q) ==
    /\ pc[q] = "idle"
    /\ Cardinality(InFlight) < MaxInFlight
    /\ \E i \in Instances, a \in Asks :
          /\ process[i] = "up"
          /\ at' = [at EXCEPT ![q] = i]
          /\ ask' = [ask EXCEPT ![q] = a]
          /\ Goto(q, FirstStep(a.kind))
    /\ UNCHANGED <<tableVars, process, cronVars, seen, next, old, budget>>

(* The request is answered with an error and does not reload.              *)
Refused(q) == Answer({q}) /\ UNCHANGED tableVars

(* GetTarget or GetSchedule of the row to be updated.                      *)
Read(q) ==
    /\ pc[q] = "read"
    /\ LET found == IF ask[q].kind = "UpdateTarget"
                    THEN targets[ask[q].target]
                    ELSE schedules[ask[q].schedule].status
       IN  \/ /\ found \in Live
              /\ seen' = [seen EXCEPT ![q] = found]
              /\ Goto(q, IF ask[q].kind = "UpdateTarget" THEN "write"
                                                         ELSE "check_target")
              /\ UNCHANGED <<tableVars, ask, at, next, old, budget>>
           \/ found \notin Live /\ Refused(q) /\ UNCHANGED budget
           \/ StatementFails /\ Refused(q)
    /\ UNCHANGED <<process, cronVars>>

CheckTarget(q) ==
    /\ pc[q] = "check_target"
    /\ \/ /\ LiveTarget(ask[q].target)
          /\ Goto(q, "write")
          /\ UNCHANGED <<tableVars, ask, at, seen, next, old, budget>>
       \/ ~LiveTarget(ask[q].target) /\ Refused(q) /\ UNCHANGED budget
       \/ StatementFails /\ Refused(q)
    /\ UNCHANGED <<process, cronVars>>

(* Mutated: an update that leaves `enabled' out enables the row.           *)
AskedDefault(q) == IF ask[q].enabled # "keep" THEN ask[q].enabled ELSE "enabled"

(* The status to be written: the one asked for, the one the row had, or    *)
(* enabled.                                                                *)
Asked(q) == IF ask[q].enabled # "keep" THEN ask[q].enabled ELSE seen[q]

(* Mutated: the updates do not look at deleted_at.                         *)
WritableDeleted(q) ==
    CASE ask[q].kind = "CreateTarget"   -> targets[ask[q].target] = "absent"
      [] ask[q].kind = "CreateSchedule" -> schedules[ask[q].schedule].status = "absent"
      [] OTHER                          -> TRUE

(* The guard and the effect of each kind of write.  A row that was deleted *)
(* is not found, a row that is inserted is new.                            *)
Writable(q) ==
    CASE ask[q].kind = "CreateTarget"                     -> targets[ask[q].target] = "absent"
      [] ask[q].kind \in {"UpdateTarget", "DeleteTarget"} -> LiveTarget(ask[q].target)
      [] ask[q].kind = "CreateSchedule" -> schedules[ask[q].schedule].status = "absent"
      [] OTHER                          -> LiveSchedule(ask[q].schedule)

(* Mutated: deleting a target leaves its schedules alone.                  *)
WriteTargetOnly(q) ==
    /\ targets' = [targets EXCEPT ![ask[q].target] =
                      IF ask[q].kind = "DeleteTarget" THEN "deleted" ELSE Asked(q)]
    /\ UNCHANGED schedules

WriteTarget(q) ==
    /\ targets' = [targets EXCEPT ![ask[q].target] =
                      IF ask[q].kind = "DeleteTarget" THEN "deleted" ELSE Asked(q)]
    /\ schedules' = IF ask[q].kind = "DeleteTarget"
                    THEN [s \in Schedules |->
                             IF schedules[s].target = ask[q].target /\ LiveSchedule(s)
                             THEN [status |-> "deleted", target |-> ask[q].target]
                             ELSE schedules[s]]
                    ELSE schedules

WriteSchedule(q) ==
    /\ schedules' = [schedules EXCEPT ![ask[q].schedule] =
                        IF ask[q].kind = "DeleteSchedule"
                        THEN [status |-> "deleted",
                              target |-> schedules[ask[q].schedule].target]
                        ELSE [status |-> Asked(q), target |-> ask[q].target]]
    /\ UNCHANGED targets

OnTarget(q) == ask[q].kind \in {"CreateTarget", "UpdateTarget", "DeleteTarget"}

(* The write may take effect and its answer be lost: the request fails and *)
(* the scheduler is not reloaded.  Creating a target reloads nothing.      *)
Write(q) ==
    /\ pc[q] = "write"
    /\ \/ /\ Writable(q)
          /\ IF OnTarget(q) THEN WriteTarget(q) ELSE WriteSchedule(q)
          /\ \/ /\ ask[q].kind # "CreateTarget"
                /\ Goto(q, "list")
                /\ UNCHANGED <<ask, at, seen, next, old, budget>>
             \/ /\ ask[q].kind = "CreateTarget"
                /\ Answer({q}) /\ UNCHANGED budget
             \/ StatementFails /\ Answer({q})
       \/ ~Writable(q) /\ Refused(q) /\ UNCHANGED budget
       \/ StatementFails /\ Refused(q)
    /\ UNCHANGED <<process, cronVars>>

-----------------------------------------------------------------------------
(* Scheduler.Reload.  A listing that fails is only logged.                 *)

ListEnabled(q) ==
    /\ pc[q] = "list"
    /\ \/ /\ next' = [next EXCEPT ![q] = [by |-> q, entries |-> ListSchedules]]
          /\ Goto(q, "start")
          /\ UNCHANGED <<tableVars, ask, at, seen, old, budget>>
       \/ StatementFails /\ Refused(q)
    /\ UNCHANGED <<process, cronVars>>

StartNext(q) ==
    /\ pc[q] = "start"
    /\ running' = [running EXCEPT ![at[q]] = @ \cup {next[q]}]
    /\ Goto(q, "swap")
    /\ UNCHANGED <<tableVars, process, current, ask, at, seen, next, old, budget>>

Swap(q) ==
    /\ pc[q] = "swap"
    /\ old' = [old EXCEPT ![q] = current[at[q]]]
    /\ current' = [current EXCEPT ![at[q]] = next[q]]
    /\ Goto(q, "stop")
    /\ UNCHANGED <<tableVars, process, running, ask, at, seen, next, budget>>

(* Mutated: whatever else is running is stopped.                           *)
StopOthers(q) ==
    /\ pc[q] = "stop"
    /\ running' = [running EXCEPT ![at[q]] = {next[q]}]
    /\ Answer({q})
    /\ UNCHANGED <<tableVars, process, current, budget>>

StopOld(q) ==
    /\ pc[q] = "stop"
    /\ running' = [running EXCEPT ![at[q]] = @ \ {old[q]}]
    /\ Answer({q})
    /\ UNCHANGED <<tableVars, process, current, budget>>

Reload(q) == ListEnabled(q) \/ StartNext(q) \/ Swap(q) \/ StopOld(q)

Serve(q) == Read(q) \/ CheckTarget(q) \/ Write(q) \/ Reload(q)

-----------------------------------------------------------------------------
(* The tables a process may find: a schedule names a target that exists,   *)
(* and is not deleted later than that.                                     *)
Init ==
    /\ targets \in [Targets -> Status]
    /\ schedules \in [Schedules -> [status: Status, target: Targets]]
    /\ \A s \in Schedules :
          /\ LiveSchedule(s) => LiveTarget(schedules[s].target)
          /\ schedules[s].status = "deleted" => targets[schedules[s].target] # "absent"
    /\ process = [i \in Instances |-> "down"]
    /\ running = [i \in Instances |-> {}]
    /\ current = [i \in Instances |-> None]
    /\ pc = [q \in Requests |-> "idle"]
    /\ ask = [q \in Requests |-> None]
    /\ at = [q \in Requests |-> None]
    /\ seen = [q \in Requests |-> "enabled"]
    /\ next = [q \in Requests |-> None] /\ old = [q \in Requests |-> None]
    /\ observed = [q \in Requests |-> {}]
    /\ budget = [faults |-> 0, crashes |-> 0]

Step ==
    \/ \E i \in Instances :
          StartProcess(i) \/ LoadSchedules(i) \/ StartScheduler(i) \/ Crash(i)
    \/ \E q \in Requests : Receive(q) \/ Serve(q)

(* History: what holds, from the moment a request is received until it     *)
(* writes, of the row it writes and of the target it names.                *)
Asking(q) == pc[q] \in {"read", "check_target", "write"}

RowStatus(q) == IF OnTarget(q) THEN targets[ask[q].target]
                               ELSE schedules[ask[q].schedule].status
OnSchedule(q) == ask[q].kind \in {"CreateSchedule", "UpdateSchedule"}

Facts(q) == {x \in {"row enabled", "target live"} :
                \/ x = "row enabled" /\ RowStatus(q) = "enabled"
                \/ x = "target live" /\ OnSchedule(q) /\ LiveTarget(ask[q].target)}

Observe ==
    observed' = [q \in Requests |-> IF Asking(q)' THEN observed[q] \cup Facts(q)' ELSE {}]

Next == Step /\ Observe

Spec == Init /\ [][Next]_vars

-----------------------------------------------------------------------------
(* Properties.                                                             *)

Locations == {"idle", "read", "check_target", "write", "list", "start", "swap",
              "stop", "done"}

(* Type invariant; a request that reloads has the crons it handles.        *)
TypeOK ==
    /\ targets \in [Targets -> Status]
    /\ schedules \in [Schedules -> [status: Status, target: Targets]]
    /\ process \in [Instances -> {"down", "loading", "starting", "up"}]
    /\ running \in [Instances -> SUBSET Cron]
    /\ current \in [Instances -> Cron \cup {None}]
    /\ pc \in [Requests -> Locations]
    /\ ask \in [Requests -> Asks \cup {None}]
    /\ at \in [Requests -> Instances \cup {None}]
    /\ seen \in [Requests -> Live]
    /\ next \in [Requests -> Cron \cup {None}]
    /\ old \in [Requests -> Cron \cup {None}]
    /\ observed \in [Requests -> SUBSET {"row enabled", "target live"}]
    /\ budget \in [faults: 0..MaxFaults, crashes: 0..MaxCrashes]
    /\ \A i \in Instances : process[i] \in {"starting", "up"} => current[i] \in Cron
    /\ \A q \in InFlight :
          /\ ask[q] \in Asks
          /\ at[q] \in Instances /\ process[at[q]] = "up"
          /\ pc[q] \in {"start", "swap", "stop"} => next[q] \in Cron
          /\ pc[q] = "stop" => old[q] \in Cron

(* Reload replaces the cron of a process without a gap and without leaving *)
(* one behind, however many requests reload at once: the installed cron    *)
(* runs, and between reloads nothing else does.                            *)
OneCronRuns ==
    \A i \in Instances : process[i] = "up" =>
        /\ current[i] \in running[i]
        /\ (\A q \in InFlight : at[q] = i => pc[q] \notin {"swap", "stop"})
              => running[i] = {current[i]}

(* What is deleted stays deleted, although updates read first and write    *)
(* the whole row later.                                                    *)
DeletedIsFinal ==
    [][/\ \A t \in Targets : targets[t] = "deleted" => targets'[t] = "deleted"
       /\ \A s \in Schedules : schedules[s].status = "deleted"
                                  => schedules'[s] = schedules[s]]_vars

(* Requests served one at a time: a process whose reload ends fires each   *)
(* schedule that is enabled and has an enabled target, on that target, and *)
(* nothing else.                                                           *)
ReloadInstalls ==
    [][\A q \in Requests : pc[q] = "stop" /\ pc'[q] = "done" /\ process'[at[q]] = "up"
          => UNION {c.entries : c \in running'[at[q]]} =
                {[schedule |-> s, target |-> schedules[s].target] :
                    s \in {x \in Schedules :
                              /\ schedules[x].status = "enabled"
                              /\ targets[schedules[x].target] = "enabled"}}]_vars

(* q ends its write, of the target t or of the schedule s.                 *)
Writes(q)           == pc[q] = "write" /\ pc'[q] # "write"
WritesTarget(q, t)   == Writes(q) /\ OnTarget(q) /\ ask[q].target = t
WritesSchedule(q, s) == Writes(q) /\ ~OnTarget(q) /\ ask[q].schedule = s

(* A schedule is checked in one statement and written in another, and its  *)
(* target is deleted between the two or later, by any request.  It is left *)
(* without a target only by a write onto a target that was there while the *)
(* request ran: a deletion takes every schedule that is on the target.     *)
SchedulesKeepTargets ==
    [][\A s \in Schedules :
          LiveSchedule(s)' /\ ~LiveTarget(schedules[s].target)'
          => \/ schedules'[s] = schedules[s] /\ ~LiveTarget(schedules[s].target)
             \/ \E q \in Requests : WritesSchedule(q, s) /\ "target live" \in observed[q]]_vars

(* What is disabled is enabled only on demand, however updates overlap: by *)
(* a request that asks for it, or by one that leaves the field out and in  *)
(* whose time the row was enabled.                                         *)
OnDemand(q) == ask[q].enabled = "enabled" \/ "row enabled" \in observed[q]

EnabledOnDemand ==
    [][/\ \A t \in Targets : targets[t] = "disabled" /\ targets'[t] = "enabled"
             => \E q \in Requests : WritesTarget(q, t) /\ OnDemand(q)
       /\ \A s \in Schedules :
             schedules[s].status = "disabled" /\ schedules'[s].status = "enabled"
             => \E q \in Requests : WritesSchedule(q, s) /\ OnDemand(q)]_vars
=============================================================================
