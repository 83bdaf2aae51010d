------------------------------- MODULE Schedule -------------------------------
(* What cron_service promises the agent's tools: a table of at most MAX_JOBS   *)
(* jobs with ids never reused; a job fires only when the clock has reached its *)
(* time, a recurring one at least its interval after it last fired, a one-shot *)
(* job once; and a job that was removed fires no more.                         *)
EXTENDS Naturals, FiniteSets

CONSTANTS
    MAX_JOBS,       \* capacity of the table
    Plans           \* what a job may be asked to do: [type, at] records

VARIABLES
    table,          \* set of jobs: [id, plan, last_fire]
    next_id,        \* the id the next job gets
    clock,          \* wall clock, in seconds
    firing          \* the last firing: <<id, time>>, or <<0, 0>>

scheduleVars == <<table, next_id, clock, firing>>

ScheduleInit ==
    /\ table = {}
    /\ next_id = 1
    /\ clock \in Nat \ {0}
    /\ firing = <<0, 0>>

\* NTP may set the clock forward by any amount.
Pass == clock' > clock /\ UNCHANGED <<table, next_id, firing>>

Add(plan) ==
    /\ Cardinality(table) < MAX_JOBS
    /\ table' = table \cup {[id |-> next_id, plan |-> plan, last_fire |-> 0]}
    /\ next_id' = next_id + 1
    /\ UNCHANGED <<clock, firing>>

Remove(job) ==
    /\ table' = table \ {job}
    /\ UNCHANGED <<next_id, clock, firing>>

\* A recurring job fires at the time t it is found due; the scan that finds it
\* may be late, never early.
FireEvery(job) ==
    /\ job.plan.type = "every"
    /\ \E t \in 1 .. clock :
         /\ job.last_fire = 0 \/ t - job.last_fire >= job.plan.at
         /\ table' = (table \ {job}) \cup {[job EXCEPT !.last_fire = t]}
         /\ firing' = <<job.id, t>>
    /\ UNCHANGED <<next_id, clock>>

FireAt(job) ==
    /\ job.plan.type = "at"
    /\ \E t \in job.plan.at .. clock : firing' = <<job.id, t>>
    /\ table' = table \ {job}
    /\ UNCHANGED <<next_id, clock>>

ScheduleNext ==
    \/ Pass
    \/ \E plan \in Plans : Add(plan)
    \/ \E job \in table : Remove(job) \/ FireEvery(job) \/ FireAt(job)

ScheduleSpec == ScheduleInit /\ [][ScheduleNext]_scheduleVars
===============================================================================
