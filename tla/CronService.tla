----------------------------- MODULE CronService -----------------------------
(* services/cron_service.c and the agent's cron tools.  The cron thread reads  *)
(* the clock, then scans the table under s_mutex; a due job is pushed to the   *)
(* inbound queue while the mutex is held, and the push waits up to a second    *)
(* for room.  The only consumer of that queue is the agent, whose cron tools   *)
(* take the same mutex.  The queue is the one MessageBus describes, reduced to *)
(* what its users see.                                                         *)
EXTENDS Integers, Sequences, FiniteSets

CONSTANTS
    MAX_JOBS,       \* capacity of s_jobs
    QUEUE_LEN,      \* T113CLAW_BUS_QUEUE_LEN
    Intervals,      \* interval_s of the recurring jobs the model is asked to run
    Epochs,         \* at_epoch of the one-shot jobs
    MaxId,          \* bound: the number of jobs ever added
    MaxTime         \* bound: the last second of the model's clock

ASSUME CronAssumption ==
    /\ MAX_JOBS \in Nat \ {0} /\ QUEUE_LEN \in Nat \ {0}
    /\ Intervals \subseteq Nat /\ Epochs \subseteq Nat
    /\ MaxId \in Nat /\ MaxTime \in Nat \ {0}

VARIABLES
    s_jobs,         \* the table: a sequence of [id, plan, last_fire]
    s_next_id,
    s_running,
    clock,          \* what time() returns
    now,            \* cron thread: its copy of the clock
    i,              \* cron thread: index of the job looked at (from 1)
    cpc,            \* cron thread: where it is
    inbound,        \* the inbound queue: job ids, or Chat for a user's message
    apc,            \* agent: "idle", "busy" with a message, or "tool": in a cron tool
    removed,        \* ids whose removal a tool reported (history)
    firing          \* the last firing: <<id, time>> (history)

table == <<s_jobs, s_next_id>>
cron == <<now, i, cpc, firing>>
agent == <<apc, removed>>
vars == <<table, cron, agent, s_running, clock, inbound>>

Chat == 0
Plans == [type : {"every"}, at : Intervals] \cup [type : {"at"}, at : Epochs]
Jobs == [id : 1 .. MaxId, plan : Plans, last_fire : 0 .. MaxTime]
Ids == {s_jobs[k].id : k \in 1 .. Len(s_jobs)}
JobAt == s_jobs[i]

\* s_mutex is held for the whole scan, the waits for room included.  The tools
\* hold it for one step of theirs.
MutexFree == cpc \notin {"scan", "push"}

-------------------------------------------------------------------------------
Init ==
    /\ s_jobs = <<>> /\ s_next_id = 1 /\ s_running = TRUE
    /\ clock = 1 /\ now = 0 /\ i = 1 /\ cpc = "look"
    /\ inbound = <<>> /\ apc = "idle"
    /\ removed = {} /\ firing = <<0, 0>>

\* Time passes; NTP may set the clock forward.
Tick ==
    /\ clock < MaxTime
    /\ clock' \in clock + 1 .. MaxTime
    /\ UNCHANGED <<table, cron, agent, s_running, inbound>>

-------------------------------------------------------------------------------
\* The cron thread.
Look ==
    /\ cpc = "look"
    /\ IF s_running THEN cpc' = "lock" /\ now' = clock
                    ELSE cpc' = "exit" /\ UNCHANGED now
    /\ UNCHANGED <<table, agent, s_running, clock, inbound, i, firing>>

Lock ==
    /\ cpc = "lock"
    /\ cpc' = "scan" /\ i' = 1
    /\ UNCHANGED <<table, agent, s_running, clock, inbound, now, firing>>

DueLate(job) ==
    IF job.plan.type = "every"
    THEN job.last_fire = 0 \/ now - job.last_fire >= job.plan.at
    ELSE now > job.plan.at
Due(job) ==
    IF job.plan.type = "every"
    THEN job.last_fire = 0 \/ now - job.last_fire >= job.plan.at
    ELSE now >= job.plan.at

SkipJob ==
    /\ cpc = "scan" /\ i <= Len(s_jobs)
    /\ ~Due(JobAt)
    /\ i' = i + 1
    /\ UNCHANGED <<table, agent, s_running, clock, inbound, now, cpc, firing>>

\* A due job: last_fire is set before the push is tried.
FireForgetsLast ==
    /\ cpc = "scan" /\ i <= Len(s_jobs)
    /\ Due(JobAt)
    /\ firing' = <<JobAt.id, now>>
    /\ cpc' = "push"
    /\ UNCHANGED <<table, agent, s_running, clock, inbound, now, i>>

FireJob ==
    /\ cpc = "scan" /\ i <= Len(s_jobs)
    /\ Due(JobAt)
    /\ s_jobs' = IF JobAt.plan.type = "every"
                 THEN [s_jobs EXCEPT ![i].last_fire = now] ELSE s_jobs
    /\ firing' = <<JobAt.id, now>>
    /\ cpc' = "push"
    /\ UNCHANGED <<s_next_id, agent, s_running, clock, inbound, now, i>>

\* s_jobs[k] = s_jobs[--s_job_count]
SwapRemoveKeepsLast(jobs, k) == SubSeq(jobs, 1, Len(jobs) - 1)
SwapRemove(jobs, k) ==
    [n \in 1 .. Len(jobs) - 1 |-> IF n = k THEN jobs[Len(jobs)] ELSE jobs[n]]

\* After the push a one-shot job is removed, accepted or not, and the job that
\* takes its place is looked at next.
AdvanceAlways ==
    /\ cpc' = "scan" /\ i' = i + 1
    /\ s_jobs' = IF JobAt.plan.type = "at" THEN SwapRemove(s_jobs, i) ELSE s_jobs
Advance ==
    /\ cpc' = "scan"
    /\ IF JobAt.plan.type = "at"
       THEN s_jobs' = SwapRemove(s_jobs, i) /\ UNCHANGED i
       ELSE i' = i + 1 /\ UNCHANGED s_jobs

PushAccepted ==
    /\ cpc = "push"
    /\ Len(inbound) < QUEUE_LEN
    /\ inbound' = Append(inbound, JobAt.id)
    /\ Advance
    /\ UNCHANGED <<s_next_id, agent, s_running, clock, now, firing>>

\* No room within a second: the firing is dropped.
PushRetried ==
    /\ cpc = "push"
    /\ Len(inbound) >= QUEUE_LEN
    /\ UNCHANGED vars
PushRefused ==
    /\ cpc = "push"
    /\ Len(inbound) >= QUEUE_LEN
    /\ Advance
    /\ UNCHANGED <<s_next_id, agent, s_running, clock, inbound, now, firing>>

EndScan ==
    /\ cpc = "scan" /\ i > Len(s_jobs)
    /\ cpc' = "sleep"
    /\ UNCHANGED <<table, agent, s_running, clock, inbound, now, i, firing>>

Wake ==
    /\ cpc = "sleep"
    /\ cpc' = "look"
    /\ UNCHANGED <<table, agent, s_running, clock, inbound, now, i, firing>>

\* cron_service_stop, called by main on shutdown.
Stop ==
    /\ s_running
    /\ s_running' = FALSE
    /\ UNCHANGED <<table, cron, agent, clock, inbound>>

-------------------------------------------------------------------------------
\* The other threads: channels push what users say; the agent takes one message
\* at a time and may call any of its tools while it handles it.
UserMessage ==
    /\ Len(inbound) < QUEUE_LEN
    /\ inbound' = Append(inbound, Chat)
    /\ UNCHANGED <<table, cron, agent, s_running, clock>>

AgentPop ==
    /\ apc = "idle" /\ inbound # <<>>
    /\ apc' = "busy" /\ inbound' = Tail(inbound)
    /\ UNCHANGED <<table, cron, removed, s_running, clock>>

AgentCalls ==
    /\ apc = "busy"
    /\ apc' = "tool"
    /\ UNCHANGED <<table, cron, removed, s_running, clock, inbound>>

AgentDone ==
    /\ apc = "busy"
    /\ apc' = "idle"
    /\ UNCHANGED <<table, cron, removed, s_running, clock, inbound>>

InTool ==
    /\ apc = "tool" /\ MutexFree
    /\ apc' = "busy"
    /\ UNCHANGED <<cron, s_running, clock, inbound>>

\* cron_add: refused when the table is full.
CronAddReusesId(plan) ==
    /\ InTool
    /\ s_next_id <= MaxId
    /\ IF Len(s_jobs) >= MAX_JOBS
       THEN UNCHANGED table
       ELSE /\ s_jobs' = Append(s_jobs, [id |-> Len(s_jobs) + 1, plan |-> plan,
                                         last_fire |-> 0])
            /\ s_next_id' = s_next_id + 1
    /\ UNCHANGED removed
CronAdd(plan) ==
    /\ InTool
    /\ s_next_id <= MaxId
    /\ IF Len(s_jobs) >= MAX_JOBS
       THEN UNCHANGED table
       ELSE /\ s_jobs' = Append(s_jobs, [id |-> s_next_id, plan |-> plan,
                                         last_fire |-> 0])
            /\ s_next_id' = s_next_id + 1
    /\ UNCHANGED removed

\* cron_remove: by id.
CronRemove(id) ==
    /\ InTool
    /\ IF id \in Ids
       THEN /\ \E k \in 1 .. Len(s_jobs) :
                 s_jobs[k].id = id /\ s_jobs' = SwapRemove(s_jobs, k)
            /\ removed' = removed \cup {id}
       ELSE UNCHANGED <<s_jobs, removed>>
    /\ UNCHANGED s_next_id

\* cron_list: reads the table.
CronList == InTool /\ UNCHANGED <<table, removed>>

-------------------------------------------------------------------------------
CronThread ==
    Look \/ Lock \/ SkipJob \/ FireJob \/ PushAccepted \/ PushRefused \/ EndScan \/ Wake

Tool ==
    \/ \E plan \in Plans : CronAdd(plan)
    \/ \E id \in 1 .. MaxId : CronRemove(id)
    \/ CronList

Next ==
    \/ CronThread \/ Tool \/ Tick \/ Stop
    \/ UserMessage \/ AgentPop \/ AgentCalls \/ AgentDone

Spec == Init /\ [][Next]_vars

\* The cron thread runs, and its waits for room end by their timeout.  A tool
\* that waits for s_mutex gets it in one of the pauses of five seconds between
\* two scans: the mutex is not fair, so being enabled over and over has to be
\* enough.  Nothing is assumed of the users or of the agent's other work.
Fairness == WF_vars(CronThread) /\ SF_vars(Tool)
FairSpec == Spec /\ Fairness

-------------------------------------------------------------------------------
TypeOK ==
    /\ s_jobs \in Seq(Jobs) /\ Len(s_jobs) <= MAX_JOBS
    /\ s_next_id \in 1 .. MaxId + 1
    /\ s_running \in BOOLEAN
    /\ clock \in 1 .. MaxTime /\ now \in 0 .. clock
    /\ i \in 1 .. Len(s_jobs) + 1 \/ MutexFree
    /\ cpc \in {"look", "lock", "scan", "push", "sleep", "exit"}
    /\ inbound \in Seq(0 .. MaxId) /\ Len(inbound) <= QUEUE_LEN
    /\ apc \in {"idle", "busy", "tool"}
    /\ removed \subseteq 1 .. MaxId
    /\ firing \in (0 .. MaxId) \X (0 .. MaxTime)

\* An id names one job: no two jobs of the table share one, and none is the id of
\* a job that cron_remove has removed, however removals moved the jobs about.
IdsNameJobs ==
    /\ \A k, l \in 1 .. Len(s_jobs) : s_jobs[k].id = s_jobs[l].id => k = l
    /\ Ids \cap removed = {}

\* A scan, though it swaps the last job into the place of a one-shot job it
\* removes, passes over no job: whatever lies before the cursor is not due at the
\* time of the scan, or has just fired.
ScanMissesNothing ==
    ~MutexFree => \A k \in 1 .. Len(s_jobs) : k < i =>
        ~Due(s_jobs[k]) \/ (s_jobs[k].plan.type = "every" /\ s_jobs[k].last_fire = now)

\* Once a tool has reported a job as removed no message of it enters the queue,
\* not even from the scan that had already found it due.
NeverAfterRemoval ==
    [][Len(inbound') > Len(inbound) => inbound'[Len(inbound')] \notin removed]_vars

\* The table, its cursor and its swaps implement the schedule.
Scheduled ==
    {s_jobs[k] : k \in 1 .. Len(s_jobs)} \
        (IF cpc = "push" /\ JobAt.plan.type = "at" THEN {JobAt} ELSE {})
Promise == INSTANCE Schedule WITH table <- Scheduled, next_id <- s_next_id
ImplementsSchedule == Promise!ScheduleSpec

\* A cron tool always returns, though the cron thread may be waiting, with the
\* mutex the tool needs, for room in the queue that only the agent can make; and so
\* does cron_service_stop's join.
WaitsEnd ==
    /\ (apc = "tool") ~> (apc # "tool")
    /\ ~s_running ~> (cpc = "exit")

\* A one-shot job whose time has come leaves the table.
OneShotEnds ==
    \A id \in 1 .. MaxId :
        (s_running /\ \E k \in 1 .. Len(s_jobs) :
            s_jobs[k].id = id /\ s_jobs[k].plan.type = "at" /\ clock >= s_jobs[k].plan.at)
        ~> (~s_running \/ id \notin Ids)
==============================================================================
