-------------------------- MODULE CronServiceProofs --------------------------
(* For every table size, queue length and set of plans: the invariants of the  *)
(* cron service, that a removed job is never pushed, and that the service      *)
(* implements Schedule.                                                        *)
EXTENDS CronService, FiniteSetTheorems, TLAPS

\* What a removal by swapping leaves: the last job in the hole, all else in place.
LEMMA SwapRemoveFacts ==
    ASSUME NEW S, NEW jobs \in Seq(S), NEW k \in 1 .. Len(jobs)
    PROVE  /\ SwapRemove(jobs, k) \in Seq(S)
           /\ Len(SwapRemove(jobs, k)) = Len(jobs) - 1
           /\ \A n \in 1 .. Len(jobs) - 1 :
                SwapRemove(jobs, k)[n] = IF n = k THEN jobs[Len(jobs)] ELSE jobs[n]
<1>1. Len(jobs) \in Nat /\ Len(jobs) - 1 \in Nat
  OBVIOUS
<1>2. \A n \in 1 .. Len(jobs) : jobs[n] \in S
  OBVIOUS
<1>3. \A n \in 1 .. Len(jobs) - 1 :
        (IF n = k THEN jobs[Len(jobs)] ELSE jobs[n]) \in S
  BY <1>1, <1>2
<1>4. QED
  BY <1>1, <1>3 DEF SwapRemove

\* Ids are handed out in order, so the table and the removed jobs have old ones.
IdsAreOld ==
    /\ \A k \in 1 .. Len(s_jobs) : s_jobs[k].id < s_next_id
    /\ \A id \in removed : id < s_next_id

\* While a push is tried the cursor is at its job, already marked as fired.
PushHasJob ==
    cpc = "push" =>
        /\ i \in 1 .. Len(s_jobs)
        /\ JobAt.plan.type = "every" => JobAt.last_fire = now

\* The inductive invariant.
CronInv == TypeOK /\ IdsNameJobs /\ ScanMissesNothing /\ IdsAreOld /\ PushHasJob

\* The initial state satisfies it.
LEMMA InitInv == Init => CronInv
BY CronAssumption
   DEF Init, CronInv, TypeOK, IdsNameJobs, ScanMissesNothing, IdsAreOld, PushHasJob,
       MutexFree, Ids

\* A job taken out of the table by a swap disturbs no invariant of those left.
LEMMA RemovalKeepsIds ==
    ASSUME CronInv, NEW k \in 1 .. Len(s_jobs), s_jobs' = SwapRemove(s_jobs, k),
           s_next_id' = s_next_id,
           removed' = removed \/ removed' = removed \cup {s_jobs[k].id}
    PROVE  IdsNameJobs' /\ IdsAreOld' /\ s_jobs' \in Seq(Jobs) /\ Len(s_jobs') = Len(s_jobs) - 1
<1>1. /\ s_jobs' \in Seq(Jobs)
      /\ Len(s_jobs') = Len(s_jobs) - 1
      /\ \A n \in 1 .. Len(s_jobs) - 1 :
           s_jobs'[n] = IF n = k THEN s_jobs[Len(s_jobs)] ELSE s_jobs[n]
  BY SwapRemoveFacts DEF CronInv, TypeOK
<1>2. Len(s_jobs) \in Nat
  BY DEF CronInv, TypeOK
<1>3. \A n \in 1 .. Len(s_jobs') : \E m \in 1 .. Len(s_jobs) :
        m # k /\ s_jobs'[n] = s_jobs[m] /\ (n = k => m = Len(s_jobs)) /\ (n # k => m = n)
  <2> SUFFICES ASSUME NEW n \in 1 .. Len(s_jobs')
               PROVE  \E m \in 1 .. Len(s_jobs) :
                        m # k /\ s_jobs'[n] = s_jobs[m]
                              /\ (n = k => m = Len(s_jobs)) /\ (n # k => m = n)
    OBVIOUS
  <2>1. CASE n = k
    <3>1. Len(s_jobs) \in 1 .. Len(s_jobs) /\ Len(s_jobs) # k
      BY <1>1, <1>2, <2>1
    <3>2. QED
      BY <1>1, <2>1, <3>1
  <2>2. CASE n # k
    BY <1>1, <1>2, <2>2
  <2>3. QED
    BY <2>1, <2>2
<1>4. \A a, b \in 1 .. Len(s_jobs) : s_jobs[a].id = s_jobs[b].id => a = b
  BY DEF CronInv, IdsNameJobs
<1>5. \A a \in 1 .. Len(s_jobs) : s_jobs[a].id \notin removed /\ s_jobs[a].id < s_next_id
  BY DEF CronInv, IdsNameJobs, IdsAreOld, Ids
<1>6. \A n \in 1 .. Len(s_jobs') :
        s_jobs'[n].id \notin removed' /\ s_jobs'[n].id < s_next_id
  BY <1>3, <1>4, <1>5
<1>7. ASSUME NEW a \in 1 .. Len(s_jobs'), NEW b \in 1 .. Len(s_jobs'),
             s_jobs'[a].id = s_jobs'[b].id
      PROVE  a = b
  <2>1. PICK ma \in 1 .. Len(s_jobs) :
          s_jobs'[a] = s_jobs[ma] /\ (a = k => ma = Len(s_jobs)) /\ (a # k => ma = a)
    BY <1>3
  <2>2. PICK mb \in 1 .. Len(s_jobs) :
          s_jobs'[b] = s_jobs[mb] /\ (b = k => mb = Len(s_jobs)) /\ (b # k => mb = b)
    BY <1>3
  <2>3. ma = mb
    BY <1>4, <1>7, <2>1, <2>2
  <2>4. a < Len(s_jobs) /\ b < Len(s_jobs)
    BY <1>1, <1>2
  <2>5. QED
    BY <2>1, <2>2, <2>3, <2>4
<1>8. \A id \in removed' : id < s_next_id'
  BY <1>5 DEF CronInv, IdsAreOld
<1>9. QED
  BY <1>1, <1>6, <1>7, <1>8 DEF IdsNameJobs, IdsAreOld, Ids

\* The steps of the cron thread that leave the table as it is.
LEMMA LookingKeepsInv ==
    ASSUME CronInv, Look \/ Lock \/ SkipJob \/ EndScan \/ Wake
    PROVE  CronInv'
<1> USE DEF CronInv, IdsNameJobs, IdsAreOld, Ids, table, agent
<1>1. CASE Look
  BY <1>1 DEF Look, TypeOK, ScanMissesNothing, PushHasJob, MutexFree, JobAt
<1>2. CASE Lock
  <2>1. Len(s_jobs) \in Nat /\ i' = 1 /\ cpc' = "scan"
    BY <1>2 DEF Lock, TypeOK
  <2>2. TypeOK'
    BY <1>2, <2>1 DEF Lock, TypeOK, MutexFree
  <2>3. ScanMissesNothing' /\ PushHasJob'
    BY <1>2, <2>1 DEF Lock, ScanMissesNothing, PushHasJob
  <2>4. QED
    BY <1>2, <2>2, <2>3 DEF Lock
<1>3. CASE SkipJob
  <2>1. TypeOK'
    BY <1>3 DEF SkipJob, TypeOK, MutexFree
  <2>2. ScanMissesNothing'
    BY <1>3 DEF SkipJob, TypeOK, ScanMissesNothing, MutexFree, JobAt, Due
  <2>3. QED
    BY <1>3, <2>1, <2>2 DEF SkipJob, PushHasJob
<1>4. CASE EndScan \/ Wake
  BY <1>4 DEF EndScan, Wake, TypeOK, ScanMissesNothing, PushHasJob, MutexFree
<1>5. QED
  BY <1>1, <1>2, <1>3, <1>4

\* A firing changes no more of the table than the last_fire of the job at the cursor.
LEMMA FireKeepsInv ==
    ASSUME CronInv, FireJob
    PROVE  CronInv'
<1> USE DEF CronInv, FireJob, JobAt
<1>1. /\ i \in 1 .. Len(s_jobs) /\ s_jobs \in Seq(Jobs)
      /\ Len(s_jobs) \in Nat /\ now \in 0 .. MaxTime
  BY CronAssumption DEF TypeOK, MutexFree
<1>2. s_jobs[i] \in Jobs
  BY <1>1
<1>3. [s_jobs[i] EXCEPT !.last_fire = now] \in Jobs
  BY <1>1, <1>2 DEF Jobs
<1>4. /\ s_jobs' \in Seq(Jobs) /\ Len(s_jobs') = Len(s_jobs)
      /\ \A k \in 1 .. Len(s_jobs) : k # i => s_jobs'[k] = s_jobs[k]
      /\ s_jobs'[i].id = s_jobs[i].id /\ s_jobs'[i].plan = s_jobs[i].plan
      /\ s_jobs[i].plan.type = "every" => s_jobs'[i].last_fire = now
  <2>1. CASE s_jobs[i].plan.type = "every"
    <3> DEFINE fired == [s_jobs[i] EXCEPT !.last_fire = now]
    <3>1. s_jobs' = [s_jobs EXCEPT ![i] = fired]
      BY <2>1
    <3>2. /\ fired.id = s_jobs[i].id /\ fired.plan = s_jobs[i].plan
          /\ fired.last_fire = now
      BY <1>2 DEF Jobs
    <3> HIDE DEF fired
    <3>3. fired \in Jobs
      BY <1>3 DEF fired
    <3>4. QED
      BY <1>1, <3>1, <3>2, <3>3
  <2>2. CASE s_jobs[i].plan.type # "every"
    BY <1>1, <2>2
  <2>3. QED
    BY <2>1, <2>2
<1>5. TypeOK'
  BY <1>1, <1>2, <1>4 DEF TypeOK, MutexFree, Jobs, agent
<1>6. \A k \in 1 .. Len(s_jobs) : s_jobs'[k].id = s_jobs[k].id
  BY <1>4
<1>7. IdsNameJobs' /\ IdsAreOld'
  BY <1>4, <1>6 DEF IdsNameJobs, IdsAreOld, Ids, agent
<1>8. ScanMissesNothing'
  BY <1>1, <1>4 DEF ScanMissesNothing, MutexFree, Due
<1>9. PushHasJob'
  BY <1>1, <1>4 DEF PushHasJob
<1>10. QED
  BY <1>5, <1>7, <1>8, <1>9

\* The end of a push, accepted or not: the cursor moves on, or the job goes.
LEMMA PushEndKeepsInv ==
    ASSUME CronInv, PushAccepted \/ PushRefused
    PROVE  CronInv'
<1>1. /\ i \in 1 .. Len(s_jobs) /\ s_jobs \in Seq(Jobs) /\ Len(s_jobs) \in Nat
      /\ JobAt \in Jobs
      /\ JobAt.plan.type = "every" => JobAt.last_fire = now
      /\ cpc = "push"
  BY DEF CronInv, PushHasJob, TypeOK, PushAccepted, PushRefused, JobAt
<1>2. Advance /\ UNCHANGED <<s_next_id, apc, removed, s_running, clock, now, firing>>
  BY DEF PushAccepted, PushRefused, agent
<1>3. inbound' \in Seq(0 .. MaxId) /\ Len(inbound') <= QUEUE_LEN
  <2>1. inbound \in Seq(0 .. MaxId) /\ Len(inbound) \in Nat /\ Len(inbound) <= QUEUE_LEN
    BY DEF CronInv, TypeOK
  <2>2. JobAt.id \in 0 .. MaxId
    BY <1>1, CronAssumption DEF Jobs
  <2>3. CASE PushAccepted
    <3>1. inbound' = Append(inbound, JobAt.id) /\ Len(inbound) < QUEUE_LEN
      BY <2>3 DEF PushAccepted
    <3>2. QED
      BY <2>1, <2>2, <3>1, CronAssumption
  <2>4. CASE PushRefused
    BY <2>1, <2>4 DEF PushRefused
  <2>5. QED
    BY <2>3, <2>4
<1>4. CASE JobAt.plan.type = "at"
  <2>1. s_jobs' = SwapRemove(s_jobs, i) /\ i' = i /\ cpc' = "scan"
    BY <1>2, <1>4 DEF Advance
  <2>2. /\ IdsNameJobs' /\ IdsAreOld' /\ s_jobs' \in Seq(Jobs)
        /\ Len(s_jobs') = Len(s_jobs) - 1
    BY <1>1, <1>2, <2>1, RemovalKeepsIds
  <2>3. \A n \in 1 .. Len(s_jobs) - 1 : n < i => s_jobs'[n] = s_jobs[n]
    <3>1. \A n \in 1 .. Len(s_jobs) - 1 :
            s_jobs'[n] = IF n = i THEN s_jobs[Len(s_jobs)] ELSE s_jobs[n]
      BY <1>1, <2>1, SwapRemoveFacts
    <3>2. QED
      BY <1>1, <3>1
  <2>4. TypeOK'
    BY <1>1, <1>2, <1>3, <2>1, <2>2, CronAssumption DEF CronInv, TypeOK, MutexFree
  <2>5. ScanMissesNothing'
    BY <1>1, <1>2, <2>1, <2>2, <2>3 DEF CronInv, ScanMissesNothing, MutexFree, Due
  <2>6. QED
    BY <2>1, <2>2, <2>4, <2>5 DEF CronInv, PushHasJob
<1>5. CASE JobAt.plan.type # "at"
  <2>1. s_jobs' = s_jobs /\ i' = i + 1 /\ cpc' = "scan"
    BY <1>2, <1>5 DEF Advance
  <2>2. JobAt.plan.type = "every"
    BY <1>1, <1>5 DEF Jobs, Plans
  <2>3. TypeOK'
    BY <1>1, <1>2, <1>3, <2>1 DEF CronInv, TypeOK, MutexFree, agent
  <2>4. ScanMissesNothing'
    BY <1>1, <1>2, <2>1, <2>2 DEF CronInv, ScanMissesNothing, MutexFree, Due, JobAt
  <2>5. QED
    BY <1>2, <2>1, <2>3, <2>4
       DEF CronInv, PushHasJob, IdsNameJobs, IdsAreOld, Ids, agent
<1>6. QED
  BY <1>4, <1>5

\* The agent's tools, which run only while no scan holds the mutex.
LEMMA ToolKeepsInv ==
    ASSUME CronInv, Tool
    PROVE  CronInv'
<1>1. /\ apc' = "busy" /\ MutexFree /\ MutexFree'
      /\ UNCHANGED <<cron, s_running, clock, inbound>>
  BY DEF Tool, CronAdd, CronRemove, CronList, InTool, MutexFree, cron
<1>2. ScanMissesNothing' /\ PushHasJob'
  BY <1>1 DEF ScanMissesNothing, PushHasJob, MutexFree
<1>3. CASE \E plan \in Plans : CronAdd(plan)
  <2>1. PICK plan \in Plans : CronAdd(plan)
    BY <1>3
  <2>2. CASE Len(s_jobs) >= MAX_JOBS
    BY <1>1, <1>2, <2>1, <2>2
       DEF CronAdd, CronInv, TypeOK, IdsNameJobs, IdsAreOld, Ids, cron, table
  <2>3. CASE ~(Len(s_jobs) >= MAX_JOBS)
    <3> DEFINE new == [id |-> s_next_id, plan |-> plan, last_fire |-> 0]
    <3>1. /\ s_jobs' = Append(s_jobs, new) /\ s_next_id' = s_next_id + 1
          /\ removed' = removed /\ s_next_id \in 1 .. MaxId
      BY <2>1, <2>3, CronAssumption DEF CronAdd, CronInv, TypeOK
    <3>2. new \in Jobs /\ new.id = s_next_id
      BY <3>1, CronAssumption DEF Jobs
    <3> HIDE DEF new
    <3>3. /\ s_jobs \in Seq(Jobs) /\ s_jobs' \in Seq(Jobs)
          /\ Len(s_jobs) \in Nat /\ Len(s_jobs') = Len(s_jobs) + 1
          /\ \A k \in 1 .. Len(s_jobs) : s_jobs'[k] = s_jobs[k]
          /\ s_jobs'[Len(s_jobs) + 1] = new
      BY <3>1, <3>2 DEF CronInv, TypeOK
    <3>4. TypeOK'
      BY <1>1, <2>3, <3>1, <3>3, CronAssumption DEF CronInv, TypeOK, cron
    <3>5. \A k \in 1 .. Len(s_jobs) :
            s_jobs[k].id < s_next_id /\ s_jobs[k].id \notin removed
                /\ s_jobs[k].id \in Nat
      <4>1. \A k \in 1 .. Len(s_jobs) : s_jobs[k].id \in Nat
        <5>1. \A k \in 1 .. Len(s_jobs) : s_jobs[k] \in Jobs
          BY <3>3
        <5>2. QED
          BY <5>1 DEF Jobs
      <4>2. \A k \in 1 .. Len(s_jobs) : s_jobs[k].id \in Ids
        BY DEF Ids
      <4>3. QED
        BY <4>1, <4>2 DEF CronInv, IdsAreOld, IdsNameJobs
    <3>6. \A k \in 1 .. Len(s_jobs') :
            \/ k \in 1 .. Len(s_jobs) /\ s_jobs'[k] = s_jobs[k]
            \/ k = Len(s_jobs) + 1 /\ s_jobs'[k] = new
      BY <3>3
    <3>7. s_next_id \notin removed
      BY <3>1 DEF CronInv, IdsAreOld
    <3>8. IdsNameJobs'
      BY <3>1, <3>2, <3>5, <3>6, <3>7 DEF CronInv, IdsNameJobs, Ids
    <3>9. IdsAreOld'
      BY <3>1, <3>2, <3>5, <3>6 DEF CronInv, IdsAreOld, TypeOK
    <3>10. QED
      BY <1>2, <3>4, <3>8, <3>9 DEF CronInv
  <2>4. QED
    BY <2>2, <2>3
<1>4. CASE \E id \in 1 .. MaxId : CronRemove(id)
  <2>1. PICK id \in 1 .. MaxId : CronRemove(id)
    BY <1>4
  <2>2. CASE id \in Ids
    <3>1. PICK k \in 1 .. Len(s_jobs) :
            s_jobs[k].id = id /\ s_jobs' = SwapRemove(s_jobs, k)
      BY <2>1, <2>2 DEF CronRemove
    <3>2. removed' = removed \cup {id} /\ s_next_id' = s_next_id
      BY <2>1, <2>2 DEF CronRemove
    <3>3. /\ IdsNameJobs' /\ IdsAreOld' /\ s_jobs' \in Seq(Jobs)
          /\ Len(s_jobs') = Len(s_jobs) - 1
      BY <3>1, <3>2, RemovalKeepsIds
    <3>4. TypeOK'
      <4>1. removed' \subseteq 1 .. MaxId /\ Len(s_jobs) \in Nat /\ MAX_JOBS \in Nat
        BY <3>2, CronAssumption DEF CronInv, TypeOK
      <4>2. QED
        BY <1>1, <3>2, <3>3, <4>1 DEF CronInv, TypeOK, cron
    <3>5. QED
      BY <1>2, <3>3, <3>4 DEF CronInv
  <2>3. CASE id \notin Ids
    BY <1>1, <1>2, <2>1, <2>3
       DEF CronRemove, CronInv, TypeOK, IdsNameJobs, IdsAreOld, Ids, cron
  <2>4. QED
    BY <2>2, <2>3
<1>5. CASE CronList
  BY <1>1, <1>2, <1>5
     DEF CronList, CronInv, TypeOK, IdsNameJobs, IdsAreOld, Ids, cron, table
<1>6. QED
  BY <1>3, <1>4, <1>5 DEF Tool

\* The clock, main and the agent's other steps do not touch the table or the scan.
LEMMA OthersKeepInv ==
    ASSUME CronInv, Tick \/ Stop \/ UserMessage \/ AgentPop \/ AgentCalls \/ AgentDone
    PROVE  CronInv'
<1>1. UNCHANGED <<table, cron, removed>>
  BY DEF Tick, Stop, UserMessage, AgentPop, AgentCalls, AgentDone, agent
<1>2. IdsNameJobs' /\ ScanMissesNothing' /\ IdsAreOld' /\ PushHasJob'
  BY <1>1 DEF CronInv, IdsNameJobs, ScanMissesNothing, IdsAreOld, PushHasJob, Ids,
              MutexFree, Due, JobAt, table, cron
<1>3. inbound' \in Seq(0 .. MaxId) /\ Len(inbound') <= QUEUE_LEN
  <2>1. inbound \in Seq(0 .. MaxId) /\ Len(inbound) \in Nat /\ Len(inbound) <= QUEUE_LEN
    BY DEF CronInv, TypeOK
  <2>2. CASE UserMessage
    BY <2>1, <2>2, CronAssumption DEF UserMessage, Chat
  <2>3. CASE AgentPop
    BY <2>1, <2>3, CronAssumption DEF AgentPop
  <2>4. CASE UNCHANGED inbound
    BY <2>1, <2>4
  <2>5. QED
    BY <2>2, <2>3, <2>4 DEF Tick, Stop, AgentCalls, AgentDone
<1>4. /\ clock \in Nat /\ clock' \in clock .. MaxTime
      /\ s_running' \in BOOLEAN /\ apc' \in {"idle", "busy", "tool"}
  <2>1. clock' \in clock .. MaxTime
    BY CronAssumption
       DEF CronInv, TypeOK, Tick, Stop, UserMessage, AgentPop, AgentCalls, AgentDone
  <2>2. clock \in Nat
    BY CronAssumption DEF CronInv, TypeOK
  <2>3. s_running' \in BOOLEAN
    BY DEF CronInv, TypeOK, Tick, Stop, UserMessage, AgentPop, AgentCalls, AgentDone
  <2>4. apc' \in {"idle", "busy", "tool"}
    BY DEF CronInv, TypeOK, Tick, Stop, UserMessage, AgentPop, AgentCalls, AgentDone, agent
  <2>5. QED
    BY <2>1, <2>2, <2>3, <2>4
<1>5. TypeOK'
  BY <1>1, <1>3, <1>4 DEF CronInv, TypeOK, MutexFree, table, cron
<1>6. QED
  BY <1>2, <1>5 DEF CronInv

LEMMA NextInv == CronInv /\ [Next]_vars => CronInv'
<1> SUFFICES ASSUME CronInv, [Next]_vars PROVE CronInv'
  OBVIOUS
<1>1. CASE CronThread
  BY <1>1, LookingKeepsInv, FireKeepsInv, PushEndKeepsInv DEF CronThread
<1>2. CASE Tool
  BY <1>2, ToolKeepsInv
<1>3. CASE Tick \/ Stop \/ UserMessage \/ AgentPop \/ AgentCalls \/ AgentDone
  BY <1>3, OthersKeepInv
<1>4. CASE UNCHANGED vars
  BY <1>4 DEF CronInv, TypeOK, IdsNameJobs, ScanMissesNothing, IdsAreOld, PushHasJob,
              Ids, MutexFree, Due, JobAt, vars, table, cron, agent
<1>5. QED
  BY <1>1, <1>2, <1>3, <1>4 DEF Next

\* The inductive invariant holds always.
THEOREM CronInvariant == Spec => []CronInv
BY InitInv, NextInv, PTL DEF Spec

\* For any table and any plans: the types, among them that the job count never leaves the
\* table and the scan's index never leaves the jobs (cron_service.c).
THEOREM CronTypeCorrect == Spec => []TypeOK
<1>1. CronInv => TypeOK
  BY DEF CronInv
<1>2. QED
  BY <1>1, CronInvariant, PTL

\* Ids keep naming one job each, whatever is added, fired and removed.
THEOREM CronIdsNameJobs == Spec => []IdsNameJobs
<1>1. CronInv => IdsNameJobs
  BY DEF CronInv
<1>2. QED
  BY <1>1, CronInvariant, PTL

\* A scan passes over no job that is due, for any table and any plans.
THEOREM CronScanMissesNothing == Spec => []ScanMissesNothing
<1>1. CronInv => ScanMissesNothing
  BY DEF CronInv
<1>2. QED
  BY <1>1, CronInvariant, PTL

\* A job that a tool has reported as removed is not pushed any more: a job pushed
\* is in the table, and the table holds no removed one.
THEOREM CronNeverAfterRemoval == Spec => NeverAfterRemoval
<1>1. CronInv /\ [Next]_vars
        => [Len(inbound') > Len(inbound) => inbound'[Len(inbound')] \notin removed]_vars
  <2> SUFFICES ASSUME CronInv, Next, Len(inbound') > Len(inbound)
               PROVE  inbound'[Len(inbound')] \notin removed
    BY DEF vars
  <2>1. inbound \in Seq(0 .. MaxId) /\ Len(inbound) \in Nat
    BY DEF CronInv, TypeOK
  <2>2. CASE PushAccepted
    <3>1. i \in 1 .. Len(s_jobs) /\ inbound' = Append(inbound, JobAt.id)
      BY <2>2 DEF PushAccepted, CronInv, PushHasJob
    <3>2. JobAt.id \notin removed
      BY <3>1 DEF CronInv, IdsNameJobs, Ids, JobAt
    <3>3. inbound'[Len(inbound')] = JobAt.id
      BY <2>1, <3>1
    <3>4. QED
      BY <3>2, <3>3
  <2>3. CASE UserMessage
    <3>1. inbound'[Len(inbound')] = Chat
      BY <2>1, <2>3 DEF UserMessage
    <3>2. Chat \notin removed
      BY CronAssumption DEF CronInv, TypeOK, Chat
    <3>3. QED
      BY <3>1, <3>2
  <2>4. CASE AgentPop
    <3>1. Len(inbound') < Len(inbound)
      BY <2>1, <2>4 DEF AgentPop
    <3>2. QED
      BY <2>1, <2>4, <3>1 DEF AgentPop
  <2>5. CASE UNCHANGED inbound
    BY <2>1, <2>5
  <2>6. QED
    BY <2>2, <2>3, <2>4, <2>5
       DEF Next, CronThread, Tool, Look, Lock, SkipJob, FireJob, PushRefused, EndScan,
           Wake, Tick, Stop, AgentCalls, AgentDone, CronAdd, CronRemove, CronList, InTool
<1>2. QED
  BY <1>1, CronInvariant, PTL DEF Spec, NeverAfterRemoval

-------------------------------------------------------------------------------
\* The table as the set of its jobs.
Table == {s_jobs[k] : k \in 1 .. Len(s_jobs)}

\* No set of jobs of a table is larger than the table.
LEMMA TableSize ==
    ASSUME CronInv
    PROVE  Cardinality(Table) <= Len(s_jobs) /\ Cardinality(Table) \in Nat
<1>1. Len(s_jobs) \in Nat
  BY DEF CronInv, TypeOK
<1> DEFINE f == [k \in 1 .. Len(s_jobs) |-> s_jobs[k]]
<1>2. f \in Surjection(1 .. Len(s_jobs), Table)
  BY DEF Surjection, Table
<1>3. IsFiniteSet(1 .. Len(s_jobs)) /\ Cardinality(1 .. Len(s_jobs)) = Len(s_jobs)
  <2>1. 1 \in Int /\ Len(s_jobs) \in Int
    BY <1>1
  <2>2. /\ IsFiniteSet(1 .. Len(s_jobs))
        /\ Cardinality(1 .. Len(s_jobs))
             = IF 1 > Len(s_jobs) THEN 0 ELSE Len(s_jobs) - 1 + 1
    BY <2>1, FS_Interval
  <2>3. QED
    BY <1>1, <2>2
<1> HIDE DEF f
<1>4. IsFiniteSet(Table) /\ Cardinality(Table) <= Cardinality(1 .. Len(s_jobs))
  BY <1>2, <1>3, FS_Surjection
<1>5. QED
  BY <1>3, <1>4, FS_CardinalityType

\* As a set, a removal by swapping takes out the job and nothing else.
LEMMA RemovalIsRemoval ==
    ASSUME CronInv, NEW k \in 1 .. Len(s_jobs), s_jobs' = SwapRemove(s_jobs, k)
    PROVE  Table' = Table \ {s_jobs[k]}
<1>1. /\ Len(s_jobs') = Len(s_jobs) - 1 /\ Len(s_jobs) \in Nat
      /\ \A n \in 1 .. Len(s_jobs) - 1 :
           s_jobs'[n] = IF n = k THEN s_jobs[Len(s_jobs)] ELSE s_jobs[n]
  <2>1. s_jobs \in Seq(Jobs) /\ Len(s_jobs) \in Nat
    BY DEF CronInv, TypeOK
  <2>2. QED
    BY <2>1, SwapRemoveFacts
<1>2. \A a, b \in 1 .. Len(s_jobs) : s_jobs[a] = s_jobs[b] => a = b
  BY DEF CronInv, IdsNameJobs
<1>3. ASSUME NEW n \in 1 .. Len(s_jobs')
      PROVE  s_jobs'[n] \in Table \ {s_jobs[k]}
  <2>1. n \in 1 .. Len(s_jobs) /\ n # Len(s_jobs)
    BY <1>1
  <2>2. CASE n = k
    <3>1. Len(s_jobs) \in 1 .. Len(s_jobs) /\ s_jobs'[n] = s_jobs[Len(s_jobs)]
      BY <1>1, <2>1, <2>2
    <3>2. QED
      BY <1>2, <2>1, <2>2, <3>1 DEF Table
  <2>3. CASE n # k
    BY <1>1, <1>2, <2>1, <2>3 DEF Table
  <2>4. QED
    BY <2>2, <2>3
<1>4. ASSUME NEW n \in 1 .. Len(s_jobs), n # k
      PROVE  s_jobs[n] \in Table'
  <2>1. CASE n = Len(s_jobs)
    <3>1. k \in 1 .. Len(s_jobs') /\ s_jobs'[k] = s_jobs[n]
      BY <1>1, <1>4, <2>1
    <3>2. QED
      BY <3>1 DEF Table
  <2>2. CASE n # Len(s_jobs)
    <3>1. n \in 1 .. Len(s_jobs') /\ s_jobs'[n] = s_jobs[n]
      BY <1>1, <1>4, <2>2
    <3>2. QED
      BY <3>1 DEF Table
  <2>3. QED
    BY <2>1, <2>2
<1>5. QED
  BY <1>3, <1>4 DEF Table

\* A scan works with a time that has been read.
NowRead == cpc \in {"lock", "scan", "push"} => now # 0

LEMMA NowIsRead == Spec => []NowRead
<1>1. Init => NowRead
  BY DEF Init, NowRead
<1>2. CronInv /\ NowRead /\ [Next]_vars => NowRead'
  <2> SUFFICES ASSUME CronInv, NowRead, [Next]_vars PROVE NowRead'
    OBVIOUS
  <2>1. CASE Look
    BY <2>1 DEF Look, NowRead, CronInv, TypeOK
  <2>2. CASE Lock \/ SkipJob \/ FireJob \/ PushAccepted \/ PushRefused \/ EndScan \/ Wake
    BY <2>2 DEF Lock, SkipJob, FireJob, PushAccepted, PushRefused, Advance, EndScan, Wake,
                NowRead
  <2>3. CASE Tool \/ Tick \/ Stop \/ UserMessage \/ AgentPop \/ AgentCalls \/ AgentDone
    BY <2>3 DEF Tool, CronAdd, CronRemove, CronList, InTool, Tick, Stop, UserMessage,
                AgentPop, AgentCalls, AgentDone, NowRead, cron
  <2>4. CASE UNCHANGED vars
    BY <2>4 DEF vars, cron, NowRead
  <2>5. QED
    BY <2>1, <2>2, <2>3, <2>4 DEF Next, CronThread
<1>3. QED
  BY <1>1, <1>2, CronInvariant, PTL DEF Spec

\* Outside a push the schedule is the whole table; in one, a one-shot job is gone.
LEMMA ScheduledIs ==
    /\ cpc # "push" \/ JobAt.plan.type # "at" => Scheduled = Table
    /\ cpc = "push" /\ JobAt.plan.type = "at" => Scheduled = Table \ {JobAt}
BY DEF Scheduled, Table

\* A firing is the schedule's firing, at the time the scan read.
LEMMA FireImplements ==
    ASSUME CronInv, NowRead, FireJob
    PROVE  \E job \in Scheduled : Promise!FireEvery(job) \/ Promise!FireAt(job)
<1> USE DEF FireJob
<1>1. /\ i \in 1 .. Len(s_jobs) /\ s_jobs \in Seq(Jobs) /\ Len(s_jobs) \in Nat
      /\ now \in 1 .. clock /\ clock \in Nat /\ s_jobs[i] \in Jobs
  BY CronAssumption DEF CronInv, TypeOK, MutexFree, NowRead
<1>2. Scheduled = Table /\ JobAt \in Table /\ JobAt = s_jobs[i]
  BY <1>1, ScheduledIs DEF Table, JobAt
<1>3. CASE JobAt.plan.type = "every"
  <2> DEFINE fired == [JobAt EXCEPT !.last_fire = now]
  <2>1. s_jobs' = [s_jobs EXCEPT ![i] = fired]
    BY <1>2, <1>3
  <2>2. fired.plan = JobAt.plan
    BY <1>1, <1>2 DEF Jobs
  <2>3. JobAt.last_fire = 0 \/ now - JobAt.last_fire >= JobAt.plan.at
    BY <1>3 DEF Due
  <2> HIDE DEF fired
  <2>4. /\ Len(s_jobs') = Len(s_jobs) /\ s_jobs'[i] = fired
        /\ \A k \in 1 .. Len(s_jobs) : k # i => s_jobs'[k] = s_jobs[k]
    BY <1>1, <2>1
  <2>5. \A k \in 1 .. Len(s_jobs) : k # i => s_jobs[k] # s_jobs[i]
    BY <1>1 DEF CronInv, IdsNameJobs
  <2>6. Table' = (Table \ {JobAt}) \cup {fired}
    BY <1>1, <1>2, <2>4, <2>5 DEF Table
  <2>7. JobAt'.plan.type = "every"
    BY <1>3, <2>2, <2>4 DEF JobAt
  <2>8. Scheduled' = Table'
    BY <2>7 DEF Scheduled, Table
  <2>9. Promise!FireEvery(JobAt)
    BY <1>1, <1>2, <1>3, <2>3, <2>6, <2>8 DEF Promise!FireEvery, fired
  <2>10. QED
    BY <1>2, <2>9
<1>4. CASE JobAt.plan.type = "at"
  <2>1. s_jobs' = s_jobs /\ i' = i /\ cpc' = "push"
    BY <1>4
  <2>2. Scheduled' = Table \ {JobAt}
    BY <1>4, <2>1 DEF Scheduled, Table, JobAt
  <2>3. JobAt.plan.at \in Nat /\ now >= JobAt.plan.at
    BY <1>1, <1>2, <1>4, CronAssumption DEF Due, Jobs, Plans
  <2>4. Promise!FireAt(JobAt)
    BY <1>1, <1>2, <1>4, <2>2, <2>3 DEF Promise!FireAt
  <2>5. QED
    BY <1>2, <2>4
<1>5. JobAt.plan.type \in {"every", "at"}
  BY <1>1, <1>2 DEF Jobs, Plans
<1>6. QED
  BY <1>3, <1>4, <1>5

\* The end of a push is not seen: a one-shot job is already out of the schedule.
LEMMA PushEndStutters ==
    ASSUME CronInv, PushAccepted \/ PushRefused
    PROVE  UNCHANGED <<Scheduled, s_next_id, clock, firing>>
<1>1. /\ cpc = "push" /\ i \in 1 .. Len(s_jobs) /\ JobAt = s_jobs[i] /\ Advance
      /\ UNCHANGED <<s_next_id, clock, firing>> /\ cpc' = "scan"
  BY DEF PushAccepted, PushRefused, Advance, CronInv, PushHasJob, JobAt
<1>2. CASE JobAt.plan.type = "at"
  <2>1. Table' = Table \ {s_jobs[i]}
    BY <1>1, <1>2, RemovalIsRemoval DEF Advance
  <2>2. Scheduled' = Table'
    BY <1>1 DEF Scheduled, Table
  <2>3. QED
    BY <1>1, <1>2, <2>1, <2>2, ScheduledIs
<1>3. CASE JobAt.plan.type # "at"
  <2>1. s_jobs' = s_jobs
    BY <1>1, <1>3 DEF Advance
  <2>2. QED
    BY <1>1, <1>3, <2>1 DEF Scheduled
<1>4. QED
  BY <1>2, <1>3

\* The agent's tools are the schedule's operations; they run between two scans.
LEMMA ToolImplements ==
    ASSUME CronInv, Tool
    PROVE  [Promise!ScheduleNext]_(Promise!scheduleVars)
<1>1. /\ MutexFree /\ cpc' = cpc /\ UNCHANGED <<clock, firing>>
      /\ cpc # "push" /\ Scheduled = Table /\ Scheduled' = Table'
  <2>1. MutexFree /\ UNCHANGED <<cron, clock>>
    BY DEF Tool, CronAdd, CronRemove, CronList, InTool
  <2>2. cpc # "push" /\ cpc' # "push"
    BY <2>1 DEF MutexFree, cron
  <2>3. QED
    BY <2>1, <2>2 DEF cron, Scheduled, Table
<1>2. ASSUME NEW plan \in Plans, CronAdd(plan)
      PROVE  Promise!Add(plan) \/ UNCHANGED table
  <2>1. CASE Len(s_jobs) >= MAX_JOBS
    BY <1>2, <2>1 DEF CronAdd
  <2>2. CASE ~(Len(s_jobs) >= MAX_JOBS)
    <3> DEFINE new == [id |-> s_next_id, plan |-> plan, last_fire |-> 0]
    <3>1. s_jobs' = Append(s_jobs, new) /\ s_next_id' = s_next_id + 1
      BY <1>2, <2>2 DEF CronAdd
    <3>2. Cardinality(Table) < MAX_JOBS
      BY <2>2, TableSize, CronAssumption DEF CronInv, TypeOK
    <3> HIDE DEF new
    <3>3. /\ Len(s_jobs) \in Nat /\ Len(s_jobs') = Len(s_jobs) + 1
          /\ s_jobs'[Len(s_jobs) + 1] = new
          /\ \A k \in 1 .. Len(s_jobs) : s_jobs'[k] = s_jobs[k]
      BY <3>1 DEF CronInv, TypeOK
    <3>4. Table' = Table \cup {new}
      BY <3>3 DEF Table
    <3>5. /\ Cardinality(Scheduled) < MAX_JOBS
          /\ Scheduled' = Scheduled \cup {new}
          /\ s_next_id' = s_next_id + 1 /\ clock' = clock /\ firing' = firing
      BY <1>1, <3>1, <3>2, <3>4
    <3>6. Promise!Cardinality(Scheduled) = Cardinality(Scheduled)
      BY DEF Promise!Cardinality, Cardinality
    <3>7. QED
      BY <3>5, <3>6 DEF Promise!Add, new
  <2>3. QED
    BY <2>1, <2>2
<1>3. ASSUME NEW id \in 1 .. MaxId, CronRemove(id)
      PROVE  (\E job \in Scheduled : Promise!Remove(job)) \/ UNCHANGED table
  <2>1. CASE id \in Ids
    <3>1. PICK k \in 1 .. Len(s_jobs) : s_jobs' = SwapRemove(s_jobs, k)
      BY <1>3, <2>1 DEF CronRemove
    <3>2. Table' = Table \ {s_jobs[k]} /\ s_jobs[k] \in Table
      BY <3>1, RemovalIsRemoval DEF Table
    <3>3. s_next_id' = s_next_id
      BY <1>3 DEF CronRemove
    <3>4. Promise!Remove(s_jobs[k])
      BY <1>1, <3>2, <3>3 DEF Promise!Remove
    <3>5. QED
      BY <1>1, <3>2, <3>4
  <2>2. CASE id \notin Ids
    BY <1>3, <2>2 DEF CronRemove, table
  <2>3. QED
    BY <2>1, <2>2
<1>4. UNCHANGED table => UNCHANGED Promise!scheduleVars
  BY <1>1 DEF table, Table, Promise!scheduleVars
<1>5. QED
  BY <1>2, <1>3, <1>4 DEF Tool, CronList, Promise!ScheduleNext

\* Every step of the service is a step of the schedule or is not seen.
LEMMA StepImplements ==
    CronInv /\ NowRead /\ [Next]_vars => [Promise!ScheduleNext]_(Promise!scheduleVars)
<1> SUFFICES ASSUME CronInv, NowRead, [Next]_vars
             PROVE  [Promise!ScheduleNext]_(Promise!scheduleVars)
  OBVIOUS
<1>1. CASE FireJob
  BY <1>1, FireImplements DEF Promise!ScheduleNext
<1>2. CASE PushAccepted \/ PushRefused
  BY <1>2, PushEndStutters DEF Promise!scheduleVars
<1>3. CASE Tool
  BY <1>3, ToolImplements
<1>4. CASE Tick
  <2>1. UNCHANGED <<s_jobs, s_next_id, cpc, i, firing>> /\ clock' > clock
    BY <1>4, CronAssumption DEF Tick, table, cron, CronInv, TypeOK
  <2>2. Scheduled' = Scheduled
    BY <2>1 DEF Scheduled, JobAt
  <2>3. QED
    BY <2>1, <2>2 DEF Promise!Pass, Promise!ScheduleNext
<1>5. CASE Look \/ Lock \/ SkipJob \/ EndScan \/ Wake
  <2>1. cpc # "push" /\ cpc' # "push" /\ UNCHANGED <<s_jobs, s_next_id, clock, firing>>
    BY <1>5 DEF Look, Lock, SkipJob, EndScan, Wake, table
  <2>2. QED
    BY <2>1 DEF Scheduled, Promise!scheduleVars
<1>6. CASE Stop \/ UserMessage \/ AgentPop \/ AgentCalls \/ AgentDone \/ UNCHANGED vars
  <2>1. UNCHANGED <<s_jobs, s_next_id, cpc, i, clock, firing>>
    BY <1>6 DEF Stop, UserMessage, AgentPop, AgentCalls, AgentDone, vars, table, cron
  <2>2. QED
    BY <2>1 DEF Scheduled, JobAt, Promise!scheduleVars
<1>7. QED
  BY <1>1, <1>2, <1>3, <1>4, <1>5, <1>6 DEF Next, CronThread

LEMMA InitImplements == Init => Promise!ScheduleInit
BY DEF Init, Promise!ScheduleInit, Scheduled

\* Scans, swaps and the waits with the mutex held do what Schedule promises the
\* tools: a job fires no earlier than planned, a one-shot job once, a removed one no
\* more, and no id is given twice, for any table, queue and plans.
THEOREM CronImplementsSchedule == Spec => ImplementsSchedule
<1>1. QED
  BY CronInvariant, NowIsRead, InitImplements, StepImplements, PTL
  DEF Spec, ImplementsSchedule, Promise!ScheduleSpec
==============================================================================
