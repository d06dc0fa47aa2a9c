---------------------------- MODULE LineageProofs ----------------------------
(* The attempts of a task, one after the other: where each takes the task up, *)
(* in which window, and not before which instant.                             *)
EXTENDS CallsProofs

-----------------------------------------------------------------------------
(* Where rows come from. *)

(* A row is inserted by a claim, and only there.                              *)
LEMMA RunsGrow ==
  ASSUME ServerInv, [ServerNext]_runnerVars, NEW r \in DOMAIN runs', r \notin DOMAIN runs
  PROVE  \E p \in Procs : Claims(p)
<1>1. runs \in Seq(RunRow(GrantRow, WorkRow))
  BY DatabaseFacts DEF ServerInv
<1>2. ~UNCHANGED runs
  OBVIOUS
<1>3. ASSUME NEW p \in Procs, Publishes(p) \/ Renews(p) \/ Ends(p) PROVE FALSE
  <2>1. PICK q, row : runs' = [runs EXCEPT ![q] = row]
    <3>1. CASE Publishes(p)
      BY <3>1 DEF Publishes, UpdateProgress
    <3>2. CASE Renews(p)
      BY <3>2 DEF Renews, RenewLease
    <3>3. CASE Ends(p)
      <4>1. PICK params : Finish(params)
        BY <3>3 DEF Ends
      <4> QED BY <4>1, Zenon DEF Finish
    <3> QED BY <1>3, <3>1, <3>2, <3>3
  <2> QED BY <1>1, <2>1
<1>4. ASSUME NEW p \in Procs, CallOf(p) PROVE Claims(p)
  BY <1>2, <1>3, <1>4 DEF CallOf, Schedules, ReadUnscheduled, InitializeUnscheduled
<1>5. ~AddTask /\ ~Tick /\ ~UNCHANGED <<dbVars, plans>>
  BY <1>2 DEF AddTask, Create, Tick, dbVars
<1>6. \A lost : ~Dies(lost)
  BY <1>2 DEF Dies
<1> QED BY <1>4, <1>5, <1>6, StepCalls

(* The row a claim inserts is the last one; the others stay.                  *)
LEMMA ClaimedRow ==
  ASSUME ServerInv, NEW auth, NEW q, StartOwnedAttempt(auth, q, Len(runs) + 1)
  PROVE  LET new == Len(runs) + 1
         IN /\ new \notin DOMAIN runs /\ DOMAIN runs' = DOMAIN runs \cup {new}
            /\ \A r \in DOMAIN runs : r < new /\ runs'[r] = runs[r]
            /\ runs'[new].task = q.task /\ runs'[new].grant = q.grant
            /\ runs'[new].startedAt = q.startedAt /\ runs'[new].status = "running"
            /\ runs'[new].exit = "" /\ runs'[new].work = NoWork
            /\ runs'[new].lease = q.startedAt + Lease
<1>1. PICK n : n = Len(runs)
  OBVIOUS
<1>2. runs \in Seq(RunRow(GrantRow, WorkRow)) /\ n \in Nat /\ DOMAIN runs = 1 .. n
  BY <1>1, DatabaseFacts DEF ServerInv
<1> DEFINE row == [task |-> q.task, grant |-> q.grant, status |-> "running", exit |-> "",
                   tokens |-> 0, work |-> NoWork, startedAt |-> q.startedAt,
                   finishedAt |-> NoTime, owner |-> Len(runs) + 1,
                   lease |-> q.startedAt + Lease]
<1>3. /\ row.task = q.task /\ row.grant = q.grant
      /\ row.startedAt = q.startedAt /\ row.status = "running"
      /\ row.exit = "" /\ row.work = NoWork /\ row.lease = q.startedAt + Lease
  OBVIOUS
<1>4. /\ DOMAIN runs' = 1 .. (n + 1) /\ runs'[n + 1] = row
      /\ \A r \in 1 .. n : runs'[r] = runs[r]
  <2>1. runs' = Append(runs, row)
    BY Zenon DEF StartOwnedAttempt
  <2> HIDE DEF row
  <2> QED BY <1>1, <1>2, <2>1
<1> HIDE DEF row
<1>5. /\ n + 1 \notin 1 .. n /\ 1 .. (n + 1) = 1 .. n \cup {n + 1}
      /\ \A r \in 1 .. n : r < n + 1
  BY <1>2
<1> QED BY <1>1, <1>2, <1>3, <1>4, <1>5

(* An attempt that was resumed has ended.                                     *)
LEMMA ResumedHasEnded ==
  ASSUME DatabaseOK, NEW r1 \in DOMAIN runs, NEW r2 \in DOMAIN runs, Resumes(r2, r1)
  PROVE  runs[r1].status # "running"
<1>1. r1 \in RunsOf(runs[r1].task) /\ r2 \in RunsOf(runs[r1].task)
  BY DEF RunsOf, Resumes
<1>2. runs[r1].task \in DOMAIN tasks /\ r1 \in Nat /\ r2 \in Nat /\ r1 # 0 /\ r1 < r2
  BY DatabaseFacts DEF Resumes
<1>3. RunningIsLatest
  BY DEF DatabaseOK, StoreInvOver, OneRunningAttempt
<1>4. IsLatestRun(runs[r1].task, r1) => r2 <= r1
  BY <1>1, <1>2 DEF IsLatestRun
<1> QED BY <1>1, <1>2, <1>3, <1>4 DEF RunningIsLatest

(* Later attempts do not come between two that are there.                     *)
LEMMA ResumesStays ==
  ASSUME DatabaseOK, Steady, NEW r1 \in DOMAIN runs, NEW r2 \in DOMAIN runs, Resumes(r2, r1)'
  PROVE  Resumes(r2, r1)
<1>1. \A r \in DOMAIN runs : r \in DOMAIN runs' /\ runs'[r].task = runs[r].task
  BY DEF Steady
<1>2. RunsOf(runs[r1].task) \subseteq RunsOf(runs[r1].task)'
  BY <1>1 DEF RunsOf
<1> QED BY <1>1, <1>2 DEF Resumes

(* The attempt that a new one resumes is the one its process prepared its     *)
(* session from: the compare of the claim leaves room for no other.           *)
LEMMA NewResumesCandidate ==
  ASSUME ServerInv, NEW p \in Procs, NEW auth, NEW at \in proc[p].since .. now,
         proc[p].pc = "claim",
         StartOwnedAttempt(auth, ClaimParams(p, at), Len(runs) + 1),
         NEW r1 \in DOMAIN runs, NEW new, new = Len(runs) + 1, Resumes(new, r1)'
  PROVE  /\ r1 = proc[p].cand /\ runs[r1].task = proc[p].task
         /\ runs[r1].status # "running" /\ proc[p].sess = Prepared(r1)
         /\ proc[p].kind # "execute" /\ IsLatestRun(proc[p].task, r1)
<1>1. PICK q : q = ClaimParams(p, at)
  OBVIOUS
<1>3. q.task = proc[p].task /\ q.run = proc[p].cand /\ Claiming(proc[p])
  BY <1>1, ClaimFacts
<1>4. /\ DOMAIN runs' = DOMAIN runs \cup {new} /\ runs'[new].task = q.task
      /\ \A r \in DOMAIN runs : r < new /\ runs'[r] = runs[r]
  BY <1>1, ClaimedRow
<1>5. /\ runs[r1].task = q.task
      /\ \A r \in RunsOf(q.task) : r <= r1 \/ r >= new
  BY <1>4 DEF Resumes, RunsOf
<1>6. IsLatestRun(q.task, q.run)
  BY <1>1 DEF StartOwnedAttempt, Claimable
<1>7. r1 \in RunsOf(q.task)
  BY <1>5 DEF RunsOf
<1>8. q.run \in RunsOf(q.task) /\ r1 <= q.run /\ q.run # 0
  BY <1>6, <1>7 DEF IsLatestRun
<1>9. q.run < new /\ q.run \in Nat /\ r1 \in Nat /\ new \in Nat
  BY <1>4, <1>8, DatabaseFacts DEF RunsOf, ServerInv
<1>10. q.run = r1
  BY <1>5, <1>8, <1>9
<1>11. proc[p].kind # "execute"
  BY <1>3, <1>8 DEF Claiming
<1> QED BY <1>3, <1>6, <1>10, <1>11 DEF Claiming

-----------------------------------------------------------------------------
(* Where an attempt takes its task up, and in which window. *)

(* The grant of an attempt that resumes another is what the checkpoint of the *)
(* other says.                                                                *)
Lineage ==
  \A r1, r2 \in DOMAIN runs : Resumes(r2, r1) =>
    /\ runs[r2].grant.session = runs[r1].grant.session
    /\ runs[r2].grant.startStep = SessionOf(r1).next
    /\ runs[r2].grant.budget = IF runs[r1].exit = "interrupted"
                                 THEN SessionOf(r1).remaining
                                 ELSE SessionOf(r1).plan.budget

LEMMA LineageStep ==
  ASSUME ServerInv, Lineage, [ServerNext]_runnerVars
  PROVE  Lineage'
<1>1. Steady /\ DatabaseOK
  BY StepIsSteady DEF ServerInv
<1> SUFFICES ASSUME NEW r1 \in DOMAIN runs', NEW r2 \in DOMAIN runs', Resumes(r2, r1)'
             PROVE  /\ runs'[r2].grant.session = runs'[r1].grant.session
                    /\ runs'[r2].grant.startStep = SessionOf(r1)'.next
                    /\ runs'[r2].grant.budget = IF runs'[r1].exit = "interrupted"
                                                  THEN SessionOf(r1)'.remaining
                                                  ELSE SessionOf(r1)'.plan.budget
  BY DEF Lineage
<1>2. CASE r1 \in DOMAIN runs /\ r2 \in DOMAIN runs
  <2>1. Resumes(r2, r1)
    BY <1>1, <1>2, ResumesStays
  <2>2. runs'[r1] = runs[r1] /\ runs'[r2].grant = runs[r2].grant
    BY <1>1, <1>2, <2>1, ResumedHasEnded DEF Steady
  <2> QED BY <1>2, <2>1, <2>2 DEF Lineage, SessionOf
<1>3. CASE r1 \notin DOMAIN runs \/ r2 \notin DOMAIN runs
  <2>1. PICK p \in Procs : Claims(p)
    BY <1>3, RunsGrow
  <2>2. PICK auth \in {"owner", "automatic", "interrupted"}, at \in proc[p].since .. now :
          StartOwnedAttempt(auth, ClaimParams(p, at), Len(runs) + 1)
    BY <2>1 DEF Claims
  <2>3. PICK new : new = Len(runs) + 1
    OBVIOUS
  <2>4. /\ DOMAIN runs' = DOMAIN runs \cup {new} /\ new \notin DOMAIN runs
        /\ \A r \in DOMAIN runs : r < new /\ runs'[r] = runs[r]
        /\ runs'[new].grant = ClaimParams(p, at).grant
    BY <2>2, <2>3, ClaimedRow
  <2>5. r1 < r2 /\ new \in Nat /\ \A r \in DOMAIN runs : r \in Nat
    BY <1>1, <2>3, DatabaseFacts DEF Resumes
  <2>6. r1 \in DOMAIN runs /\ r2 = new
    BY <1>3, <2>4, <2>5
  <2>7. /\ runs[r1].status # "running" /\ proc[p].sess = Prepared(r1)
    BY <2>1, <2>2, <2>3, <2>6, NewResumesCandidate DEF Claims
  <2>8. runs'[new].grant = [session |-> proc[p].sess.id, budget |-> proc[p].sess.allowance,
                            startStep |-> proc[p].sess.next]
    BY <2>1, <2>2, <2>4, ClaimFacts DEF Claims
  <2>9. /\ Prepared(r1).id = runs[r1].grant.session
        /\ Prepared(r1).next = SessionOf(r1).next
        /\ Prepared(r1).allowance = IF runs[r1].exit = "interrupted"
                                      THEN SessionOf(r1).remaining
                                      ELSE SessionOf(r1).plan.budget
    BY <1>1, <2>6, <2>7, PreparedFacts
  <2>10. runs'[r1] = runs[r1] /\ SessionOf(r1)' = SessionOf(r1)
    BY <2>4, <2>6 DEF SessionOf
  <2> QED BY <2>6, <2>7, <2>8, <2>9, <2>10
<1> QED BY <1>2, <1>3

(* From the first attempt on.                                                 *)
LEMMA LineageInvariant == NeverUpgraded /\ ServerSpec => [](ServerInv /\ Lineage)
<1>1. NeverUpgraded /\ RunnerInit => Lineage
  <2> SUFFICES ASSUME NeverUpgraded, RunnerInit PROVE DOMAIN runs = {}
    BY DEF Lineage
  <2> QED BY DEF RunnerInit, NewInbox, StoreInit, NeverUpgraded
<1>2. ServerInv /\ Lineage /\ [ServerNext]_runnerVars => Lineage'
  BY LineageStep
<1> QED BY <1>1, <1>2, ServerInvariant, PTL DEF ServerSpec

(* Every attempt takes the task up where the one before left it.              *)
THEOREM ResumesWhereLeftHolds == NeverUpgraded /\ ServerSpec => []ResumesWhereLeft
<1>1. Lineage => ResumesWhereLeft
  BY DEF Lineage, ResumesWhereLeft
<1> QED BY <1>1, LineageInvariant, PTL

(* A provider window is spent once: no attempt overdraws its allowance, and   *)
(* only the rest of a window is passed on to the attempt after it.            *)
THEOREM WindowSpentOnceHolds == NeverUpgraded /\ ServerSpec => []WindowSpentOnce
<1>1. ASSUME ServerInv, Lineage PROVE WindowSpentOnce
  <2>1. ASSUME NEW r \in DOMAIN runs
        PROVE  /\ runs[r].tokens <= runs[r].grant.budget
               /\ runs[r].status # "running" =>
                    SessionOf(r).remaining + runs[r].tokens = runs[r].grant.budget
    <3>1. RowOK(r) /\ runs[r].grant.budget \in Nat
      BY <1>1, RunFacts, DatabaseFacts DEF ServerInv, GrantRow
    <3>2. CASE SessionOf(r) = NoSession
      BY <3>1, <3>2 DEF RowOK
    <3>3. CASE SessionOf(r) # NoSession
      <4>1. PICK s : s = SessionOf(r)
        OBVIOUS
      <4>2. /\ Sound(s) /\ s.allowance = runs[r].grant.budget
            /\ runs[r].tokens = s.used /\ s.used + s.remaining = s.allowance
        BY <3>1, <3>3, <4>1 DEF RowOK, Bound, Sound
      <4>3. s.used \in Nat /\ s.remaining \in Nat
        BY <4>2, SoundFields
      <4> QED BY <3>1, <4>1, <4>2, <4>3
    <3> QED BY <3>2, <3>3
  <2> QED BY <1>1, <2>1 DEF WindowSpentOnce, Lineage
<1> QED BY <1>1, LineageInvariant, PTL

-----------------------------------------------------------------------------
(* When a window may be spent again. *)

(* The end of an attempt in an exhausted window is timed: by the instant the  *)
(* process saw it exhausted and a reset interval, and the task is stopped     *)
(* only if a whole configured window cannot pay for its next step. The end of *)
(* an attempt in an agent error schedules nothing.                            *)
TaskTimed(t, d) ==
  \A r \in RunsOf(t) : IsLatestRun(t, r) /\ tasks[t].status = "failed" =>
    /\ runs[r].exit = "token_budget_exhausted" =>
         /\ tasks[t].cont.at # NoTime
         /\ tasks[t].cont.at >= SessionOf(r).haltedAt + d
    /\ tasks[t].cont.kind = "stopped" => NextCost(SessionOf(r)) > plans[t].budget
    /\ runs[r].exit = "agent_error" => tasks[t].cont = NoContinuation

(* So there is nothing for the scan of unscheduled tasks to find.             *)
TimedBy(d) ==
  /\ \A s \in Scanners : scans[s] = NoScan
  /\ \A t \in DOMAIN tasks : TaskTimed(t, d)

(* Every executor, and every server, is configured with an interval of at     *)
(* least d.                                                                   *)
IntervalsOf(d) == d <= Reset /\ \A s \in Scenarios : d <= s.interval

(* What the end of a bound session decides.                                   *)
LEMMA CompletionIsTimed ==
  ASSUME NEW s, NEW r, Bound(s, r), NEW at \in Nat, NEW reset \in Nat \ {0}
  PROVE  LET cont == Completion(s, runs[r].grant.startStep, at, reset)
         IN /\ OutcomeOf(s) = "token_exhausted" =>
                 s.haltedAt \in Nat /\ cont.at = s.haltedAt + reset
            /\ cont.kind = "stopped" => NextCost(s) > s.plan.budget
            /\ OutcomeOf(s) = "agent_error" => cont = NoContinuation
<1>1. Sound(s) /\ HaltIsTrue(s, r)
  BY DEF Bound
<1>2. /\ s.haltedAt \in Nat \cup {NoTime} /\ s.remaining \in Nat /\ s.used \in Nat
      /\ s.allowance \in Nat /\ s.plan.budget \in Nat /\ s.next \in Nat /\ s.start \in Nat
  BY <1>1, SoundFields
<1>3. PICK progressed : progressed = (s.next > runs[r].grant.startStep)
  OBVIOUS
<1>4. PICK cont : cont = Completion(s, runs[r].grant.startStep, at, reset)
  OBVIOUS
<1>5. PICK policyAt : policyAt = IF OutcomeOf(s) = "token_exhausted" /\ s.haltedAt # NoTime
                                   THEN s.haltedAt ELSE at
  OBVIOUS
<1>6. cont = DecideAttemptCompletion(OutcomeOf(s), policyAt, reset, progressed, s.origin)
  BY <1>3, <1>4, <1>5 DEF Completion
<1>7. CASE OutcomeOf(s) = "token_exhausted"
  <2>1. s.halt = "token_exhausted"
    BY <1>7 DEF OutcomeOf
  <2>2. /\ s.haltedAt \in Nat /\ s.haltedAt # NoTime
        /\ s.start = runs[r].grant.startStep /\ NextCost(s) > s.remaining
    BY <1>1, <1>2, <2>1 DEF HaltIsTrue
  <2>3. reset > 0
    OBVIOUS
  <2>4. cont = IF progressed \/ s.origin # "fresh"
                 THEN ScheduledContinuation(policyAt + reset)
                 ELSE StoppedContinuation(policyAt + reset)
    BY <1>6, <1>7, <2>3, Zenon DEF DecideAttemptCompletion
  <2>5. policyAt = s.haltedAt
    BY <1>5, <1>7, <2>2
  <2>6. cont.at = s.haltedAt + reset
    BY <2>4, <2>5 DEF ScheduledContinuation, StoppedContinuation
  <2>7. cont.kind = "stopped" => ~progressed /\ s.origin = "fresh"
    BY <2>4 DEF ScheduledContinuation, StoppedContinuation
  <2>8. ASSUME ~progressed, s.origin = "fresh" PROVE NextCost(s) > s.plan.budget
    <3>1. s.next = s.start
      <4>1. s.start <= s.next
        BY <1>1 DEF Sound
      <4>2. ~(s.next > s.start)
        BY <1>3, <2>2, <2>8
      <4> QED BY <1>2, <4>1, <4>2
    <3>2. s.used = 0 /\ s.used + s.remaining = s.allowance /\ s.allowance = s.plan.budget
      BY <1>1, <2>8, <3>1 DEF Sound, HaltIsTrue
    <3>3. s.remaining = s.plan.budget
      BY <1>2, <3>2
    <3> QED BY <2>2, <3>3
  <2> QED BY <1>4, <1>7, <2>2, <2>6, <2>7, <2>8
<1>8. CASE OutcomeOf(s) # "token_exhausted"
  <2>1. cont = IF OutcomeOf(s) = "interrupted" THEN ScheduledContinuation(policyAt)
                                               ELSE NoContinuation
    BY <1>6, <1>8, Zenon DEF DecideAttemptCompletion
  <2>2. cont.kind # "stopped"
    BY <2>1 DEF ScheduledContinuation, NoContinuation
  <2> QED BY <1>4, <1>8, <2>1, <2>2
<1> QED BY <1>7, <1>8

(* A run is finished with the interval of the process that finishes it.       *)
LEMMA EndInterval ==
  ASSUME ServerInv, NEW p \in Procs, Ends(p), NEW d \in Nat \ {0}, IntervalsOf(d)
  PROVE  \E at \in Nat, reset \in Nat \ {0} :
           d <= reset /\ Finish(FinishParams(p, at, reset))
<1>1. PICK s \in Scenarios :
        env = [s EXCEPT !.faults = env.faults, !.signals = env.signals,
                        !.outages = env.outages]
  BY DEF ServerInv, EnvTyped
<1>2. env.interval = s.interval /\ env.interval \in Nat /\ Reset \in Nat
  BY <1>1, EnvFields, RunnerAssumption, StoreAssumption DEF Scenario, ServerInv
<1>3. proc[p].since \in Nat /\ now \in Nat
  BY ProcFacts, DatabaseFacts DEF ProcRow, ServerInv
<1>4. d <= ResetOf(p) /\ d <= Reset /\ ResetOf(p) \in Nat /\ d \in Nat /\ d # 0
  BY <1>1, <1>2 DEF ResetOf, IntervalsOf
<1>5. ResetOf(p) # 0 /\ Reset # 0
  BY <1>2, <1>4
<1> QED BY <1>2, <1>3, <1>4, <1>5 DEF Ends

(* An exhausted run has the instant its process saw it exhausted.             *)
LEMMA HaltedAtIsReal ==
  ASSUME DatabaseOK, NEW r \in DOMAIN runs, runs[r].status # "running",
         runs[r].exit = "token_budget_exhausted"
  PROVE  SessionOf(r).haltedAt \in Nat /\ SessionOf(r).haltedAt >= runs[r].startedAt
<1>1. PICK s : s = SessionOf(r)
  OBVIOUS
<1>2. Bound(s, r) /\ runs[r].exit = TerminalState(OutcomeOf(s)).exit
  BY <1>1, RunFacts DEF RowOK
<1>3. s.halt = "token_exhausted"
  BY <1>2 DEF TerminalState, OutcomeOf
<1>4. s.haltedAt \in Nat \cup {NoTime} /\ s.haltedAt # NoTime
      /\ s.haltedAt >= runs[r].startedAt
  BY <1>2, <1>3, SoundFields DEF Bound, HaltIsTrue
<1> QED BY <1>1, <1>4

(* A settled task that no step touches stays timed: its runs are history.     *)
LEMMA TimedStays ==
  ASSUME DatabaseOK, Steady, NEW d \in Nat, NEW t \in DOMAIN tasks, TaskTimed(t, d),
         tasks'[t].status = "failed" => tasks'[t] = tasks[t] /\ RunsOf(t)' = RunsOf(t)
  PROVE  TaskTimed(t, d)'
<1> SUFFICES ASSUME tasks'[t].status = "failed", NEW r \in RunsOf(t)', IsLatestRun(t, r)'
             PROVE  /\ runs'[r].exit = "token_budget_exhausted" =>
                         /\ tasks'[t].cont.at # NoTime
                         /\ tasks'[t].cont.at >= SessionOf(r)'.haltedAt + d
                    /\ tasks'[t].cont.kind = "stopped" =>
                         NextCost(SessionOf(r)') > plans'[t].budget
                    /\ runs'[r].exit = "agent_error" => tasks'[t].cont = NoContinuation
  BY DEF TaskTimed, NextCost
<1>1. tasks'[t] = tasks[t] /\ RunsOf(t)' = RunsOf(t) /\ plans'[t] = plans[t]
  BY DatabaseFacts DEF Steady
<1>2. r \in RunsOf(t) /\ IsLatestRun(t, r) /\ r \in DOMAIN runs
  BY <1>1 DEF IsLatestRun, RunsOf
<1>3. runs[r].status # "running"
  BY <1>1, <1>2 DEF DatabaseOK, StoreInvOver, OneRunningAttempt, InProgressHasRun, RunningRuns
<1>4. runs'[r] = runs[r] /\ SessionOf(r)' = SessionOf(r)
  BY <1>2, <1>3 DEF Steady, SessionOf
<1> QED BY <1>1, <1>2, <1>4 DEF TaskTimed

(* The runs of a task stay the same, unless one is claimed for it.            *)
LEMMA RunsOfStay ==
  ASSUME Steady, DOMAIN runs' = DOMAIN runs, NEW t
  PROVE  RunsOf(t)' = RunsOf(t)
BY DEF Steady, RunsOf

(* The task whose run a process finishes is timed.                            *)
LEMMA EndIsTimed ==
  ASSUME ServerInv, NEW p \in Procs, Ends(p), Steady, ServerInv',
         NEW d \in Nat \ {0}, IntervalsOf(d), NEW t \in DOMAIN tasks, TaskTimed(t, d),
         DOMAIN runs' = DOMAIN runs
  PROVE  TaskTimed(t, d)'
<1>1. PICK at \in Nat, reset \in Nat \ {0} : d <= reset /\ Finish(FinishParams(p, at, reset))
  BY EndInterval
<1>2. PICK s, r0 : s = proc[p].sess /\ r0 = proc[p].run
  OBVIOUS
<1>3. Bound(s, r0) /\ runs[r0].task = proc[p].task /\ DatabaseOK
  BY <1>2, EndFacts DEF Working, ServerInv
<1>4. PICK cont : cont = Completion(s, runs[r0].grant.startStep, at, reset)
  OBVIOUS
<1>5. /\ OutcomeOf(s) = "token_exhausted" =>
           s.haltedAt \in Nat /\ cont.at = s.haltedAt + reset
      /\ cont.kind = "stopped" => NextCost(s) > s.plan.budget
      /\ OutcomeOf(s) = "agent_error" => cont = NoContinuation
  BY <1>1, <1>3, <1>4, CompletionIsTimed
<1>6. PICK q : q = FinishParams(p, at, reset)
  OBVIOUS
<1>7. /\ q.run = r0 /\ q.task = proc[p].task /\ q.outcome = OutcomeOf(s)
      /\ q.cont = cont /\ q.work = Work(s)
  BY <1>2, <1>4, <1>6 DEF FinishParams, RunOf
<1>8. PICK end : end = TerminalState(OutcomeOf(s))
  OBVIOUS
<1>9. /\ runs' = [runs EXCEPT ![r0] = [@ EXCEPT !.status = end.run, !.exit = end.exit,
                !.tokens = q.tokens, !.work = q.work, !.finishedAt = q.finishedAt]]
      /\ tasks' = [tasks EXCEPT ![q.task] = [status |-> end.task, cont |-> cont]]
      /\ r0 \in DOMAIN runs /\ runs[r0].status = "running" /\ runs[r0].task = q.task
      /\ q.task \in DOMAIN tasks
  <2>1. Finish(q)
    BY <1>1, <1>6
  <2> QED BY <1>7, <1>8, <2>1 DEF Finish, Finishable
<1>10. RunsOf(t)' = RunsOf(t)
  BY RunsOfStay
<1>11. CASE t # q.task
  <2>1. tasks'[t] = tasks[t]
    BY <1>3, <1>9, <1>11, DatabaseFacts
  <2> QED BY <1>3, <1>10, <2>1, TimedStays
<1>12. CASE t = q.task
  <2>1. /\ tasks'[t].cont = cont /\ runs'[r0].exit = end.exit
        /\ runs'[r0].work.checkpoint = s
    <3>1. /\ runs[r0] \in RunRow(GrantRow, WorkRow) /\ tasks \in Seq(Task)
          /\ runs \in Seq(RunRow(GrantRow, WorkRow))
      BY <1>3, <1>9, DatabaseFacts
    <3>2. PICK row, decided :
            /\ row = [runs[r0] EXCEPT !.status = end.run, !.exit = end.exit,
                        !.tokens = q.tokens, !.work = q.work, !.finishedAt = q.finishedAt]
            /\ decided = [status |-> end.task, cont |-> cont]
      OBVIOUS
    <3>3. row.exit = end.exit /\ row.work = q.work /\ decided.cont = cont
      BY <3>1, <3>2 DEF RunRow
    <3>4. runs'[r0] = row
      BY <1>9, <3>1, <3>2
    <3>5. tasks'[t] = decided
      BY <1>9, <1>12, <3>1, <3>2
    <3>6. q.work.checkpoint = s
      BY <1>7 DEF Work
    <3> QED BY <3>3, <3>4, <3>5, <3>6
  <2>2. ASSUME NEW r \in RunsOf(t)', IsLatestRun(t, r)' PROVE r = r0
    <3>1. r0 \in RunsOf(t) /\ IsLatestRun(t, r0)
      BY <1>3, <1>9, <1>12 DEF RunsOf, DatabaseOK, StoreInvOver, OneRunningAttempt, RunningIsLatest
    <3>2. r \in RunsOf(t) /\ r0 \in RunsOf(t)' /\ r \in Nat /\ r0 \in Nat /\ r # 0 /\ r0 # 0
      BY <1>3, <1>10, <3>1, DatabaseFacts DEF RunsOf
    <3>3. r <= r0 /\ r0 <= r
      BY <2>2, <3>1, <3>2 DEF IsLatestRun
    <3> QED BY <3>2, <3>3
  <2>3. SessionOf(r0)' = s
    BY <2>1 DEF SessionOf
  <2>4. /\ runs'[r0].exit = "token_budget_exhausted" => OutcomeOf(s) = "token_exhausted"
        /\ runs'[r0].exit = "agent_error" => OutcomeOf(s) = "agent_error"
    BY <1>8, <2>1 DEF TerminalState, OutcomeOf
  <2>5. runs'[r0].exit = "token_budget_exhausted" =>
          cont.at # NoTime /\ cont.at >= s.haltedAt + d
    <3>1. s.haltedAt \in Nat => s.haltedAt + reset \in Nat /\ s.haltedAt + reset >= s.haltedAt + d
      BY <1>1
    <3> QED BY <1>5, <2>4, <3>1, NoTimeAssumption
  <2>6. s.plan.budget = plans'[t].budget
    <3>1. s.plan = plans[t]
      BY <1>3, <1>9, <1>12, RunFacts DEF Bound, Sound, RowOK
    <3> QED BY <1>3, <3>1, DatabaseFacts DEF Steady
  <2> QED BY <1>5, <2>1, <2>2, <2>3, <2>4, <2>5, <2>6 DEF TaskTimed, NextCost
<1> QED BY <1>11, <1>12

LEMMA TimedStep ==
  ASSUME ServerInv, ServerInv', [ServerNext]_runnerVars,
         NEW d \in Nat \ {0}, IntervalsOf(d), TimedBy(d)
  PROVE  TimedBy(d)'
<1>1. Steady /\ DatabaseOK
  BY StepIsSteady DEF ServerInv
<1>2. ~\E t \in DOMAIN tasks : Unscheduled(t)
  <2> SUFFICES ASSUME NEW t \in DOMAIN tasks, Unscheduled(t) PROVE FALSE
    OBVIOUS
  <2>1. /\ tasks[t].status = "failed" /\ tasks[t].cont.at = NoTime
        /\ \E r \in RunsOf(t) : IsLatestRun(t, r) /\ runs[r].exit = "token_budget_exhausted"
    <3>1. tasks[t] = [status |-> "failed", cont |-> NoContinuation]
      BY DEF Unscheduled
    <3>2. tasks[t].status = "failed" /\ tasks[t].cont.at = NoTime
      <4>1. tasks[t].status = "failed" /\ tasks[t].cont = NoContinuation
        BY <3>1
      <4>2. NoContinuation.at = NoTime
        BY DEF NoContinuation
      <4> QED BY <4>1, <4>2
    <3> QED BY <3>2 DEF Unscheduled
  <2> QED BY <2>1 DEF TimedBy, TaskTimed
<1>3. \A p \in Procs : ~Schedules(p)
  BY <1>2, RunnerAssumption DEF Schedules, ReadUnscheduled, InitializeUnscheduled, TimedBy
<1>4. tasks \in Seq(Task) /\ runs \in Seq(RunRow(GrantRow, WorkRow)) /\ Len(runs) \in Nat
      /\ Len(tasks) \in Nat /\ DOMAIN tasks = 1 .. Len(tasks)
  BY <1>1, DatabaseFacts
<1>5. CASE UNCHANGED <<tasks, runs>> /\ \A s \in Scanners : scans'[s] = NoScan
  <2>1. \A t : RunsOf(t)' = RunsOf(t)
    BY <1>5 DEF RunsOf
  <2> QED BY <1>1, <1>5, <2>1, TimedStays DEF TimedBy
<1>6. CASE AddTask
  <2>1. PICK row : /\ tasks' = Append(tasks, row) /\ row.status = "todo"
                   /\ UNCHANGED <<runs, scans>>
    BY <1>6 DEF AddTask, Create
  <2>2. \A t : RunsOf(t)' = RunsOf(t)
    BY <2>1 DEF RunsOf
  <2>3. ASSUME NEW t \in DOMAIN tasks' PROVE TaskTimed(t, d)'
    <3>1. CASE t \in DOMAIN tasks
      <4>1. tasks'[t] = tasks[t]
        BY <1>4, <2>1, <3>1
      <4> QED BY <1>1, <2>2, <3>1, <4>1, TimedStays DEF TimedBy
    <3>2. CASE t \notin DOMAIN tasks
      <4>1. tasks'[t] = row
        BY <1>4, <2>1, <3>2
      <4> QED BY <2>1, <4>1 DEF TaskTimed
    <3> QED BY <3>1, <3>2
  <2> QED BY <2>1, <2>3 DEF TimedBy
<1>7. ASSUME NEW p \in Procs, Claims(p) PROVE TimedBy(d)'
  <2>1. PICK auth, q : StartOwnedAttempt(auth, q, Len(runs) + 1)
    BY <1>7 DEF Claims
  <2>2. PICK new : new = Len(runs) + 1
    OBVIOUS
  <2>3. /\ DOMAIN runs' = DOMAIN runs \cup {new} /\ runs'[new].task = q.task
        /\ \A r \in DOMAIN runs : runs'[r] = runs[r]
    BY <2>1, <2>2, ClaimedRow
  <2>4. /\ tasks' = [tasks EXCEPT ![q.task] =
                       [status |-> "in_progress", cont |-> NoContinuation]]
        /\ UNCHANGED scans
    BY <2>1 DEF StartOwnedAttempt
  <2>5. ASSUME NEW t \in DOMAIN tasks PROVE TaskTimed(t, d)'
    <3>1. CASE t = q.task
      <4>1. tasks'[t].status = "in_progress"
        BY <2>4, <3>1
      <4> QED BY <4>1 DEF TaskTimed
    <3>2. CASE t # q.task
      <4>1. tasks'[t] = tasks[t]
        BY <2>4, <3>2
      <4>2. RunsOf(t)' = RunsOf(t)
        BY <2>3, <3>2 DEF RunsOf
      <4> QED BY <1>1, <4>1, <4>2, TimedStays DEF TimedBy
    <3> QED BY <3>1, <3>2
  <2> QED BY <2>4, <2>5 DEF TimedBy
<1>8. ASSUME NEW p \in Procs, Publishes(p) \/ Renews(p) PROVE TimedBy(d)'
  <2>1. PICK r, row : runs' = [runs EXCEPT ![r] = row]
    BY <1>8 DEF Publishes, UpdateProgress, Renews, RenewLease
  <2>2. DOMAIN runs' = DOMAIN runs
    BY <2>1
  <2>3. UNCHANGED <<tasks, scans>>
    BY <1>8 DEF Publishes, UpdateProgress, Renews, RenewLease
  <2> QED BY <1>1, <2>2, <2>3, RunsOfStay, TimedStays DEF TimedBy
<1>9. ASSUME NEW p \in Procs, Ends(p) PROVE TimedBy(d)'
  <2>1. PICK q : Finish(q)
    BY <1>9 DEF Ends
  <2>2. PICK r, row, t0, settled :
          /\ runs' = [runs EXCEPT ![r] = row]
          /\ tasks' = [tasks EXCEPT ![t0] = settled] /\ UNCHANGED scans
    BY <2>1, Zenon DEF Finish
  <2>3. DOMAIN runs' = DOMAIN runs /\ DOMAIN tasks' = DOMAIN tasks
    BY <2>2
  <2> QED BY <1>1, <1>9, <2>2, <2>3, EndIsTimed DEF TimedBy
<1>10. ASSUME NEW lost, Dies(lost) PROVE TimedBy(d)'
  <2>1. \A s \in Scanners : scans'[s] = NoScan
    BY <1>10, RunnerAssumption DEF Dies, TimedBy
  <2> QED BY <1>5, <1>10, <2>1 DEF Dies
<1>11. CASE Tick \/ UNCHANGED <<dbVars, plans>>
  BY <1>5, <1>11 DEF Tick, dbVars, TimedBy
<1> QED BY <1>3, <1>6, <1>7, <1>8, <1>9, <1>10, <1>11, StepCalls DEF CallOf

LEMMA TimedInit ==
  ASSUME NeverUpgraded, RunnerInit, NEW d
  PROVE  TimedBy(d)
<1>1. DOMAIN tasks = {} /\ \A s \in Scanners : scans[s] = NoScan
  BY DEF RunnerInit, NewInbox, StoreInit, NeverUpgraded
<1> QED BY <1>1 DEF TimedBy

(* If every executor is configured with an interval at all, an exhaustion is  *)
(* timed.                                                                     *)
LEMMA ExhaustionsAreTimed ==
  ASSUME IntervalsOf(1)
  PROVE  NeverUpgraded /\ ServerSpec => [](ServerInv /\ TimedBy(1))
<1>1. NeverUpgraded /\ RunnerInit => TimedBy(1)
  BY TimedInit
<1>2. ServerInv /\ ServerInv' /\ TimedBy(1) /\ [ServerNext]_runnerVars => TimedBy(1)'
  <2>1. 1 \in Nat \ {0}
    OBVIOUS
  <2> QED BY <2>1, TimedStep
<1> QED BY <1>1, <1>2, ServerInvariant, PTL DEF ServerSpec

(* An executor that exhausts its tokens leaves the instant of the reset.      *)
THEOREM ExhaustionIsTimedHolds ==
  ASSUME IntervalsOf(1)
  PROVE  NeverUpgraded /\ ServerSpec => []ExhaustionIsTimed
<1>1. ServerInv /\ TimedBy(1) => ExhaustionIsTimed
  <2> SUFFICES ASSUME ServerInv, TimedBy(1), NEW t \in DOMAIN tasks, NEW r \in DOMAIN runs,
                      IsLatestRun(t, r), tasks[t].status = "failed",
                      runs[r].exit = "token_budget_exhausted"
               PROVE  tasks[t].cont.at # NoTime
    BY DEF ExhaustionIsTimed
  <2>1. r \in RunsOf(t)
    BY DatabaseFacts DEF IsLatestRun, ServerInv
  <2> QED BY <2>1 DEF TimedBy, TaskTimed
<1>2. NeverUpgraded /\ ServerSpec => [](ServerInv /\ TimedBy(1))
  BY ExhaustionsAreTimed
<1> QED BY <1>1, <1>2, PTL

(* A task is stopped only when no configured window pays for its next step.   *)
THEOREM StoppedIsHopelessHolds ==
  ASSUME IntervalsOf(1)
  PROVE  NeverUpgraded /\ ServerSpec => []StoppedIsHopeless
<1>1. ServerInv /\ TimedBy(1) => StoppedIsHopeless
  <2>1. ServerInv => ContinuationOnlyOnFailed
    BY DEF ServerInv, DatabaseOK, StoreInvOver
  <2> QED BY <2>1 DEF TimedBy, TaskTimed, StoppedIsHopeless, ContinuationOnlyOnFailed
<1>2. NeverUpgraded /\ ServerSpec => [](ServerInv /\ TimedBy(1))
  BY ExhaustionsAreTimed
<1> QED BY <1>1, <1>2, PTL

(* An agent error is never continued automatically: no scan can hold the row  *)
(* of an older exhaustion when every exhaustion is timed.                     *)
THEOREM AgentErrorHasNoContinuationHolds ==
  ASSUME IntervalsOf(1)
  PROVE  NeverUpgraded /\ ServerSpec => []AgentErrorHasNoContinuation
<1>1. ServerInv /\ TimedBy(1) => AgentErrorHasNoContinuation
  <2> SUFFICES ASSUME ServerInv, TimedBy(1), NEW t \in DOMAIN tasks, NEW r \in DOMAIN runs,
                      IsLatestRun(t, r), runs[r].exit = "agent_error"
               PROVE  tasks[t].cont = NoContinuation
    BY DEF AgentErrorHasNoContinuation
  <2>1. CASE tasks[t].status = "failed"
    <3>1. r \in RunsOf(t)
      BY DatabaseFacts DEF IsLatestRun, ServerInv
    <3> QED BY <2>1, <3>1 DEF TimedBy, TaskTimed
  <2>2. CASE tasks[t].status # "failed"
    <3>1. tasks[t].cont.kind = "" /\ tasks[t].cont.at = NoTime
      BY <2>2 DEF ServerInv, DatabaseOK, StoreInvOver, ContinuationOnlyOnFailed,
                  ParsesAsContinuation
    <3>2. tasks[t] \in Task
      BY DatabaseFacts DEF ServerInv
    <3>3. tasks[t].cont \in ContinuationDecision
      BY <3>2 DEF Task
    <3> QED BY <3>1, <3>3 DEF ContinuationDecision, NoContinuation
  <2> QED BY <2>1, <2>2
<1>2. NeverUpgraded /\ ServerSpec => [](ServerInv /\ TimedBy(1))
  BY ExhaustionsAreTimed
<1> QED BY <1>1, <1>2, PTL

-----------------------------------------------------------------------------
(* A window is not spent before its reset. *)

(* A reset interval lies between the exhaustion an attempt saw and the claim  *)
(* of the next attempt.                                                       *)
Awaited ==
  \A r1, r2 \in DOMAIN runs :
    Resumes(r2, r1) /\ runs[r1].exit = "token_budget_exhausted" =>
      runs[r2].startedAt >= SessionOf(r1).haltedAt + Reset

LEMMA AwaitedStep ==
  ASSUME ServerInv, Awaited, [ServerNext]_runnerVars, TimedBy(Reset)
  PROVE  Awaited'
<1>1. Steady /\ DatabaseOK
  BY StepIsSteady DEF ServerInv
<1> SUFFICES ASSUME NEW r1 \in DOMAIN runs', NEW r2 \in DOMAIN runs', Resumes(r2, r1)',
                    runs'[r1].exit = "token_budget_exhausted"
             PROVE  runs'[r2].startedAt >= SessionOf(r1)'.haltedAt + Reset
  BY DEF Awaited
<1>2. CASE r1 \in DOMAIN runs /\ r2 \in DOMAIN runs
  <2>1. Resumes(r2, r1)
    BY <1>1, <1>2, ResumesStays
  <2>2. runs'[r1] = runs[r1] /\ runs'[r2].startedAt = runs[r2].startedAt
    BY <1>1, <1>2, <2>1, ResumedHasEnded DEF Steady
  <2> QED BY <1>2, <2>1, <2>2 DEF Awaited, SessionOf
<1>3. CASE r1 \notin DOMAIN runs \/ r2 \notin DOMAIN runs
  <2>1. PICK p \in Procs : Claims(p)
    BY <1>3, RunsGrow
  <2>2. PICK auth \in {"owner", "automatic", "interrupted"}, at \in proc[p].since .. now :
          StartOwnedAttempt(auth, ClaimParams(p, at), Len(runs) + 1)
    BY <2>1 DEF Claims
  <2>3. PICK q, new : q = ClaimParams(p, at) /\ new = Len(runs) + 1
    OBVIOUS
  <2>4. /\ DOMAIN runs' = DOMAIN runs \cup {new} /\ new \notin DOMAIN runs
        /\ \A r \in DOMAIN runs : r < new /\ runs'[r] = runs[r]
        /\ runs'[new].startedAt = q.startedAt
    BY <2>2, <2>3, ClaimedRow
  <2>5. r1 < r2 /\ new \in Nat /\ \A r \in DOMAIN runs : r \in Nat
    BY <1>1, <2>3, DatabaseFacts DEF Resumes
  <2>6. r1 \in DOMAIN runs /\ r2 = new
    BY <1>3, <2>4, <2>5
  <2>7. /\ r1 = proc[p].cand /\ runs[r1].task = proc[p].task
        /\ proc[p].kind # "execute" /\ IsLatestRun(proc[p].task, r1)
    BY <2>1, <2>2, <2>3, <2>6, NewResumesCandidate DEF Claims
  <2>8. q.task = proc[p].task /\ q.run = proc[p].cand /\ q.status = "failed"
    BY <2>3, <2>7 DEF ClaimParams
  <2>9. /\ q.task \in DOMAIN tasks /\ tasks[q.task].status = "failed"
        /\ tasks[q.task].cont.at # NoTime => tasks[q.task].cont.at <= q.startedAt
    BY <2>2, <2>3, <2>8 DEF StartOwnedAttempt, Claimable, MayClaim
  <2>10. /\ r1 \in RunsOf(q.task) /\ IsLatestRun(q.task, r1)
         /\ runs[r1].exit = "token_budget_exhausted" /\ runs[r1].status # "running"
    BY <2>4, <2>6, <2>7, <2>8, <2>1, <2>2, <2>3, NewResumesCandidate DEF RunsOf, Claims
  <2>11. /\ tasks[q.task].cont.at # NoTime
         /\ tasks[q.task].cont.at >= SessionOf(r1).haltedAt + Reset
    BY <2>9, <2>10 DEF TimedBy, TaskTimed
  <2>12. /\ SessionOf(r1).haltedAt \in Nat /\ tasks[q.task].cont.at \in Nat
         /\ q.startedAt \in Nat
    <3>1. SessionOf(r1).haltedAt \in Nat
      BY <1>1, <2>6, <2>10, HaltedAtIsReal
    <3>2. tasks[q.task] \in Task
      BY <1>1, <2>9, DatabaseFacts
    <3>3. q.startedAt \in 0 .. now /\ now \in Nat
      BY <1>1, <2>1, <2>3, ClaimFacts, DatabaseFacts DEF Claims
    <3>4. tasks[q.task].cont \in ContinuationDecision
      BY <3>2 DEF Task
    <3>5. tasks[q.task].cont.at \in Nat \cup {NoTime}
      BY <3>4 DEF ContinuationDecision
    <3> QED BY <2>11, <3>1, <3>3, <3>5
  <2>13. SessionOf(r1)' = SessionOf(r1)
    BY <2>4, <2>6 DEF SessionOf
  <2>14. Reset \in Nat
    BY StoreAssumption
  <2> QED BY <2>4, <2>6, <2>9, <2>11, <2>12, <2>13, <2>14
<1> QED BY <1>2, <1>3

(* If no executor is configured with a shorter interval than the servers, the *)
(* next attempt waits until the window has reset.                             *)
THEOREM ResetIsAwaitedHolds ==
  ASSUME IntervalsOf(Reset)
  PROVE  NeverUpgraded /\ ServerSpec => []ResetIsAwaited
<1>1. NeverUpgraded /\ RunnerInit => TimedBy(Reset) /\ Awaited
  <2> SUFFICES ASSUME NeverUpgraded, RunnerInit PROVE TimedBy(Reset) /\ Awaited
    OBVIOUS
  <2>1. DOMAIN runs = {}
    BY DEF RunnerInit, NewInbox, StoreInit, NeverUpgraded
  <2> QED BY <2>1, TimedInit DEF Awaited
<1>2. ServerInv /\ ServerInv' /\ TimedBy(Reset) /\ [ServerNext]_runnerVars
        => TimedBy(Reset)'
  BY StoreAssumption, TimedStep
<1>3. ServerInv /\ Awaited /\ TimedBy(Reset) /\ [ServerNext]_runnerVars => Awaited'
  BY AwaitedStep
<1>4. ServerInv /\ Awaited => ResetIsAwaited
  <2> SUFFICES ASSUME ServerInv, NEW r1 \in DOMAIN runs, NEW r2 \in DOMAIN runs,
                      Resumes(r2, r1), runs[r1].exit = "token_budget_exhausted"
               PROVE  SessionOf(r1).haltedAt >= runs[r1].startedAt
    BY DEF Awaited, ResetIsAwaited
  <2> QED BY ResumedHasEnded, HaltedAtIsReal DEF ServerInv
<1> QED BY <1>1, <1>2, <1>3, <1>4, ServerInvariant, PTL DEF ServerSpec

=============================================================================
