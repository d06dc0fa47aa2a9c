----------------------------- MODULE CallsProofs -----------------------------
(* Every step of the program is a call that Store admits, or none: so what    *)
(* StoreProofs proves of arbitrary callers holds of these callers.            *)
EXTENDS ServerProofs

-----------------------------------------------------------------------------
(* What the steps of the program do to the database. *)

ClaimParams(p, at) ==
  LET me == proc[p] IN
  [task |-> me.task, run |-> me.cand, startedAt |-> at,
   status |-> IF me.kind = "execute" THEN "todo" ELSE "failed",
   grant |-> [session |-> me.sess.id, budget |-> me.sess.allowance,
              startStep |-> me.sess.next]]

Claims(p) ==
  /\ proc[p].pc = "claim"
  /\ \E auth \in {"owner", "automatic", "interrupted"}, at \in proc[p].since .. now :
       StartOwnedAttempt(auth, ClaimParams(p, at), Len(runs) + 1)
  /\ proc' = [proc EXCEPT ![p].pc = "bind", ![p].run = Len(runs) + 1]

Publishes(p) ==
  /\ proc[p].pc \in {"publish", "commit"}
  /\ UpdateProgress(proc[p].run, proc[p].run, proc[p].sess.used, Work(proc[p].sess))

Renews(p) == proc[p].pc \in InLoop /\ RenewLease(proc[p].run, proc[p].run)

(* A process finishes its own run now, or a server one whose lease ran out    *)
(* when it looked.                                                            *)
Ends(p) ==
  /\ \/ /\ proc[p].pc = "finish" /\ Owns(proc[p].run, proc[p].run)
        /\ Finish(FinishParams(p, now, ResetOf(p)))
     \/ /\ proc[p].pc = "reconcile" /\ Expired(proc[p].run)
        /\ Finish(FinishParams(p, proc[p].since, Reset))
  /\ Return(p, "ok")

Schedules(p) == ReadUnscheduled(p) \/ InitializeUnscheduled(p)

Dies(lost) ==
  /\ scans' = [p \in Procs |-> IF p \in lost THEN NoScan ELSE scans[p]]
  /\ UNCHANGED <<now, tasks, runs, comments>>

(* The call of a process. *)
CallOf(p) == Claims(p) \/ Publishes(p) \/ Renews(p) \/ Ends(p) \/ Schedules(p)

LEMMA StepCalls ==
  ASSUME ServerInv, [ServerNext]_runnerVars
  PROVE  \/ AddTask
         \/ UNCHANGED plans /\ \E p \in Procs : CallOf(p)
         \/ UNCHANGED plans /\ \E lost \in SUBSET Procs : Dies(lost)
         \/ UNCHANGED plans /\ PassTime /\ Tick
         \/ UNCHANGED <<dbVars, plans>>
<1> DEFINE Goal == \/ AddTask
                   \/ UNCHANGED plans /\ \E p \in Procs : CallOf(p)
                   \/ UNCHANGED plans /\ \E lost \in SUBSET Procs : Dies(lost)
                   \/ UNCHANGED plans /\ PassTime /\ Tick
                   \/ UNCHANGED <<dbVars, plans>>
<1> SUFFICES Goal
  OBVIOUS
<1>1. ASSUME NEW p \in Procs, ClaimAttempt(p) PROVE Goal
  <2>1. UNCHANGED plans /\ proc[p].pc = "claim"
    BY <1>1 DEF ClaimAttempt, At
  <2>2. CASE UNCHANGED dbVars
    BY <2>1, <2>2
  <2>3. ASSUME NEW auth \in {"owner", "automatic", "interrupted"},
               NEW at \in proc[p].since .. now,
               StartOwnedAttempt(auth, ClaimParams(p, at), Len(runs) + 1),
               proc' = [proc EXCEPT ![p].pc = "bind", ![p].run = Len(runs) + 1]
        PROVE  Goal
    BY <2>1, <2>3 DEF CallOf, Claims
  <2> DEFINE kind == proc[p].kind
             auth == CASE kind = "scheduled" -> "automatic"
                       [] kind = "interrupted" -> "interrupted"
                       [] OTHER -> "owner"
  <2>4. auth \in {"owner", "automatic", "interrupted"}
    BY Zenon
  <2>5. \E at \in proc[p].since .. now :
          \/ /\ StartOwnedAttempt(auth, ClaimParams(p, at), Len(runs) + 1)
             /\ proc' = [proc EXCEPT ![p].pc = "bind", ![p].run = Len(runs) + 1]
          \/ UNCHANGED dbVars
    BY <1>1 DEF ClaimAttempt, ClaimParams
  <2> HIDE DEF auth, Goal
  <2> QED BY <2>2, <2>3, <2>4, <2>5
<1>2. ASSUME NEW p \in Procs, PublishBinding(p) \/ Commit(p) PROVE Goal
  <2>1. UNCHANGED plans /\ proc[p].pc \in {"publish", "commit"}
    BY <1>2 DEF PublishBinding, Commit, At
  <2>2. proc[p].sess.token = proc[p].run /\ RunOf(p).owner = proc[p].run
    BY <2>1, WorkingFacts DEF Owning, InLoop, RunOf
  <2>3. \/ UpdateProgress(proc[p].run, proc[p].run, proc[p].sess.used, Work(proc[p].sess))
        \/ UNCHANGED dbVars
    BY <1>2, <2>2 DEF PublishBinding, Commit
  <2> QED BY <2>1, <2>3 DEF CallOf, Publishes
<1>3. ASSUME NEW p \in Procs, LoopTop(p) \/ TakeStep(p) \/ RenewInBackground(p) PROVE Goal
  <2>1. UNCHANGED plans /\ proc[p].pc \in InLoop
    BY <1>3 DEF LoopTop, TakeStep, RenewInBackground, At, InLoop
  <2>2. proc[p].sess.token = proc[p].run
    BY <2>1, WorkingFacts DEF Owning
  <2>3. RenewLease(proc[p].run, proc[p].run) \/ UNCHANGED dbVars
    BY <1>3, <2>2 DEF LoopTop, TakeStep, RenewInBackground
  <2> QED BY <2>1, <2>3 DEF CallOf, Renews
<1>4. ASSUME NEW p \in Procs, FinishRun(p) PROVE Goal
  <2>1. UNCHANGED plans /\ proc[p].pc = "finish" /\ proc[p].pc \in Owning
    BY <1>4 DEF FinishRun, At, Owning, InLoop
  <2>2. proc[p].sess.token = proc[p].run
    BY <2>1, WorkingFacts
  <2>3. FinishParams(p, now, ResetOf(p)).run = proc[p].run
    BY DEF FinishParams
  <2>4. \/ /\ Owns(proc[p].run, proc[p].run)
           /\ Finish(FinishParams(p, now, ResetOf(p))) /\ Return(p, "ok")
        \/ UNCHANGED dbVars
    BY <1>4, <2>2, <2>3 DEF FinishRun, FinishAttempt
  <2> QED BY <2>1, <2>4 DEF CallOf, Ends
<1>5. ASSUME NEW p \in Procs, Reconcile(p) PROVE Goal
  <2>1. UNCHANGED plans /\ proc[p].pc = "reconcile"
    BY <1>5 DEF Reconcile, At
  <2>2. FinishParams(p, proc[p].since, Reset).run = proc[p].run
    BY DEF FinishParams
  <2>3. \/ /\ Expired(proc[p].run)
           /\ Finish(FinishParams(p, proc[p].since, Reset)) /\ Return(p, "ok")
        \/ UNCHANGED dbVars
    BY <1>5, <2>2 DEF Reconcile, RecoverExpiredAttempt
  <2> QED BY <2>1, <2>3 DEF CallOf, Ends
<1>6. ASSUME NEW p \in Procs, ScanUnscheduled(p) \/ Initialize(p) PROVE Goal
  BY <1>6 DEF ScanUnscheduled, Initialize, CallOf, Schedules
<1>7. ASSUME NEW p \in Procs, Crash(p) PROVE Goal
  <2>1. scans \in [Procs -> ScanRow]
    BY RunnerAssumption DEF ServerInv, DatabaseOK, StoreInvOver, StoreTyped
  <2>2. Dies({p})
    BY <1>7, <2>1 DEF Crash, Dies
  <2> QED BY <1>7, <2>2 DEF Crash
<1>8. CASE Outage
  <2>1. Dies(Procs)
    BY <1>8 DEF Outage, Dies
  <2> QED BY <1>8, <2>1 DEF Outage
<1>9. CASE PassTime
  BY <1>9 DEF PassTime
<1>10. ASSUME NEW p \in Procs,
              \/ BindSession(p) \/ Persist(p) \/ FindExpired(p) \/ FindContinuation(p)
              \/ ResumeSelected(p) \/ (Recovery(p) /\ ~Reconcile(p)) \/ Serve(p)
              \/ RunWork(p) \/ PickTask(p) \/ Cancel(p) \/ FailCall(p)
              \/ \E t : Execute(p, t) \/ Resume(p, t)
       PROVE  UNCHANGED <<dbVars, plans>>
  BY <1>10 DEF BindSession, Persist, FindExpired, FindContinuation, ResumeSelected,
               Recovery, LoadExpired, Rebind, Serve, RunWork, PickTask, Cancel,
               FailCall, Execute, Resume
<1>11. ASSUME NEW id \in SessionIds, WriteBack(id) PROVE UNCHANGED <<dbVars, plans>>
  BY <1>11 DEF WriteBack
<1>12. CASE UNCHANGED runnerVars
  BY <1>12 DEF runnerVars, dbVars
<1> HIDE DEF Goal
<1>13. UNCHANGED <<dbVars, plans>> => Goal
  BY DEF Goal
<1>14. ASSUME NEW p \in Procs, Attempt(p) \/ ServerStep(p) PROVE Goal
  BY <1>1, <1>2, <1>3, <1>4, <1>5, <1>6, <1>10, <1>13, <1>14
     DEF Attempt, ServerStep, Recovery
<1>15. ASSUME NEW p \in Procs, Command(p) \/ Proceed(p) PROVE Goal
  BY <1>10, <1>13, <1>14, <1>15 DEF Command, Proceed
<1>16. CASE ServerNext
  <2>1. AddTask => Goal
    BY DEF Goal
  <2>2. ASSUME NEW p \in Procs, Cancel(p) \/ Crash(p) \/ FailCall(p) PROVE Goal
    BY <1>7, <1>10, <1>13, <2>2
  <2> QED BY <1>3, <1>8, <1>9, <1>11, <1>13, <1>15, <1>16, <2>1, <2>2 DEF ServerNext
<1> QED BY <1>12, <1>13, <1>16

(* The parameters of a claim are those of the session the process holds.      *)
LEMMA ClaimFacts ==
  ASSUME ServerInv, NEW p \in Procs, proc[p].pc = "claim", NEW at \in proc[p].since .. now
  PROVE  LET q == ClaimParams(p, at)
         IN /\ q.task = proc[p].task /\ q.run = proc[p].cand /\ q.startedAt = at
            /\ q.status \in {"todo", "failed"}
            /\ q.grant = [session |-> proc[p].sess.id, budget |-> proc[p].sess.allowance,
                          startStep |-> proc[p].sess.next]
            /\ q.run \in Nat /\ q.startedAt \in 0 .. now /\ q.grant \in GrantRow
            /\ q.grant.session[1] = q.task /\ q.grant.budget <= plans[q.task].budget
            /\ Claiming(proc[p])
<1>0. PICK q : q = ClaimParams(p, at)
  OBVIOUS
<1>1. PICK me : me = proc[p]
  OBVIOUS
<1>2. /\ q.task = me.task /\ q.run = me.cand /\ q.startedAt = at
      /\ q.status \in {"todo", "failed"}
      /\ q.grant = [session |-> me.sess.id, budget |-> me.sess.allowance,
                    startStep |-> me.sess.next]
  BY <1>0, <1>1 DEF ClaimParams
<1>3. Claiming(me) /\ me \in ProcRow
  BY <1>1, ProcFacts DEF LocalOK
<1>4. Sound(me.sess) /\ me.sess.id[1] = me.task
  BY <1>3 DEF Claiming
<1>5. me.sess.id \in SessionIds /\ me.sess.allowance \in Nat /\ me.sess.next \in Nat
  BY <1>4, SoundFields
<1>6. me.sess.allowance <= plans[me.task].budget
  BY <1>4 DEF Sound
<1>7. q.grant \in GrantRow /\ q.grant.session = me.sess.id /\ q.grant.budget = me.sess.allowance
  BY <1>2, <1>5 DEF GrantRow
<1>8. me.cand \in Nat /\ me.since \in Nat
  BY <1>3 DEF ProcRow
<1>9. at \in 0 .. now
  BY <1>1, <1>8, DatabaseFacts DEF ServerInv
<1> QED BY <1>0, <1>1, <1>2, <1>3, <1>4, <1>6, <1>7, <1>8, <1>9

(* The parameters of a finish are those of the bound session it is made from. *)
LEMMA EndFacts ==
  ASSUME ServerInv, NEW p \in Procs, Ends(p)
  PROVE  /\ Working(proc[p])
         /\ \E at \in 0 .. now, reset \in Resets : Finish(FinishParams(p, at, reset))
<1>1. proc[p].pc \in Owning \cup Recovering
  BY DEF Ends, Owning, Recovering, InLoop
<1>2. Working(proc[p]) /\ now \in Nat
  BY <1>1, WorkingFacts
<1>3. proc[p].since \in Nat /\ proc[p].since <= now
  BY ProcFacts DEF ProcRow, LocalOK
<1>4. Reset \in Resets /\ ResetOf(p) \in Resets
  BY EnvFields, RunnerAssumption DEF ResetOf, ServerInv, Scenario
<1> QED BY <1>2, <1>3, <1>4 DEF Ends

(* Time and the tables only grow.                                             *)
LEMMA StepIsSteady ==
  ASSUME ServerInv, [ServerNext]_runnerVars
  PROVE  Steady
<1>1. ServerInv' /\ DatabaseOK /\ DatabaseOK'
  BY ServerInvStep DEF ServerInv
<1>2. /\ StoreInvOver(GrantRow, WorkRow)' /\ plans' \in Seq(Plans) /\ plans \in Seq(Plans)
      /\ Len(plans') = Len(tasks') /\ Len(tasks') <= MaxTasks
      /\ now \in Nat /\ tasks \in Seq(Task) /\ tasks' \in Seq(Task)
      /\ Len(tasks) \in Nat /\ Len(plans) = Len(tasks)
  BY <1>1, DatabaseFacts DEF DatabaseOK, StoreInvOver, StoreTyped
<1>3. CASE AddTask
  <2>1. PICK row, plan :
          /\ tasks' = Append(tasks, row) /\ plans' = Append(plans, plan)
          /\ UNCHANGED <<now, runs>>
    BY <1>3 DEF AddTask, Create
  <2>2. /\ now <= now' /\ Len(tasks) <= Len(tasks')
        /\ \A t \in DOMAIN plans : plans'[t] = plans[t]
    BY <1>2, <2>1
  <2> QED BY <1>1, <1>2, <2>1, <2>2, RunsStay
<1>4. ASSUME NEW p \in Procs, CallOf(p), UNCHANGED plans PROVE Steady
  <2>1. CASE Claims(p)
    <3>1. PICK auth \in {"owner", "automatic", "interrupted"}, at \in proc[p].since .. now :
            StartOwnedAttempt(auth, ClaimParams(p, at), Len(runs) + 1)
      BY <2>1 DEF Claims
    <3>2. PICK q : q = ClaimParams(p, at)
      OBVIOUS
    <3>3. /\ q.run \in Nat /\ q.startedAt \in 0 .. now /\ q.grant \in GrantRow
          /\ q.grant.session[1] = q.task /\ q.grant.budget <= plans[q.task].budget
      BY <2>1, <3>2, ClaimFacts DEF Claims
    <3> QED BY <1>1, <1>4, <3>1, <3>2, <3>3, ClaimEffect
  <2>2. CASE Publishes(p)
    <3>1. Bound(proc[p].sess, proc[p].run)
      BY <2>2, WorkingFacts DEF Publishes, Owning, InLoop
    <3> QED BY <1>1, <1>4, <2>2, <3>1, PublishEffect DEF Publishes
  <2>3. CASE Renews(p)
    BY <1>1, <1>4, <2>3, RenewEffect DEF Renews
  <2>4. CASE Ends(p)
    <3>1. PICK at \in 0 .. now, reset \in Resets : Finish(FinishParams(p, at, reset))
      BY <2>4, EndFacts
    <3>2. Working(proc[p]) /\ at \in Nat /\ reset \in Nat
      BY <1>2, <2>4, EndFacts, StoreAssumption
    <3> QED BY <1>1, <1>4, <3>1, <3>2, FinishEffect
  <2>5. CASE Schedules(p)
    <3>1. UNCHANGED <<now, runs>> /\ DOMAIN tasks' = DOMAIN tasks
      BY <2>5 DEF Schedules, ReadUnscheduled, InitializeUnscheduled
    <3>2. now <= now' /\ Len(tasks) <= Len(tasks')
      BY <1>2, <1>4, <3>1
    <3> QED BY <1>1, <1>2, <1>4, <3>1, <3>2, RunsStay
  <2> QED BY <1>4, <2>1, <2>2, <2>3, <2>4, <2>5 DEF CallOf
<1>5. CASE UNCHANGED <<tasks, runs, plans>> /\ now <= now'
  <2>1. Len(tasks) <= Len(tasks')
    BY <1>2, <1>5
  <2> QED BY <1>1, <1>2, <1>5, <2>1, RunsStay
<1>6. ASSUME NEW lost, Dies(lost) PROVE UNCHANGED <<tasks, runs>> /\ now <= now'
  BY <1>2, <1>6 DEF Dies
<1>7. Tick => UNCHANGED <<tasks, runs>> /\ now <= now'
  BY <1>2 DEF Tick
<1>8. CASE UNCHANGED <<dbVars, plans>>
  BY <1>2, <1>5, <1>8 DEF dbVars
<1> QED BY <1>3, <1>4, <1>5, <1>6, <1>7, <1>8, StepCalls

-----------------------------------------------------------------------------
(* The calls, as Store admits them. *)

(* Collapsing two columns changes nothing that Store looks at.                *)
LEMMA ColumnsAre ==
  ASSUME DatabaseOK
  PROVE  /\ Columns \in Seq(RunRow({0}, {0}))
         /\ Len(Columns) = Len(runs) /\ DOMAIN Columns = DOMAIN runs
         /\ \A r \in DOMAIN runs :
              /\ Columns[r] = [runs[r] EXCEPT !.grant = 0, !.work = 0]
              /\ Columns[r].task = runs[r].task /\ Columns[r].status = runs[r].status
              /\ Columns[r].exit = runs[r].exit /\ Columns[r].tokens = runs[r].tokens
              /\ Columns[r].startedAt = runs[r].startedAt
              /\ Columns[r].finishedAt = runs[r].finishedAt
              /\ Columns[r].owner = runs[r].owner /\ Columns[r].lease = runs[r].lease
<1>1. /\ Len(runs) \in Nat /\ DOMAIN runs = 1 .. Len(runs)
      /\ \A r \in DOMAIN runs : runs[r] \in RunRow(GrantRow, WorkRow)
  BY DatabaseFacts
<1>2. /\ DOMAIN Columns = DOMAIN runs
      /\ \A r \in DOMAIN runs : Columns[r] = [runs[r] EXCEPT !.grant = 0, !.work = 0]
      /\ Columns = [r \in DOMAIN runs |-> Columns[r]]
  BY DEF Columns
<1> HIDE DEF Columns
<1>3. ASSUME NEW r \in DOMAIN runs
      PROVE  /\ Columns[r] \in RunRow({0}, {0})
             /\ Columns[r].task = runs[r].task /\ Columns[r].status = runs[r].status
             /\ Columns[r].exit = runs[r].exit /\ Columns[r].tokens = runs[r].tokens
             /\ Columns[r].startedAt = runs[r].startedAt
             /\ Columns[r].finishedAt = runs[r].finishedAt
             /\ Columns[r].owner = runs[r].owner /\ Columns[r].lease = runs[r].lease
  BY <1>1, <1>2 DEF RunRow
<1>4. Columns \in [1 .. Len(runs) -> RunRow({0}, {0})]
  BY <1>1, <1>2, <1>3
<1>5. Columns \in Seq(RunRow({0}, {0})) /\ Len(Columns) = Len(runs)
  BY <1>1, <1>4
<1> QED BY <1>2, <1>3, <1>5

(* So the queries find the same rows.                                         *)
LEMMA QueriesAgree ==
  ASSUME DatabaseOK
  PROVE  /\ \A t : Db!RunsOf(t) = RunsOf(t)
         /\ Db!RunningRuns = RunningRuns
         /\ \A t, r : Db!IsLatestRun(t, r) <=> IsLatestRun(t, r)
         /\ \A r, token : Db!Owns(r, token) <=> Owns(r, token)
         /\ \A r : Db!Expired(r) <=> Expired(r)
         /\ \A t : Db!Unscheduled(t) <=> Unscheduled(t)
         /\ \A q : Db!Finishable(q) <=> Finishable(q)
<1>1. /\ \A t : Db!RunsOf(t) = RunsOf(t)
      /\ Db!RunningRuns = RunningRuns
  BY ColumnsAre DEF RunsOf, RunningRuns, Db!RunsOf, Db!RunningRuns
<1>2. \A t, r : Db!IsLatestRun(t, r) <=> IsLatestRun(t, r)
  BY <1>1 DEF IsLatestRun, Db!IsLatestRun
<1>3. \A r, token : Db!Owns(r, token) <=> Owns(r, token)
  BY ColumnsAre DEF Owns, Db!Owns
<1>4. \A r : Db!Expired(r) <=> Expired(r)
  BY ColumnsAre DEF Expired, Db!Expired
<1>5. \A t : Db!Unscheduled(t) <=> Unscheduled(t)
  <2>1. \A t : \A r \in RunsOf(t) : r \in DOMAIN runs
    BY DEF RunsOf
  <2>2. Db!NoContinuation = NoContinuation
    BY DEF Db!NoContinuation, NoContinuation
  <2> QED BY <1>1, <1>2, <2>1, <2>2, ColumnsAre DEF Unscheduled, Db!Unscheduled
<1>6. \A q : Db!Finishable(q) <=> Finishable(q)
  BY ColumnsAre DEF Finishable, Db!Finishable, ValidCompletion, Db!ValidCompletion
<1> QED BY <1>1, <1>2, <1>3, <1>4, <1>5, <1>6

(* A row that is replaced is replaced in the columns.                         *)
LEMMA ColumnsUpdated ==
  ASSUME DatabaseOK, DatabaseOK', NEW r0 \in DOMAIN runs, NEW row, NEW col,
         runs' = [runs EXCEPT ![r0] = row], col = [row EXCEPT !.grant = 0, !.work = 0]
  PROVE  Columns' = [Columns EXCEPT ![r0] = col]
<1>1. runs \in Seq(RunRow(GrantRow, WorkRow)) /\ Len(runs) \in Nat
  BY DatabaseFacts
<1>2. /\ DOMAIN runs' = DOMAIN runs /\ runs'[r0] = row
      /\ \A r \in DOMAIN runs : r # r0 => runs'[r] = runs[r]
  BY <1>1
<1>3. Columns' = [r \in DOMAIN runs |-> IF r = r0 THEN col ELSE Columns[r]]
  BY <1>2 DEF Columns
<1>4. DOMAIN Columns = DOMAIN runs /\ Columns = [r \in DOMAIN runs |-> Columns[r]]
  BY DEF Columns
<1> QED BY <1>3, <1>4

(* A row that is appended is appended to the columns.                         *)
LEMMA ColumnsAppended ==
  ASSUME DatabaseOK, NEW row, NEW col,
         runs' = Append(runs, row), col = [row EXCEPT !.grant = 0, !.work = 0]
  PROVE  Columns' = Append(Columns, col)
<1>1. PICK n : n = Len(runs)
  OBVIOUS
<1>2. runs \in Seq(RunRow(GrantRow, WorkRow)) /\ n \in Nat /\ DOMAIN runs = 1 .. n
  BY <1>1, DatabaseFacts
<1>3. /\ DOMAIN runs' = 1 .. (n + 1) /\ runs'[n + 1] = row
      /\ \A r \in 1 .. n : runs'[r] = runs[r]
  BY <1>1, <1>2
<1>4. Columns' = [r \in 1 .. (n + 1) |-> IF r = n + 1 THEN col ELSE Columns[r]]
  <2>1. \A r \in 1 .. n : Columns[r] = [runs[r] EXCEPT !.grant = 0, !.work = 0]
    BY <1>2 DEF Columns
  <2>2. \A r \in 1 .. (n + 1) : r # n + 1 => r \in 1 .. n
    BY <1>2
  <2>3. Columns' = [r \in 1 .. (n + 1) |-> [runs'[r] EXCEPT !.grant = 0, !.work = 0]]
    BY <1>3 DEF Columns
  <2> QED BY <1>3, <2>1, <2>2, <2>3
<1>5. Len(Columns) = n
  BY <1>1, ColumnsAre
<1>6. Append(Columns, col) = [r \in 1 .. (n + 1) |-> IF r = n + 1 THEN col ELSE Columns[r]]
  BY <1>5 DEF Append
<1> QED BY <1>4, <1>6

(* A claim draws the token of its number, which no run has.                   *)
LEMMA ClaimIsCall ==
  ASSUME ServerInv, ServerInv', NEW p \in Procs, Claims(p)
  PROVE  Db!Claim
<1>1. PICK auth \in {"owner", "automatic", "interrupted"}, at \in proc[p].since .. now :
        StartOwnedAttempt(auth, ClaimParams(p, at), Len(runs) + 1)
  BY DEF Claims
<1>2. PICK q : q = ClaimParams(p, at)
  OBVIOUS
<1>3. PICK n : n = Len(runs) + 1
  OBVIOUS
<1>4. /\ q.status \in {"todo", "failed"} /\ q.run \in Nat /\ q.startedAt \in 0 .. now
  BY <1>2, ClaimFacts DEF Claims
<1>5. DatabaseOK
  BY DEF ServerInv
<1>6. PICK t, g, when : t = q.task /\ g = q.grant /\ when = q.startedAt
  OBVIOUS
<1>7. PICK d : d = [task |-> t, status |-> q.status, run |-> q.run,
                    grant |-> 0, startedAt |-> when]
  OBVIOUS
<1> DEFINE
      row == [task |-> t, grant |-> g, status |-> "running",
              exit |-> "", tokens |-> 0, work |-> NoWork,
              startedAt |-> when, finishedAt |-> NoTime,
              owner |-> n, lease |-> when + Lease]
      col == [task |-> t, grant |-> 0, status |-> "running",
              exit |-> "", tokens |-> 0, work |-> 0,
              startedAt |-> when, finishedAt |-> NoTime,
              owner |-> n, lease |-> when + Lease]
<1>8. /\ Len(runs) < MaxRuns /\ Claimable(auth, q) /\ runs' = Append(runs, row)
      /\ tasks' = [tasks EXCEPT ![t] =
                     [status |-> "in_progress", cont |-> NoContinuation]]
      /\ UNCHANGED <<now, comments, scans>>
  BY <1>1, <1>2, <1>3, <1>6 DEF StartOwnedAttempt
<1>9. Columns' = Append(Columns, col)
  <2> DEFINE new == [row EXCEPT !.grant = 0, !.work = 0]
  <2>1. new \in [task : {t}, grant : {0}, status : {"running"}, exit : {""},
                 tokens : {0}, work : {0}, startedAt : {when},
                 finishedAt : {NoTime}, owner : {n}, lease : {when + Lease}]
    OBVIOUS
  <2> HIDE DEF new
  <2>2. col = new
    BY <2>1
  <2>3. col = [row EXCEPT !.grant = 0, !.work = 0]
    BY <2>2 DEF new
  <2> HIDE DEF row, col
  <2> QED BY <1>5, <1>8, <2>3, ColumnsAppended
<1>10. q.run = 0 \/ q.run \in DOMAIN runs
  BY <1>8 DEF Claimable, IsLatestRun, RunsOf
<1>11. Db!Claimable(auth, d)
  <2>1. Db!MayClaim(auth, d)
    <3>1. MayClaim(auth, q)
      BY <1>8 DEF Claimable
    <3>2. q.run # 0 => Columns[q.run].exit = runs[q.run].exit
      BY <1>5, <1>10, ColumnsAre
    <3> QED BY <1>6, <1>7, <3>1, <3>2 DEF MayClaim, Db!MayClaim
  <2> QED BY <1>5, <1>6, <1>7, <1>8, <2>1, QueriesAgree
          DEF Claimable, Db!Claimable, Transition, Db!Transition
<1>12. Db!StartOwnedAttempt(auth, d, n)
  <2> HIDE DEF row
  <2>1. Len(Columns) < MaxRuns
    BY <1>5, <1>8, ColumnsAre
  <2> QED BY <1>7, <1>8, <1>9, <1>11, <2>1
          DEF Db!StartOwnedAttempt, Db!NoContinuation, NoContinuation
<1> HIDE DEF row, col
<1>13. n \in Db!FreshTokens
  <2>1. n \in Tokens
    <3>1. Len(runs) \in Nat /\ MaxRuns \in Nat
      BY <1>5, DatabaseFacts, StoreAssumption
    <3>2. n \in 1 .. MaxRuns
      BY <1>3, <1>8, <3>1
    <3> QED BY <3>2, RunnerAssumption
  <2>2. \A r \in DOMAIN runs : runs[r].owner # n
    BY <1>3, <1>5, DatabaseFacts, RunFacts
  <2> QED BY <1>5, <2>1, <2>2, ColumnsAre DEF Db!FreshTokens
<1>14. t \in DOMAIN tasks /\ q.status \in Db!TaskStatus
  BY <1>4, <1>6, <1>8 DEF Claimable, Db!TaskStatus
<1>15. q.run \in 0 .. Len(Columns)
  <2>1. PICK k : k = Len(runs)
    OBVIOUS
  <2>2. k \in Nat /\ DOMAIN runs = 1 .. k /\ Len(Columns) = k
    BY <1>5, <2>1, DatabaseFacts, ColumnsAre
  <2>3. q.run \in 0 .. k
    BY <1>4, <1>10, <2>2
  <2> QED BY <2>2, <2>3
<1>16. PICK status, r : status = q.status /\ r = q.run
  OBVIOUS
<1>17. Db!StartOwnedAttempt(auth, [task |-> t, status |-> status, run |-> r,
                                   grant |-> 0, startedAt |-> when], n)
  BY <1>7, <1>12, <1>16
<1>18. /\ t \in DOMAIN tasks /\ status \in Db!TaskStatus /\ r \in 0 .. Len(Columns)
       /\ when \in 0 .. now /\ 0 \in {0}
  BY <1>4, <1>6, <1>14, <1>15, <1>16
<1> QED BY <1>13, <1>17, <1>18 DEF Db!Claim

(* A publication of tokens and a session, of which the session is collapsed.  *)
LEMMA PublishIsCall ==
  ASSUME ServerInv, ServerInv', NEW p \in Procs, Publishes(p)
  PROVE  Db!Publish
<1>1. PICK r, s : r = proc[p].run /\ s = proc[p].sess
  OBVIOUS
<1>2. /\ DatabaseOK /\ DatabaseOK' /\ Bound(s, r) /\ UpdateProgress(r, r, s.used, Work(s))
  BY <1>1, WorkingFacts DEF ServerInv, Publishes, Owning, InLoop
<1> DEFINE row == [runs[r] EXCEPT !.tokens = s.used, !.work = Work(s)]
           col == [Columns[r] EXCEPT !.tokens = s.used, !.work = 0]
<1>3. /\ Owns(r, r) /\ r \in DOMAIN runs /\ runs' = [runs EXCEPT ![r] = row]
      /\ UNCHANGED <<now, tasks, comments, scans>>
  BY <1>2 DEF UpdateProgress, Owns
<1>4. runs[r] \in RunRow(GrantRow, WorkRow) /\ r \in Tokens
  BY <1>2, <1>3, DatabaseFacts
<1>5. col = [row EXCEPT !.grant = 0, !.work = 0]
  <2>1. Columns[r] = [runs[r] EXCEPT !.grant = 0, !.work = 0]
    BY <1>3 DEF Columns
  <2> QED BY <1>4, <2>1 DEF RunRow
<1> HIDE DEF row
<1>6. Columns' = [Columns EXCEPT ![r] = col]
  <2> HIDE DEF col
  <2> QED BY <1>2, <1>3, <1>5, ColumnsUpdated
<1>7. Columns' = [Columns EXCEPT ![r].tokens = s.used, ![r].work = 0]
  BY <1>6
<1>8. Db!UpdateProgress(r, r, s.used, 0)
  BY <1>2, <1>3, <1>7, QueriesAgree DEF Db!UpdateProgress
<1>9. s.used \in Amounts /\ r \in DOMAIN Columns
  BY <1>2, <1>3, WorkIsStorable, ColumnsAre
<1> QED BY <1>4, <1>8, <1>9 DEF Db!Publish

LEMMA RenewIsCall ==
  ASSUME ServerInv, ServerInv', NEW p \in Procs, Renews(p)
  PROVE  Db!Renew
<1>1. PICK r : r = proc[p].run
  OBVIOUS
<1>2. DatabaseOK /\ DatabaseOK' /\ RenewLease(r, r)
  BY <1>1 DEF ServerInv, Renews
<1> DEFINE row == [runs[r] EXCEPT !.lease = now + Lease]
           col == [Columns[r] EXCEPT !.lease = now + Lease]
<1>3. /\ Owns(r, r) /\ r \in DOMAIN runs /\ runs' = [runs EXCEPT ![r] = row]
      /\ UNCHANGED <<now, tasks, comments, scans>>
  BY <1>2 DEF RenewLease, Owns
<1>4. runs[r] \in RunRow(GrantRow, WorkRow) /\ r \in Tokens
  BY <1>2, <1>3, DatabaseFacts
<1>5. col = [row EXCEPT !.grant = 0, !.work = 0]
  <2>1. Columns[r] = [runs[r] EXCEPT !.grant = 0, !.work = 0]
    BY <1>3 DEF Columns
  <2> QED BY <1>4, <2>1 DEF RunRow
<1> HIDE DEF row
<1>6. Columns' = [Columns EXCEPT ![r] = col]
  <2> HIDE DEF col
  <2> QED BY <1>2, <1>3, <1>5, ColumnsUpdated
<1>7. Db!RenewLease(r, r)
  BY <1>2, <1>3, <1>6, QueriesAgree DEF Db!RenewLease
<1>8. r \in DOMAIN Columns
  BY <1>2, <1>3, ColumnsAre
<1> QED BY <1>4, <1>7, <1>8 DEF Db!Renew

(* The policy is the same operator in both modules.                           *)
LEMMA PolicyAgrees ==
  /\ \A outcome, at, reset, progressed, origin :
       Db!DecideAttemptCompletion(outcome, at, reset, progressed, origin)
       = DecideAttemptCompletion(outcome, at, reset, progressed, origin)
  /\ \A outcome : Db!TerminalState(outcome) = TerminalState(outcome)
  /\ Db!NoContinuation = NoContinuation
  /\ Db!AttemptOutcome = AttemptOutcome
  /\ Db!ProviderWindowOrigin = ProviderWindowOrigin
<1>1. \A outcome, at, reset, progressed, origin :
       Db!DecideAttemptCompletion(outcome, at, reset, progressed, origin)
       = DecideAttemptCompletion(outcome, at, reset, progressed, origin)
  BY Zenon DEF Db!DecideAttemptCompletion, DecideAttemptCompletion,
     Db!NoContinuation, NoContinuation, Db!ScheduledContinuation, ScheduledContinuation,
     Db!StoppedContinuation, StoppedContinuation
<1>2. \A outcome : Db!TerminalState(outcome) = TerminalState(outcome)
  BY Zenon DEF Db!TerminalState, TerminalState
<1> QED BY <1>1, <1>2 DEF Db!NoContinuation, NoContinuation, Db!AttemptOutcome,
        AttemptOutcome, Db!ProviderWindowOrigin, ProviderWindowOrigin

(* What a process finishes a run with was decided by the policy, as of an     *)
(* instant that has passed.                                                   *)
LEMMA EndIsDecided ==
  ASSUME ServerInv, NEW p \in Procs, Ends(p), NEW at \in 0 .. now, NEW reset \in Resets
  PROVE  LET q == FinishParams(p, at, reset)
         IN \E c \in Db!Completions : q.outcome = c.outcome /\ q.cont = c.cont
<1>1. PICK s : s = proc[p].sess
  OBVIOUS
<1>2. Bound(s, proc[p].run) /\ now \in Nat
  BY <1>1, EndFacts, DatabaseFacts DEF Working, ServerInv
<1>3. PICK outcome : outcome = OutcomeOf(s)
  OBVIOUS
<1>4. outcome \in AttemptOutcome
  BY <1>3 DEF OutcomeOf, AttemptOutcome
<1>5. PICK policyAt : policyAt = IF outcome = "token_exhausted" /\ s.haltedAt # NoTime
                                   THEN s.haltedAt ELSE at
  OBVIOUS
<1>6. policyAt \in 0 .. now
  <2>1. s.haltedAt # NoTime => s.haltedAt \in Nat /\ s.haltedAt <= now
    BY <1>2, SoundFields DEF Bound, Sound
  <2> QED BY <1>2, <1>5, <2>1
<1>7. s.origin \in ProviderWindowOrigin
  BY <1>2, SoundFields DEF Bound, SessionRow
<1>8. PICK progressed : progressed = (s.next > RunOf(p).grant.startStep)
  OBVIOUS
<1>9. progressed \in BOOLEAN
  BY <1>8
<1>10. PICK cont : cont = DecideAttemptCompletion(outcome, policyAt, reset, progressed, s.origin)
  OBVIOUS
<1>11. /\ FinishParams(p, at, reset).outcome = outcome
       /\ FinishParams(p, at, reset).cont = cont
  BY <1>1, <1>3, <1>5, <1>8, <1>10 DEF FinishParams, Completion
<1>12. [outcome |-> outcome, cont |-> cont] \in Db!Completions
  <2>1. cont = Db!DecideAttemptCompletion(outcome, policyAt, reset, progressed, s.origin)
    BY <1>10, PolicyAgrees
  <2> QED BY <1>4, <1>6, <1>7, <1>9, <2>1, PolicyAgrees DEF Db!Completions
<1>13. PICK c : c = [outcome |-> outcome, cont |-> cont]
  OBVIOUS
<1>14. c \in Db!Completions /\ c.outcome = outcome /\ c.cont = cont
  BY <1>12, <1>13
<1> QED BY <1>11, <1>14

(* The end of a run, by its owner or by a server.                             *)
LEMMA EndIsCall ==
  ASSUME ServerInv, ServerInv', NEW p \in Procs, Ends(p)
  PROVE  Db!End
<1>1. PICK at \in 0 .. now, reset \in Resets : Finish(FinishParams(p, at, reset))
  BY EndFacts
<1>2. PICK q : q = FinishParams(p, at, reset)
  OBVIOUS
<1>3. PICK c \in Db!Completions : q.outcome = c.outcome /\ q.cont = c.cont
  BY <1>2, EndIsDecided
<1>4. PICK r, s : r = proc[p].run /\ s = proc[p].sess
  OBVIOUS
<1>5. /\ q.run = r /\ q.tokens = s.used /\ q.work = Work(s)
      /\ q.finishedAt = at /\ q.comment \in BOOLEAN
  BY <1>2, <1>4 DEF FinishParams
<1>6. DatabaseOK /\ DatabaseOK' /\ Bound(s, r)
  BY <1>4, EndFacts DEF ServerInv, Working
<1>7. Finish(q) /\ Finishable(q)
  BY <1>1, <1>2 DEF Finish
<1>8. PICK end : end = TerminalState(q.outcome)
  OBVIOUS
<1>9. PICK t, tokens, work, comment :
        t = q.task /\ tokens = q.tokens /\ work = q.work /\ comment = q.comment
  OBVIOUS
<1> DEFINE
      row == [runs[r] EXCEPT !.status = end.run, !.exit = end.exit, !.tokens = tokens,
                             !.work = work, !.finishedAt = at]
      col == [Columns[r] EXCEPT !.status = end.run, !.exit = end.exit, !.tokens = tokens,
                                !.work = 0, !.finishedAt = at]
<1>10. /\ r \in DOMAIN runs /\ runs' = [runs EXCEPT ![r] = row]
       /\ tasks' = [tasks EXCEPT ![t] = [status |-> end.task, cont |-> c.cont]]
       /\ comments' = IF comment THEN Append(comments, t) ELSE comments
       /\ UNCHANGED <<now, scans>>
  BY <1>3, <1>5, <1>7, <1>8, <1>9 DEF Finish, Finishable
<1>11. runs[r] \in RunRow(GrantRow, WorkRow) /\ r \in Tokens
  BY <1>6, <1>10, DatabaseFacts
<1>12. col = [row EXCEPT !.grant = 0, !.work = 0]
  <2>1. Columns[r] = [runs[r] EXCEPT !.grant = 0, !.work = 0]
    BY <1>10 DEF Columns
  <2> QED BY <1>11, <2>1 DEF RunRow
<1> HIDE DEF row
<1>13. Columns' = [Columns EXCEPT ![r] = col]
  <2> HIDE DEF col
  <2> QED BY <1>6, <1>10, <1>12, ColumnsUpdated
<1>14. PICK d : d = [run |-> r, task |-> t, outcome |-> c.outcome, cont |-> c.cont,
                     tokens |-> tokens, work |-> 0, finishedAt |-> at,
                     comment |-> comment]
  OBVIOUS
<1>15. /\ d.run = r /\ d.task = t /\ d.outcome = c.outcome /\ d.cont = c.cont
       /\ d.tokens = tokens /\ d.work = 0 /\ d.finishedAt = at /\ d.comment = comment
  BY <1>14
<1>16. Db!Finishable(d)
  <2>1. Finishable(d)
    BY <1>3, <1>5, <1>7, <1>9, <1>15 DEF Finishable
  <2> QED BY <1>6, <2>1, QueriesAgree
<1>17. Db!TerminalState(d.outcome) = end
  BY <1>3, <1>8, <1>15, PolicyAgrees
<1>18. Columns' = [Columns EXCEPT ![d.run] =
         [@ EXCEPT !.status = end.run, !.exit = end.exit, !.tokens = d.tokens,
                   !.work = d.work, !.finishedAt = d.finishedAt]]
  BY <1>13, <1>15
<1>19. Db!Finish(d)
  BY <1>10, <1>15, <1>16, <1>17, <1>18 DEF Db!Finish
<1>20. Db!RecoverExpiredAttempt(d) \/ Db!FinishAttempt(d, r)
  <2>1. Owns(r, r) \/ Expired(r)
    BY <1>4 DEF Ends
  <2> QED BY <1>6, <1>15, <1>19, <2>1, QueriesAgree
          DEF Db!RecoverExpiredAttempt, Db!FinishAttempt
<1>21. /\ r \in Db!RunningRuns /\ t \in DOMAIN tasks
       /\ tokens \in Amounts /\ comment \in BOOLEAN
  <2>1. r \in RunningRuns /\ t \in DOMAIN tasks
    BY <1>5, <1>7, <1>9 DEF Finishable, RunningRuns
  <2> QED BY <1>5, <1>6, <1>9, <2>1, QueriesAgree, SoundFields DEF Bound
<1> HIDE DEF col
<1> QED BY <1>11, <1>14, <1>20, <1>21 DEF Db!End

(* Rows that are not touched are not touched in the columns.                  *)
LEMMA ColumnsStay ==
  ASSUME UNCHANGED runs
  PROVE  Columns' = Columns
BY DEF Columns

(* A scan reads its row, and writes its decision, as Store says.              *)
LEMMA ScheduleIsCall ==
  ASSUME ServerInv, NEW p \in Procs, Schedules(p)
  PROVE  Db!Schedule
<1>1. DatabaseOK /\ p \in Scanners
  BY RunnerAssumption DEF ServerInv
<1>2. CASE ReadUnscheduled(p)
  <2>1. PICK t \in DOMAIN tasks, r \in DOMAIN runs :
          /\ Unscheduled(t) /\ IsLatestRun(t, r)
          /\ \A other \in DOMAIN tasks : Unscheduled(other) => t <= other
          /\ scans' = [scans EXCEPT ![p] =
               [task |-> t, finishedAt |-> runs[r].finishedAt,
                tokens |-> runs[r].tokens]]
    BY <1>2 DEF ReadUnscheduled
  <2>2. scans[p] = NoScan /\ UNCHANGED <<now, tasks, runs, comments>>
    BY <1>2 DEF ReadUnscheduled
  <2>3. /\ Db!Unscheduled(t) /\ Db!IsLatestRun(t, r)
        /\ \A other \in DOMAIN tasks : Db!Unscheduled(other) => t <= other
    BY <1>1, <2>1, QueriesAgree
  <2>4. /\ r \in DOMAIN Columns /\ Columns' = Columns
        /\ scans' = [scans EXCEPT ![p] =
             [task |-> t, finishedAt |-> Columns[r].finishedAt,
              tokens |-> Columns[r].tokens]]
    BY <1>1, <2>1, <2>2, ColumnsAre, ColumnsStay
  <2>5. scans[p] = Db!NoScan
    BY <2>2 DEF NoScan, Db!NoScan
  <2>6. Db!ReadUnscheduled(p)
    BY <2>2, <2>3, <2>4, <2>5 DEF Db!ReadUnscheduled
  <2> QED BY <1>1, <2>6 DEF Db!Schedule
<1>3. CASE InitializeUnscheduled(p)
  <2>1. Columns' = Columns
    BY <1>3, ColumnsStay DEF InitializeUnscheduled
  <2>2. PICK row : row = scans[p]
    OBVIOUS
  <2>3. PICK decision : decision =
          DecideAttemptCompletion("token_exhausted", row.finishedAt, Reset,
                                  row.tokens > 0, "fresh")
    OBVIOUS
  <2>4. /\ row # NoScan
        /\ tasks' = IF tasks[row.task] = [status |-> "failed", cont |-> NoContinuation]
                      THEN [tasks EXCEPT ![row.task].cont = decision]
                      ELSE tasks
        /\ scans' = [scans EXCEPT ![p] = NoScan]
        /\ UNCHANGED <<now, runs, comments>>
    BY <1>3, <2>2, <2>3 DEF InitializeUnscheduled
  <2>5. decision = Db!DecideAttemptCompletion("token_exhausted", row.finishedAt, Reset,
                                              row.tokens > 0, "fresh")
    BY <2>3, PolicyAgrees
  <2>6. Db!NoContinuation = NoContinuation /\ Db!NoScan = NoScan
    BY PolicyAgrees DEF NoScan, Db!NoScan
  <2>7. Db!InitializeUnscheduled(p)
    BY <2>1, <2>2, <2>4, <2>5, <2>6 DEF Db!InitializeUnscheduled
  <2> QED BY <1>1, <2>7 DEF Db!Schedule
<1> QED BY <1>2, <1>3 DEF Schedules

(* Processes that die abandon the rows they hold, if they hold any.           *)
LEMMA DyingIsCall ==
  ASSUME ServerInv, NEW lost \in SUBSET Procs, Dies(lost)
  PROVE  [Db!StoreNext]_(Db!storeVars)
<1>1. Columns' = Columns /\ UNCHANGED <<now, tasks, comments>>
  BY ColumnsStay DEF Dies
<1>2. CASE \E p \in lost : scans[p] # NoScan
  <2>1. Db!AbandonScans(lost)
    BY <1>1, <1>2, RunnerAssumption DEF Dies, Db!AbandonScans, Db!NoScan, NoScan
  <2> QED BY <2>1, RunnerAssumption DEF Db!StoreNext, Db!Schedule
<1>3. CASE \A p \in lost : scans[p] = NoScan
  <2>1. scans \in [Procs -> ScanRow]
    BY RunnerAssumption DEF ServerInv, DatabaseOK, StoreInvOver, StoreTyped
  <2>2. scans' = scans
    BY <1>3, <2>1 DEF Dies
  <2> QED BY <1>1, <2>2 DEF Db!storeVars
<1> QED BY <1>2, <1>3

(* Every step of the program is a call that Store admits.                     *)
LEMMA StepIsCall ==
  ASSUME ServerInv, [ServerNext]_runnerVars
  PROVE  [Db!StoreNext]_(Db!storeVars)
<1>1. ServerInv'
  BY ServerInvStep
<1>2. CASE AddTask
  <2>1. Create
    BY <1>2 DEF AddTask
  <2>2. Columns' = Columns
    BY <2>1, ColumnsStay DEF Create
  <2>3. Db!Create
    BY <2>1, <2>2 DEF Create, Db!Create, NoContinuation, Db!NoContinuation
  <2> QED BY <2>3 DEF Db!StoreNext
<1>3. ASSUME NEW p \in Procs, CallOf(p) PROVE Db!StoreNext
  BY <1>1, <1>3, ClaimIsCall, PublishIsCall, RenewIsCall, EndIsCall, ScheduleIsCall
     DEF CallOf, Db!StoreNext
<1>4. ASSUME NEW lost \in SUBSET Procs, Dies(lost) PROVE [Db!StoreNext]_(Db!storeVars)
  BY <1>4, DyingIsCall
<1>5. CASE Tick
  <2>1. Db!Tick
    BY <1>5, ColumnsStay DEF Tick, Db!Tick
  <2> QED BY <2>1 DEF Db!StoreNext
<1>6. CASE UNCHANGED <<dbVars, plans>>
  <2>1. UNCHANGED <<now, tasks, runs, comments, scans>>
    BY <1>6 DEF dbVars
  <2> QED BY <2>1, ColumnsStay DEF Db!storeVars
<1> QED BY <1>2, <1>3, <1>4, <1>5, <1>6, StepCalls

(* A new inbox is an empty database.                                          *)
LEMMA InitIsEmpty ==
  ASSUME NeverUpgraded, RunnerInit
  PROVE  Db!StoreInit
<1>1. StoreInit
  BY DEF RunnerInit, NewInbox, NeverUpgraded
<1>2. Columns = << >>
  <2>1. DOMAIN runs = {} /\ DOMAIN << >> = {}
    BY <1>1 DEF StoreInit
  <2> QED BY <2>1 DEF Columns
<1> QED BY <1>1, <1>2 DEF StoreInit, Db!StoreInit, NoScan, Db!NoScan

(* The program calls the store as Store lets it be called: its tokens are     *)
(* fresh, its clock readings past, its completions decided by the policy with *)
(* an interval somebody configured. So every execution of the program, with   *)
(* the grant and work columns left out, is one of Store.                      *)
THEOREM CallsTheStoreHolds == NeverUpgraded /\ ServerSpec => CallsTheStore
<1>1. NeverUpgraded /\ RunnerInit => Db!StoreInit
  BY InitIsEmpty
<1>2. ServerInv /\ [ServerNext]_runnerVars => [Db!StoreNext]_(Db!storeVars)
  BY StepIsCall
<1> QED BY <1>1, <1>2, ServerInvariant, PTL DEF ServerSpec, CallsTheStore, Db!StoreSpec

(* The inbox keeps what the database promises: each task has one running      *)
(* attempt at most, its status is the one its latest attempt left, only a     *)
(* failed task waits to be continued, and the lease of a dead process runs    *)
(* out.                                                                       *)
THEOREM InboxKeepsTheStore ==
  NeverUpgraded /\ ServerSpec =>
    [](/\ OneRunningAttempt /\ TaskMirrorsLatestRun
       /\ ContinuationOnlyOnFailed /\ TakeoverIsBounded)
<1>1. ServerInv => /\ OneRunningAttempt /\ TaskMirrorsLatestRun
                   /\ ContinuationOnlyOnFailed /\ TakeoverIsBounded
  BY DEF ServerInv, DatabaseOK, StoreInvOver
<1> QED BY <1>1, ServerInvariant, PTL

=============================================================================
