---------------------------- MODULE StoreProofs ----------------------------
(* The safety of the database under arbitrary callers, for every value of the *)
(* constants: any number of tasks, runs, tokens and scanners.                 *)
EXTENDS Store, TLAPS

(* What appending a row and what updating a row do to a table. *)
LEMMA AppendRow ==
  ASSUME NEW S, NEW s \in Seq(S), NEW e \in S
  PROVE  /\ Append(s, e) \in Seq(S)
         /\ Len(Append(s, e)) = Len(s) + 1
         /\ DOMAIN Append(s, e) = DOMAIN s \cup {Len(s) + 1}
         /\ Len(s) + 1 \notin DOMAIN s
         /\ \A i \in DOMAIN s : Append(s, e)[i] = s[i]
         /\ Append(s, e)[Len(s) + 1] = e
OBVIOUS

(* Updating a row: an UPDATE of one id.                                       *)
LEMMA UpdateRow ==
  ASSUME NEW S, NEW s \in Seq(S), NEW i \in DOMAIN s, NEW e \in S
  PROVE  /\ [s EXCEPT ![i] = e] \in Seq(S)
         /\ DOMAIN [s EXCEPT ![i] = e] = DOMAIN s
         /\ Len([s EXCEPT ![i] = e]) = Len(s)
         /\ [s EXCEPT ![i] = e][i] = e
         /\ \A j \in DOMAIN s : j # i => [s EXCEPT ![i] = e][j] = s[j]
OBVIOUS

(* Row ids are the numbers from 1, as AUTOINCREMENT gives them.               *)
LEMMA RowIds ==
  ASSUME NEW S, NEW s \in Seq(S)
  PROVE  /\ Len(s) \in Nat
         /\ DOMAIN s = 1 .. Len(s)
         /\ \A i \in DOMAIN s : i \in Nat /\ i # 0 /\ s[i] \in S
OBVIOUS

-----------------------------------------------------------------------------
(* Every run row refers to a task row, and so does every row a scanner holds. *)
RunsBelongToTasks == \A r \in DOMAIN runs : runs[r].task \in DOMAIN tasks

ScansBelongToTasks ==
  \A s \in Scanners : scans[s] # NoScan => scans[s].task \in DOMAIN tasks

(* The types of the grant and work columns are parameters, so that what is    *)
(* proved about a call holds for the columns of any caller.                   *)
StoreInvOver(G, W) ==
  /\ StoreTyped(G, W)
  /\ RunsBelongToTasks
  /\ ScansBelongToTasks
  /\ OneRunningAttempt
  /\ TaskMirrorsLatestRun
  /\ ContinuationOnlyOnFailed
  /\ TakeoverIsBounded

StoreInv == StoreInvOver(Grants, Works)

(* The columns of a task without a continuation are a storable decision.      *)
LEMMA EmptyContinuation ==
  /\ NoContinuation \in ContinuationDecision
  /\ NoContinuation.kind = ""
  /\ ParsesAsContinuation(NoContinuation)
<1>1. NoContinuation.kind = "" /\ NoContinuation.at = NoTime
  BY DEF NoContinuation
<1>2. NoContinuation \in ContinuationDecision
  BY DEF NoContinuation, ContinuationDecision
<1> QED BY <1>1, <1>2 DEF ParsesAsContinuation

(* The empty database satisfies the invariant.                                *)
LEMMA StoreInvInit ==
  ASSUME NEW G, NEW W, StoreInit PROVE StoreInvOver(G, W)
<1> USE StoreAssumption DEF StoreInit
<1>1. StoreTyped(G, W)
  BY DEF StoreTyped, ScanRow, NoScan
<1>2. RunsBelongToTasks /\ ScansBelongToTasks
  BY DEF RunsBelongToTasks, ScansBelongToTasks
<1>3. OneRunningAttempt /\ TaskMirrorsLatestRun
  BY DEF OneRunningAttempt, RunningIsLatest, InProgressHasRun,
         TaskMirrorsLatestRun, RunningRuns
<1>4. ContinuationOnlyOnFailed /\ TakeoverIsBounded
  BY DEF ContinuationOnlyOnFailed, TakeoverIsBounded
<1> QED BY <1>1, <1>2, <1>3, <1>4 DEF StoreInvOver

(* What the policy decides is storable: a continuation every reader parses,   *)
(* and none for an outcome that settles the task.                             *)
LEMMA DecisionIsStorable ==
  ASSUME NEW outcome \in AttemptOutcome, NEW at \in Nat, NEW reset \in Nat,
         NEW progressed, NEW origin
  PROVE  LET d == DecideAttemptCompletion(outcome, at, reset, progressed, origin)
         IN /\ d \in ContinuationDecision
            /\ ParsesAsContinuation(d)
            /\ outcome \in {"completed", "agent_error"} => d = NoContinuation
<1>1. \A t \in Nat : /\ ScheduledContinuation(t) \in ContinuationDecision
                     /\ ParsesAsContinuation(ScheduledContinuation(t))
  BY NoTimeAssumption
     DEF ScheduledContinuation, ContinuationDecision, ParsesAsContinuation
<1>2. \A t \in Nat : /\ StoppedContinuation(t) \in ContinuationDecision
                     /\ ParsesAsContinuation(StoppedContinuation(t))
  BY NoTimeAssumption
     DEF StoppedContinuation, ContinuationDecision, ParsesAsContinuation
<1>3. at + reset \in Nat
  OBVIOUS
<1> QED
  BY <1>1, <1>2, <1>3, EmptyContinuation DEF DecideAttemptCompletion, AttemptOutcome

(* A new task has no run and no continuation.                                 *)
LEMMA CreateStep ==
  ASSUME NEW G, NEW W, StoreInvOver(G, W), Create PROVE StoreInvOver(G, W)'
<1> DEFINE row == [status |-> "todo", cont |-> NoContinuation]
           t0 == Len(tasks) + 1
<1>1. /\ tasks \in Seq(Task) /\ runs \in Seq(RunRow(G, W)) /\ tasks' = Append(tasks, row)
      /\ UNCHANGED <<now, runs, comments, scans>>
  BY DEF StoreInvOver, StoreTyped, Create
<1>2. row \in Task
  BY DEF Task, TaskStatus, NoContinuation, ContinuationDecision
<1> HIDE DEF row
<1>3. /\ tasks' \in Seq(Task)
      /\ DOMAIN tasks' = DOMAIN tasks \cup {t0} /\ t0 \notin DOMAIN tasks
      /\ \A t \in DOMAIN tasks : tasks'[t] = tasks[t]
      /\ tasks'[t0] = row
  BY <1>1, <1>2, AppendRow
<1>4. row.status = "todo" /\ row.cont = NoContinuation
  BY DEF row
<1> HIDE DEF t0
<1>5. \A t : RunsOf(t)' = RunsOf(t)
  BY <1>1 DEF RunsOf
<1>6. RunsOf(t0) = {}
  BY <1>3 DEF RunsOf, StoreInvOver, RunsBelongToTasks
<1>7. \A t, r : IsLatestRun(t, r)' <=> IsLatestRun(t, r)
  BY <1>5 DEF IsLatestRun
<1>8. StoreTyped(G, W)'
  BY <1>1, <1>3 DEF StoreInvOver, StoreTyped
<1>9. RunsBelongToTasks' /\ ScansBelongToTasks'
  BY <1>1, <1>3 DEF StoreInvOver, RunsBelongToTasks, ScansBelongToTasks
<1>10. OneRunningAttempt'
  BY <1>1, <1>3, <1>4, <1>5, <1>6, <1>7
     DEF StoreInvOver, OneRunningAttempt, RunningIsLatest, InProgressHasRun, RunningRuns
<1>11. TaskMirrorsLatestRun'
  BY <1>1, <1>3, <1>4, <1>5, <1>6, <1>7 DEF StoreInvOver, TaskMirrorsLatestRun
<1>12. ContinuationOnlyOnFailed'
  <2> SUFFICES ASSUME NEW t \in DOMAIN tasks'
               PROVE  /\ ParsesAsContinuation(tasks'[t].cont)
                      /\ tasks'[t].cont.kind # "" => tasks'[t].status = "failed"
    BY DEF ContinuationOnlyOnFailed
  <2>1. CASE t \in DOMAIN tasks
    BY <1>3, <2>1 DEF StoreInvOver, ContinuationOnlyOnFailed
  <2>2. CASE t = t0
    BY <1>3, <1>4, <2>2, EmptyContinuation
  <2> QED BY <1>3, <2>1, <2>2
<1>13. TakeoverIsBounded'
  BY <1>1 DEF StoreInvOver, TakeoverIsBounded
<1> QED BY <1>8, <1>9, <1>10, <1>11, <1>12, <1>13 DEF StoreInvOver

(* A claim appends a running row to a task none of whose runs is running.     *)
LEMMA ClaimStep ==
  ASSUME NEW G, NEW W, StoreInvOver(G, W), NEW auth, NEW p, NEW token \in Tokens,
         p.task \in DOMAIN tasks, p.run \in Nat, p.grant \in G,
         NoWork \in W, p.startedAt \in 0 .. now,
         StartOwnedAttempt(auth, p, token)
  PROVE  StoreInvOver(G, W)'
<1> DEFINE
      r0 == Len(runs) + 1
      row == [task |-> p.task, grant |-> p.grant, status |-> "running",
              exit |-> "", tokens |-> 0, work |-> NoWork,
              startedAt |-> p.startedAt, finishedAt |-> NoTime,
              owner |-> token, lease |-> p.startedAt + Lease]
      claimed == [status |-> "in_progress", cont |-> NoContinuation]
<1>1. /\ now \in Nat /\ tasks \in Seq(Task) /\ runs \in Seq(RunRow(G, W))
      /\ tasks' = [tasks EXCEPT ![p.task] = claimed]
      /\ runs' = Append(runs, row)
      /\ UNCHANGED <<now, comments, scans>>
  BY DEF StoreInvOver, StoreTyped, StartOwnedAttempt
<1>2. row \in RunRow(G, W)
  <2>1. p.startedAt \in Nat /\ p.startedAt + Lease \in Nat
    <3>1. now \in Nat /\ Lease \in Nat
      BY <1>1, StoreAssumption
    <3> HIDE DEF row, claimed, r0
    <3> QED BY <3>1
  <2>2. p.task \in Nat
    BY <1>1, RowIds
  <2>3. 0 \in Amounts /\ NoWork \in W
    BY StoreAssumption
  <2> QED BY <2>1, <2>2, <2>3 DEF RunRow, RunStatus, ExitReason
<1>3. claimed \in Task
  BY EmptyContinuation DEF Task, TaskStatus
<1>4. /\ row.task = p.task /\ row.status = "running"
      /\ row.lease = p.startedAt + Lease
      /\ claimed.status = "in_progress" /\ claimed.cont = NoContinuation
  OBVIOUS
<1> HIDE DEF row, claimed
<1>5. /\ runs' \in Seq(RunRow(G, W))
      /\ DOMAIN runs' = DOMAIN runs \cup {r0} /\ r0 \notin DOMAIN runs
      /\ \A r \in DOMAIN runs : runs'[r] = runs[r]
      /\ runs'[r0] = row
  BY <1>1, <1>2, AppendRow
<1>6. /\ r0 \in Nat /\ r0 # 0
      /\ \A r \in DOMAIN runs : r < r0 /\ r \in Nat /\ r # 0
  BY <1>1, RowIds
<1> HIDE DEF r0
<1>7. /\ tasks' \in Seq(Task)
      /\ DOMAIN tasks' = DOMAIN tasks
      /\ tasks'[p.task] = claimed
      /\ \A t \in DOMAIN tasks : t # p.task => tasks'[t] = tasks[t]
  BY <1>1, <1>3, UpdateRow
<1>8. tasks[p.task].status \in {"todo", "failed"} /\ IsLatestRun(p.task, p.run)
  BY DEF StartOwnedAttempt, Claimable, Transition
<1>9. RunsOf(p.task) \cap RunningRuns = {}
  BY <1>8 DEF StoreInvOver, OneRunningAttempt, InProgressHasRun
<1>10. /\ RunsOf(p.task)' = RunsOf(p.task) \cup {r0}
       /\ \A t : t # p.task => RunsOf(t)' = RunsOf(t)
  BY <1>4, <1>5 DEF RunsOf
<1>11. RunningRuns' = RunningRuns \cup {r0}
  BY <1>4, <1>5 DEF RunningRuns
<1>12. \A t, r : t = p.task /\ r = r0 => IsLatestRun(t, r)'
  <2>1. RunsOf(p.task) \subseteq DOMAIN runs
    BY DEF RunsOf
  <2> QED BY <1>6, <1>10, <2>1 DEF IsLatestRun
<1>13. \A t, r : t # p.task => (IsLatestRun(t, r)' <=> IsLatestRun(t, r))
  BY <1>10 DEF IsLatestRun
<1>14. \A r \in DOMAIN runs : ~IsLatestRun(p.task, r)'
  BY <1>6, <1>10 DEF IsLatestRun
<1>15. StoreTyped(G, W)'
  BY <1>1, <1>5, <1>7 DEF StoreInvOver, StoreTyped
<1>16. RunsBelongToTasks' /\ ScansBelongToTasks'
  BY <1>1, <1>4, <1>5, <1>7 DEF StoreInvOver, RunsBelongToTasks, ScansBelongToTasks
<1>17. RunningIsLatest'
  <2> SUFFICES ASSUME NEW t \in DOMAIN tasks', NEW r \in RunsOf(t)',
                      runs'[r].status = "running"
               PROVE  IsLatestRun(t, r)'
    BY DEF RunningIsLatest
  <2>1. CASE r = r0
    BY <1>4, <1>5, <1>12, <2>1 DEF RunsOf
  <2>2. CASE r # r0
    <3>1. /\ r \in DOMAIN runs /\ runs'[r] = runs[r]
          /\ t \in DOMAIN tasks /\ r \in RunsOf(t)
      BY <1>5, <1>7, <2>2 DEF RunsOf
    <3>2. t # p.task
      BY <1>9, <3>1 DEF RunningRuns
    <3> QED BY <1>13, <3>1, <3>2 DEF StoreInvOver, OneRunningAttempt, RunningIsLatest
  <2> QED BY <2>1, <2>2
<1>18. InProgressHasRun'
  BY <1>4, <1>5, <1>7, <1>10, <1>11 DEF StoreInvOver, OneRunningAttempt, InProgressHasRun, RunsOf
<1>19. TaskMirrorsLatestRun'
  <2> SUFFICES ASSUME NEW t \in DOMAIN tasks'
               PROVE  /\ tasks'[t].status = "todo" <=> RunsOf(t)' = {}
                      /\ \A r \in RunsOf(t)' :
                           IsLatestRun(t, r)' /\ runs'[r].status # "running" =>
                             \E o \in AttemptOutcome :
                               TerminalState(o) =
                                 [run |-> runs'[r].status, exit |-> runs'[r].exit,
                                  task |-> tasks'[t].status]
    BY DEF TaskMirrorsLatestRun
  <2>1. CASE t = p.task
    BY <1>4, <1>5, <1>7, <1>10, <1>14, <2>1 DEF RunsOf
  <2>2. CASE t # p.task
    <3>1. /\ t \in DOMAIN tasks /\ tasks'[t] = tasks[t] /\ RunsOf(t)' = RunsOf(t)
          /\ \A r \in RunsOf(t) : runs'[r] = runs[r]
      BY <1>5, <1>7, <1>10, <2>2 DEF RunsOf
    <3> QED BY <1>13, <2>2, <3>1 DEF StoreInvOver, TaskMirrorsLatestRun
  <2> QED BY <2>1, <2>2
<1>20. ContinuationOnlyOnFailed'
  <2> SUFFICES ASSUME NEW t \in DOMAIN tasks'
               PROVE  /\ ParsesAsContinuation(tasks'[t].cont)
                      /\ tasks'[t].cont.kind # "" => tasks'[t].status = "failed"
    BY DEF ContinuationOnlyOnFailed
  <2>1. CASE t = p.task
    BY <1>4, <1>7, <2>1, EmptyContinuation
  <2>2. CASE t # p.task
    BY <1>7, <2>2 DEF StoreInvOver, ContinuationOnlyOnFailed
  <2> QED BY <2>1, <2>2
<1>21. TakeoverIsBounded'
  <2>1. row.lease <= now + Lease
    BY <1>1, <1>4, StoreAssumption
  <2> QED BY <1>1, <1>5, <2>1 DEF StoreInvOver, TakeoverIsBounded
<1> QED BY <1>15, <1>16, <1>17, <1>18, <1>19, <1>20, <1>21 DEF StoreInvOver, OneRunningAttempt

(* A publication or a renewal replaces the row of a running run by one of the *)
(* same task that is still running.                                           *)
LEMMA ProgressStep ==
  ASSUME NEW G, NEW W, StoreInvOver(G, W), NEW r0 \in DOMAIN runs, NEW row \in RunRow(G, W),
         runs[r0].status = "running",
         row.status = "running", row.task = runs[r0].task, row.lease <= now + Lease,
         runs' = [runs EXCEPT ![r0] = row],
         UNCHANGED <<now, tasks, comments, scans>>
  PROVE  StoreInvOver(G, W)'
<1>1. runs \in Seq(RunRow(G, W)) /\ now \in Nat
  BY DEF StoreInvOver, StoreTyped
<1>2. /\ runs' \in Seq(RunRow(G, W))
      /\ DOMAIN runs' = DOMAIN runs
      /\ runs'[r0] = row
      /\ \A r \in DOMAIN runs : r # r0 => runs'[r] = runs[r]
  BY <1>1, UpdateRow
<1>3. /\ \A r \in DOMAIN runs : runs'[r].task = runs[r].task
      /\ \A r \in DOMAIN runs : (runs'[r].status = "running")
                                 <=> (runs[r].status = "running")
  BY <1>2
<1>4. \A t : RunsOf(t)' = RunsOf(t)
  BY <1>2, <1>3 DEF RunsOf
<1>5. RunningRuns' = RunningRuns
  BY <1>2, <1>3 DEF RunningRuns
<1>6. \A t, r : IsLatestRun(t, r)' <=> IsLatestRun(t, r)
  BY <1>4 DEF IsLatestRun
<1>7. StoreTyped(G, W)'
  BY <1>2 DEF StoreInvOver, StoreTyped
<1>8. RunsBelongToTasks' /\ ScansBelongToTasks'
  BY <1>2, <1>3 DEF StoreInvOver, RunsBelongToTasks, ScansBelongToTasks
<1>9. OneRunningAttempt'
  BY <1>2, <1>3, <1>4, <1>5, <1>6
     DEF StoreInvOver, OneRunningAttempt, RunningIsLatest, InProgressHasRun, RunningRuns
<1>10. TaskMirrorsLatestRun'
  <2>1. \A t, r : r \in RunsOf(t) /\ runs'[r].status # "running" => runs'[r] = runs[r]
    BY <1>2 DEF RunsOf
  <2> QED BY <1>4, <1>6, <2>1 DEF StoreInvOver, TaskMirrorsLatestRun
<1>11. ContinuationOnlyOnFailed'
  BY DEF StoreInvOver, ContinuationOnlyOnFailed
<1>12. TakeoverIsBounded'
  BY <1>2 DEF StoreInvOver, TakeoverIsBounded
<1> QED BY <1>7, <1>8, <1>9, <1>10, <1>11, <1>12 DEF StoreInvOver

(* A publication that is admitted replaces tokens and work only.              *)
LEMMA PublishStep ==
  ASSUME NEW G, NEW W, StoreInvOver(G, W), NEW r, NEW token,
         NEW tokens \in Amounts, NEW work \in W,
         UpdateProgress(r, token, tokens, work)
  PROVE  StoreInvOver(G, W)'
<1> DEFINE row == [runs[r] EXCEPT !.tokens = tokens, !.work = work]
<1>1. /\ r \in DOMAIN runs /\ runs[r].status = "running"
      /\ runs' = [runs EXCEPT ![r] = row]
      /\ UNCHANGED <<now, tasks, comments, scans>>
  BY DEF UpdateProgress, Owns
<1>2. runs[r] \in RunRow(G, W)
  BY <1>1, RowIds DEF StoreInvOver, StoreTyped
<1>3. /\ row \in RunRow(G, W) /\ row.status = runs[r].status
      /\ row.task = runs[r].task /\ row.lease = runs[r].lease
  BY <1>2 DEF RunRow
<1>4. runs[r].lease <= now + Lease
  BY <1>1 DEF StoreInvOver, TakeoverIsBounded
<1> HIDE DEF row
<1> QED BY <1>1, <1>3, <1>4, ProgressStep

(* A renewal that is admitted replaces the lease only, by a full one.         *)
LEMMA RenewStep ==
  ASSUME NEW G, NEW W, StoreInvOver(G, W), NEW r, NEW token,
         RenewLease(r, token)
  PROVE  StoreInvOver(G, W)'
<1> DEFINE row == [runs[r] EXCEPT !.lease = now + Lease]
<1>1. /\ r \in DOMAIN runs /\ runs[r].status = "running"
      /\ runs' = [runs EXCEPT ![r] = row]
      /\ UNCHANGED <<now, tasks, comments, scans>>
  BY DEF RenewLease, Owns
<1>2. runs[r] \in RunRow(G, W) /\ now + Lease \in Nat
  BY <1>1, RowIds, StoreAssumption DEF StoreInvOver, StoreTyped
<1>3. /\ row \in RunRow(G, W) /\ row.status = runs[r].status
      /\ row.task = runs[r].task /\ row.lease <= now + Lease
  BY <1>2 DEF RunRow
<1> HIDE DEF row
<1> QED BY <1>1, <1>3, ProgressStep

(* A finish, under either authorization, ends the running run of its task.    *)
LEMMA FinishStep ==
  ASSUME NEW G, NEW W, StoreInvOver(G, W), NEW p,
         p.outcome \in AttemptOutcome, p.cont \in ContinuationDecision,
         ParsesAsContinuation(p.cont),
         p.outcome = "completed" => p.cont = NoContinuation,
         p.tokens \in Amounts, p.work \in W, p.finishedAt \in Nat,
         Finish(p)
  PROVE  StoreInvOver(G, W)'
<1> DEFINE
      end == TerminalState(p.outcome)
      row == [runs[p.run] EXCEPT !.status = end.run, !.exit = end.exit,
                !.tokens = p.tokens, !.work = p.work, !.finishedAt = p.finishedAt]
      settled == [status |-> end.task, cont |-> p.cont]
<1>1. /\ now \in Nat /\ tasks \in Seq(Task) /\ runs \in Seq(RunRow(G, W))
      /\ p.run \in DOMAIN runs /\ p.task \in DOMAIN tasks
      /\ runs[p.run].status = "running" /\ runs[p.run].task = p.task
      /\ runs' = [runs EXCEPT ![p.run] = row]
      /\ tasks' = [tasks EXCEPT ![p.task] = settled]
      /\ comments' = IF p.comment THEN Append(comments, p.task) ELSE comments
      /\ UNCHANGED <<now, scans>>
  BY DEF StoreInvOver, StoreTyped, Finish, Finishable
<1>2. /\ end.run \in RunStatus \ {"running"} /\ end.exit \in ExitReason
      /\ end.task \in {"failed", "done"}
      /\ end.task = "done" => p.outcome = "completed"
  BY DEF AttemptOutcome, TerminalState, RunStatus, ExitReason
<1>3. runs[p.run] \in RunRow(G, W)
  BY <1>1
<1>4. row \in RunRow(G, W)
  BY <1>2, <1>3 DEF RunRow
<1>5. settled \in Task
  BY <1>2 DEF Task, TaskStatus
<1>6. /\ row.status = end.run /\ row.exit = end.exit
      /\ row.task = runs[p.run].task /\ row.lease = runs[p.run].lease
      /\ settled.status = end.task /\ settled.cont = p.cont
  BY <1>3 DEF RunRow
<1>7. TerminalState(p.outcome) = [run |-> end.run, exit |-> end.exit, task |-> end.task]
  BY DEF AttemptOutcome, TerminalState
<1> HIDE DEF row, settled, end
<1>8. /\ runs' \in Seq(RunRow(G, W))
      /\ DOMAIN runs' = DOMAIN runs
      /\ runs'[p.run] = row
      /\ \A r \in DOMAIN runs : r # p.run => runs'[r] = runs[r]
  BY <1>1, <1>4, UpdateRow
<1>9. /\ tasks' \in Seq(Task)
      /\ DOMAIN tasks' = DOMAIN tasks
      /\ tasks'[p.task] = settled
      /\ \A t \in DOMAIN tasks : t # p.task => tasks'[t] = tasks[t]
  BY <1>1, <1>5, UpdateRow
<1>10. comments' \in Seq(Nat)
  <2>1. comments \in Seq(Nat) /\ p.task \in Nat
    BY <1>1, RowIds DEF StoreInvOver, StoreTyped
  <2> QED BY <1>1, <2>1
<1>11. \A t : RunsOf(t)' = RunsOf(t)
  BY <1>6, <1>8 DEF RunsOf
<1>12. \A t, r : IsLatestRun(t, r)' <=> IsLatestRun(t, r)
  BY <1>11 DEF IsLatestRun
<1>13. RunningRuns' = RunningRuns \ {p.run}
  BY <1>2, <1>6, <1>8 DEF RunningRuns
<1>14. p.run \in RunsOf(p.task) /\ IsLatestRun(p.task, p.run)
  BY <1>1 DEF RunsOf, StoreInvOver, OneRunningAttempt, RunningIsLatest
<1>15. \A r \in RunsOf(p.task) : IsLatestRun(p.task, r) => r = p.run
  <2>1. \A r \in RunsOf(p.task) : r \in Nat /\ r # 0
    BY <1>1, RowIds DEF RunsOf
  <2> QED BY <1>14, <2>1 DEF IsLatestRun
<1>16. RunsOf(p.task) \cap RunningRuns' = {}
  BY <1>1, <1>13, <1>15 DEF RunsOf, RunningRuns, StoreInvOver, OneRunningAttempt, RunningIsLatest
<1>17. StoreTyped(G, W)'
  BY <1>1, <1>8, <1>9, <1>10 DEF StoreInvOver, StoreTyped
<1>18. RunsBelongToTasks' /\ ScansBelongToTasks'
  BY <1>1, <1>6, <1>8, <1>9 DEF StoreInvOver, RunsBelongToTasks, ScansBelongToTasks
<1>19. RunningIsLatest'
  BY <1>2, <1>6, <1>8, <1>9, <1>11, <1>12
     DEF RunsOf, StoreInvOver, OneRunningAttempt, RunningIsLatest
<1>20. InProgressHasRun'
  <2> SUFFICES ASSUME NEW t \in DOMAIN tasks
               PROVE  tasks'[t].status = "in_progress"
                        <=> RunsOf(t) \cap RunningRuns' # {}
    BY <1>9, <1>11 DEF InProgressHasRun
  <2>1. CASE t = p.task
    BY <1>2, <1>6, <1>9, <1>16, <2>1
  <2>2. CASE t # p.task
    <3>1. p.run \notin RunsOf(t)
      BY <1>1, <2>2 DEF RunsOf
    <3> QED BY <1>9, <1>13, <2>2, <3>1 DEF StoreInvOver, OneRunningAttempt, InProgressHasRun
  <2> QED BY <2>1, <2>2
<1>21. TaskMirrorsLatestRun'
  <2> SUFFICES ASSUME NEW t \in DOMAIN tasks
               PROVE  /\ tasks'[t].status = "todo" <=> RunsOf(t) = {}
                      /\ \A r \in RunsOf(t) :
                           IsLatestRun(t, r) /\ runs'[r].status # "running" =>
                             \E o \in AttemptOutcome :
                               TerminalState(o) =
                                 [run |-> runs'[r].status, exit |-> runs'[r].exit,
                                  task |-> tasks'[t].status]
    BY <1>9, <1>11, <1>12 DEF TaskMirrorsLatestRun
  <2>1. CASE t = p.task
    <3>1. tasks'[t].status = end.task /\ tasks'[t].status # "todo" /\ RunsOf(t) # {}
      BY <1>2, <1>6, <1>9, <1>14, <2>1
    <3>2. \A r \in RunsOf(t) : IsLatestRun(t, r) =>
            runs'[r].status = end.run /\ runs'[r].exit = end.exit
      BY <1>6, <1>8, <1>15, <2>1
    <3> QED BY <1>7, <3>1, <3>2
  <2>2. CASE t # p.task
    <3>1. \A r \in RunsOf(t) : runs'[r] = runs[r]
      BY <1>1, <1>8, <2>2 DEF RunsOf
    <3> QED BY <1>9, <2>2, <3>1 DEF StoreInvOver, TaskMirrorsLatestRun
  <2> QED BY <2>1, <2>2
<1>22. ContinuationOnlyOnFailed'
  <2> SUFFICES ASSUME NEW t \in DOMAIN tasks
               PROVE  /\ ParsesAsContinuation(tasks'[t].cont)
                      /\ tasks'[t].cont.kind # "" => tasks'[t].status = "failed"
    BY <1>9 DEF ContinuationOnlyOnFailed
  <2>1. CASE t = p.task
    <3>1. tasks'[t].cont = p.cont /\ tasks'[t].status = end.task
      BY <1>6, <1>9, <2>1
    <3> QED BY <1>2, <3>1, EmptyContinuation
  <2>2. CASE t # p.task
    BY <1>9, <2>2 DEF StoreInvOver, ContinuationOnlyOnFailed
  <2> QED BY <2>1, <2>2
<1>23. TakeoverIsBounded'
  BY <1>1, <1>6, <1>8 DEF StoreInvOver, TakeoverIsBounded
<1> QED BY <1>17, <1>18, <1>19, <1>20, <1>21, <1>22, <1>23 DEF StoreInvOver, OneRunningAttempt

(* What relates the task and run tables survives a step that writes neither.  *)
LEMMA SameTables ==
  ASSUME NEW G, NEW W, StoreInvOver(G, W), UNCHANGED <<tasks, runs>>
  PROVE  /\ RunsBelongToTasks' /\ OneRunningAttempt'
         /\ TaskMirrorsLatestRun' /\ ContinuationOnlyOnFailed'
<1>1. /\ \A t : RunsOf(t)' = RunsOf(t)
      /\ RunningRuns' = RunningRuns
  BY DEF RunsOf, RunningRuns
<1>2. \A t, r : IsLatestRun(t, r)' <=> IsLatestRun(t, r)
  BY <1>1 DEF IsLatestRun
<1>3. RunsBelongToTasks' /\ ContinuationOnlyOnFailed'
  BY DEF StoreInvOver, RunsBelongToTasks, ContinuationOnlyOnFailed
<1>4. OneRunningAttempt' /\ TaskMirrorsLatestRun'
  BY <1>1, <1>2 DEF StoreInvOver, OneRunningAttempt, RunningIsLatest,
                    InProgressHasRun, TaskMirrorsLatestRun
<1> QED BY <1>3, <1>4

(* The SELECT of a scheduler pass keeps a row of some task; its UPDATE gives  *)
(* a failed task a continuation and changes nothing else.                     *)
LEMMA ScheduleStep ==
  ASSUME NEW G, NEW W, StoreInvOver(G, W), NEW s \in Scanners,
         ReadUnscheduled(s) \/ InitializeUnscheduled(s)
  PROVE  StoreInvOver(G, W)'
<1>1. CASE ReadUnscheduled(s)
  <2>1. UNCHANGED <<now, tasks, runs, comments>>
    BY <1>1 DEF ReadUnscheduled
  <2>2. PICK t \in DOMAIN tasks, r \in DOMAIN runs :
          /\ Unscheduled(t) /\ IsLatestRun(t, r)
          /\ scans' = [scans EXCEPT ![s] =
               [task |-> t, finishedAt |-> runs[r].finishedAt,
                tokens |-> runs[r].tokens]]
    BY <1>1 DEF ReadUnscheduled
  <2>3. t \in Nat /\ runs[r] \in RunRow(G, W) /\ r # 0
    BY RowIds DEF StoreInvOver, StoreTyped
  <2>4. runs[r].finishedAt \in Nat
    <3>1. PICK q \in RunsOf(t) : IsLatestRun(t, q) /\ runs[q].finishedAt # NoTime
      BY <2>2 DEF Unscheduled
    <3>2. q \in DOMAIN runs /\ q \in Nat /\ r \in Nat /\ q # 0
      BY RowIds DEF StoreInvOver, StoreTyped, RunsOf
    <3>3. q = r
      BY <2>2, <2>3, <3>1, <3>2 DEF IsLatestRun
    <3> QED BY <2>3, <3>1, <3>3 DEF RunRow
  <2>5. [task |-> t, finishedAt |-> runs[r].finishedAt, tokens |-> runs[r].tokens]
          \in ScanRow
    BY <2>3, <2>4 DEF ScanRow, RunRow
  <2>6. StoreTyped(G, W)'
    BY <2>1, <2>2, <2>5 DEF StoreInvOver, StoreTyped
  <2>7. ScansBelongToTasks'
    <3> SUFFICES ASSUME NEW x \in Scanners, scans'[x] # NoScan
                 PROVE  scans'[x].task \in DOMAIN tasks
      BY <2>1 DEF ScansBelongToTasks
    <3>1. CASE x = s
      BY <2>2, <3>1 DEF StoreInvOver, StoreTyped
    <3>2. CASE x # s
      BY <2>2, <3>2 DEF StoreInvOver, StoreTyped, ScansBelongToTasks
    <3> QED BY <3>1, <3>2
  <2>8. TakeoverIsBounded'
    BY <2>1 DEF StoreInvOver, TakeoverIsBounded
  <2> QED BY <2>1, <2>6, <2>7, <2>8, SameTables DEF StoreInvOver
<1>2. CASE InitializeUnscheduled(s)
  <2> DEFINE
        t0 == scans[s].task
        decision == DecideAttemptCompletion("token_exhausted", scans[s].finishedAt,
                                            Reset, scans[s].tokens > 0, "fresh")
  <2>1. /\ scans[s] # NoScan
        /\ tasks' = IF tasks[t0] = [status |-> "failed", cont |-> NoContinuation]
                      THEN [tasks EXCEPT ![t0].cont = decision] ELSE tasks
        /\ scans' = [scans EXCEPT ![s] = NoScan]
        /\ UNCHANGED <<now, runs, comments>>
    BY <1>2 DEF InitializeUnscheduled
  <2>2. t0 \in DOMAIN tasks /\ tasks \in Seq(Task) /\ scans[s] \in ScanRow
    BY <2>1 DEF StoreInvOver, ScansBelongToTasks, StoreTyped
  <2>3. decision \in ContinuationDecision /\ ParsesAsContinuation(decision)
    <3>1. "token_exhausted" \in AttemptOutcome
      BY DEF AttemptOutcome
    <3>2. scans[s].finishedAt \in Nat /\ Reset \in Nat
      BY <2>2, StoreAssumption DEF ScanRow
    <3> QED BY <3>1, <3>2, DecisionIsStorable
  <2> HIDE DEF t0, decision
  <2>4. /\ tasks' \in Seq(Task)
        /\ DOMAIN tasks' = DOMAIN tasks
        /\ \A t \in DOMAIN tasks :
             /\ tasks'[t].status = tasks[t].status
             /\ \/ tasks'[t].cont = tasks[t].cont
                \/ tasks'[t].cont = decision /\ tasks[t].status = "failed"
    <3>1. CASE tasks[t0] = [status |-> "failed", cont |-> NoContinuation]
      <4> DEFINE row == [tasks[t0] EXCEPT !.cont = decision]
      <4>1. tasks[t0] \in Task
        BY <2>2
      <4>2. row \in Task /\ row.status = tasks[t0].status /\ row.cont = decision
        BY <2>3, <4>1 DEF Task
      <4>3. tasks' = [tasks EXCEPT ![t0] = row] /\ tasks[t0].status = "failed"
        BY <2>1, <3>1
      <4> HIDE DEF row
      <4> QED BY <2>2, <4>2, <4>3, UpdateRow
    <3>2. CASE tasks[t0] # [status |-> "failed", cont |-> NoContinuation]
      BY <2>1, <2>2, <3>2
    <3> QED BY <3>1, <3>2
  <2>5. scans' \in [Scanners -> ScanRow]
    <3>1. NoScan \in ScanRow
      BY StoreAssumption DEF NoScan, ScanRow
    <3> QED BY <2>1, <3>1 DEF StoreInvOver, StoreTyped
  <2>6. ScansBelongToTasks'
    BY <2>1, <2>4 DEF StoreInvOver, StoreTyped, ScansBelongToTasks
  <2>7. ContinuationOnlyOnFailed'
    BY <2>3, <2>4 DEF StoreInvOver, ContinuationOnlyOnFailed
  <2>8. StoreTyped(G, W)' /\ RunsBelongToTasks' /\ TakeoverIsBounded'
    BY <2>1, <2>4, <2>5 DEF StoreInvOver, StoreTyped, RunsBelongToTasks, TakeoverIsBounded
  <2>9. /\ \A t : RunsOf(t)' = RunsOf(t)
        /\ RunningRuns' = RunningRuns
    BY <2>1 DEF RunsOf, RunningRuns
  <2>10. \A t, r : IsLatestRun(t, r)' <=> IsLatestRun(t, r)
    BY <2>9 DEF IsLatestRun
  <2>11. OneRunningAttempt' /\ TaskMirrorsLatestRun'
    BY <2>1, <2>4, <2>9, <2>10
       DEF StoreInvOver, OneRunningAttempt, RunningIsLatest, InProgressHasRun,
           TaskMirrorsLatestRun
  <2> QED BY <2>6, <2>7, <2>8, <2>11 DEF StoreInvOver
<1> QED BY <1>1, <1>2

(* A scheduler pass that dies leaves the rows of the others as they were.     *)
LEMMA AbandonStep ==
  ASSUME NEW G, NEW W, StoreInvOver(G, W), NEW lost \in SUBSET Scanners, AbandonScans(lost)
  PROVE  StoreInvOver(G, W)'
<1>1. /\ scans' = [s \in Scanners |-> IF s \in lost THEN NoScan ELSE scans[s]]
      /\ UNCHANGED <<now, tasks, runs, comments>>
  BY DEF AbandonScans
<1>2. NoScan \in ScanRow
  BY StoreAssumption DEF NoScan, ScanRow
<1>3. StoreTyped(G, W)'
  BY <1>1, <1>2 DEF StoreInvOver, StoreTyped
<1>4. ScansBelongToTasks' /\ TakeoverIsBounded'
  BY <1>1 DEF StoreInvOver, ScansBelongToTasks, TakeoverIsBounded
<1> QED BY <1>1, <1>3, <1>4, SameTables DEF StoreInvOver

(* Time only brings leases closer to their end.                               *)
LEMMA TickStep ==
  ASSUME NEW G, NEW W, StoreInvOver(G, W), Tick PROVE StoreInvOver(G, W)'
<1>1. now \in Nat /\ now' = now + 1 /\ UNCHANGED <<tasks, runs, comments, scans>>
  BY DEF StoreInvOver, StoreTyped, Tick
<1>2. TakeoverIsBounded'
  <2>1. ASSUME NEW r \in DOMAIN runs PROVE runs[r].lease \in Nat
    <3>1. runs[r] \in RunRow(G, W)
      BY RowIds DEF StoreInvOver, StoreTyped
    <3> QED BY <3>1 DEF RunRow
  <2> QED BY <1>1, <2>1, StoreAssumption DEF StoreInvOver, TakeoverIsBounded
<1>3. StoreTyped(G, W)' /\ ScansBelongToTasks'
  BY <1>1 DEF StoreInvOver, StoreTyped, ScansBelongToTasks
<1> QED BY <1>1, <1>2, <1>3, SameTables DEF StoreInvOver

-----------------------------------------------------------------------------
(* Whatever authorized it, the end of an attempt is the finish transaction.   *)
LEMMA EndIsFinish ==
  ASSUME End
  PROVE  \E p : Finish(p)
<1>1. PICK r \in RunningRuns, t \in DOMAIN tasks, c \in Completions,
          tokens \in Amounts, work \in Works, at \in 0 .. now,
          comment \in BOOLEAN :
        Finish([run |-> r, task |-> t, outcome |-> c.outcome, cont |-> c.cont,
                tokens |-> tokens, work |-> work, finishedAt |-> at,
                comment |-> comment])
  BY DEF End, FinishAttempt, RecoverExpiredAttempt
<1> QED BY <1>1, Zenon

(* Every call preserves the invariant. *)
LEMMA StoreInvStep == StoreInv /\ [StoreNext]_storeVars => StoreInv'
<1> SUFFICES ASSUME StoreInvOver(Grants, Works), [StoreNext]_storeVars
             PROVE  StoreInvOver(Grants, Works)'
  BY DEF StoreInv
<1>1. CASE Create
  BY <1>1, CreateStep
<1>2. CASE Claim
  <2>1. PICK auth \in {"owner", "automatic", "interrupted"}, t \in DOMAIN tasks,
            status \in TaskStatus, r \in 0 .. Len(runs), grant \in Grants,
            at \in 0 .. now, token \in FreshTokens :
          StartOwnedAttempt(auth, [task |-> t, status |-> status, run |-> r,
                                   grant |-> grant, startedAt |-> at], token)
    BY <1>2 DEF Claim
  <2> DEFINE p == [task |-> t, status |-> status, run |-> r,
                   grant |-> grant, startedAt |-> at]
  <2>2. /\ p.task \in DOMAIN tasks /\ p.run \in Nat /\ p.grant \in Grants
        /\ p.startedAt \in 0 .. now /\ token \in Tokens /\ NoWork \in Works
    BY StoreAssumption DEF FreshTokens
  <2>3. StartOwnedAttempt(auth, p, token)
    BY <2>1
  <2> HIDE DEF p
  <2> QED BY <2>2, <2>3, ClaimStep
<1>3. CASE Publish
  BY <1>3, PublishStep DEF Publish
<1>4. CASE Renew
  BY <1>4, RenewStep DEF Renew
<1>5. CASE End
  <2>1. PICK r \in RunningRuns, t \in DOMAIN tasks, c \in Completions,
            tokens \in Amounts, work \in Works, at \in 0 .. now,
            comment \in BOOLEAN :
          Finish([run |-> r, task |-> t, outcome |-> c.outcome, cont |-> c.cont,
                  tokens |-> tokens, work |-> work, finishedAt |-> at,
                  comment |-> comment])
    BY <1>5 DEF End, FinishAttempt, RecoverExpiredAttempt
  <2>2. /\ c.outcome \in AttemptOutcome /\ c.cont \in ContinuationDecision
        /\ ParsesAsContinuation(c.cont)
        /\ c.outcome = "completed" => c.cont = NoContinuation
    <3>1. PICK outcome \in AttemptOutcome, h \in 0 .. now, reset \in Resets,
              progressed \in BOOLEAN, origin \in ProviderWindowOrigin :
            c = [outcome |-> outcome,
                 cont |-> DecideAttemptCompletion(outcome, h, reset, progressed,
                                                  origin)]
      BY DEF Completions
    <3>2. h \in Nat /\ reset \in Nat
      BY StoreAssumption DEF StoreInvOver, StoreTyped
    <3> QED BY <3>1, <3>2, DecisionIsStorable
  <2> DEFINE p == [run |-> r, task |-> t, outcome |-> c.outcome, cont |-> c.cont,
                   tokens |-> tokens, work |-> work, finishedAt |-> at,
                   comment |-> comment]
  <2>3. /\ p.outcome \in AttemptOutcome /\ p.cont \in ContinuationDecision
        /\ ParsesAsContinuation(p.cont)
        /\ p.outcome = "completed" => p.cont = NoContinuation
        /\ p.tokens \in Amounts /\ p.work \in Works /\ p.finishedAt \in Nat
    BY <2>2
  <2>4. Finish(p)
    BY <2>1
  <2> HIDE DEF p
  <2> QED BY <2>3, <2>4, FinishStep
<1>6. CASE Schedule
  BY <1>6, ScheduleStep, AbandonStep DEF Schedule
<1>7. CASE Tick
  BY <1>7, TickStep
<1>8. CASE UNCHANGED storeVars
  <2>1. UNCHANGED <<now, tasks, runs, comments, scans>>
    BY <1>8 DEF storeVars
  <2> QED
    BY <2>1, SameTables DEF StoreInvOver, StoreTyped, ScansBelongToTasks, TakeoverIsBounded
<1> QED BY <1>1, <1>2, <1>3, <1>4, <1>5, <1>6, <1>7, <1>8 DEF StoreNext

(* The inductive invariant: the properties hold together, because each step   *)
(* needs the others - a claim is safe only since a task that is not in        *)
(* progress has no running run, a finish only since the running run is latest.*)
THEOREM StoreInvariant == StoreSpec => []StoreInv
<1>1. StoreInit => StoreInv
  BY StoreInvInit DEF StoreInv
<1>2. StoreInv /\ [StoreNext]_storeVars => StoreInv'
  BY StoreInvStep
<1> QED BY <1>1, <1>2, PTL DEF StoreSpec

(* Type correctness: no call stores a row outside the columns' domains.       *)
THEOREM StoreTypeOKHolds == StoreSpec => []StoreTypeOK
<1>1. StoreInv => StoreTypeOK
  BY DEF StoreInv, StoreInvOver, StoreTypeOK
<1> QED BY <1>1, StoreInvariant, PTL

(* A task has at most one running attempt, its latest, exactly while it is    *)
(* in progress: the claim and the finish keep the two tables in step under    *)
(* any number of racing callers.                                              *)
THEOREM OneRunningAttemptHolds == StoreSpec => []OneRunningAttempt
<1>1. StoreInv => OneRunningAttempt
  BY DEF StoreInv, StoreInvOver
<1> QED BY <1>1, StoreInvariant, PTL

(* The status of a settled task is the one its latest run ended with.         *)
THEOREM TaskMirrorsLatestRunHolds == StoreSpec => []TaskMirrorsLatestRun
<1>1. StoreInv => TaskMirrorsLatestRun
  BY DEF StoreInv, StoreInvOver
<1> QED BY <1>1, StoreInvariant, PTL

(* Only a failed task ever carries a continuation, even when the UPDATE of    *)
(* InitializeUnscheduled arrives arbitrarily late.                            *)
THEOREM ContinuationOnlyOnFailedHolds == StoreSpec => []ContinuationOnlyOnFailed
<1>1. StoreInv => ContinuationOnlyOnFailed
  BY DEF StoreInv, StoreInvOver
<1> QED BY <1>1, StoreInvariant, PTL

(* An abandoned run is recoverable at most one lease duration later.          *)
THEOREM TakeoverIsBoundedHolds == StoreSpec => []TakeoverIsBounded
<1>1. StoreInv => TakeoverIsBounded
  BY DEF StoreInv, StoreInvOver
<1> QED BY <1>1, StoreInvariant, PTL

-----------------------------------------------------------------------------
(* Action properties. *)

(* No step of any caller changes a terminal run: inserts append, and every    *)
(* update asks for status = 'running' first.                                  *)
LEMMA FrozenStep ==
  ASSUME StoreInv, [StoreNext]_storeVars, NEW r \in DOMAIN runs,
         runs[r].status # "running"
  PROVE  r \in DOMAIN runs' /\ runs'[r] = runs[r]
<1>1. runs \in Seq(RunRow(Grants, Works))
  BY DEF StoreInv, StoreInvOver, StoreTyped
<1>2. CASE Claim
  <2>1. PICK auth, p, token : StartOwnedAttempt(auth, p, token)
    BY <1>2, Zenon DEF Claim
  <2>2. PICK row : runs' = Append(runs, row)
    BY <2>1, Zenon DEF StartOwnedAttempt
  <2> QED BY <1>1, <2>2
<1>3. CASE Publish
  <2>1. PICK q \in DOMAIN runs, token \in Tokens, tokens \in Amounts,
            work \in Works : UpdateProgress(q, token, tokens, work)
    BY <1>3 DEF Publish
  <2> QED BY <1>1, <2>1 DEF UpdateProgress, Owns
<1>4. CASE Renew
  <2>1. PICK q \in DOMAIN runs, token \in Tokens : RenewLease(q, token)
    BY <1>4 DEF Renew
  <2> QED BY <1>1, <2>1 DEF RenewLease, Owns
<1>5. CASE End
  <2>1. PICK p : Finish(p)
    BY <1>5, EndIsFinish
  <2>2. PICK row : runs[p.run].status = "running" /\ runs' = [runs EXCEPT ![p.run] = row]
    BY <2>1, Zenon DEF Finish, Finishable
  <2> QED BY <1>1, <2>2
<1>6. CASE Create \/ Schedule \/ Tick \/ UNCHANGED storeVars
  BY <1>6 DEF Create, Schedule, ReadUnscheduled, InitializeUnscheduled,
              AbandonScans, Tick, storeVars
<1> QED BY <1>2, <1>3, <1>4, <1>5, <1>6 DEF StoreNext

(* No call changes a column of a terminal run.                                *)
THEOREM TerminalRunsFrozenHolds == StoreSpec => TerminalRunsFrozen
<1>1. StoreInv /\ [StoreNext]_storeVars =>
        [\A r \in DOMAIN runs : runs[r].status # "running" =>
           r \in DOMAIN runs' /\ runs'[r] = runs[r]]_storeVars
  BY FrozenStep
<1> QED BY <1>1, StoreInvariant, PTL DEF StoreSpec, TerminalRunsFrozen

(* No step of any caller changes a done task: no transition leaves `done`.    *)
LEMMA DoneStep ==
  ASSUME StoreInv, [StoreNext]_storeVars, NEW t \in DOMAIN tasks,
         tasks[t].status = "done"
  PROVE  tasks'[t] = tasks[t]
<1>1. tasks \in Seq(Task)
  BY DEF StoreInv, StoreInvOver, StoreTyped
<1>2. CASE Create
  <2>1. PICK row : tasks' = Append(tasks, row)
    BY <1>2 DEF Create
  <2> QED BY <1>1, <2>1
<1>3. CASE Claim
  <2>1. PICK auth, p, token : StartOwnedAttempt(auth, p, token)
    BY <1>3, Zenon DEF Claim
  <2>2. tasks[p.task].status \in {"todo", "failed"}
    BY <2>1 DEF StartOwnedAttempt, Claimable, Transition
  <2>3. PICK row : tasks' = [tasks EXCEPT ![p.task] = row]
    BY <2>1, Zenon DEF StartOwnedAttempt
  <2> QED BY <1>1, <2>2, <2>3
<1>4. CASE End
  <2>1. PICK p : Finish(p)
    BY <1>4, EndIsFinish
  <2>2. PICK row : tasks[p.task].status = "in_progress"
                   /\ tasks' = [tasks EXCEPT ![p.task] = row]
    BY <2>1, Zenon DEF Finish, Finishable
  <2> QED BY <1>1, <2>2
<1>5. CASE Schedule
  <2>1. ASSUME NEW s \in Scanners, ReadUnscheduled(s) PROVE tasks'[t] = tasks[t]
    BY <2>1 DEF ReadUnscheduled
  <2>2. ASSUME NEW s \in Scanners, InitializeUnscheduled(s)
        PROVE  tasks'[t] = tasks[t]
    BY <2>2 DEF InitializeUnscheduled
  <2>3. ASSUME NEW lost \in SUBSET Scanners, AbandonScans(lost)
        PROVE  tasks'[t] = tasks[t]
    BY <2>3 DEF AbandonScans
  <2> QED BY <1>5, <2>1, <2>2, <2>3 DEF Schedule
<1>6. CASE Publish \/ Renew \/ Tick \/ UNCHANGED storeVars
  BY <1>6 DEF Publish, Renew, UpdateProgress, RenewLease, Tick, storeVars
<1> QED BY <1>2, <1>3, <1>4, <1>5, <1>6 DEF StoreNext

(* No claim, recovery or scheduler write touches a completed task.            *)
THEOREM DoneIsFinalHolds == StoreSpec => DoneIsFinal
<1>1. StoreInv /\ [StoreNext]_storeVars =>
        [\A t \in DOMAIN tasks : tasks[t].status = "done" =>
           tasks'[t] = tasks[t]]_storeVars
  BY DoneStep
<1> QED BY <1>1, StoreInvariant, PTL DEF StoreSpec, DoneIsFinal

-----------------------------------------------------------------------------
(* Store implements Custody for every value of its constants: the claim and   *)
(* the finish transaction, which compare and write two tables, take and give  *)
(* back a lock that nobody else holds, whatever their callers do.             *)

LEMMA SameSequence ==
  ASSUME NEW S, NEW s \in Seq(S), NEW u \in Seq(S), Len(s) = Len(u),
         \A i \in DOMAIN s : s[i] = u[i]
  PROVE  s = u
OBVIOUS

(* The board is a sequence with one entry for each task.                      *)
BoardOK ==
  /\ Board \in Seq(Lock!Entry)
  /\ Len(Board) = Len(tasks) /\ DOMAIN Board = DOMAIN tasks
  /\ \A t \in DOMAIN tasks :
       /\ Board[t].state = tasks[t].status
       /\ Board[t].holders = RunsOf(t) \cap RunningRuns

LEMMA BoardIsSequence == StoreInv => BoardOK
<1> SUFFICES ASSUME StoreInv PROVE BoardOK
  OBVIOUS
<1>1. tasks \in Seq(Task) /\ runs \in Seq(RunRow(Grants, Works))
  BY DEF StoreInv, StoreInvOver, StoreTyped
<1>2. ASSUME NEW t \in DOMAIN tasks
      PROVE  /\ Board[t] = [state |-> tasks[t].status,
                            holders |-> RunsOf(t) \cap RunningRuns]
             /\ Board[t].state = tasks[t].status
             /\ Board[t].holders = RunsOf(t) \cap RunningRuns
             /\ Board[t] \in Lock!Entry
  <2>1. Board[t] = [state |-> tasks[t].status, holders |-> RunsOf(t) \cap RunningRuns]
    BY DEF Board
  <2>2. tasks[t].status \in {"todo", "in_progress", "failed", "done"}
    <3>1. tasks[t] \in Task
      BY <1>1
    <3> QED BY <3>1 DEF Task, TaskStatus
  <2>3. RunsOf(t) \cap RunningRuns \in SUBSET Nat
    BY <1>1, RowIds DEF RunsOf
  <2> QED BY <2>1, <2>2, <2>3 DEF Lock!Entry
<1>3. /\ Board = [t \in DOMAIN tasks |-> Board[t]]
      /\ DOMAIN Board = DOMAIN tasks
  BY DEF Board
<1>4. DOMAIN tasks = 1 .. Len(tasks) /\ Len(tasks) \in Nat
  BY <1>1
<1> HIDE DEF Board
<1>5. Board \in [1 .. Len(tasks) -> Lock!Entry]
  BY <1>2, <1>3, <1>4
<1>6. Board \in Seq(Lock!Entry) /\ Len(Board) = Len(tasks)
  BY <1>4, <1>5
<1>7. \A t \in DOMAIN tasks :
        /\ Board[t].state = tasks[t].status
        /\ Board[t].holders = RunsOf(t) \cap RunningRuns
  BY <1>2
<1> QED BY <1>3, <1>6, <1>7 DEF BoardOK

(* A step that changes no status of a task and no task or status of a run is  *)
(* not visible on the board.                                                  *)
LEMMA BoardUnchanged ==
  ASSUME StoreInv, StoreInv',
         DOMAIN tasks' = DOMAIN tasks, DOMAIN runs' = DOMAIN runs,
         \A t \in DOMAIN tasks : tasks'[t].status = tasks[t].status,
         \A r \in DOMAIN runs : /\ runs'[r].task = runs[r].task
                                /\ runs'[r].status = runs[r].status
  PROVE  UNCHANGED <<Board, Len(runs)>>
<1>1. \A t : RunsOf(t)' = RunsOf(t)
  BY DEF RunsOf
<1>2. RunningRuns' = RunningRuns
  BY DEF RunningRuns
<1>3. Board' = Board
  BY <1>1, <1>2 DEF Board
<1>4. Len(runs') = Len(runs)
  <2>1. runs \in Seq(RunRow(Grants, Works)) /\ runs' \in Seq(RunRow(Grants, Works))
    BY DEF StoreInv, StoreInvOver, StoreTyped
  <2> QED BY <2>1
<1> QED BY <1>3, <1>4

(* A new task is a new, free entry of the board.                              *)
LEMMA CreateAdds ==
  ASSUME StoreInv, StoreInv', Create
  PROVE  Lock!Add
<1> DEFINE t0 == Len(tasks) + 1
           entry == [state |-> "todo", holders |-> {}]
<1>1. /\ tasks \in Seq(Task) /\ tasks' \in Seq(Task) /\ runs' = runs
      /\ tasks' = Append(tasks, [status |-> "todo", cont |-> NoContinuation])
  BY DEF StoreInv, StoreInvOver, StoreTyped, Create
<1>2. /\ Len(tasks') = Len(tasks) + 1 /\ DOMAIN tasks' = DOMAIN tasks \cup {t0}
      /\ t0 \notin DOMAIN tasks
      /\ \A t \in DOMAIN tasks : tasks'[t].status = tasks[t].status
      /\ tasks'[t0].status = "todo"
  <2>1. [status |-> "todo", cont |-> NoContinuation] \in Task
    BY EmptyContinuation DEF Task, TaskStatus
  <2> QED BY <1>1, <2>1, AppendRow
<1>3. /\ \A t : RunsOf(t)' = RunsOf(t)
      /\ RunningRuns' = RunningRuns
  BY <1>1 DEF RunsOf, RunningRuns
<1>4. RunsOf(t0) = {}
  BY <1>2 DEF RunsOf, StoreInv, StoreInvOver, RunsBelongToTasks
<1>5. entry \in Lock!Entry
  BY DEF Lock!Entry
<1>6. /\ Append(Board, entry) \in Seq(Lock!Entry)
      /\ Len(Append(Board, entry)) = Len(tasks) + 1
      /\ DOMAIN Append(Board, entry) = DOMAIN tasks \cup {t0}
      /\ \A t \in DOMAIN tasks : Append(Board, entry)[t] = Board[t]
      /\ Append(Board, entry)[t0] = entry
  BY <1>5, BoardIsSequence, AppendRow DEF BoardOK
<1>7. BoardOK'
  BY BoardIsSequence, PTL
<1>8. ASSUME NEW t \in DOMAIN tasks'
      PROVE  Board'[t] = Append(Board, entry)[t]
  <2>1. Board'[t] = [state |-> tasks'[t].status, holders |-> RunsOf(t) \cap RunningRuns]
    BY <1>3 DEF Board
  <2>2. CASE t = t0
    BY <1>2, <1>4, <1>6, <2>1, <2>2
  <2>3. CASE t # t0
    <3>1. t \in DOMAIN tasks
      BY <1>2, <2>3
    <3> QED BY <1>2, <1>6, <2>1, <3>1 DEF Board
  <2> QED BY <2>2, <2>3
<1> HIDE DEF entry, t0
<1>9. Board' = Append(Board, entry)
  BY <1>2, <1>6, <1>7, <1>8, SameSequence DEF BoardOK
<1>10. UNCHANGED Len(runs)
  BY <1>1
<1> QED BY <1>9, <1>10 DEF Lock!Add, entry

(* A step that disturbs one task only changes its entry of the board.         *)
LEMMA OneEntry ==
  ASSUME StoreInv, StoreInv', NEW t0 \in DOMAIN tasks,
         DOMAIN tasks' = DOMAIN tasks, Len(tasks') = Len(tasks),
         \A t \in DOMAIN tasks : t # t0 =>
           /\ tasks'[t].status = tasks[t].status
           /\ (RunsOf(t) \cap RunningRuns)' = RunsOf(t) \cap RunningRuns
  PROVE  Board' = [Board EXCEPT ![t0] =
           [state |-> tasks'[t0].status, holders |-> (RunsOf(t0) \cap RunningRuns)']]
<1> DEFINE entry == [state |-> tasks'[t0].status,
                     holders |-> (RunsOf(t0) \cap RunningRuns)']
<1>1. BoardOK /\ BoardOK'
  BY BoardIsSequence, PTL
<1>2. Board' = [t \in DOMAIN tasks |->
                  [state |-> tasks'[t].status, holders |-> (RunsOf(t) \cap RunningRuns)']]
  BY DEF Board
<1>3. Board'[t0] = entry
  BY <1>2
<1>4. \A t \in DOMAIN tasks : t # t0 => Board'[t] = Board[t]
  BY <1>2 DEF Board
<1>5. entry \in Lock!Entry
  BY <1>1, <1>3 DEF BoardOK
<1> HIDE DEF entry
<1>6. /\ [Board EXCEPT ![t0] = entry] \in Seq(Lock!Entry)
      /\ Len([Board EXCEPT ![t0] = entry]) = Len(Board)
      /\ DOMAIN [Board EXCEPT ![t0] = entry] = DOMAIN Board
      /\ [Board EXCEPT ![t0] = entry][t0] = entry
      /\ \A t \in DOMAIN Board : t # t0 => [Board EXCEPT ![t0] = entry][t] = Board[t]
  BY <1>1, <1>5, UpdateRow DEF BoardOK
<1>7. Board' = [Board EXCEPT ![t0] = entry]
  BY <1>1, <1>3, <1>4, <1>6, SameSequence DEF BoardOK
<1> QED BY <1>7 DEF entry

(* A claim takes the lock: the task was free, and the new run is the only one *)
(* that is running.                                                           *)
LEMMA ClaimTakes ==
  ASSUME StoreInv, StoreInv', NEW auth, NEW p, NEW token,
         StartOwnedAttempt(auth, p, token)
  PROVE  p.task \in DOMAIN Board /\ Lock!Take(p.task)
<1> DEFINE r0 == Len(runs) + 1
<1>1. /\ tasks \in Seq(Task) /\ runs \in Seq(RunRow(Grants, Works))
      /\ tasks' \in Seq(Task) /\ runs' \in Seq(RunRow(Grants, Works))
      /\ p.task \in DOMAIN tasks /\ tasks[p.task].status \in {"todo", "failed"}
  BY DEF StoreInv, StoreInvOver, StoreTyped, StartOwnedAttempt, Claimable, Transition
<1>2. PICK row : /\ row.task = p.task /\ row.status = "running"
                 /\ runs' = Append(runs, row)
  BY DEF StartOwnedAttempt
<1>3. /\ Len(runs') = Len(runs) + 1 /\ DOMAIN runs' = DOMAIN runs \cup {r0}
      /\ r0 \notin DOMAIN runs /\ runs'[r0] = row
      /\ \A r \in DOMAIN runs : runs'[r] = runs[r]
  BY <1>1, <1>2
<1> HIDE DEF r0
<1>4. /\ RunsOf(p.task)' = RunsOf(p.task) \cup {r0}
      /\ \A t : t # p.task => RunsOf(t)' = RunsOf(t)
      /\ RunningRuns' = RunningRuns \cup {r0}
  BY <1>2, <1>3 DEF RunsOf, RunningRuns
<1>5. RunsOf(p.task) \cap RunningRuns = {}
  BY <1>1 DEF StoreInv, StoreInvOver, OneRunningAttempt, InProgressHasRun
<1>6. /\ (RunsOf(p.task) \cap RunningRuns)' = {r0}
      /\ \A t : t # p.task =>
           (RunsOf(t) \cap RunningRuns)' = RunsOf(t) \cap RunningRuns
  <2>1. \A t : r0 \notin RunsOf(t)
    BY <1>3 DEF RunsOf
  <2>2. r0 \notin RunningRuns
    BY <1>3 DEF RunningRuns
  <2> QED BY <1>4, <1>5, <2>1, <2>2
<1>7. /\ DOMAIN tasks' = DOMAIN tasks /\ Len(tasks') = Len(tasks)
      /\ tasks'[p.task].status = "in_progress"
      /\ \A t \in DOMAIN tasks : t # p.task => tasks'[t].status = tasks[t].status
  <2>1. tasks' = [tasks EXCEPT ![p.task] =
                    [status |-> "in_progress", cont |-> NoContinuation]]
    BY DEF StartOwnedAttempt
  <2> QED BY <1>1, <2>1
<1>8. Board' = [Board EXCEPT ![p.task] =
                  [state |-> "in_progress", holders |-> {r0}]]
  BY <1>1, <1>6, <1>7, OneEntry
<1>9. /\ p.task \in DOMAIN Board /\ Board[p.task].state \in {"todo", "failed"}
      /\ Board[p.task].holders = {}
  BY <1>1, <1>5, BoardIsSequence DEF BoardOK
<1>10. Len(runs') = r0
  BY <1>3 DEF r0
<1> QED BY <1>3, <1>8, <1>9, <1>10 DEF Lock!Take

(* A finish, by the owner or by a recovery, gives the lock back.              *)
LEMMA FinishGivesBack ==
  ASSUME StoreInv, StoreInv', NEW p, p.outcome \in AttemptOutcome, Finish(p)
  PROVE  /\ p.task \in DOMAIN Board
         /\ \E end \in {"failed", "done"} : Lock!GiveBack(p.task, end)
<1> DEFINE end == TerminalState(p.outcome)
<1>1. /\ tasks \in Seq(Task) /\ runs \in Seq(RunRow(Grants, Works))
      /\ p.run \in DOMAIN runs /\ p.task \in DOMAIN tasks
      /\ runs[p.run].status = "running" /\ runs[p.run].task = p.task
      /\ tasks[p.task].status = "in_progress"
      /\ tasks' = [tasks EXCEPT ![p.task] = [status |-> end.task, cont |-> p.cont]]
  BY DEF StoreInv, StoreInvOver, StoreTyped, Finish, Finishable
<1>2. PICK row : /\ row.task = runs[p.run].task /\ row.status = end.run
                 /\ runs' = [runs EXCEPT ![p.run] = row]
  <2> DEFINE row == [runs[p.run] EXCEPT !.status = end.run, !.exit = end.exit,
                       !.tokens = p.tokens, !.work = p.work,
                       !.finishedAt = p.finishedAt]
  <2>1. runs[p.run] \in RunRow(Grants, Works)
    BY <1>1
  <2>2. row.task = runs[p.run].task /\ row.status = end.run
    BY <2>1 DEF RunRow
  <2>3. runs' = [runs EXCEPT ![p.run] = row]
    BY DEF Finish
  <2> HIDE DEF row
  <2> QED BY <2>2, <2>3
<1>3. end.run # "running" /\ end.task \in {"failed", "done"}
  BY DEF AttemptOutcome, TerminalState
<1> HIDE DEF end
<1>4. /\ DOMAIN runs' = DOMAIN runs /\ Len(runs') = Len(runs)
      /\ runs'[p.run] = row
      /\ \A r \in DOMAIN runs : r # p.run => runs'[r] = runs[r]
  BY <1>1, <1>2
<1>5. /\ DOMAIN tasks' = DOMAIN tasks /\ Len(tasks') = Len(tasks)
      /\ tasks'[p.task].status = end.task
      /\ \A t \in DOMAIN tasks : t # p.task => tasks'[t].status = tasks[t].status
  BY <1>1
<1>6. /\ \A t : RunsOf(t)' = RunsOf(t)
      /\ RunningRuns' = RunningRuns \ {p.run}
  BY <1>2, <1>3, <1>4 DEF RunsOf, RunningRuns
<1>7. (RunsOf(p.task) \cap RunningRuns)' = {}
  <2>1. p.run \in RunsOf(p.task) /\ IsLatestRun(p.task, p.run)
    BY <1>1 DEF RunsOf, StoreInv, StoreInvOver, OneRunningAttempt, RunningIsLatest
  <2>2. ASSUME NEW r \in RunsOf(p.task), r \in RunningRuns
        PROVE  r = p.run
    <3>1. IsLatestRun(p.task, r)
      BY <1>1, <2>2 DEF RunningRuns, StoreInv, StoreInvOver, OneRunningAttempt, RunningIsLatest
    <3>2. r \in Nat /\ r # 0 /\ p.run \in Nat /\ p.run # 0
      BY <1>1, RowIds DEF RunsOf
    <3> QED BY <2>1, <3>1, <3>2 DEF IsLatestRun
  <2> QED BY <1>6, <2>2
<1>8. \A t \in DOMAIN tasks : t # p.task =>
        (RunsOf(t) \cap RunningRuns)' = RunsOf(t) \cap RunningRuns
  BY <1>1, <1>6 DEF RunsOf
<1>9. Board' = [Board EXCEPT ![p.task] = [state |-> end.task, holders |-> {}]]
  BY <1>1, <1>5, <1>7, <1>8, OneEntry
<1>10. p.task \in DOMAIN Board /\ Board[p.task].state = "in_progress"
  BY <1>1, BoardIsSequence DEF BoardOK
<1> QED BY <1>3, <1>4, <1>9, <1>10 DEF Lock!GiveBack

-----------------------------------------------------------------------------
(* Every step of the database is a step of the lock or leaves it alone.       *)
LEMMA CustodyStep ==
  StoreInv /\ StoreInv' /\ [StoreNext]_storeVars => [Lock!CustodyNext]_(Lock!custodyVars)
<1> SUFFICES ASSUME StoreInv, StoreInv', [StoreNext]_storeVars
             PROVE  Lock!CustodyNext \/ UNCHANGED <<Board, Len(runs)>>
  BY DEF Lock!custodyVars
<1>1. CASE Create
  BY <1>1, CreateAdds DEF Lock!CustodyNext
<1>2. CASE Claim
  <2>1. PICK auth, p, token : StartOwnedAttempt(auth, p, token)
    BY <1>2, Zenon DEF Claim
  <2> QED BY <2>1, ClaimTakes DEF Lock!CustodyNext
<1>3. CASE Publish
  <2>1. PICK r \in DOMAIN runs, token \in Tokens, tokens \in Amounts,
            work \in Works : UpdateProgress(r, token, tokens, work)
    BY <1>3 DEF Publish
  <2>2. runs \in Seq(RunRow(Grants, Works)) /\ runs[r] \in RunRow(Grants, Works)
    BY RowIds DEF StoreInv, StoreInvOver, StoreTyped
  <2>3. /\ DOMAIN runs' = DOMAIN runs /\ tasks' = tasks
        /\ \A i \in DOMAIN runs : /\ runs'[i].task = runs[i].task
                                 /\ runs'[i].status = runs[i].status
    BY <2>1, <2>2 DEF UpdateProgress, RunRow
  <2> QED BY <2>3, BoardUnchanged
<1>4. CASE Renew
  <2>1. PICK r \in DOMAIN runs, token \in Tokens : RenewLease(r, token)
    BY <1>4 DEF Renew
  <2>2. runs \in Seq(RunRow(Grants, Works)) /\ runs[r] \in RunRow(Grants, Works)
    BY RowIds DEF StoreInv, StoreInvOver, StoreTyped
  <2>3. /\ DOMAIN runs' = DOMAIN runs /\ tasks' = tasks
        /\ \A i \in DOMAIN runs : /\ runs'[i].task = runs[i].task
                                 /\ runs'[i].status = runs[i].status
    BY <2>1, <2>2 DEF RenewLease, RunRow
  <2> QED BY <2>3, BoardUnchanged
<1>5. CASE End
  <2>1. PICK r \in RunningRuns, t \in DOMAIN tasks, c \in Completions,
            tokens \in Amounts, work \in Works, at \in 0 .. now,
            comment \in BOOLEAN :
          Finish([run |-> r, task |-> t, outcome |-> c.outcome, cont |-> c.cont,
                  tokens |-> tokens, work |-> work, finishedAt |-> at,
                  comment |-> comment])
    BY <1>5 DEF End, FinishAttempt, RecoverExpiredAttempt
  <2>2. c.outcome \in AttemptOutcome
    BY DEF Completions
  <2>3. PICK p : p.outcome \in AttemptOutcome /\ Finish(p)
    BY <2>1, <2>2
  <2> QED BY <2>3, FinishGivesBack DEF Lock!CustodyNext
<1>6. CASE Schedule
  <2>1. /\ runs' = runs /\ DOMAIN tasks' = DOMAIN tasks
        /\ \A t \in DOMAIN tasks : tasks'[t].status = tasks[t].status
    <3>1. ASSUME NEW s \in Scanners, InitializeUnscheduled(s)
          PROVE  /\ runs' = runs /\ DOMAIN tasks' = DOMAIN tasks
                 /\ \A t \in DOMAIN tasks : tasks'[t].status = tasks[t].status
      <4> DEFINE t0 == scans[s].task
      <4>1. tasks \in Seq(Task) /\ tasks[t0] \in Task
        BY <3>1 DEF StoreInv, StoreInvOver, StoreTyped, ScansBelongToTasks, InitializeUnscheduled
      <4>2. PICK decision :
              /\ runs' = runs
              /\ tasks' = tasks \/ tasks' = [tasks EXCEPT ![t0].cont = decision]
        BY <3>1 DEF InitializeUnscheduled
      <4> HIDE DEF t0
      <4> QED BY <4>1, <4>2 DEF Task
    <3>2. CASE \E s \in Scanners : ReadUnscheduled(s)
      BY <3>2 DEF ReadUnscheduled
    <3>3. CASE \E lost \in SUBSET Scanners : AbandonScans(lost)
      BY <3>3 DEF AbandonScans
    <3> QED BY <1>6, <3>1, <3>2, <3>3 DEF Schedule
  <2> QED BY <2>1, BoardUnchanged
<1>7. CASE Tick \/ UNCHANGED storeVars
  BY <1>7, BoardUnchanged DEF Tick, storeVars
<1> QED BY <1>1, <1>2, <1>3, <1>4, <1>5, <1>6, <1>7 DEF StoreNext

(* The database is a lock on each task: whatever its callers do, a task is    *)
(* taken only while nobody holds it, each attempt takes it under a number of  *)
(* its own, and it is given back as failed or done.                           *)
THEOREM ImplementsCustodyHolds == StoreSpec => ImplementsCustody
<1>1. StoreInit => Lock!CustodyInit
  <2> SUFFICES ASSUME StoreInit PROVE Board = << >> /\ Len(runs) = 0
    BY DEF Lock!CustodyInit
  <2>1. tasks = << >> /\ runs = << >>
    BY DEF StoreInit
  <2> QED BY <2>1 DEF Board
<1>2. StoreInv /\ StoreInv' /\ [StoreNext]_storeVars
        => [Lock!CustodyNext]_(Lock!custodyVars)
  BY CustodyStep
<1> QED
  BY <1>1, <1>2, StoreInvariant, PTL
     DEF StoreSpec, ImplementsCustody, Lock!CustodySpec
=============================================================================
