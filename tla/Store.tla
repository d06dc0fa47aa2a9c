------------------------------- MODULE Store --------------------------------
(* internal/store: the SQLite database that every process of the inbox shares,*)
(* one action per repository operation. Each statement or transaction of the  *)
(* code is atomic, so each is one action; InitializeUnscheduled is a SELECT   *)
(* and a separate UPDATE and so is two. The callers are left arbitrary: any   *)
(* arguments, any instants they read before, any token ever drawn. What holds *)
(* here holds whatever the executors and servers above do.                    *)
(*                                                                            *)
(* Rows are abstracted by what the statements tell apart:                     *)
(*   grant - session_id, token_budget, start_step: fixed by the insert        *)
(*   work  - output, session_checkpoint: replaced together by each write      *)
(* and ids are positions, as AUTOINCREMENT numbers them.                      *)
EXTENDS Domain, Sequences, FiniteSets

CONSTANTS
  Tokens,         \* owner tokens generateOwnerToken can draw, never twice
  Grants,         \* values of the columns an insert fixes
  Works, NoWork,  \* values of the columns progress replaces; NoWork is ''
  Amounts,        \* values of tokens_used
  Scanners,       \* concurrent callers of InitializeUnscheduled
  Lease,          \* the lease duration of every claim and renewal
  Resets,         \* the reset intervals the callers are configured with, and
  Reset,          \* the one of the servers
  MaxTasks,       \* bounds: tasks created, runs inserted, clock
  MaxRuns,
  MaxTime

ASSUME StoreAssumption ==
  /\ NoWork \in Works
  /\ Amounts \subseteq Nat /\ 0 \in Amounts
  /\ Lease \in Nat \ {0}
  /\ Resets \subseteq Nat
  /\ Reset \in Nat \ {0}
  /\ MaxTasks \in Nat /\ MaxRuns \in Nat /\ MaxTime \in Nat

VARIABLES
  now,       \* SQLite's own clock, julianday('now')
  tasks,     \* table tasks
  runs,      \* table runs
  comments,  \* table comments, as the sequence of their task ids
  scans      \* the row each InitializeUnscheduled call holds between its
             \* SELECT and its UPDATE

storeVars == <<now, tasks, runs, comments, scans>>

Task == [status : TaskStatus, cont : ContinuationDecision]

RunRow(grants, works) ==
  [task : Nat, grant : grants, status : RunStatus, exit : ExitReason,
   tokens : Amounts, work : works, startedAt : Nat,
   finishedAt : Nat \cup {NoTime}, owner : Tokens, lease : Nat]

ScanRow == [task : Nat, finishedAt : Nat, tokens : Amounts]
NoScan == [task |-> 0, finishedAt |-> 0, tokens |-> 0]

StoreInit ==
  /\ now = 0
  /\ tasks = << >>
  /\ runs = << >>
  /\ comments = << >>
  /\ scans = [s \in Scanners |-> NoScan]

-----------------------------------------------------------------------------
(* Queries. *)

RunsOf(t) == {r \in DOMAIN runs : runs[r].task = t}

RunningRuns == {r \in DOMAIN runs : runs[r].status = "running"}

(* r is SELECT id FROM runs WHERE task_id = t ORDER BY id DESC LIMIT 1, with  *)
(* 0 for no row.                                                              *)
IsLatestRun(t, r) ==
  IF r = 0 THEN RunsOf(t) = {}
  ELSE r \in RunsOf(t) /\ \A other \in RunsOf(t) : other <= r

(* Mutant of Owns: the run's status is not looked at.                         *)
OwnsWhateverStatus(r, token) ==
  /\ r \in DOMAIN runs
  /\ runs[r].owner = token
  /\ runs[r].lease > now

(* The condition of ownerFinishAuthorization, RenewLease and UpdateProgress.  *)
Owns(r, token) ==
  /\ r \in DOMAIN runs
  /\ runs[r].status = "running"
  /\ runs[r].owner = token
  /\ runs[r].lease > now

(* The condition of expiredFinishAuthorization and NextExpired.               *)
Expired(r) ==
  /\ r \in DOMAIN runs
  /\ runs[r].status = "running"
  /\ runs[r].lease <= now

(* NextExpired: ORDER BY lease_expires_at, id LIMIT 1.                        *)
IsNextExpired(r) ==
  /\ Expired(r)
  /\ \A other \in DOMAIN runs : Expired(other) =>
       \/ runs[r].lease < runs[other].lease
       \/ runs[r].lease = runs[other].lease /\ r <= other

-----------------------------------------------------------------------------
(* TaskRepo and AttemptRepo. *)

Create ==
  /\ Len(tasks) < MaxTasks
  /\ tasks' = Append(tasks, [status |-> "todo", cont |-> NoContinuation])
  /\ UNCHANGED <<now, runs, comments, scans>>

(* The continuation predicate of the claim: StartOwnedAttempt checks only the *)
(* not-before instant, the automatic claims also the kind and the exit reason *)
(* of the selected run.                                                       *)
MayClaim(auth, p) ==
  LET cont == tasks[p.task].cont
      exit == IF auth = "interrupted" THEN "interrupted"
                                      ELSE "token_budget_exhausted"
  IN IF auth = "owner"
       THEN p.status = "failed" /\ cont.at # NoTime => cont.at <= p.startedAt
       ELSE /\ p.status = "failed" /\ p.run # 0
            /\ cont.kind = "scheduled"
            /\ cont.at # NoTime /\ cont.at <= p.startedAt
            /\ runs[p.run].exit = exit

(* Mutants of Claimable: no compare of the task's status, no compare of its   *)
(* latest run.                                                                *)
ClaimableInAnyStatus(auth, p) ==
  /\ Transition(p.status, "in_progress")
  /\ p.task \in DOMAIN tasks
  /\ IsLatestRun(p.task, p.run)
  /\ MayClaim(auth, p)

ClaimableUnbound(auth, p) ==
  /\ Transition(p.status, "in_progress")
  /\ p.task \in DOMAIN tasks
  /\ tasks[p.task].status = p.status
  /\ MayClaim(auth, p)

Claimable(auth, p) ==
  /\ Transition(p.status, "in_progress")
  /\ p.task \in DOMAIN tasks
  /\ tasks[p.task].status = p.status
  /\ IsLatestRun(p.task, p.run)
  /\ MayClaim(auth, p)

(* Mutant of StartOwnedAttempt: the claim leaves the continuation in place.   *)
StartKeepingContinuation(auth, p, token) ==
  /\ Len(runs) < MaxRuns
  /\ Claimable(auth, p)
  /\ tasks' = [tasks EXCEPT ![p.task].status = "in_progress"]
  /\ runs' = Append(runs,
       [task |-> p.task, grant |-> p.grant, status |-> "running", exit |-> "",
        tokens |-> 0, work |-> NoWork, startedAt |-> p.startedAt,
        finishedAt |-> NoTime, owner |-> token, lease |-> p.startedAt + Lease])
  /\ UNCHANGED <<now, comments, scans>>

(* startOwnedAttempt. p: the task, the status and the latest run its caller   *)
(* expects, the grant, and the instant the caller read before the transaction *)
(* began - from which the first lease is counted.                             *)
StartOwnedAttempt(auth, p, token) ==
  /\ Len(runs) < MaxRuns
  /\ Claimable(auth, p)
  /\ tasks' = [tasks EXCEPT ![p.task] =
                 [status |-> "in_progress", cont |-> NoContinuation]]
  /\ runs' = Append(runs,
       [task |-> p.task, grant |-> p.grant, status |-> "running", exit |-> "",
        tokens |-> 0, work |-> NoWork, startedAt |-> p.startedAt,
        finishedAt |-> NoTime, owner |-> token, lease |-> p.startedAt + Lease])
  /\ UNCHANGED <<now, comments, scans>>

UpdateProgress(r, token, tokens, work) ==
  /\ Owns(r, token)
  /\ runs' = [runs EXCEPT ![r].tokens = tokens, ![r].work = work]
  /\ UNCHANGED <<now, tasks, comments, scans>>

(* Mutant of RenewLease: extends the lease instead of restarting it.          *)
ExtendLease(r, token) ==
  /\ Owns(r, token)
  /\ runs' = [runs EXCEPT ![r].lease = @ + Lease]
  /\ UNCHANGED <<now, tasks, comments, scans>>

RenewLease(r, token) ==
  /\ Owns(r, token)
  /\ runs' = [runs EXCEPT ![r].lease = now + Lease]
  /\ UNCHANGED <<now, tasks, comments, scans>>

(* The transaction of finishAttempt, under either authorization. p: run, task,*)
(* outcome, continuation, tokens, work, finishedAt, whether there is a comment*)
Finishable(p) ==
  /\ ValidCompletion(p.outcome, p.cont)
  /\ p.run \in DOMAIN runs
  /\ runs[p.run].status = "running"
  /\ runs[p.run].task = p.task
  /\ p.task \in DOMAIN tasks
  /\ tasks[p.task].status = "in_progress"

(* Mutant of Finish: the outcome is written where the status belongs.         *)
FinishByOutcome(p) ==
  LET end == TerminalState(p.outcome) IN
  /\ Finishable(p)
  /\ runs' = [runs EXCEPT ![p.run] =
       [@ EXCEPT !.status = p.outcome, !.exit = end.exit, !.tokens = p.tokens,
                 !.work = p.work, !.finishedAt = p.finishedAt]]
  /\ tasks' = [tasks EXCEPT ![p.task] = [status |-> end.task, cont |-> p.cont]]
  /\ comments' = IF p.comment THEN Append(comments, p.task) ELSE comments
  /\ UNCHANGED <<now, scans>>

(* Mutant of Finish: the run is finished, the task update is forgotten.       *)
FinishOnlyRun(p) ==
  LET end == TerminalState(p.outcome) IN
  /\ Finishable(p)
  /\ runs' = [runs EXCEPT ![p.run] =
       [@ EXCEPT !.status = end.run, !.exit = end.exit, !.tokens = p.tokens,
                 !.work = p.work, !.finishedAt = p.finishedAt]]
  /\ comments' = IF p.comment THEN Append(comments, p.task) ELSE comments
  /\ UNCHANGED <<now, tasks, scans>>

Finish(p) ==
  LET end == TerminalState(p.outcome) IN
  /\ Finishable(p)
  /\ runs' = [runs EXCEPT ![p.run] =
       [@ EXCEPT !.status = end.run, !.exit = end.exit, !.tokens = p.tokens,
                 !.work = p.work, !.finishedAt = p.finishedAt]]
  /\ tasks' = [tasks EXCEPT ![p.task] = [status |-> end.task, cont |-> p.cont]]
  /\ comments' = IF p.comment THEN Append(comments, p.task) ELSE comments
  /\ UNCHANGED <<now, scans>>

FinishAttempt(p, token) == Owns(p.run, token) /\ Finish(p)
RecoverExpiredAttempt(p) == Expired(p.run) /\ Finish(p)

-----------------------------------------------------------------------------
(* ContinuationRepo. *)

Unscheduled(t) ==
  /\ tasks[t] = [status |-> "failed", cont |-> NoContinuation]
  /\ \E r \in RunsOf(t) : /\ IsLatestRun(t, r)
                          /\ runs[r].exit = "token_budget_exhausted"
                          /\ runs[r].finishedAt # NoTime

(* The SELECT of InitializeUnscheduled: the oldest such task and its run.     *)
ReadUnscheduled(s) ==
  /\ scans[s] = NoScan
  /\ \E t \in DOMAIN tasks, r \in DOMAIN runs :
       /\ Unscheduled(t) /\ IsLatestRun(t, r)
       /\ \A other \in DOMAIN tasks : Unscheduled(other) => t <= other
       /\ scans' = [scans EXCEPT ![s] =
            [task |-> t, finishedAt |-> runs[r].finishedAt,
             tokens |-> runs[r].tokens]]
  /\ UNCHANGED <<now, tasks, runs, comments>>

(* Mutant of InitializeUnscheduled: its UPDATE has no guard.                  *)
InitializeUnguarded(s) ==
  LET row == scans[s]
      decision == DecideAttemptCompletion("token_exhausted", row.finishedAt,
                                          Reset, row.tokens > 0, "fresh")
  IN
  /\ row # NoScan
  /\ tasks' = [tasks EXCEPT ![row.task].cont = decision]
  /\ scans' = [scans EXCEPT ![s] = NoScan]
  /\ UNCHANGED <<now, runs, comments>>

(* Its UPDATE: the decision is made from the row read before, as of a fresh   *)
(* window; the guard looks at the task alone, whatever run is latest by then. *)
InitializeUnscheduled(s) ==
  LET row == scans[s]
      decision == DecideAttemptCompletion("token_exhausted", row.finishedAt,
                                          Reset, row.tokens > 0, "fresh")
  IN
  /\ row # NoScan
  /\ tasks' = IF tasks[row.task] = [status |-> "failed", cont |-> NoContinuation]
                THEN [tasks EXCEPT ![row.task].cont = decision]
                ELSE tasks
  /\ scans' = [scans EXCEPT ![s] = NoScan]
  /\ UNCHANGED <<now, runs, comments>>

(* Callers that die between the SELECT and the UPDATE take their rows along.  *)
AbandonScans(lost) ==
  /\ \E s \in lost : scans[s] # NoScan
  /\ scans' = [s \in Scanners |-> IF s \in lost THEN NoScan ELSE scans[s]]
  /\ UNCHANGED <<now, tasks, runs, comments>>

(* Mutant of Continuable: an interruption is not selected.                    *)
ContinuableExhausted(t, r) ==
  /\ t \in DOMAIN tasks /\ r \in DOMAIN runs
  /\ tasks[t].status = "failed"
  /\ tasks[t].cont.kind = "scheduled" /\ tasks[t].cont.at # NoTime
  /\ IsLatestRun(t, r)
  /\ runs[r].exit = "token_budget_exhausted"

Continuable(t, r) ==
  /\ t \in DOMAIN tasks /\ r \in DOMAIN runs
  /\ tasks[t].status = "failed"
  /\ tasks[t].cont.kind = "scheduled" /\ tasks[t].cont.at # NoTime
  /\ IsLatestRun(t, r)
  /\ runs[r].exit \in {"token_budget_exhausted", "interrupted"}

(* Next: the automatic continuation that is due first, ORDER BY               *)
(* next_eligible_at, id LIMIT 1.                                              *)
IsNextContinuation(t, r) ==
  /\ Continuable(t, r)
  /\ \A t2 \in DOMAIN tasks, r2 \in DOMAIN runs : Continuable(t2, r2) =>
       \/ tasks[t].cont.at < tasks[t2].cont.at
       \/ tasks[t].cont.at = tasks[t2].cont.at /\ t <= t2

-----------------------------------------------------------------------------
Tick ==
  /\ now < MaxTime
  /\ now' = now + 1
  /\ UNCHANGED <<tasks, runs, comments, scans>>

-----------------------------------------------------------------------------
(* Any sequence of calls, by any callers. *)

FreshTokens == {token \in Tokens : \A r \in DOMAIN runs : runs[r].owner # token}

Claim ==
  \E auth \in {"owner", "automatic", "interrupted"}, t \in DOMAIN tasks,
     status \in TaskStatus, r \in 0 .. Len(runs), grant \in Grants,
     at \in 0 .. now, token \in FreshTokens :
    StartOwnedAttempt(auth, [task |-> t, status |-> status, run |-> r,
                             grant |-> grant, startedAt |-> at], token)

Publish ==
  \E r \in DOMAIN runs, token \in Tokens, tokens \in Amounts, work \in Works :
    UpdateProgress(r, token, tokens, work)

Renew == \E r \in DOMAIN runs, token \in Tokens : RenewLease(r, token)

(* Every completion of the program comes from DecideAttemptCompletion, on any *)
(* instant its caller observed and with that caller's own reset interval.     *)
Completions ==
  {[outcome |-> outcome,
    cont |-> DecideAttemptCompletion(outcome, at, reset, progressed, origin)] :
      outcome \in AttemptOutcome, at \in 0 .. now, reset \in Resets,
      progressed \in BOOLEAN, origin \in ProviderWindowOrigin}

End ==
  \E r \in RunningRuns : \E t \in DOMAIN tasks, c \in Completions,
     tokens \in Amounts, work \in Works, at \in 0 .. now, comment \in BOOLEAN :
    LET p == [run |-> r, task |-> t, outcome |-> c.outcome, cont |-> c.cont,
              tokens |-> tokens, work |-> work, finishedAt |-> at,
              comment |-> comment]
    IN \/ RecoverExpiredAttempt(p)
       \/ \E token \in Tokens : FinishAttempt(p, token)

Schedule ==
  \/ \E s \in Scanners : ReadUnscheduled(s) \/ InitializeUnscheduled(s)
  \/ \E lost \in SUBSET Scanners : AbandonScans(lost)

StoreNext ==
  \/ Create
  \/ Publish
  \/ Renew
  \/ Schedule
  \/ Tick
  \/ Claim
  \/ End

StoreSpec == StoreInit /\ [][StoreNext]_storeVars

-----------------------------------------------------------------------------
(* Properties. *)

StoreTyped(grants, works) ==
  /\ now \in Nat
  /\ tasks \in Seq(Task)
  /\ runs \in Seq(RunRow(grants, works))
  /\ comments \in Seq(Nat)
  /\ scans \in [Scanners -> ScanRow]

StoreTypeOK == StoreTyped(Grants, Works)

(* A task is in progress exactly while its latest run is running, and no      *)
(* other run of it is: the two-table compare-and-swap of the claim and the    *)
(* two-table finish never come apart, whoever races whom for the task.        *)
RunningIsLatest ==
  \A t \in DOMAIN tasks : \A r \in RunsOf(t) :
    runs[r].status = "running" => IsLatestRun(t, r)

InProgressHasRun ==
  \A t \in DOMAIN tasks :
    tasks[t].status = "in_progress" <=> RunsOf(t) \cap RunningRuns # {}

OneRunningAttempt == RunningIsLatest /\ InProgressHasRun

(* The status of a settled task is the one its latest run ended with, and a   *)
(* task is todo exactly until its first run: `failed` always has a run to     *)
(* resume from, `done` never comes from anything but a succeeded run.         *)
TaskMirrorsLatestRun ==
  \A t \in DOMAIN tasks :
    /\ tasks[t].status = "todo" <=> RunsOf(t) = {}
    /\ \A r \in RunsOf(t) :
         IsLatestRun(t, r) /\ runs[r].status # "running" =>
           \E o \in AttemptOutcome :
             TerminalState(o) = [run |-> runs[r].status, exit |-> runs[r].exit,
                                 task |-> tasks[t].status]

(* Only a failed task carries a continuation, and one that every reader of    *)
(* the row can parse: a claim or a success leaves nothing for a server to     *)
(* pick up, and a server that writes late never marks a task that moved on.   *)
ContinuationOnlyOnFailed ==
  \A t \in DOMAIN tasks :
    /\ ParsesAsContinuation(tasks[t].cont)
    /\ tasks[t].cont.kind # "" => tasks[t].status = "failed"

(* No lease reaches further than one lease duration into the future: however  *)
(* often its owner renews and whatever instant it was claimed with, a run     *)
(* whose owner died is recoverable at most Lease later.                       *)
TakeoverIsBounded ==
  \A r \in DOMAIN runs : runs[r].lease <= now + Lease

(* A terminal run is history: no late publication, renewal or second finish   *)
(* of a stale owner, nor a later recovery, changes a column of it.            *)
TerminalRunsFrozen ==
  [][\A r \in DOMAIN runs : runs[r].status # "running" =>
       r \in DOMAIN runs' /\ runs'[r] = runs[r]]_storeVars

(* `done` is final: no claim, no recovery and no late scheduler write touches *)
(* a completed task again.                                                    *)
DoneIsFinal ==
  [][\A t \in DOMAIN tasks : tasks[t].status = "done" =>
       tasks'[t] = tasks[t]]_storeVars

(* The two tables are one lock on each task: Store implements Custody.        *)
Board == [t \in DOMAIN tasks |-> [state |-> tasks[t].status,
                                  holders |-> RunsOf(t) \cap RunningRuns]]

Lock == INSTANCE Custody WITH board <- Board, issued <- Len(runs)

ImplementsCustody == Lock!CustodySpec

(* README, Server and reset model: "Only genuine token exhaustion is retried  *)
(* automatically. Agent errors are terminal for automatic policy." An agent   *)
(* error therefore never carries a continuation, whichever server was         *)
(* initializing older unscheduled tasks while the attempt ran.                *)
AgentErrorHasNoContinuation ==
  \A t \in DOMAIN tasks, r \in DOMAIN runs :
    IsLatestRun(t, r) /\ runs[r].exit = "agent_error" =>
      tasks[t].cont = NoContinuation

(* README, Ownership: "SQLite evaluates lease validity against its own        *)
(* current time and calculates renewal expiry from that same value; callers   *)
(* never provide an authorization time." A run is therefore alive when its    *)
(* claim commits.                                                             *)
ClaimedLeaseIsLive ==
  [][Len(runs') > Len(runs) => runs'[Len(runs')].lease > now]_storeVars
=============================================================================
