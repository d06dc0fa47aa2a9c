# Verification of agent-inbox

TLA+ models of the task inbox in `src/`, the TLC configurations that check them
on small instances, and machine-checked proofs about the whole of it: the
database its processes share, how they open it, the texts they keep their
instants in, and what commands and servers do to tasks, sessions and results.

An inbox is one SQLite database and one directory of session files under a data
directory. Any number of processes use them at once: executors (`run`, `work`,
`resume`) and continuation servers (`serve`). SQLite is the only coordinator;
there are no messages between processes. What has to be right is what happens
when they race for a task, stall past a lease, or die between two writes.

## Inventory

| Component | State | Operations | What makes it correct |
|---|---|---|---|
| `internal/domain` | none | completion policy, terminal states, transitions | a decision fits its outcome; a stop means a hopeless task |
| `store/attempt_repo.go` | `tasks`, `runs`, `comments` | claim (three authorizations), progress, renewal, finish (owner or expired), candidate, next expired | one running attempt per task; both tables in step; terminal rows frozen; bounded leases |
| `store/continuation_repo.go` | continuation columns of `tasks` | `Next`, `InitializeUnscheduled` | only failed tasks are scheduled; a late write hurts nobody |
| `store/task_repo.go`, `comment_repo.go`, `run_repo.go` | rows | create, reads | - |
| `internal/agent` | session value, `sessions/<id>.json` | start, restore, begin/continue/bind an attempt, the fenced loop, commit, persist | the database decides first, the file follows; windows are spent once |
| `internal/runner` | a process's session, run, context | execute, resume, run an attempt with a renewal goroutine, recover an expired run | an attempt resumes where the last ended; a crash repeats nothing |
| `internal/server` | position in the scan loop | initialize, recover, continue, wait | reset instants are awaited; stale selections are benign |
| `internal/cli`, `cmd` | flags, context | commands, `work`'s loop, signals | a command ends; `work` never picks a task for ever |
| `store/db.go`, `migrations.go` | schema versions, journal mode, write lock | open, migrate, switch to WAL | nobody sees half an upgrade; nobody fails for another's failure |

Interaction: a command claims a task in one transaction, binds its session to
the new run (file, then row), and then alternates fence, step, commit (row) and
persist (file) until it halts and finishes run, task and comment in one
transaction. A goroutine renews the lease meanwhile. A server loops over three
queries: an unscheduled exhaustion to initialize, an expired run to recover, a
due continuation to resume. Signals cancel contexts, which are looked at only at
certain points; a crash leaves a running row whose lease runs out. Every command
first opens the database and, after an upgrade of the program, migrates it.

What is hard: every gap between two of those writes; state read before a claim
and used after it; a lease that expires under a live owner; two sources for a
session, of which one is unfenced and not as durable; a server that gives up on
the first error; several processes that migrate one schema; instants compared
as text. `PROJECT.json` lists each hazard at its line
with the properties that would catch it.

## Modules

    Domain <- Store <- Runner <- Server      (Runner also extends Session,
                                              which extends Domain)
    Custody  is implemented by Store         Inbox  is implemented by Server
    Migrations, Timestamps                   stand alone
    StoreProofs                              theorems about the database
    ServerProofs <- CallsProofs <- LineageProofs, WorkProofs; and
    WorkProofs <- MishapProofs               theorems about the program
    MigrationsProofs, TimestampsProofs              theorems about those two
    MCStore, MCServer, MCMigrations          instances for TLC

**Domain** is `types.go`: the vocabulary, `DecideAttemptCompletion`,
`TerminalState`, `Transition`. Instants are naturals; `NoTime` is a nil pointer
or NULL.

**Store** is the database. `tasks` and `runs` are sequences of rows whose index
is the id. One action is one statement or transaction; `InitializeUnscheduled`
is a SELECT and a separate UPDATE in the code and two actions here, with the row
in between in `scans`; a caller may die in between (`AbandonScans`). Columns no
statement distinguishes are grouped: `grant` (session id, budget, start step:
fixed by the insert) and `work` (output and checkpoint: always replaced
together). `StoreSpec` lets *arbitrary* callers issue any operation with any
argument, any clock reading up to now and any token ever drawn, so what it shows
does not depend on the layers above.

**Custody** is what the database promises about who works on a task: a lock per
task, without rows, tokens or leases. `ImplementsCustody` maps Store to it: the
state of a task is its status, its holders are its running runs.

**Session** is the agent's session as a value, one operator per transition.
A plan (step costs, budget, `fail-at`) is what a task's description and its hash
determine. Step names, output texts and summaries are abstracted: the output of
an attempt is the set of its step numbers, with 0 for the summary line.

**Runner** adds processes. `proc[p]` holds a program counter and the local
variables of the running call; `files` the session directory as processes see
it, and `disk` what of it survives a loss of power, since `persist` syncs the
file it renames but never the directory; `plans` the descriptions; `env` the
scenario with what may still go wrong. Every database call and every file
replacement is a step:

| Source | Actions (by `pc`) |
|---|---|
| `RunWork` | `PickTask` -> `start` |
| `Execute`, `resume` up to the claim | `Execute`, `Resume`, `ResumeSelected` -> `claim` |
| `startAttempt` | `ClaimAttempt` -> `bind` |
| `bindOwnedSession` | `BindSession` (file) -> `publish`, `PublishBinding` (row) -> `top` |
| `Session.run`, head and fence | `LoopTop` -> `delay` or `commit` |
| delay, second fence, step | `TakeStep` -> `commit` |
| `commitState` | `Commit` (row) -> `persist`, `Persist` (file) -> `top` or `finish` |
| end of `runAttempt` | `FinishRun` |
| `renewLease` goroutine | `RenewInBackground`, at any point of the loop |
| `RecoverExpired` | `LoadExpired` -> `Rebind` (file) -> `Reconcile` |

`Return` is the end of a call: a command exits; a server rescans after success or
a conflict and exits on any other error or when its context is done; `work` picks
its next task whatever the error was. In-memory transitions are private to a
process and merged with the database call before them; in particular a halt is
stamped with the instant of its fence. A file operation or statement that fails
ends a command or server and is `Crash`; `work` survives it (`FailCall`); a
failed renewal has different consequences again and is a disjunct of
`RenewInBackground`. `WriteBack` and `Outage` are the kernel's and the power's.
`UpgradedInbox` is an initial state in which an older release has worked on the
first task: the row has the defaults of the newer columns, the session file is
bound to no run and knows no window (`DecodeOlder`).

**Server** is the scan loop (`scan` -> `initialize`, `expired` -> `load`, `next`
-> `select`) and the composition `ServerNext`: any process may run any command
its role allows, be signalled or crash at any step, and time passes between any
two. Its properties are about the whole program. Two of them are refinements:
`ImplementsInbox`, the abstract view of a user (**Inbox**: a task is worked on,
its steps are completed one after the other, it is done with its last one), and
`CallsTheStore`, that every step of every process is a step of `StoreSpec`, so
that what is checked and proved of arbitrary callers holds of this program.

**Migrations** is `Open`: processes that take SQLite's write lock, apply and
record what is missing in one transaction, statement by statement, and switch
the journal mode outside of it. A migration is a version; its statements are
applied, or torn when one of them fails. `Statement` is SQLite's rule: inside a
transaction they change a draft, outside they commit one by one.

**Timestamps** is how leases and eligibility are written (RFC3339Nano by Go,
`strftime` by a renewal) and compared (`julianday` in the guards, text in the
`ORDER BY`s). It has no steps: its initial states are all pairs of rows and all
instants. The other modules compare instants as numbers; this one says what
that leaves out.

A definition whose comment starts with *Mutant of* is a slip of the definition
it precedes. It is used by no specification; it shows that a property can fail.

## Runs

| Run | Instance | Shows |
|---|---|---|
| `store_calls` | 2 tasks, 2 runs, lease 2, time 0-2 | the database under arbitrary callers: one lock per task, terminal rows frozen, leases bounded; implements Custody |
| `inbox_mishap` | 2 processes, 3 runs, time 0-3; one crash, stall or signal | windows, resets, resumes, the file and the result of a task |
| `inbox_errors` | 2 processes, 3 runs, time 0-2; one crash or stall; interval 0 | agent errors, late scheduling, recovery; implements Inbox and Store |
| `takeover` | 2 processes, 1-2 tasks, fairness; six scenarios | every run ends, every fundable task is done, signals and `work` end |
| `migrations` | 3 openers, 6 migrations, 2 faults, 1 timeout, fairness | upgrades are atomic and nobody is in the way |
| `timestamps` | 4 seconds of 4 milliseconds of 2 ticks | the fence is exact to a millisecond, `ORDER BY` to a second |
| `stale_file` | 1 process, 2 faults | **violated:** committed work repeated |
| `stale_initialize` | 2 processes, interval 0 | **violated:** an agent error is scheduled |
| `legacy_origin` | 2 processes, 1 signal, interval 0 | **violated:** a fundable task is stopped |
| `late_claim` | 1 fault | **violated:** a run is born expired |
| `work_spins` | 1 process, unwritable directory, fairness | **violated:** `work` never ends |
| `poisoned_recovery` | 2 tasks, 1 fault, 1 loss of power, fairness | **violated:** one run keeps all others from recovery |

**Scenarios.** Server's instances differ in the records of `Scenarios`: the plans
of the tasks, the role of each process, which servers are restarted (`kept`), the
interval of the executors, and bounds on faults, signals and losses of power. A
*fault* is a crash, a failed call or renewal, or a live owner (or pending claim)
whose lease runs out; counting them separates what one fault can do from what
takes two. `NoStepRepeated` holds with one and fails with two. Plans have one to
three steps, chosen so that a window funds one, the failing step comes first or
last, or no window suffices. The six scenarios of `takeover`: two restarted
servers that can also execute race while one crashes or stalls; a human resumes
and is signalled beside a server and a crash; two tasks wait for the one attempt a
server drives at a time; power is lost; the program is upgraded while a task is
exhausted or in progress without a process; two `work` commands race through two
tasks without a server.

**Bounds.** Three runs of a task are a run, its successor and a successor's
successor: enough for an old owner, a current one and a stale candidate to meet.
`store_calls` has two runs, which is one per task or an owner and its successor;
three are covered by the proofs. In Store and the safety runs a lease is two
instants, so a renewal between ticks changes it, and the reset is one: time
reaches a crash at 0, the recovery at 2 and the next reset at 3. In `takeover`
time is free up to `until` (1 where a lease may run out under a live owner) and then
passes only when every process waits for it (`Quiet`), so the bounds of the clock
(12) and of runs (7) are never what ends a behaviour: no execution reaches either.
In `poisoned_recovery` the counterexample ends in a loop of the server, not at a
bound. Six is the number of migrations of the code. In `timestamps` the digits are
scaled down, base 2 with three of which two are milliseconds, which leaves every
combination of trailing zeros, of carries into the second and of rounding.

Owner tokens (in Store) and processes (in the safety runs of Server) are
interchangeable, so symmetry is sound there; no run with liveness uses it.
Deadlock checking is off where an instance may stop: at its bounds, when nobody
issues another command, when every opener is done.

**Fairness.** `Fairness` in Server asks for three things. A process in the middle
of a command gets to run: weak fairness of `Proceed`, which the operating system's
scheduler gives; which branch a step takes is left open. Time passes: weak
fairness of `PassTime`. Servers in `kept` are started again after they exit: the
code exits on any error, so without a supervisor nothing below is promised.
Nobody is obliged to add, run, resume or signal. In Migrations every process that
has begun gets to run; weak fairness of `Begin` suffices because the lock is
always given back and each process asks for it once. Finished work, crashes,
signals and timeouts are never forced.

**Liveness.** `EveryRunEnds` and `ClaimedIsDone` are the README's takeover
promises, for kept servers and for plans a window can fund; both excuse a run
that a loss of power left without checkpoint *and* file (`Stranded`).
`SignalledExits`: a cancelled context is seen. `WorkEnds`, `StartupSucceeds`.

## What the violated runs say

1. *Committed work can be repeated* (`stale_file`). The step is committed in the
   database before the file is replaced. A crash between leaves the file behind.
   Recovery and the next claim are right, from the database; but if that next
   process dies before it binds the session, its row has no checkpoint, recovery
   falls back to the old file and the task continues from there. README, "Completed
   work is not repeated" and "can neither rewind its successor's recovery source".
2. *An agent error can be scheduled* (`stale_initialize`). The UPDATE of
   `InitializeUnscheduled` does not name the run its decision was made from.
3. *A continued window can be taken for a fresh one* (`legacy_origin`).
   `InitializeUnscheduled` assumes a fresh window. It has something to do in an
   up-to-date inbox too, because the `--reset-interval` flag, unlike the
   environment variable, may be zero; `ExhaustionIsTimed` holds only for
   executors with a positive interval (`inbox_mishap`).
4. *A claim's lease is counted from the caller's clock* (`late_claim`).
5. *`work` may never end* (`work_spins`). It drops the error of `Execute` and
   picks the oldest todo task again; an error before the claim leaves it todo.
6. *One run can block recovery of all* (`poisoned_recovery`). `NextExpired`
   returns the same run after each restart and any error ends the server. The
   run of the counterexample lost its bootstrap file with the power, against
   README, "still recovered from the bootstrap session file"; `RecoverySource`
   holds without a loss of power.

Two rows whose instants lie in the same second may be selected in the wrong
order, because `Z` sorts after `.` and trailing zeros are cut:
`OvertakenWithinASecond` is the most that holds.

## Proofs

Eight modules of theorems, checked by TLAPS. `THEOREM`s are the results, `LEMMA`s
what they rest on; `PROJECT.json` lists the results a reader should know of. Every
safety property of the passing runs is among them, the three refinements included.

**Assumptions.** The named assumptions of the modules: positive lease and reset,
`NoTime` not a number, scenarios and plans of the right shape. `PowersArePositive`
in Timestamps is a fact of arithmetic whose induction the provers cannot do; TLC
evaluates it. The theorems about the program add hypotheses, each where it is
needed and each in the statement of the theorem:

| Hypothesis | Why |
|---|---|
| `NeverUpgraded` (all theorems about the program) | an older release leaves sessions bound to no run and windows without a size, which `ServerInv` excludes; such inboxes are model-checked in `takeover` |
| `IntervalsOf(1)`: every configured interval is positive (`ExhaustionIsTimed`, `StoppedIsHopeless`, `AgentErrorHasNoContinuation`) | the flag may be zero, and then the last of the three fails: run `stale_initialize` |
| `IntervalsOf(Reset)`: no executor has a shorter interval than the server (`ResetIsAwaited`) | each process applies its own; the promise cannot hold with the longer one |
| no loss of power (`RecoverySource`) | run `poisoned_recovery`: a lost bootstrap file leaves nothing to recover from |
| `OneFault`: one fault at most and no loss of power (`NoStepRepeated`, `AgentErrorOnce`, `FileNeverAhead`, `ImplementsInbox`) | two faults break each of them: the first shown by run `stale_file`, the others below |

Otherwise the theorems hold for any number of processes, tasks, plans, runs,
crashes, failed calls, stalls and signals, for any bounds of the clock, and, but
for the last two rows, for any number of losses of power. `OneFault` still leaves
open which call fails, who dies or stalls where, and how often anyone is
signalled.

**Database.** `StoreProofs` proves, for every sequence of calls, the type
invariant, the four state properties and the two action properties. `StoreInv`,
the inductive invariant, is the conjunction of the state properties with
referential integrity: a run belongs to a task, and so does a row a scanner
holds. None of the properties is inductive alone. A claim preserves "one running
attempt" only because a todo or failed task has no running run, which is the
other half of `OneRunningAttempt` and `TaskMirrorsLatestRun`; a finish keeps the
task in step with its *latest* run only because the running run is the latest;
a late initialization writes into a task only because the row it holds names one.
There is one lemma per action, lemmas on what appending and updating a row does
to a table, and `DecisionIsStorable`, that the completion policy never yields a
decision the row format rejects. The step lemmas are stated for any type of the
`grant` and `work` columns (`StoreInvOver`), so that the program, which fills in
the columns Store leaves out, uses them as they are.

The module also proves `ImplementsCustody`: initial states map to the empty board,
a claim to `Take`, either finish to `GiveBack`, a creation to `Add`, everything
else to a stutter. It uses `StoreInv`: that a claimed task has no holder, and that
a finished run was the only one.

**Program.** `ServerProofs` has `ServerInv`, the inductive invariant everything
below uses. It says of each session where it may be found:

- `Sound`: it stands at a step of its task's plan, between its start and the
  end, and `used + remaining = allowance`, at most the plan's budget. This is why
  no subtraction of a window goes below zero.
- `Bound`: one that is bound to a run has that run's number, token and window,
  and its halt is true (`HaltIsTrue`): completed means the last step, exhausted
  means the next step costs more than what remains.
- `RowOK`: the columns of a row agree with its checkpoint; a run that ended has
  one, and it ended the way its checkpoint halted. `FileOK`: a file, also what of
  it would survive a loss of power, has the session it is named after, unbound or
  bound. `LocalOK`: what a process holds at each program counter. A process
  before its claim has a new session or the one prepared from the run it saw,
  which had *ended* and is therefore still what it was; from the binding on it
  has a session bound to its own run.

It has one lemma per action. That a process keeps what it knows while others
step rests on `...Stays` lemmas: rows keep task and grant, ended rows keep
everything, time and tables grow. `CallsProofs` extracts from a step of the
program the call it makes (`StepCalls`) and shows that Store admits it: the
token is the number of the new run, so never used before; the instant of a claim
is one the process has read; the completion a finish stores is one the policy
decides. Hence `CallsTheStore`, a refinement, and with it the properties of
StoreProofs (`InboxKeepsTheStore`). `StepIsSteady` is the form the rest uses it in.

`LineageProofs` relates an attempt to the one it resumes. `Lineage` says that its
grant is what the checkpoint of the other says, and is inductive because the
other had ended when its successor was prepared and `Claimable` refuses any
candidate but the latest run: this is the stale candidate that finds another
attempt has come and gone. `ResumesWhereLeft` and `WindowSpentOnce` follow. With
positive intervals `TimedBy` says that no exhausted latest attempt is without a
reset instant and so no scan ever finds anything to initialize, from which
`ExhaustionIsTimed`, `StoppedIsHopeless` and `AgentErrorHasNoContinuation`
follow; with intervals no shorter than `d` the instants it speaks of are at least
`d` after the halt, and `ResetIsAwaited` is that `Claimable` waits for them.

`WorkProofs` is about results. `DoneIsComplete` needs to know that a step which
a session has behind it is in some row, across crashes between row and file,
takeovers, and files that come back older after a loss of power. `WorkInv`:

- `DistinctOwners`: no two processes own one run, since tokens are fresh;
- `Ahead`: a process holds of a *running* run no less than the row has, because
  its owner alone writes to it and, once a recovery has seen the lease run out,
  nobody does. Without this an old checkpoint could replace a newer one and the
  steps in between would be in no row;
- `Held`, `Backed`: all steps behind a session in a process, row or file are in
  the rows of its task (`Recorded`), except for one step between its work and
  its commit;
- `SaidOnce`: the done tasks are the ones with a comment, one each, and have a
  completed run.

`Moves` and `RunChanges` abstract the thirty actions to what they do to a
process and to a row, so that each conjunct has one proof with a handful of
cases. `RecoverySource` is from an invariant of its own (`Sourced`), and
`InboxKeepsTerminalRuns` and `InboxKeepsDoneTasks` are the two action properties of
Store for the program's full rows.

**One fault.** `MishapProofs` shows what it takes to repeat work. A process is
`Well` while it owns a running run, its lease and no failed renewal behind it; a
run is `Struck` when it runs without such an owner, or when somebody who is not
well still holds it. `StepHits` is the heart: a step that spends no fault strikes
nobody, one that does strikes one run, so with one fault at most one run is ever
struck (`OneStruck`). `MishapInv` follows from there:

- `FilesFollow`: until the fault, the file of a settled attempt is the session
  in its row, so whoever binds next starts from a file that is up to date.
- `FilesAbreast`, `RowsAbreast`, `LocalsAbreast`: whatever a run can be carried on
  from - its file if it is or may yet be struck (`Exposed`), its row, a process
  that holds it - is `Abreast`: not before the run's start step, and with the
  directive spent if an earlier attempt has spent it. This is where a second
  fault bites: it can strike a run whose file an earlier one left behind.
- `Unfinished`, `Chained`: each attempt stands no further than its successor
  starts, and only the last one completes.

Outputs of attempts are then disjoint (`NoStepRepeated`), and an attempt that ends
with the agent error leaves the directive spent (`AgentErrorOnce`). `BehindInv`
bounds files from the other side: what a process holds is in the row, but for the
one step it commits next (`Accepted`), and a row never falls back (`TipGrows`); an
overtaken process may write late, but what it writes is no further than its own
row and by `Chained` no further than its successor's (`FileNeverAhead`).

`ImplementsInbox` puts this together. The completed steps of a task are where the
row of its latest attempt stands (`CompletedIsTip`), and there a claim starts, so
it maps to `TakeItem` and nothing else; a row moves on by a commit of its owner
only, and by one step (`TipMoves`), which is `CompleteStep`, while the binding
publishes again what is known, a stutter; an end changes no count, and completes a task
only when the last step had been accepted before (`DeliveryIsComplete`), so it is
`DeliverItem` or `FailItem`. Nothing maps to losing a step: that a recovery from a
file could, is the invariant's business to exclude, and what a second fault does.

**Opening.** `MigrationsProofs` proves the four safety properties of Migrations for
any number of openers, migrations and mishaps. The inductive invariant says that
the committed schema is an older release's or the complete one, that what is
between them is only in the draft of the writer, and that a process past its
commit works on the complete one. `NeverAppliedTwice` follows because recorded
and applied versions agree wherever a transaction begins.

**Instants.** `TimestampsProofs` proves both properties for every base and width of
the fraction, so for Go's nine digits and SQLite's three. Nothing changes there;
the work is in division with remainder (a quotient of a quotient, readings that
are shifted before they are cut) and in texts that begin with the same two digits.

**Only model-checked.**

- All liveness properties: they need fairness and ENABLED.
- What two faults do. `stale_file` shows what a second crash does to the first; in
  its instance the count of completed steps falls too (`ImplementsInbox`). With a stall in place of its first crash, the old owner's file replacement,
  which no fence precedes, comes after its successor was recovered from the old
  file, and is ahead of that row (`FileNeverAhead`, two processes); and an agent
  error that only such a row had is met again (`AgentErrorOnce`, the same two
  crashes). TLC finds both within two faults, with a signal to stop a server for
  the second.
- Inboxes an older release has worked in.

## Not modelled

- Persistent I/O failure other than an unwritable session directory, checkpoints
  that cannot be decoded (they act like the lost file of `poisoned_recovery`),
  clock jumps. The process clock and SQLite's clock are one clock.
- An executor of an older release that is still alive when the program is
  upgraded, and agent errors such a release left: only a human resumes those.
- `list`, `show`, `status` with `Current` and `Stopped`, the counts `work`
  prints, flag parsing, log lines and output streams: they change nothing.
- How a plan is derived from a description (hashes, directives, step names).
- `TaskRepo.Transition`, `CommentRepo.Create`, `StartAttempt` and unfenced
  `Session.Run`, which nothing but tests calls.

## Plan

1. Core: Domain, Store, Session, Runner, Server, and the proofs of Store. *Done.*
2. Liveness, losses of power, `work`, upgrades; Custody and Inbox with their
   refinements; Migrations and Timestamps with proofs. *Done.*
3. ServerProofs, CallsProofs, LineageProofs, WorkProofs, TimestampsProofs: the
   inductive invariant of the program, the refinement of Store, and its safety
   properties for every instance. *Done.*
4. MishapProofs: what one fault cannot do, and the refinement of Inbox. *Done.*
5. A weaker invariant that admits sessions of an older release.
