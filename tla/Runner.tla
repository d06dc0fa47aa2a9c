------------------------------- MODULE Runner -------------------------------
(* internal/runner and the fenced loop of internal/agent: processes that      *)
(* execute, resume and recover attempts against one database (Store) and one  *)
(* directory of session files. Every database call and every file replacement *)
(* is a step of its own, so processes interleave, stall and die between any   *)
(* two of them. A process runs one command at a time; its in-memory session   *)
(* dies with it. When the machine loses power they all die, and with them the *)
(* renames of session files the directory has not been written back with.     *)
(*                                                                            *)
(* Owner tokens are 128 random bits, so the n-th claim draws token n.         *)
EXTENDS Store, Session

CONSTANTS
  Procs,      \* operating-system processes
  NoSession,  \* an empty session_checkpoint column, a file never written
  Scenarios   \* how the inbox may be used, and what may go wrong:
              \*   plans - of the tasks that are created, in that order
              \*   upgraded - an older release has worked on the first one
              \*   role - the commands each process may be started with
              \*   kept - the servers somebody restarts when they exit
              \*   interval - --reset-interval of the executors
              \*   diskFails - the session directory cannot be written to
              \* and, as bounds,
              \*   faults - crashes, failed calls, stalls past a live lease
              \*   signals - SIGINT or SIGTERM delivered to a command
              \*   outages - losses of power
              \*   until - to here time passes whatever the processes do

Scenario ==
  [plans : Seq(Plan), upgraded : BOOLEAN,
   role : [Procs -> SUBSET {"run", "resume", "work", "serve"}],
   kept : SUBSET Procs, interval : Resets, diskFails : BOOLEAN,
   faults : Nat, signals : Nat, outages : Nat, until : Nat]

Plans == UNION {{s.plans[t] : t \in DOMAIN s.plans} : s \in Scenarios}

(* A session id is random; only the Execute that claims a todo task ever gets *)
(* its id into a run row, so the task and the process name it uniquely.       *)
SessionIds == (1 .. MaxTasks) \X Procs

SessionRow ==
  [id : SessionIds, plan : Plans, next : Nat, failAt : Nat, allowance : Nat,
   remaining : Nat, used : Nat, origin : ProviderWindowOrigin, run : Nat,
   token : Nat, start : Nat, halt : HaltReason, haltedAt : Nat \cup {NoTime}]

(* The columns that Store takes as they come.                                 *)
GrantRow == [session : SessionIds, budget : Nat, startStep : Nat]
WorkRow == [output : SUBSET Nat, checkpoint : SessionRow \cup {NoSession}]

ASSUME RunnerAssumption ==
  /\ Scanners = Procs /\ IsFiniteSet(Procs)
  /\ NoSession \notin SessionRow
  /\ NoWork = [output |-> {}, checkpoint |-> NoSession]
  /\ Scenarios \subseteq Scenario
  /\ \A s \in Scenarios :
       /\ s.kept \subseteq {p \in Procs : "serve" \in s.role[p]}
       /\ s.upgraded => s.plans # << >>
  /\ Reset \in Resets
  /\ 1 .. MaxRuns \subseteq Tokens
  /\ \A plan \in Plans : 0 .. plan.budget \subseteq Amounts

VARIABLES
  plans,    \* the plan each task's description stands for
  files,    \* sessions/<id>.json as processes see it, by session id
  disk,     \* the version of it that survives a loss of power
  proc,     \* each process: where it is and its local variables
  env       \* the scenario, with the faults, signals and outages still to come

runnerVars ==
  <<now, tasks, runs, comments, scans, plans, files, disk, proc, env>>
dbVars == <<now, tasks, runs, comments, scans>>

(* The local variables of a process. mode: it is a server or the work         *)
(* command, which go on after a call instead of exiting. cand: the run a      *)
(* resume saw, or a server selected, as the predecessor. since: the clock its *)
(* call read. sess: its session in memory. cancelled: its context is done.    *)
(* leaseLost: a renewal of the background goroutine failed, which cancels the *)
(* attempt alone.                                                             *)
ProcRow ==
  [pc : {"idle", "pick", "start", "claim", "bind", "publish", "top", "delay",
         "commit", "persist", "finish", "scan", "initialize", "expired", "load",
         "rebind", "reconcile", "next", "select"},
   kind : {"", "execute", "manual", "scheduled", "interrupted"},
   mode : {"", "serve", "work"}, task : Nat, cand : Nat, since : Nat,
   sess : SessionRow \cup {NoSession}, run : Nat, cancelled : BOOLEAN,
   leaseLost : BOOLEAN]

Idle ==
  [pc |-> "idle", kind |-> "", mode |-> "", task |-> 0, cand |-> 0,
   since |-> 0, sess |-> NoSession, run |-> 0, cancelled |-> FALSE,
   leaseLost |-> FALSE]

NewInbox ==
  /\ StoreInit
  /\ plans = << >>
  /\ files = [id \in SessionIds |-> NoSession]

(* What a release without owners, leases and checkpoints leaves behind when   *)
(* its executor dies before a step, or runs out of tokens: a row with the     *)
(* defaults of the columns added since, a running one with the lease of its   *)
(* start, and a session file that is bound to no run.                         *)
UpgradedInbox ==
  LET id == <<1, CHOOSE p \in Procs : TRUE>>
      plan == env.plans[1]
      first == StartSession(id, plan)
      row(sess, end, at) ==
        [task |-> 1,
         grant |-> [session |-> id, budget |-> plan.budget, startStep |-> 0],
         status |-> end.run, exit |-> end.exit, tokens |-> sess.used,
         work |-> NoWork, startedAt |-> 0, finishedAt |-> at, owner |-> 0,
         lease |-> 0]
      died == [run |-> "running", exit |-> "", task |-> "in_progress"]
  IN
  /\ now = 0 /\ comments = << >> /\ scans = [s \in Scanners |-> NoScan]
  /\ plans = <<plan>>
  /\ \E sess \in {first, DoStep(first)} :
       /\ sess.used <= plan.budget
       /\ files = [[i \in SessionIds |-> NoSession] EXCEPT ![id] = DecodeOlder(sess)]
       /\ \E end \in {died, TerminalState("token_exhausted")} :
            /\ end # died => CannotAfford(sess)
            /\ tasks = <<[status |-> end.task, cont |-> NoContinuation]>>
            /\ runs = <<row(sess, end, IF end = died THEN NoTime ELSE 0)>>

RunnerInit ==
  /\ env \in Scenarios
  /\ IF env.upgraded THEN UpgradedInbox ELSE NewInbox
  /\ disk = files
  /\ proc = [p \in Procs |-> Idle]

At(p, pc) == proc[p].pc = pc
Goto(p, pc) == proc' = [proc EXCEPT ![p].pc = pc]
Advance(p, pc, sess) == proc' = [proc EXCEPT ![p].pc = pc, ![p].sess = sess]
Happens(what) == env[what] > 0 /\ env' = [env EXCEPT ![what] = @ - 1]
Stopped(p) == proc[p].cancelled \/ proc[p].leaseLost

(* The call returns: a command exits; a server rescans unless the error is    *)
(* anything but a conflict; work picks its next task whatever the error was.  *)
(* Neither goes on when its context is done.                                  *)
Return(p, result) ==
  proc' = [proc EXCEPT ![p] =
    CASE @.mode = "serve" /\ result # "error" /\ ~@.cancelled ->
           [Idle EXCEPT !.pc = "scan", !.mode = "serve"]
      [] @.mode = "work" /\ ~@.cancelled ->
           [Idle EXCEPT !.pc = "pick", !.mode = "work"]
      [] OTHER -> Idle]

(* Mutant of ResetOf: the interval does not reach an executor.                *)
ResetUnset(p) == IF proc[p].mode = "serve" THEN Reset ELSE 0

ResetOf(p) == IF proc[p].mode = "serve" THEN Reset ELSE env.interval
RunOf(p) == runs[proc[p].run]
Work(sess) == [output |-> OutputOf(sess), checkpoint |-> sess]

-----------------------------------------------------------------------------
(* terminalizeCheckpoint and the parameters of the finish transactions.       *)

OutcomeOf(sess) ==
  IF sess.halt \in {"completed", "agent_error", "token_exhausted"}
    THEN sess.halt ELSE "interrupted"

Completion(sess, startStep, finishedAt, resetInterval) ==
  LET outcome == OutcomeOf(sess)
      policyAt == IF outcome = "token_exhausted" /\ sess.haltedAt # NoTime
                    THEN sess.haltedAt ELSE finishedAt
  IN DecideAttemptCompletion(outcome, policyAt, resetInterval,
                             sess.next > startStep, sess.origin)

FinishParams(p, finishedAt, resetInterval) ==
  LET sess == proc[p].sess IN
  [run |-> proc[p].run, task |-> proc[p].task, outcome |-> OutcomeOf(sess),
   cont |-> Completion(sess, RunOf(p).grant.startStep, finishedAt, resetInterval),
   tokens |-> sess.used, work |-> Work(sess), finishedAt |-> finishedAt,
   comment |-> sess.halt = "completed"]

-----------------------------------------------------------------------------
(* agent-inbox add *)
AddTask ==
  /\ Create
  /\ Len(tasks) < Len(env.plans)
  /\ plans' = Append(plans, env.plans[Len(tasks) + 1])
  /\ UNCHANGED <<files, disk, proc, env>>

(* Mutant of PickTask: any task that is not done is picked.                   *)
PickUnfinished(p) ==
  /\ At(p, "pick")
  /\ \/ /\ ~proc[p].cancelled
        /\ \E t \in DOMAIN tasks :
             /\ tasks[t].status # "done"
             /\ \A older \in 1 .. t - 1 : tasks[older].status = "done"
             /\ proc' = [proc EXCEPT ![p].pc = "start", ![p].task = t]
     \/ /\ proc[p].cancelled \/ \A t \in DOMAIN tasks : tasks[t].status = "done"
        /\ proc' = [proc EXCEPT ![p] = Idle]
  /\ UNCHANGED <<dbVars, plans, files, disk, env>>

(* The loop head of work: the oldest todo task, or the end.                   *)
PickTask(p) ==
  /\ At(p, "pick")
  /\ \/ /\ ~proc[p].cancelled
        /\ \E t \in DOMAIN tasks :
             /\ tasks[t].status = "todo"
             /\ \A older \in 1 .. t - 1 : tasks[older].status # "todo"
             /\ proc' = [proc EXCEPT ![p].pc = "start", ![p].task = t]
     \/ /\ proc[p].cancelled \/ \A t \in DOMAIN tasks : tasks[t].status # "todo"
        /\ proc' = [proc EXCEPT ![p] = Idle]
  /\ UNCHANGED <<dbVars, plans, files, disk, env>>

(* Mutant of Execute: the session is not written before the claim.            *)
ExecuteUnsaved(p, t) ==
  /\ At(p, "idle") /\ "run" \in env.role[p] /\ tasks[t].status = "todo"
  /\ proc' = [proc EXCEPT ![p].pc = "claim", ![p].kind = "execute",
                          ![p].task = t, ![p].since = now,
                          ![p].sess = StartSession(<<t, p>>, plans[t])]
  /\ UNCHANGED <<dbVars, plans, files, disk, env>>

(* Execute up to its claim: the task is read, a new session written. Nobody   *)
(* else can reach the new file, so one step covers both.                      *)
Execute(p, t) ==
  LET sess == StartSession(<<t, p>>, plans[t]) IN
  /\ \/ At(p, "idle") /\ "run" \in env.role[p] /\ tasks[t].status = "todo"
     \/ At(p, "start") /\ proc[p].task = t
  /\ IF tasks[t].status = "todo" /\ ~env.diskFails
       THEN /\ files' = [files EXCEPT ![sess.id] = sess]
            /\ proc' = [proc EXCEPT ![p].pc = "claim", ![p].kind = "execute",
                          ![p].task = t, ![p].since = now, ![p].sess = sess]
       ELSE Return(p, IF env.diskFails THEN "error" ELSE "conflict") /\ UNCHANGED files
  /\ UNCHANGED <<dbVars, plans, disk, env>>

(* GetResumeCandidate: the latest run of the task that is not running.        *)
IsCandidate(t, r) ==
  LET ended == RunsOf(t) \ RunningRuns IN
  r \in ended /\ \A other \in ended : other <= r

(* restoreAttemptSession *)
Restore(checkpoint, id) ==
  IF checkpoint # NoSession THEN checkpoint ELSE files[id]

(* Mutant of Prepared: the session is loaded from its file.                   *)
PreparedFromFile(r) ==
  LET sess == files[runs[r].grant.session] IN
  IF runs[r].exit = "interrupted"
    THEN ContinueAttempt(sess)
    ELSE BeginAttempt(sess, sess.plan.budget, "fresh")

(* The session resume() prepares for its attempt: a fresh configured window,  *)
(* or what an interruption left of the current one.                           *)
Prepared(r) ==
  LET sess == Restore(runs[r].work.checkpoint, runs[r].grant.session) IN
  IF runs[r].exit = "interrupted"
    THEN ContinueAttempt(sess)
    ELSE BeginAttempt(sess, sess.plan.budget, "fresh")

(* resume() up to its claim, for a human command.                             *)
Resume(p, t) ==
  /\ At(p, "idle") /\ "resume" \in env.role[p]
  /\ tasks[t].status = "failed"
  /\ tasks[t].cont.at # NoTime => tasks[t].cont.at <= now
  /\ \E r \in DOMAIN runs :
       /\ IsCandidate(t, r)
       /\ proc' = [proc EXCEPT ![p] =
            [Idle EXCEPT !.pc = "claim", !.kind = "manual", !.task = t,
                         !.cand = r, !.since = now, !.sess = Prepared(r)]]
  /\ UNCHANGED <<dbVars, plans, files, disk, env>>

(* resume() up to its claim, for the run the server selected: any drift from  *)
(* the selection is a conflict.                                               *)
ResumeSelected(p) ==
  LET t == proc[p].task
      r == proc[p].cand
      exit == IF proc[p].kind = "interrupted" THEN "interrupted"
                                              ELSE "token_budget_exhausted"
      selected == /\ IsCandidate(t, r) /\ runs[r].exit = exit
                  /\ tasks[t].status = "failed"
                  /\ tasks[t].cont.kind = "scheduled"
                  /\ tasks[t].cont.at <= now
  IN
  /\ At(p, "select")
  /\ IF selected
       THEN proc' = [proc EXCEPT ![p].pc = "claim",
                                 ![p].since = now, ![p].sess = Prepared(r)]
       ELSE Return(p, "conflict")
  /\ UNCHANGED <<dbVars, plans, files, disk, env>>

(* Mutant of ClaimAttempt: the token is derived from the task, not drawn.     *)
ClaimByTask(p) ==
  LET me == proc[p]
      params(at) ==
        [task |-> me.task, run |-> me.cand, startedAt |-> at,
         status |-> IF me.kind = "execute" THEN "todo" ELSE "failed",
         grant |-> [session |-> me.sess.id, budget |-> me.sess.allowance,
                    startStep |-> me.sess.next]]
  IN
  /\ At(p, "claim")
  /\ \/ /\ StartOwnedAttempt("owner", params(now), me.task)
        /\ proc' = [proc EXCEPT ![p].pc = "bind", ![p].run = Len(runs) + 1]
     \/ /\ ~Claimable("owner", params(now))
        /\ Return(p, "conflict")
        /\ UNCHANGED dbVars
  /\ UNCHANGED <<plans, files, disk, env>>

(* startAttempt: StartedAt was read at some instant since the candidate was,  *)
(* and the first lease counts from there. Holding a claim longer than a lease *)
(* is a stall.                                                                *)
ClaimAttempt(p) ==
  LET me == proc[p]
      auth == CASE me.kind = "scheduled" -> "automatic"
                [] me.kind = "interrupted" -> "interrupted"
                [] OTHER -> "owner"
      params(at) ==
        [task |-> me.task, run |-> me.cand, startedAt |-> at,
         status |-> IF me.kind = "execute" THEN "todo" ELSE "failed",
         grant |-> [session |-> me.sess.id, budget |-> me.sess.allowance,
                    startStep |-> me.sess.next]]
  IN
  /\ At(p, "claim")
  /\ \E at \in me.since .. now :
       \/ /\ StartOwnedAttempt(auth, params(at), Len(runs) + 1)
          /\ IF at + Lease <= now THEN Happens("faults") ELSE UNCHANGED env
          /\ proc' = [proc EXCEPT ![p].pc = "bind", ![p].run = Len(runs) + 1]
       \/ /\ ~Claimable(auth, params(at))
          /\ Return(p, "conflict")
          /\ UNCHANGED <<dbVars, env>>
  /\ UNCHANGED <<plans, files, disk>>

(* bindOwnedSession: the file first, ...                                      *)
BindSession(p) ==
  LET sess == BindAttempt(proc[p].sess, proc[p].run, RunOf(p).owner) IN
  /\ At(p, "bind")
  /\ files' = [files EXCEPT ![sess.id] = sess]
  /\ Advance(p, "publish", sess)
  /\ UNCHANGED <<dbVars, plans, disk, env>>

(* ... then the row, with no output yet.                                      *)
PublishBinding(p) ==
  LET me == proc[p] IN
  /\ At(p, "publish")
  /\ IF Owns(me.run, RunOf(p).owner)
       THEN /\ UpdateProgress(me.run, RunOf(p).owner, me.sess.used, Work(me.sess))
            /\ Goto(p, "top")
       ELSE Return(p, "error") /\ UNCHANGED dbVars
  /\ UNCHANGED <<plans, files, disk, env>>

-----------------------------------------------------------------------------
(* runAttempt: the loop of RunFenced and the goroutine that renews the lease. *)

(* The head of the loop: the context, the fence and the two ways a step can   *)
(* fail before its delay. The in-memory transition after a fence is private   *)
(* to the process and belongs to the fence's step. The completed halt is the  *)
(* only one that asks neither the context nor the fence.                      *)
LoopTop(p) ==
  LET sess == proc[p].sess IN
  /\ At(p, "top")
  /\ \/ /\ AllStepsDone(sess)
        /\ Advance(p, "commit", Halt(sess, "completed", now))
        /\ UNCHANGED dbVars
     \/ /\ ~AllStepsDone(sess) /\ Stopped(p)
        /\ Advance(p, "commit", Halt(sess, "interrupted", now))
        /\ UNCHANGED dbVars
     \/ /\ ~AllStepsDone(sess) /\ ~Stopped(p)
        /\ IF Owns(proc[p].run, sess.token)
             THEN /\ RenewLease(proc[p].run, sess.token)
                  /\ CASE FailsHere(sess) ->
                            Advance(p, "commit", FailStep(sess, now))
                       [] ~FailsHere(sess) /\ CannotAfford(sess) ->
                            Advance(p, "commit", Halt(sess, "token_exhausted", now))
                       [] OTHER -> Goto(p, "delay")
             ELSE Return(p, "error") /\ UNCHANGED dbVars
  /\ UNCHANGED <<plans, files, disk, env>>

(* The delay of a step: cancelled, or over and fenced once more. Without the  *)
(* delay (--no-delay) the second fence is missing; it renews the same lease.  *)
TakeStep(p) ==
  LET sess == proc[p].sess IN
  /\ At(p, "delay")
  /\ IF Stopped(p)
       THEN Advance(p, "commit", Halt(sess, "interrupted", now)) /\ UNCHANGED dbVars
       ELSE IF Owns(proc[p].run, sess.token)
         THEN RenewLease(proc[p].run, sess.token) /\ Advance(p, "commit", DoStep(sess))
         ELSE Return(p, "error") /\ UNCHANGED dbVars
  /\ UNCHANGED <<plans, files, disk, env>>

(* Mutant of Commit: the file is replaced before the database decides.        *)
CommitFileFirst(p) ==
  LET sess == proc[p].sess IN
  /\ At(p, "commit")
  /\ files' = [files EXCEPT ![sess.id] = sess]
  /\ IF Owns(proc[p].run, sess.token)
       THEN /\ UpdateProgress(proc[p].run, sess.token, sess.used, Work(sess))
            /\ Goto(p, "persist")
       ELSE Return(p, "error") /\ UNCHANGED dbVars
  /\ UNCHANGED <<plans, disk, env>>

(* commitState: the database decides, ...                                     *)
Commit(p) ==
  LET sess == proc[p].sess IN
  /\ At(p, "commit")
  /\ IF Owns(proc[p].run, sess.token)
       THEN /\ UpdateProgress(proc[p].run, sess.token, sess.used, Work(sess))
            /\ Goto(p, "persist")
       ELSE Return(p, "error") /\ UNCHANGED dbVars
  /\ UNCHANGED <<plans, files, disk, env>>

(* ... and the compatibility file follows, unfenced.                          *)
Persist(p) ==
  LET sess == proc[p].sess IN
  /\ At(p, "persist")
  /\ files' = [files EXCEPT ![sess.id] = sess]
  /\ Goto(p, IF Halted(sess) THEN "finish" ELSE "top")
  /\ UNCHANGED <<dbVars, plans, disk, env>>

(* The end of runAttempt. A lost lease is reported before anything is tried.  *)
FinishRun(p) ==
  LET params == FinishParams(p, now, ResetOf(p))
      token == proc[p].sess.token
  IN
  /\ At(p, "finish")
  /\ \/ /\ ~proc[p].leaseLost
        /\ FinishAttempt(params, token)
        /\ Return(p, "ok")
     \/ /\ proc[p].leaseLost \/ ~Owns(params.run, token) \/ ~Finishable(params)
        /\ Return(p, "error")
        /\ UNCHANGED dbVars
  /\ UNCHANGED <<plans, files, disk, env>>

InLoop == {"top", "delay", "commit", "persist", "finish"}

(* renewLease: a renewal that is refused, or whose statement fails, cancels   *)
(* the attempt. After a cancellation select may still pick a pending tick, so *)
(* only its own failure stops it for sure.                                    *)
RenewInBackground(p) ==
  LET r == proc[p].run
      token == proc[p].sess.token
      lost == proc' = [proc EXCEPT ![p].leaseLost = TRUE]
  IN
  /\ proc[p].pc \in InLoop /\ ~proc[p].leaseLost
  /\ \/ RenewLease(r, token) /\ UNCHANGED <<proc, env>>
     \/ ~Owns(r, token) /\ lost /\ UNCHANGED <<dbVars, env>>
     \/ Owns(r, token) /\ lost /\ Happens("faults") /\ UNCHANGED dbVars
  /\ UNCHANGED <<plans, files, disk>>

-----------------------------------------------------------------------------
(* RecoverExpired, for the row of run that NextExpired returned; sess holds   *)
(* the checkpoint column of that row.                                         *)

(* Mutant of LoadExpired: a session that is not bound to the run is refused.  *)
LoadBound(p) ==
  LET r == proc[p].run
      sess == Restore(proc[p].sess, runs[r].grant.session)
  IN
  /\ At(p, "load")
  /\ IF sess # NoSession /\ sess.run = r
       THEN Advance(p, "reconcile", sess)
       ELSE Return(p, "error")
  /\ UNCHANGED <<dbVars, plans, files, disk, env>>

LoadExpired(p) ==
  LET r == proc[p].run
      row == runs[r]
      sess == Restore(proc[p].sess, row.grant.session)
  IN
  /\ At(p, "load")
  /\ \/ sess = NoSession /\ Return(p, "error")
     \/ /\ sess # NoSession /\ sess.run < r
        /\ Advance(p, "rebind",
             BindAttempt(BeginAttempt(sess, row.grant.budget, ""), r, row.owner))
     \/ /\ sess # NoSession /\ sess.run >= r
        /\ IF sess.run = r /\ sess.token = row.owner
             THEN Advance(p, "reconcile", sess)
             ELSE Return(p, "error")
  /\ UNCHANGED <<dbVars, plans, files, disk, env>>

(* BindAttempt persists: a server replaces the file of a run it may no longer *)
(* be entitled to recover.                                                    *)
Rebind(p) ==
  /\ At(p, "rebind")
  /\ files' = [files EXCEPT ![proc[p].sess.id] = proc[p].sess]
  /\ Goto(p, "reconcile")
  /\ UNCHANGED <<dbVars, plans, disk, env>>

Reconcile(p) ==
  LET params == FinishParams(p, proc[p].since, Reset) IN
  /\ At(p, "reconcile")
  /\ \/ RecoverExpiredAttempt(params) /\ Return(p, "ok")
     \/ /\ ~(Expired(params.run) /\ Finishable(params))
        /\ Return(p, "error")
        /\ UNCHANGED dbVars
  /\ UNCHANGED <<plans, files, disk, env>>

-----------------------------------------------------------------------------
(* The environment. *)

(* SIGINT or SIGTERM cancels the context of the command.                      *)
Cancel(p) ==
  /\ ~At(p, "idle") /\ ~proc[p].cancelled
  /\ Happens("signals")
  /\ proc' = [proc EXCEPT ![p].cancelled = TRUE]
  /\ UNCHANGED <<dbVars, plans, files, disk>>

(* The process dies; its session in memory and its open scan die with it. A   *)
(* statement or a file replacement that fails ends a command and a server the *)
(* same way, ...                                                              *)
Crash(p) ==
  /\ ~At(p, "idle")
  /\ Happens("faults")
  /\ proc' = [proc EXCEPT ![p] = Idle]
  /\ scans' = [scans EXCEPT ![p] = NoScan]
  /\ UNCHANGED <<now, tasks, runs, comments, plans, files, disk>>

(* ... but work goes on to its next task.                                     *)
FailCall(p) ==
  /\ proc[p].mode = "work" /\ ~At(p, "pick")
  /\ Happens("faults")
  /\ Return(p, "error")
  /\ UNCHANGED <<dbVars, plans, files, disk>>

(* The kernel writes the session directory back whenever it likes: persist    *)
(* syncs the file it renames, never the directory.                            *)
WriteBack(id) ==
  /\ env.outages > 0
  /\ disk[id] # files[id]
  /\ disk' = [disk EXCEPT ![id] = files[id]]
  /\ UNCHANGED <<dbVars, plans, files, proc, env>>

(* Power is lost: SQLite syncs its commits, so the tables survive.            *)
Outage ==
  /\ Happens("outages")
  /\ \E lost \in SUBSET SessionIds :
       files' = [id \in SessionIds |-> IF id \in lost THEN disk[id] ELSE files[id]]
  /\ disk' = files'
  /\ proc' = [p \in Procs |-> Idle]
  /\ scans' = [p \in Procs |-> NoScan]
  /\ UNCHANGED <<now, tasks, runs, comments, plans>>

(* A process that holds a run and lets its lease run out has stalled.         *)
Stalling ==
  {p \in Procs :
     /\ proc[p].pc \in {"bind", "publish"} \cup InLoop
     /\ Owns(proc[p].run, RunOf(p).owner)
     /\ RunOf(p).lease <= now + 1}

(* Nothing can be done but wait: every process is idle or polling, nothing is *)
(* due, and a lease or a continuation will be.                                *)
Quiet ==
  /\ \A p \in Procs : proc[p].pc \in {"idle", "scan", "expired", "next", "pick"}
  /\ \A t \in DOMAIN tasks, p \in Procs : At(p, "pick") => tasks[t].status # "todo"
  /\ \A r \in DOMAIN runs : ~Expired(r)
  /\ \A t \in DOMAIN tasks : ~Unscheduled(t)
  /\ \A t \in DOMAIN tasks, r \in DOMAIN runs :
       Continuable(t, r) => tasks[t].cont.at > now
  /\ \/ RunningRuns # {}
     \/ \E t \in DOMAIN tasks, r \in DOMAIN runs : Continuable(t, r)

(* Time passes between any two steps at first. Later it waits for the         *)
(* processes, so that the bound of the clock cuts no execution short.         *)
PassTime ==
  /\ now < env.until \/ Quiet
  /\ Tick
  /\ Cardinality(Stalling) <= env.faults
  /\ env' = [env EXCEPT !.faults = @ - Cardinality(Stalling)]
  /\ UNCHANGED <<plans, files, disk, proc>>
=============================================================================
