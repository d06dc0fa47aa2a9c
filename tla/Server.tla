------------------------------- MODULE Server -------------------------------
(* internal/server: the continuation server's scan loop, one step per query,  *)
(* and the whole inbox: servers, executors started by hand and signals,       *)
(* crashes and stalls, over one database and one directory of session files.  *)
EXTENDS Runner

(* agent-inbox serve *)
Serve(p) ==
  /\ At(p, "idle") /\ "serve" \in env.role[p]
  /\ proc' = [proc EXCEPT ![p].pc = "scan", ![p].mode = "serve"]
  /\ UNCHANGED <<dbVars, plans, files, disk, env>>

(* agent-inbox work *)
RunWork(p) ==
  /\ At(p, "idle") /\ "work" \in env.role[p]
  /\ proc' = [proc EXCEPT ![p].pc = "pick", ![p].mode = "work"]
  /\ UNCHANGED <<dbVars, plans, files, disk, env>>

(* Mutant of ScanUnscheduled: the context is not asked.                       *)
ScanWhateverSignal(p) ==
  /\ At(p, "scan")
  /\ \/ ReadUnscheduled(p) /\ Goto(p, "initialize")
     \/ /\ \A t \in DOMAIN tasks : ~Unscheduled(t)
        /\ Goto(p, "expired") /\ UNCHANGED dbVars
  /\ UNCHANGED <<plans, files, disk, env>>

(* The head of the loop. A server whose context is done stops here, or in the *)
(* Wait that otherwise leads back here.                                       *)
ScanUnscheduled(p) ==
  /\ At(p, "scan")
  /\ \/ /\ proc[p].cancelled
        /\ Return(p, "ok") /\ UNCHANGED dbVars
     \/ /\ ~proc[p].cancelled
        /\ ReadUnscheduled(p) /\ Goto(p, "initialize")
     \/ /\ ~proc[p].cancelled
        /\ \A t \in DOMAIN tasks : ~Unscheduled(t)
        /\ Goto(p, "expired") /\ UNCHANGED dbVars
  /\ UNCHANGED <<plans, files, disk, env>>

(* A decided continuation rescans; a row that changed meanwhile is skipped.   *)
Initialize(p) ==
  /\ At(p, "initialize")
  /\ InitializeUnscheduled(p)
  /\ Goto(p, IF tasks' = tasks THEN "expired" ELSE "scan")
  /\ UNCHANGED <<plans, files, disk, env>>

FindExpired(p) ==
  /\ At(p, "expired")
  /\ \/ \E r \in DOMAIN runs :
          /\ IsNextExpired(r)
          /\ proc' = [proc EXCEPT ![p].pc = "load", ![p].run = r,
                        ![p].task = runs[r].task, ![p].since = now,
                        ![p].sess = runs[r].work.checkpoint]
     \/ (\A r \in DOMAIN runs : ~Expired(r)) /\ Goto(p, "next")
  /\ UNCHANGED <<dbVars, plans, files, disk, env>>

(* The first continuation, if it is due; otherwise the server waits.          *)
FindContinuation(p) ==
  /\ At(p, "next")
  /\ \/ \E t \in DOMAIN tasks, r \in DOMAIN runs :
          /\ IsNextContinuation(t, r) /\ tasks[t].cont.at <= now
          /\ proc' = [proc EXCEPT ![p].pc = "select", ![p].task = t, ![p].cand = r,
                        ![p].kind = IF runs[r].exit = "interrupted"
                                      THEN "interrupted" ELSE "scheduled"]
     \/ /\ \A t \in DOMAIN tasks, r \in DOMAIN runs :
             IsNextContinuation(t, r) => tasks[t].cont.at > now
        /\ Goto(p, "scan")
  /\ UNCHANGED <<dbVars, plans, files, disk, env>>

-----------------------------------------------------------------------------
(* The inbox. *)

Attempt(p) ==
  \/ ClaimAttempt(p) \/ BindSession(p) \/ PublishBinding(p)
  \/ LoopTop(p) \/ TakeStep(p) \/ Commit(p) \/ Persist(p) \/ FinishRun(p)

Recovery(p) == LoadExpired(p) \/ Rebind(p) \/ Reconcile(p)

ServerStep(p) ==
  \/ ScanUnscheduled(p) \/ Initialize(p) \/ FindExpired(p)
  \/ FindContinuation(p) \/ ResumeSelected(p) \/ Recovery(p)

Command(p) ==
  \/ Serve(p) \/ RunWork(p)
  \/ \E t \in DOMAIN tasks : Execute(p, t) \/ Resume(p, t)

(* The next step of a process that is in the middle of a command.             *)
Proceed(p) ==
  \/ Attempt(p) \/ ServerStep(p) \/ PickTask(p)
  \/ At(p, "start") /\ Execute(p, proc[p].task)

ServerNext ==
  \/ AddTask
  \/ \E p \in Procs : Command(p) \/ Proceed(p) \/ RenewInBackground(p)
  \/ \E p \in Procs : Cancel(p) \/ Crash(p) \/ FailCall(p)
  \/ \E id \in SessionIds : WriteBack(id)
  \/ Outage
  \/ PassTime

ServerSpec == RunnerInit /\ [][ServerNext]_runnerVars

(* The operating system runs every process, time passes, and the servers      *)
(* that are kept running are started again whenever they exit. Nobody is      *)
(* obliged to add tasks, to run or resume them by hand, or to send signals.   *)
Fairness ==
  /\ \A p \in Procs : WF_runnerVars(Proceed(p))
  /\ \A p \in Procs : WF_runnerVars(p \in env.kept /\ Serve(p))
  /\ WF_runnerVars(PassTime)

FairSpec == ServerSpec /\ Fairness

-----------------------------------------------------------------------------
(* Properties. *)

ServerTypeOK ==
  /\ StoreTyped(GrantRow, WorkRow)
  /\ plans \in Seq(Plans) /\ Len(plans) = Len(tasks)
  /\ {files, disk} \subseteq [SessionIds -> SessionRow \cup {NoSession}]
  /\ proc \in [Procs -> ProcRow]
  /\ \A p \in Procs :
       proc[p].run \in 0 .. Len(runs) /\ proc[p].task \in 0 .. Len(tasks)
  /\ {env.faults, env.signals, env.outages} \subseteq Nat
  /\ \E s \in Scenarios :
       env = [s EXCEPT !.faults = env.faults, !.signals = env.signals,
                       !.outages = env.outages]

(* r2 is the attempt that resumed r1.                                         *)
Resumes(r2, r1) ==
  /\ runs[r1].task = runs[r2].task /\ r1 < r2
  /\ \A r \in RunsOf(runs[r1].task) : r <= r1 \/ r >= r2

SessionOf(r) == runs[r].work.checkpoint

(* Every attempt takes the task up where the one before left it: in the same  *)
(* session, at the step its last accepted checkpoint stands at - whichever    *)
(* process resumed or recovered it, and from a column or from a file.         *)
ResumesWhereLeft ==
  \A r1, r2 \in DOMAIN runs : Resumes(r2, r1) =>
    /\ runs[r2].grant.session = runs[r1].grant.session
    /\ runs[r2].grant.startStep = SessionOf(r1).next

(* A provider window is spent once: an attempt never uses more than its       *)
(* allowance, an interruption passes on exactly what is left of it, and only  *)
(* a failure or an exhaustion opens a fresh configured window.                *)
WindowSpentOnce ==
  \A r \in DOMAIN runs :
    /\ runs[r].tokens <= runs[r].grant.budget
    /\ runs[r].status # "running" =>
         SessionOf(r).remaining + runs[r].tokens = runs[r].grant.budget
    /\ \A r1 \in DOMAIN runs : Resumes(r, r1) =>
         runs[r].grant.budget = IF runs[r1].exit = "interrupted"
                                  THEN SessionOf(r1).remaining
                                  ELSE SessionOf(r1).plan.budget

(* No attempt starts in a provider window before it reset: a reset interval   *)
(* lies between the instant an attempt saw its window exhausted and the next  *)
(* claim, also when the process died and a server finished its run later.     *)
ResetIsAwaited ==
  \A r1, r2 \in DOMAIN runs :
    Resumes(r2, r1) /\ runs[r1].exit = "token_budget_exhausted" =>
      /\ SessionOf(r1).haltedAt >= runs[r1].startedAt
      /\ runs[r2].startedAt >= SessionOf(r1).haltedAt + Reset

(* README, Server and reset model: "only a fresh configured window that       *)
(* advances zero steps can prove the next step is oversized and be durably    *)
(* marked `stopped`" - so the next step of a stopped task really costs more   *)
(* than the whole configured window.                                          *)
StoppedIsHopeless ==
  \A t \in DOMAIN tasks : \A r \in RunsOf(t) :
    IsLatestRun(t, r) /\ tasks[t].cont.kind = "stopped" =>
      NextCost(SessionOf(r)) > plans[t].budget

(* The compatibility file follows the database: it never shows a step of the  *)
(* session that the latest run of the task has not had accepted.              *)
FileNeverAhead ==
  \A t \in DOMAIN tasks, r \in DOMAIN runs :
    IsLatestRun(t, r) =>
      files[runs[r].grant.session].next <=
        IF SessionOf(r) = NoSession THEN runs[r].grant.startStep
                                    ELSE SessionOf(r).next

(* A task is done once, and with all of its work: the outputs of its attempts *)
(* together hold every step and the summary, and the summary is its only      *)
(* comment. A task that is not done has no comment.                           *)
DoneIsComplete ==
  \A t \in DOMAIN tasks :
    LET said == {i \in DOMAIN comments : comments[i] = t}
        output == UNION {runs[r].work.output : r \in RunsOf(t)}
    IN IF tasks[t].status = "done"
         THEN Cardinality(said) = 1 /\ output = 0 .. Len(plans[t].costs)
         ELSE said = {}

(* README, introduction: "Completed work is not repeated." No step is part of *)
(* the recorded output of two attempts of a task.                             *)
NoStepRepeated ==
  \A r1, r2 \in DOMAIN runs :
    runs[r1].task = runs[r2].task /\ r1 # r2 =>
      runs[r1].work.output \cap runs[r2].work.output = {}

(* README, Directives: a task told to fail at a step "errors once": one of    *)
(* its attempts at most ends with the agent error, across crashes between the *)
(* commit of the error, the file and the finish of the run.                   *)
AgentErrorOnce ==
  \A r1, r2 \in DOMAIN runs :
    /\ runs[r1].task = runs[r2].task
    /\ runs[r1].exit = "agent_error" /\ runs[r2].exit = "agent_error"
    => r1 = r2

(* Nothing is left to restore the session of the run from.                    *)
Stranded(r) ==
  SessionOf(r) = NoSession /\ files[runs[r].grant.session] = NoSession

(* README, Ownership, recovery, and reconciliation: "A crash after the         *)
(* database run is inserted but before its first SQLite checkpoint is still   *)
(* recovered from the bootstrap session file". There is such a file, or a     *)
(* checkpoint, at every moment the process may die.                           *)
RecoverySource ==
  \A r \in RunningRuns : ~Stranded(r)

(* README, Server and reset model: "An executor that observes genuine token   *)
(* exhaustion always writes the provider's absolute reset timestamp."         *)
ExhaustionIsTimed ==
  \A t \in DOMAIN tasks, r \in DOMAIN runs :
    /\ IsLatestRun(t, r) /\ tasks[t].status = "failed"
    /\ runs[r].exit = "token_budget_exhausted"
    => tasks[t].cont.at # NoTime

-----------------------------------------------------------------------------
(* The steps of a task completed so far: what the checkpoint of its latest    *)
(* run says, or where that run starts while it has none.                      *)
CompletedSteps(t) ==
  IF RunsOf(t) = {} THEN 0
  ELSE LET r == CHOOSE latest \in RunsOf(t) : IsLatestRun(t, latest)
       IN IF SessionOf(r) = NoSession THEN runs[r].grant.startStep
                                      ELSE SessionOf(r).next

(* What a user sees of the tasks.                                             *)
Items ==
  [t \in DOMAIN tasks |->
    [state |-> tasks[t].status, steps |-> Len(plans[t].costs),
     completed |-> CompletedSteps(t),
     comments |-> Cardinality({i \in DOMAIN comments : comments[i] = t})]]

PlanSizes == {Len(plan.costs) : plan \in Plans}

View == INSTANCE Inbox WITH Sizes <- PlanSizes, inbox <- Items

(* To its user the program is Inbox: steps are completed one after the other  *)
(* and never lost, whichever process works on the task or dies meanwhile, and *)
(* the task is done, and commented on, with its last step.                    *)
ImplementsInbox == View!InboxSpec

-----------------------------------------------------------------------------
(* Every step of a process is a call that Store admits, or none: fresh        *)
(* tokens, clock readings that are not in the future, completions made by the *)
(* policy with a configured interval. So what StoreProofs proves of arbitrary *)
(* callers holds of this program. The columns Store never looks into (grant   *)
(* and work) are collapsed.                                                   *)
Columns == [r \in DOMAIN runs |-> [runs[r] EXCEPT !.grant = 0, !.work = 0]]

Db == INSTANCE Store WITH
        runs <- Columns, Grants <- {0}, Works <- {0}, NoWork <- 0

CallsTheStore == Db!StoreSpec

-----------------------------------------------------------------------------
(* Liveness, under Fairness. *)

(* README, Ownership, recovery, and reconciliation: "After a lease expires,   *)
(* `serve` reconciles the SQLite checkpoint". While a server is kept running, *)
(* no run keeps its task for ever because its process died, stalled or gave   *)
(* up: also when a server dies or exits in the middle of recovering it, loses *)
(* the race for it to another one, or finds an older session file. Only a run *)
(* that a loss of power left without any session may stay.                    *)
EveryRunEnds ==
  \A t \in 1 .. MaxTasks :
    /\ env.kept # {}
    /\ t \in DOMAIN tasks /\ tasks[t].status = "in_progress"
    ~> /\ t \in DOMAIN tasks
       /\ \A r \in RunsOf(t) \cap RunningRuns : Stranded(r)

(* A window funds every step of the plan, and no step is told to fail.        *)
Fundable(plan) ==
  /\ plan.failAt = 0
  /\ \A i \in DOMAIN plan.costs : plan.costs[i] <= plan.budget

(* README, same section: recovered failures re-enter the continuation queue,  *)
(* "so a second crash between reconciliation and resume cannot strand it".    *)
(* A task once claimed is done in the end, through any exhaustions and        *)
(* recoveries, if its windows can fund it.                                    *)
ClaimedIsDone ==
  \A t \in 1 .. MaxTasks :
    /\ env.kept # {}
    /\ t \in DOMAIN tasks /\ tasks[t].status # "todo" /\ Fundable(plans[t])
    ~> /\ t \in DOMAIN tasks
       /\ \/ tasks[t].status = "done"
          \/ \E r \in RunsOf(t) \cap RunningRuns : Stranded(r)

(* A signalled command ends, whatever it was waiting for.                     *)
SignalledExits == \A p \in Procs : proc[p].cancelled ~> At(p, "idle")

(* work comes to its end: it never picks the same task for ever.              *)
WorkEnds == \A p \in Procs : proc[p].mode = "work" ~> proc[p].mode # "work"
=============================================================================
