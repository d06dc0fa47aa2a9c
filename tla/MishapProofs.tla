---------------------------- MODULE MishapProofs ----------------------------
(* One fault - a crash, a failed call, a stall past a lease - and any number  *)
(* of signals: the session that is recovered from the file of the one run it  *)
(* hits is never older than the row, so no completed step is repeated, no     *)
(* directive fires twice, the file never runs ahead, and to its user the      *)
(* program is Inbox. Two faults can break each of these, as the run StaleFile *)
(* shows of the first.                                                        *)
EXTENDS WorkProofs

OneFault == \A s \in Scenarios : s.faults <= 1 /\ s.outages = 0

-----------------------------------------------------------------------------
(* Whom a step can hurt. *)

(* A process owns a running run, and may still write to it.                   *)
Well(p) ==
  /\ proc[p].pc \in Owners /\ ~proc[p].leaseLost
  /\ runs[proc[p].run].status = "running" /\ runs[proc[p].run].lease > now

(* Nobody is left to finish the run, or somebody goes on with it who may not. *)
Struck(r) ==
  \/ runs[r].status = "running" /\ \A p \in Procs : proc[p].run = r => ~Well(p)
  \/ \E p \in Procs : proc[p].pc \in Holding /\ proc[p].run = r /\ ~Well(p)

(* A process that was well is, or has ended its run.                          *)
Calm(p) ==
  Well(p) => \/ Well(p)' /\ proc'[p].run = proc[p].run
             \/ /\ proc'[p].pc \notin Holding
                /\ runs'[proc[p].run].status # "running"

FlagsOK == \A p \in Procs : proc[p].leaseLost => proc[p].pc \in InLoop

LEMMA ReturnUnflags ==
  ASSUME ServerInv, NEW p \in Procs, NEW result, Return(p, result)
  PROVE  ~proc'[p].leaseLost
<1> DEFINE me == CASE proc[p].mode = "serve" /\ result # "error" /\ ~proc[p].cancelled ->
                        [Idle EXCEPT !.pc = "scan", !.mode = "serve"]
                   [] proc[p].mode = "work" /\ ~proc[p].cancelled ->
                        [Idle EXCEPT !.pc = "pick", !.mode = "work"]
                   [] OTHER -> Idle
<1>1. proc' = [proc EXCEPT ![p] = me]
  BY DEF Return
<1>2. me.leaseLost = FALSE
  BY DEF Idle
<1> HIDE DEF me
<1> QED BY <1>1, <1>2, StepsAlone

(* Outside the loop of an attempt no step raises the flag.                    *)
LEMMA QuietSteps ==
  ASSUME ServerInv, NEW p \in Procs, ~proc[p].leaseLost,
         \/ Command(p) \/ ServerStep(p) \/ PickTask(p) \/ ClaimAttempt(p)
         \/ BindSession(p) \/ PublishBinding(p)
         \/ \E t : Execute(p, t)
  PROVE  ~proc'[p].leaseLost
<1>1. PICK me : me = proc[p]
  OBVIOUS
<1>2. me \in ProcRow /\ ~me.leaseLost
  BY <1>1, ProcFacts
<1>3. ASSUME NEW new, proc' = [proc EXCEPT ![p] = new], new.leaseLost = FALSE
      PROVE  ~proc'[p].leaseLost
  BY <1>3, StepsAlone
<1>4. ASSUME NEW pc, NEW s, Advance(p, pc, s) PROVE ~proc'[p].leaseLost
  BY <1>1, <1>2, <1>4, AdvanceFields
<1>5. ASSUME NEW pc, Goto(p, pc) PROVE ~proc'[p].leaseLost
  BY <1>4, <1>5, GotoIsAdvance
<1>6. ASSUME NEW t, Execute(p, t) PROVE ~proc'[p].leaseLost
  <2>1. ASSUME NEW sess, proc' = [proc EXCEPT ![p].pc = "claim", ![p].kind = "execute",
                          ![p].task = t, ![p].since = now, ![p].sess = sess]
        PROVE  ~proc'[p].leaseLost
    <3>1. PICK new : new = [me EXCEPT !.pc = "claim", !.kind = "execute",
                          !.task = t, !.since = now, !.sess = sess]
      OBVIOUS
    <3>2. new.leaseLost = FALSE
      BY <1>2, <3>1 DEF ProcRow
    <3>3. proc' = [proc EXCEPT ![p] = new]
      BY <1>1, <2>1, <3>1
    <3> QED BY <1>3, <3>2, <3>3
  <2> QED BY <1>6, <2>1, ReturnUnflags DEF Execute
<1>7. ASSUME Serve(p) \/ RunWork(p) PROVE ~proc'[p].leaseLost
  <2>1. PICK pc, mode : proc' = [proc EXCEPT ![p].pc = pc, ![p].mode = mode]
    BY <1>7 DEF Serve, RunWork
  <2>2. PICK new : new = [me EXCEPT !.pc = pc, !.mode = mode]
    OBVIOUS
  <2>3. new.leaseLost = FALSE
    BY <1>2, <2>2 DEF ProcRow
  <2>4. proc' = [proc EXCEPT ![p] = new]
    BY <1>1, <2>1, <2>2
  <2> QED BY <1>3, <2>3, <2>4
<1>8. ASSUME NEW t, Resume(p, t) PROVE ~proc'[p].leaseLost
  <2>1. PICK r : proc' = [proc EXCEPT ![p] =
            [Idle EXCEPT !.pc = "claim", !.kind = "manual", !.task = t,
                         !.cand = r, !.since = now, !.sess = Prepared(r)]]
    BY <1>8 DEF Resume
  <2>2. PICK new : new = [Idle EXCEPT !.pc = "claim", !.kind = "manual", !.task = t,
                         !.cand = r, !.since = now, !.sess = Prepared(r)]
    OBVIOUS
  <2>3. new.leaseLost = FALSE
    BY <2>2 DEF Idle
  <2> QED BY <1>3, <2>1, <2>2, <2>3
<1>9. ASSUME PickTask(p) PROVE ~proc'[p].leaseLost
  <2>1. Idle.leaseLost = FALSE
    BY DEF Idle
  <2>2. ASSUME NEW t, proc' = [proc EXCEPT ![p].pc = "start", ![p].task = t]
        PROVE  ~proc'[p].leaseLost
    <3>1. PICK new : new = [me EXCEPT !.pc = "start", !.task = t]
      OBVIOUS
    <3>2. new.leaseLost = FALSE
      BY <1>2, <3>1 DEF ProcRow
    <3>3. proc' = [proc EXCEPT ![p] = new]
      BY <1>1, <2>2, <3>1
    <3> QED BY <1>3, <3>2, <3>3
  <2> QED BY <1>3, <1>9, <2>1, <2>2 DEF PickTask
<1>10. ASSUME ClaimAttempt(p) PROVE ~proc'[p].leaseLost
  <2>1. ASSUME proc' = [proc EXCEPT ![p].pc = "bind", ![p].run = Len(runs) + 1]
        PROVE  ~proc'[p].leaseLost
    <3>1. PICK r : r = Len(runs) + 1
      OBVIOUS
    <3>2. PICK new : new = [me EXCEPT !.pc = "bind", !.run = r]
      OBVIOUS
    <3>3. new.leaseLost = FALSE
      BY <1>2, <3>2 DEF ProcRow
    <3>4. proc' = [proc EXCEPT ![p] = new]
      BY <1>1, <2>1, <3>1, <3>2
    <3> QED BY <1>3, <3>3, <3>4
  <2> QED BY <1>10, <2>1, ReturnUnflags DEF ClaimAttempt
<1>11. ASSUME BindSession(p) \/ PublishBinding(p) PROVE ~proc'[p].leaseLost
  BY <1>4, <1>5, <1>11, ReturnUnflags DEF BindSession, PublishBinding
<1>12. ASSUME FindExpired(p) \/ FindContinuation(p) PROVE ~proc'[p].leaseLost
  <2>1. ASSUME NEW r, proc' = [proc EXCEPT ![p].pc = "load", ![p].run = r,
                        ![p].task = runs[r].task, ![p].since = now,
                        ![p].sess = runs[r].work.checkpoint]
        PROVE  ~proc'[p].leaseLost
    <3>1. PICK t, s : t = runs[r].task /\ s = runs[r].work.checkpoint
      OBVIOUS
    <3>2. PICK new : new = [me EXCEPT !.pc = "load", !.run = r, !.task = t,
                                      !.since = now, !.sess = s]
      OBVIOUS
    <3>3. new.leaseLost = FALSE
      BY <1>2, <3>2 DEF ProcRow
    <3>4. proc' = [proc EXCEPT ![p] = new]
      BY <1>1, <2>1, <3>1, <3>2
    <3> QED BY <1>3, <3>3, <3>4
  <2>2. ASSUME NEW t, NEW r, NEW kind,
               proc' = [proc EXCEPT ![p].pc = "select", ![p].task = t, ![p].cand = r,
                                    ![p].kind = kind]
        PROVE  ~proc'[p].leaseLost
    <3>1. PICK new : new = [me EXCEPT !.pc = "select", !.task = t, !.cand = r,
                                      !.kind = kind]
      OBVIOUS
    <3>2. new.leaseLost = FALSE
      BY <1>2, <3>1 DEF ProcRow
    <3>3. proc' = [proc EXCEPT ![p] = new]
      BY <1>1, <2>2, <3>1
    <3> QED BY <1>3, <3>2, <3>3
  <2>3. CASE FindExpired(p)
    BY <1>5, <2>1, <2>3, Zenon DEF FindExpired
  <2>4. CASE FindContinuation(p)
    <3>1. \/ Goto(p, "scan")
          \/ \E t, r, kind : proc' = [proc EXCEPT ![p].pc = "select", ![p].task = t,
                                                  ![p].cand = r, ![p].kind = kind]
      BY <2>4 DEF FindContinuation
    <3> QED BY <1>5, <2>2, <3>1
  <2> QED BY <1>12, <2>3, <2>4
<1>13. ASSUME ResumeSelected(p) PROVE ~proc'[p].leaseLost
  <2>1. ASSUME NEW s, proc' = [proc EXCEPT ![p].pc = "claim",
                                 ![p].since = now, ![p].sess = s]
        PROVE  ~proc'[p].leaseLost
    <3>1. PICK new : new = [me EXCEPT !.pc = "claim", !.since = now, !.sess = s]
      OBVIOUS
    <3>2. new.leaseLost = FALSE
      BY <1>2, <3>1 DEF ProcRow
    <3>3. proc' = [proc EXCEPT ![p] = new]
      BY <1>1, <2>1, <3>1
    <3> QED BY <1>3, <3>2, <3>3
  <2> QED BY <1>13, <2>1, ReturnUnflags DEF ResumeSelected
<1>14. ASSUME ScanUnscheduled(p) \/ Initialize(p) \/ Recovery(p)
       PROVE  ~proc'[p].leaseLost
  BY <1>4, <1>5, <1>14, ReturnUnflags
     DEF ScanUnscheduled, Initialize, Recovery, LoadExpired, Rebind, Reconcile
<1> QED BY <1>6, <1>7, <1>8, <1>9, <1>10, <1>11, <1>12, <1>13, <1>14
        DEF Command, ServerStep

(* A process steps alone.                                                     *)
LEMMA ProcessAlone ==
  ASSUME ServerInv, NEW p \in Procs, Command(p) \/ Proceed(p)
  PROVE  Alone(p)
<1>1. CASE Command(p)
  BY <1>1, StartMoves, ExecuteMoves, ResumeMoves DEF Command
<1>2. ASSUME At(p, "start"), Execute(p, proc[p].task) PROVE Alone(p)
  <2>1. proc[p].task \in DOMAIN tasks
    BY <1>2, ProcFacts DEF At, LocalOK
  <2> QED BY <1>2, <2>1, ExecuteMoves
<1>3. CASE ServerStep(p)
  BY <1>3, ScanMoves, FindExpiredMoves, FindContinuationMoves, ResumeSelectedMoves,
     RecoveryMoves DEF ServerStep
<1> QED BY <1>1, <1>2, <1>3, AttemptMoves, PickTaskMoves DEF Proceed

LEMMA FlagsStep ==
  ASSUME ServerInv, FlagsOK, [ServerNext]_runnerVars
  PROVE  FlagsOK'
<1> DEFINE Flag(p) == proc'[p].leaseLost => proc'[p].pc \in InLoop
<1>1. ASSUME NEW p \in Procs, Alone(p), Flag(p) PROVE FlagsOK'
  BY <1>1 DEF FlagsOK, Alone
<1>2. ASSUME NEW p \in Procs, LoopTop(p) \/ TakeStep(p) \/ Commit(p) \/ Persist(p)
      PROVE  Flag(p)
  <2>1. ASSUME NEW pc \in InLoop, NEW s, Advance(p, pc, s) PROVE Flag(p)
    BY <2>1, AdvanceFields
  <2>2. ASSUME NEW pc \in InLoop, Goto(p, pc) PROVE Flag(p)
    BY <2>1, <2>2, GotoIsAdvance
  <2>3. {"top", "delay", "commit", "persist", "finish"} = InLoop
    BY DEF InLoop
  <2> HIDE DEF Flag
  <2>4. ASSUME NEW result, Return(p, result) PROVE Flag(p)
    BY <2>4, ReturnUnflags DEF Flag
  <2>5. \/ Return(p, "error")
        \/ \E s : Advance(p, "commit", s)
        \/ \E pc \in {"delay", "persist", "top", "finish"} : Goto(p, pc)
    BY <1>2 DEF LoopTop, TakeStep, Commit, Persist
  <2> QED BY <2>1, <2>2, <2>3, <2>4, <2>5
<1>3. ASSUME NEW p \in Procs, Command(p) \/ Proceed(p) PROVE Alone(p) /\ Flag(p)
  <2>1. Alone(p)
    BY <1>3, ProcessAlone
  <2>2. CASE FinishRun(p)
    <3>1. Return(p, "ok") \/ Return(p, "error")
      BY <2>2 DEF FinishRun
    <3>2. ~proc'[p].leaseLost
      BY <3>1, ReturnUnflags
    <3> QED BY <2>1, <3>2
  <2>3. CASE LoopTop(p) \/ TakeStep(p) \/ Commit(p) \/ Persist(p)
    BY <1>2, <2>1, <2>3
  <2>4. CASE /\ ~FinishRun(p)
             /\ ~(LoopTop(p) \/ TakeStep(p) \/ Commit(p) \/ Persist(p))
    <3>1. \/ Command(p) \/ ServerStep(p) \/ PickTask(p) \/ ClaimAttempt(p)
          \/ BindSession(p) \/ PublishBinding(p) \/ \E t : Execute(p, t)
      BY <1>3, <2>4 DEF Proceed, Attempt
    <3>2. proc[p].pc \notin InLoop
      BY <3>1 DEF Command, Serve, RunWork, Execute, Resume, ServerStep, ScanUnscheduled,
         Initialize, FindExpired, FindContinuation, ResumeSelected, Recovery, LoadExpired,
         Rebind, Reconcile, PickTask, ClaimAttempt, BindSession, PublishBinding, At, InLoop
    <3>3. ~proc[p].leaseLost
      BY <3>2 DEF FlagsOK
    <3> QED BY <2>1, <3>1, <3>3, QuietSteps
  <2> QED BY <2>1, <2>2, <2>3, <2>4
<1>4. ASSUME NEW p \in Procs, RenewInBackground(p) \/ Cancel(p)
      PROVE  Alone(p) /\ Flag(p)
  <2>1. Alone(p)
    BY <1>4, SignalMoves
  <2>2. PICK me : me = proc[p]
    OBVIOUS
  <2>3. me \in ProcRow /\ (me.leaseLost => me.pc \in InLoop)
    BY <2>2, ProcFacts DEF FlagsOK
  <2>4. CASE proc' = [proc EXCEPT ![p].leaseLost = TRUE] /\ me.pc \in InLoop
    <3>1. PICK new : new = [me EXCEPT !.leaseLost = TRUE]
      OBVIOUS
    <3>2. new.pc = me.pc
      BY <2>3, <3>1 DEF ProcRow
    <3>3. proc' = [proc EXCEPT ![p] = new]
      BY <2>2, <2>4, <3>1
    <3> QED BY <2>1, <2>4, <3>2, <3>3, StepsAlone
  <2>5. CASE proc' = [proc EXCEPT ![p].cancelled = TRUE]
    <3>1. PICK new : new = [me EXCEPT !.cancelled = TRUE]
      OBVIOUS
    <3>2. new.pc = me.pc /\ new.leaseLost = me.leaseLost
      BY <2>3, <3>1 DEF ProcRow
    <3>3. proc' = [proc EXCEPT ![p] = new]
      BY <2>2, <2>5, <3>1
    <3> QED BY <2>1, <2>3, <3>2, <3>3, StepsAlone
  <2>6. CASE UNCHANGED proc
    BY <2>1, <2>2, <2>3, <2>6
  <2> QED BY <1>4, <2>2, <2>4, <2>5, <2>6 DEF RenewInBackground, Cancel
<1>5. ASSUME NEW p \in Procs, Crash(p) \/ FailCall(p) PROVE Alone(p) /\ Flag(p)
  <2>1. Idle.leaseLost = FALSE
    BY DEF Idle
  <2> QED BY <1>5, <2>1, IdleMoves, ReturnFrees, ReturnUnflags, StepsAlone DEF Crash, FailCall
<1>6. CASE Outage
  <2>1. Idle.leaseLost = FALSE
    BY DEF Idle
  <2> QED BY <1>6, <2>1 DEF Outage, FlagsOK
<1>7. CASE UNCHANGED proc
  BY <1>7 DEF FlagsOK
<1>8. AddTask \/ PassTime \/ (\E id \in SessionIds : WriteBack(id)) \/ UNCHANGED runnerVars
        => UNCHANGED proc
  BY DEF AddTask, PassTime, WriteBack, runnerVars
<1>9. \/ AddTask \/ PassTime \/ (\E id \in SessionIds : WriteBack(id)) \/ Outage
      \/ UNCHANGED runnerVars
      \/ \E p \in Procs : \/ Command(p) \/ Proceed(p) \/ RenewInBackground(p)
                          \/ Cancel(p) \/ Crash(p) \/ FailCall(p)
  BY DEF ServerNext
<1> HIDE DEF Flag
<1> QED BY <1>1, <1>3, <1>4, <1>5, <1>6, <1>7, <1>8, <1>9

-----------------------------------------------------------------------------
(* A step hurts one run at most, and only for a fault. *)

LEMMA ClockStays ==
  ASSUME ServerInv, [ServerNext]_runnerVars, ~PassTime
  PROVE  UNCHANGED now
BY StepCalls DEF AddTask, Create, CallOf, Claims, StartOwnedAttempt, Publishes,
   UpdateProgress, Renews, RenewLease, Ends, Finish, Schedules, ReadUnscheduled,
   InitializeUnscheduled, Dies, dbVars

LEMMA DecisionIsValid ==
  ASSUME NEW outcome \in AttemptOutcome, NEW at, NEW reset, NEW progressed, NEW origin
  PROVE  ValidCompletion(outcome,
           DecideAttemptCompletion(outcome, at, reset, progressed, origin))
BY DEF AttemptOutcome, ValidCompletion, DecideAttemptCompletion, NoContinuation,
   ScheduledContinuation

(* The finish of a run that is running never conflicts.                       *)
LEMMA RunningIsFinishable ==
  ASSUME ServerInv, NEW p \in Procs, proc[p].pc \in Owning \cup Recovering,
         runs[proc[p].run].status = "running", NEW at, NEW reset
  PROVE  Finishable(FinishParams(p, at, reset))
<1>1. PICK r, t, s : r = proc[p].run /\ t = proc[p].task /\ s = proc[p].sess
  OBVIOUS
<1>2. r \in DOMAIN runs /\ runs[r].task = t
  BY <1>1, WorkingFacts
<1>3. PICK outcome : outcome = OutcomeOf(s)
  OBVIOUS
<1>4. PICK policyAt, progressed :
        /\ policyAt = IF outcome = "token_exhausted" /\ s.haltedAt # NoTime
                        THEN s.haltedAt ELSE at
        /\ progressed = (s.next > RunOf(p).grant.startStep)
  OBVIOUS
<1>5. PICK q : q = FinishParams(p, at, reset)
  OBVIOUS
<1>6. /\ q.run = r /\ q.task = t /\ q.outcome = outcome
      /\ q.cont = DecideAttemptCompletion(outcome, policyAt, reset, progressed, s.origin)
  BY <1>1, <1>3, <1>4, <1>5 DEF FinishParams, Completion
<1>7. outcome \in AttemptOutcome
  BY <1>3 DEF OutcomeOf, AttemptOutcome
<1>8. ValidCompletion(q.outcome, q.cont)
  BY <1>6, <1>7, DecisionIsValid
<1>9. t \in DOMAIN tasks /\ tasks[t].status = "in_progress"
  <2>1. t \in DOMAIN tasks /\ r \in RunsOf(t) \cap RunningRuns
    BY <1>1, <1>2, DatabaseFacts DEF RunsOf, RunningRuns, ServerInv
  <2> QED BY <2>1 DEF ServerInv, DatabaseOK, StoreInvOver, OneRunningAttempt, InProgressHasRun
<1> QED BY <1>1, <1>2, <1>5, <1>6, <1>8, <1>9 DEF Finishable

LEMMA WellFacts ==
  ASSUME ServerInv, NEW p \in Procs, Well(p)
  PROVE  /\ proc[p].pc \in Holding /\ proc[p].run \in DOMAIN runs
         /\ proc[p].run \in Nat /\ proc[p].run # 0
         /\ runs[proc[p].run].owner = proc[p].run
         /\ Owns(proc[p].run, proc[p].run)
         /\ runs[proc[p].run].lease \in Nat /\ now \in Nat
         /\ ~(runs[proc[p].run].lease <= now)
<1>1. proc[p].pc \in Holding
  BY DEF Well, Holding
<1>2. proc[p].run \in DOMAIN runs
  BY <1>1, HolderFacts
<1> QED BY <1>1, <1>2, DatabaseFacts, RunFacts DEF ServerInv, RunRow, Well, Owns

(* A process that goes on with its run keeps what it takes to write to it:    *)
(* nobody else ends it, and a renewal makes its lease later.                  *)
LEMMA WellKeeps ==
  ASSUME ServerInv, WorkInv, [ServerNext]_runnerVars, NEW p \in Procs, UNCHANGED now,
         Well(p), proc'[p].pc \in Owners, proc'[p].run = proc[p].run, ~proc'[p].leaseLost
  PROVE  Well(p)'
<1>1. PICK r : r = proc[p].run
  OBVIOUS
<1>2. /\ r \in DOMAIN runs /\ runs[r].status = "running" /\ runs[r].lease > now
      /\ ~(runs[r].lease <= now) /\ now \in Nat
      /\ proc[p].pc \in Owners /\ proc'[p].pc \in Holding
  BY <1>1, WellFacts DEF Well, Holding
<1>3. ASSUME NEW q \in Procs, Ends(q), proc[q].run = r PROVE FALSE
  <2>1. q # p
    <3>1. Ends(p) => Frees(p)
      BY ReturnFrees DEF Ends
    <3> QED BY <1>2, <1>3, <3>1 DEF Frees
  <2>2. proc[q].pc # "reconcile"
    BY <1>2, <1>3, WriterFacts DEF WorkInv, Ahead, Holding, Recovering
  <2>3. proc[q].pc \in Owners
    BY <1>3, <2>2 DEF Ends, Owners, Owning, InLoop
  <2> QED BY <1>1, <1>2, <1>3, <2>1, <2>3 DEF WorkInv, DistinctOwners
<1>4. /\ runs'[r].status = runs[r].status
      /\ runs'[r].lease \in {runs[r].lease, now + Lease}
  BY <1>2, <1>3, RunChanges
<1>5. now + Lease > now
  BY <1>2, StoreAssumption
<1> QED BY <1>1, <1>2, <1>4, <1>5 DEF Well

LEMMA Bystanders ==
  ASSUME ServerInv, WorkInv, [ServerNext]_runnerVars, NEW p \in Procs, UNCHANGED now,
         proc'[p] = proc[p]
  PROVE  Calm(p) /\ ~Takes(p)
<1>1. Calm(p)
  BY WellKeeps DEF Calm, Well
<1> QED BY <1>1 DEF Takes, Claims

(* A step of an attempt leaves its process well, unless it is the last.       *)
LEMMA WorkersCalm ==
  ASSUME ServerInv, WorkInv, [ServerNext]_runnerVars, NEW p \in Procs, UNCHANGED now,
         Attempt(p)
  PROVE  Calm(p)
<1> SUFFICES ASSUME Well(p)
             PROVE  \/ Well(p)' /\ proc'[p].run = proc[p].run
                    \/ proc'[p].pc \notin Holding /\ runs'[proc[p].run].status # "running"
  BY DEF Calm
<1> DEFINE Goal == \/ Well(p)' /\ proc'[p].run = proc[p].run
                   \/ proc'[p].pc \notin Holding /\ runs'[proc[p].run].status # "running"
<1> SUFFICES Goal
  OBVIOUS
<1>1. PICK r, s : r = proc[p].run /\ s = proc[p].sess
  OBVIOUS
<1>2. Owns(r, r) /\ runs[r].owner = r /\ proc[p].pc \in Owners /\ ~proc[p].leaseLost
      /\ runs[r].status = "running" /\ r \in DOMAIN runs
  BY <1>1, WellFacts DEF Well
<1>3. ASSUME NEW pc \in Owners, NEW new, Advance(p, pc, new) PROVE Goal
  <2>1. /\ proc'[p].pc = pc /\ proc'[p].run = proc[p].run
        /\ proc'[p].leaseLost = proc[p].leaseLost
    BY <1>3, AdvanceFields
  <2> QED BY <1>2, <1>3, <2>1, WellKeeps
<1>4. ASSUME NEW pc \in Owners, Goto(p, pc) PROVE Goal
  BY <1>3, <1>4, GotoIsAdvance
<1>5. "claim" \notin Owners /\ Owners = {"bind", "publish"} \cup InLoop
      /\ InLoop = {"top", "delay", "commit", "persist", "finish"}
  BY DEF Owners, Owning, InLoop
<1>6. proc[p].pc \in Owning => s.token = r
  BY <1>1, WorkingFacts
<1>7. proc[p].pc \in {"publish", "top", "delay", "commit", "finish"} =>
        proc[p].pc \in Owning
  BY DEF Owning, InLoop
<1>8. CASE BindSession(p)
  BY <1>3, <1>5, <1>8 DEF BindSession
<1>9. CASE PublishBinding(p)
  <2>1. Goto(p, "top")
    BY <1>1, <1>2, <1>9 DEF PublishBinding, RunOf
  <2> QED BY <1>4, <1>5, <2>1
<1>10. CASE LoopTop(p) \/ TakeStep(p)
  <2>1. Owns(r, s.token)
    BY <1>2, <1>6, <1>7, <1>10 DEF LoopTop, TakeStep, At
  <2>2. (\E new : Advance(p, "commit", new)) \/ Goto(p, "delay")
    BY <1>1, <1>10, <2>1 DEF LoopTop, TakeStep
  <2> QED BY <1>3, <1>4, <1>5, <2>2
<1>11. CASE Commit(p)
  <2>1. Owns(r, s.token)
    BY <1>2, <1>6, <1>7, <1>11 DEF Commit, At
  <2>2. Goto(p, "persist")
    BY <1>1, <1>11, <2>1 DEF Commit
  <2> QED BY <1>4, <1>5, <2>2
<1>12. CASE Persist(p)
  <2>1. \E pc \in {"finish", "top"} : Goto(p, pc)
    BY <1>12 DEF Persist
  <2> QED BY <1>4, <1>5, <2>1
<1>13. CASE FinishRun(p)
  <2>1. proc[p].pc = "finish" /\ s.token = r
    BY <1>6, <1>7, <1>13 DEF FinishRun, At
  <2>2. Finishable(FinishParams(p, now, ResetOf(p)))
    BY <1>1, <1>2, <1>7, <2>1, RunningIsFinishable
  <2>3. FinishParams(p, now, ResetOf(p)).run = r
    BY <1>1 DEF FinishParams
  <2>4. FinishAttempt(FinishParams(p, now, ResetOf(p)), r) /\ Return(p, "ok")
    BY <1>1, <1>2, <1>13, <2>1, <2>2, <2>3 DEF FinishRun
  <2>5. Ends(p)
    BY <1>1, <2>1, <2>3, <2>4 DEF Ends, FinishAttempt
  <2>6. runs'[r].status # "running"
    BY <1>1, <2>5, EndedRow
  <2>7. proc'[p].pc \notin Holding
    BY <2>4, ReturnFrees DEF Frees
  <2> QED BY <1>1, <2>6, <2>7
<1>14. ~ClaimAttempt(p)
  BY <1>2, <1>5 DEF ClaimAttempt, At
<1> HIDE DEF Goal
<1> QED BY <1>8, <1>9, <1>10, <1>11, <1>12, <1>13, <1>14 DEF Attempt

(* A claim that takes less than a lease leaves its process well.              *)
LEMMA ClaimIsWell ==
  ASSUME ServerInv, FlagsOK, FlagsOK', NEW p \in Procs, ClaimAttempt(p), Takes(p),
         env' = env
  PROVE  Well(p)'
<1>1. env.faults - 1 # env.faults
  BY EnvFields DEF ServerInv
<1>2. ~Happens("faults")
  <2>1. env \in Scenario
    BY EnvFields DEF ServerInv
  <2>2. env["faults"] = env.faults
    OBVIOUS
  <2>3. Happens("faults") => env'["faults"] = env["faults"] - 1
    BY <2>1 DEF Happens, Scenario
  <2> QED BY <1>1, <2>2, <2>3
<1>3. proc[p].pc = "claim" /\ proc'[p].pc = "bind" /\ proc'[p].run = Len(runs) + 1
  BY DEF Takes, Claims
<1>4. \A result : ~Return(p, result)
  BY <1>3, ReturnFrees DEF Frees, Holding, Owners
<1>5. PICK auth, at :
        /\ at \in proc[p].since .. now
        /\ StartOwnedAttempt(auth, ClaimParams(p, at), Len(runs) + 1)
        /\ ~(at + Lease <= now)
  <2>1. ASSUME NEW at, IF at + Lease <= now THEN Happens("faults") ELSE UNCHANGED env
        PROVE  ~(at + Lease <= now)
    BY <1>2, <2>1
  <2> DEFINE kind == proc[p].kind
             auth == CASE kind = "scheduled" -> "automatic"
                       [] kind = "interrupted" -> "interrupted"
                       [] OTHER -> "owner"
  <2>2. \E at \in proc[p].since .. now :
          \/ /\ StartOwnedAttempt(auth, ClaimParams(p, at), Len(runs) + 1)
             /\ IF at + Lease <= now THEN Happens("faults") ELSE UNCHANGED env
          \/ Return(p, "conflict")
    BY DEF ClaimAttempt, ClaimParams
  <2> HIDE DEF auth
  <2> QED BY <1>4, <2>1, <2>2
<1>6. PICK new : new = Len(runs) + 1
  OBVIOUS
<1>7. /\ runs'[new].status = "running" /\ runs'[new].lease = at + Lease
      /\ UNCHANGED now
  <2>1. PICK q : q = ClaimParams(p, at)
    OBVIOUS
  <2>2. q.startedAt = at
    BY <2>1 DEF ClaimParams
  <2>3. StartOwnedAttempt(auth, q, Len(runs) + 1)
    BY <1>5, <2>1
  <2>4. UNCHANGED now
    BY <2>3 DEF StartOwnedAttempt
  <2> QED BY <1>6, <2>2, <2>3, <2>4, ClaimedRow
<1>8. at + Lease > now
  BY <1>3, <1>5, ClaimFacts, StoreAssumption, DatabaseFacts DEF ServerInv
<1>9. ~proc'[p].leaseLost /\ proc'[p].pc \in Owners
  BY <1>3 DEF FlagsOK, InLoop, Owners
<1> QED BY <1>3, <1>6, <1>7, <1>8, <1>9 DEF Well

(* A mishap spends a fault, a signal none.                                    *)
LEMMA FaultsFall ==
  ASSUME ServerInv, [ServerNext]_runnerVars, ~Outage
  PROVE  /\ env.faults \in Nat /\ env'.faults \in Nat /\ env'.faults <= env.faults
         /\ Happens("faults") => env'.faults < env.faults
<1>1. /\ env \in Scenario /\ env.faults \in Nat
  BY EnvFields DEF ServerInv
<1>2. env'.faults \in Nat
  BY ServerInvStep DEF ServerInv, EnvTyped
<1>3. ASSUME Happens("faults") PROVE env'.faults < env.faults
  <2>1. env' = [env EXCEPT !.faults = env.faults - 1]
    BY <1>1, <1>3 DEF Happens, Scenario
  <2>2. env'.faults = env.faults - 1
    BY <1>1, <2>1 DEF Scenario
  <2> QED BY <1>1, <2>2
<1>4. ASSUME Happens("signals") PROVE env'.faults = env.faults
  <2>1. env' = [env EXCEPT !.signals = env.signals - 1]
    BY <1>1, <1>4 DEF Happens, Scenario
  <2> QED BY <1>1, <2>1 DEF Scenario
<1>5. ASSUME PassTime PROVE env'.faults <= env.faults
  <2>1. PICK n : n = Cardinality(Stalling)
    OBVIOUS
  <2>2. env' = [env EXCEPT !.faults = env.faults - n]
    BY <1>5, <2>1 DEF PassTime
  <2>3. env'.faults = env.faults - n
    BY <1>1, <2>2 DEF Scenario
  <2>4. n \in Nat
    <3>1. IsFiniteSet(Stalling)
      BY RunnerAssumption, FS_Subset DEF Stalling
    <3> QED BY <2>1, <3>1, FS_CardinalityType
  <2> QED BY <1>1, <2>3, <2>4
<1>6. UNCHANGED env => env'.faults <= env.faults
  BY <1>1
<1> QED BY <1>1, <1>2, <1>3, <1>4, <1>5, <1>6, EnvMoves

(* Time runs out for nobody, or for those it costs a fault.                   *)
LEMMA TimeStalls ==
  ASSUME ServerInv, PassTime, NEW p \in Procs, ~Calm(p)
  PROVE  p \in Stalling /\ env'.faults < env.faults
<1>1. /\ Well(p) /\ UNCHANGED <<proc, runs>> /\ now' = now + 1
  BY DEF Calm, PassTime, Tick, Well
<1>2. runs[proc[p].run].lease <= now + 1
  <2>1. ~(runs[proc[p].run].lease > now')
    BY <1>1 DEF Calm, Well
  <2>2. runs[proc[p].run].lease \in Nat /\ now \in Nat
    BY <1>1, WellFacts
  <2> QED BY <1>1, <2>1, <2>2
<1>3. p \in Stalling
  <2>1. Owns(proc[p].run, RunOf(p).owner)
    BY <1>1, WellFacts DEF RunOf
  <2>2. proc[p].pc \in {"bind", "publish"} \cup InLoop
    BY <1>1 DEF Well, Owners, Owning
  <2> QED BY <1>2, <2>1, <2>2 DEF Stalling, RunOf
<1>4. IsFiniteSet(Stalling)
  BY RunnerAssumption, FS_Subset DEF Stalling
<1>5. PICK n : n = Cardinality(Stalling)
  OBVIOUS
<1>6. n \in Nat /\ n # 0
  BY <1>3, <1>4, <1>5, FS_CardinalityType, FS_EmptySet
<1>7. env \in Scenario /\ env.faults \in Nat
  BY EnvFields DEF ServerInv
<1>8. env'.faults = env.faults - n
  <2>1. env' = [env EXCEPT !.faults = env.faults - n]
    BY <1>5 DEF PassTime
  <2> QED BY <1>7, <2>1 DEF Scenario
<1> QED BY <1>3, <1>6, <1>7, <1>8

(* One fault pays for one of them.                                            *)
LEMMA OneStalls ==
  ASSUME ServerInv, PassTime, env.faults <= 1, NEW p \in Stalling, NEW q \in Stalling
  PROVE  p = q
<1> SUFFICES ASSUME p # q PROVE FALSE
  OBVIOUS
<1>1. IsFiniteSet(Stalling)
  BY RunnerAssumption, FS_Subset DEF Stalling
<1>2. PICK n : n = Cardinality(Stalling)
  OBVIOUS
<1>3. n \in Nat /\ n <= env.faults /\ env.faults \in Nat
  BY <1>1, <1>2, FS_CardinalityType, EnvFields DEF PassTime, ServerInv
<1>4. Cardinality({p} \cup {q}) = 2
  <2>1. IsFiniteSet({p}) /\ Cardinality({p}) = 1 /\ q \notin {p}
    BY FS_Singleton
  <2> QED BY <2>1, FS_AddElement
<1>5. 2 <= n
  <2>1. {p} \cup {q} \in SUBSET Stalling
    OBVIOUS
  <2> QED BY <1>1, <1>2, <1>4, <2>1, FS_Subset
<1> QED BY <1>3, <1>5

Spared(p) == Calm(p) /\ (Takes(p) => Well(p)')

(* A fault is spent, and hurts nobody but who holds this run, or claims it.   *)
Hits(r) ==
  /\ env'.faults < env.faults
  /\ \A p \in Procs : /\ proc[p].run = r \/ Calm(p)
                      /\ Takes(p) => Len(runs) + 1 = r \/ Well(p)'

LEMMA StepHits ==
  ASSUME ServerInv, WorkInv, FlagsOK, [ServerNext]_runnerVars,
         env.faults <= 1, env.outages = 0
  PROVE  (\A p \in Procs : Spared(p)) \/ \E r : Hits(r)
<1>1. FlagsOK' /\ ~Outage
  BY FlagsStep, PowerStays
<1>2. Happens("faults") => env'.faults < env.faults
  BY <1>1, FaultsFall
<1>3. \A p : Takes(p) => proc[p].pc = "claim" /\ proc'[p].pc = "bind"
  BY DEF Takes, Claims
<1>4. CASE PassTime
  <2>1. UNCHANGED proc
    BY <1>4 DEF PassTime
  <2>2. \A p : ~Takes(p)
    BY <1>3, <2>1
  <2>3. ASSUME NEW p \in Procs, ~Calm(p) PROVE Hits(proc[p].run)
    <3>1. p \in Stalling /\ env'.faults < env.faults
      BY <1>4, <2>3, TimeStalls
    <3>2. ASSUME NEW q \in Procs, ~Calm(q) PROVE q = p
      BY <1>4, <3>1, <3>2, TimeStalls, OneStalls
    <3> QED BY <2>2, <3>1, <3>2 DEF Hits
  <2> QED BY <2>2, <2>3 DEF Spared
<1> SUFFICES ASSUME ~PassTime PROVE (\A p \in Procs : Spared(p)) \/ \E r : Hits(r)
  BY <1>4
<1>5. UNCHANGED now
  BY ClockStays
<1>6. ASSUME NEW a \in Procs, Alone(a)
      PROVE  \A p \in Procs \ {a} : Calm(p) /\ ~Takes(p)
  BY <1>5, <1>6, Bystanders DEF Alone
<1>7. ASSUME NEW a \in Procs, Alone(a), Spared(a)
      PROVE  \A p \in Procs : Spared(p)
  BY <1>6, <1>7 DEF Spared
<1>8. ASSUME NEW a \in Procs, Alone(a), Happens("faults"), ~Takes(a)
      PROVE  \E r : Hits(r)
  <2>1. Hits(proc[a].run)
    BY <1>2, <1>6, <1>8 DEF Hits
  <2> QED BY <2>1
<1>9. ASSUME NEW a \in Procs, proc[a].pc \notin Owners, proc[a].pc # "claim", Alone(a)
      PROVE  \A p \in Procs : Spared(p)
  <2>1. Spared(a)
    BY <1>3, <1>9 DEF Spared, Calm, Well
  <2> QED BY <1>7, <1>9, <2>1
<1>10. ASSUME NEW a \in Procs, Attempt(a)
       PROVE  (\A p \in Procs : Spared(p)) \/ \E r : Hits(r)
  <2>1. Alone(a) /\ Calm(a)
    BY <1>5, <1>10, AttemptMoves, WorkersCalm
  <2>2. CASE ~Takes(a)
    BY <1>7, <2>1, <2>2 DEF Spared
  <2>3. CASE Takes(a)
    <3>1. ClaimAttempt(a)
      BY <1>3, <1>10, <2>3 DEF Attempt, BindSession, PublishBinding, LoopTop, TakeStep,
         Commit, Persist, FinishRun, At
    <3>2. UNCHANGED env \/ Happens("faults")
      BY <3>1 DEF ClaimAttempt
    <3>3. CASE UNCHANGED env
      <4>1. Well(a)'
        BY <1>1, <2>3, <3>1, <3>3, ClaimIsWell
      <4> QED BY <1>7, <2>1, <4>1 DEF Spared
    <3>4. CASE Happens("faults")
      <4>1. Hits(Len(runs) + 1)
        BY <1>2, <1>6, <2>1, <3>4 DEF Hits
      <4> QED BY <4>1
    <3> QED BY <3>2, <3>3, <3>4
  <2> QED BY <2>2, <2>3
<1>11. ASSUME NEW a \in Procs,
              \/ Command(a) \/ ServerStep(a) \/ PickTask(a)
              \/ At(a, "start") /\ Execute(a, proc[a].task)
       PROVE  \A p \in Procs : Spared(p)
  <2>1. Alone(a)
    BY <1>11, ProcessAlone DEF Proceed
  <2>2. proc[a].pc \notin Owners /\ proc[a].pc # "claim"
    BY <1>11 DEF Command, Serve, RunWork, Execute, Resume, ServerStep, ScanUnscheduled,
       Initialize, FindExpired, FindContinuation, ResumeSelected, Recovery, LoadExpired,
       Rebind, Reconcile, PickTask, At, Owners, Owning, InLoop
  <2> QED BY <1>9, <2>1, <2>2
<1>12. ASSUME NEW a \in Procs, RenewInBackground(a)
       PROVE  (\A p \in Procs : Spared(p)) \/ \E r : Hits(r)
  <2>1. Alone(a) /\ proc[a].pc \in Owning
    BY <1>12, SignalMoves DEF RenewInBackground, Owning
  <2>2. ~Takes(a)
    BY <1>3, <2>1 DEF Owning, InLoop
  <2>3. proc[a].sess.token = proc[a].run
    BY <2>1, WorkingFacts
  <2>4. CASE UNCHANGED proc
    BY <1>5, <1>7, <2>1, <2>4, Bystanders DEF Spared
  <2>5. CASE ~Owns(proc[a].run, proc[a].sess.token)
    <3>1. ~Well(a)
      BY <2>3, <2>5, WellFacts
    <3> QED BY <1>7, <2>1, <2>2, <3>1 DEF Spared, Calm
  <2>6. CASE Happens("faults")
    BY <1>8, <2>1, <2>2, <2>6
  <2> QED BY <1>12, <2>4, <2>5, <2>6 DEF RenewInBackground
<1>13. ASSUME NEW a \in Procs, Cancel(a) PROVE \A p \in Procs : Spared(p)
  <2>1. PICK me : me = proc[a]
    OBVIOUS
  <2>2. PICK new : new = [me EXCEPT !.cancelled = TRUE]
    OBVIOUS
  <2>3. /\ new.pc = me.pc /\ new.run = me.run /\ new.leaseLost = me.leaseLost
    BY <2>1, <2>2, ProcFacts DEF ProcRow
  <2>4. Alone(a) /\ proc'[a] = new
    BY <1>13, <2>1, <2>2, StepsAlone DEF Cancel
  <2>5. Calm(a)
    BY <1>5, <2>1, <2>3, <2>4, WellKeeps DEF Calm, Well
  <2>6. ~Takes(a)
    BY <1>3, <2>1, <2>3, <2>4
  <2> QED BY <1>7, <2>4, <2>5, <2>6 DEF Spared
<1>14. ASSUME NEW a \in Procs, Crash(a) \/ FailCall(a) PROVE \E r : Hits(r)
  <2>1. Happens("faults")
    BY <1>14 DEF Crash, FailCall
  <2>2. Alone(a) /\ proc'[a].pc # "bind"
    <3>1. Idle.pc = "idle"
      BY DEF Idle
    <3> QED BY <1>14, <3>1, StepsAlone, ReturnFrees
            DEF Crash, FailCall, Frees, Holding, Owners
  <2> QED BY <1>3, <1>8, <2>1, <2>2
<1>15. ASSUME UNCHANGED proc PROVE \A p \in Procs : Spared(p)
  BY <1>5, <1>15, Bystanders DEF Spared
<1>16. AddTask \/ (\E id \in SessionIds : WriteBack(id)) \/ UNCHANGED runnerVars
         => UNCHANGED proc
  BY DEF AddTask, WriteBack, runnerVars
<1> QED BY <1>1, <1>10, <1>11, <1>12, <1>13, <1>14, <1>15, <1>16, Zenon
        DEF ServerNext, Proceed

-----------------------------------------------------------------------------
(* Which runs a step exposes. *)

(* A fault can still strike the run, or did.                                  *)
Exposed(r) == \/ Struck(r)
              \/ env.faults = 1 /\ runs[r].status = "running"

(* A step strikes no run without a fault, and only one with it, while it is   *)
(* running.                                                                   *)
LEMMA StruckStep ==
  ASSUME ServerInv, WorkInv, FlagsOK, [ServerNext]_runnerVars,
         env.faults <= 1, env.outages = 0
  PROVE  \E r0 : \A r \in DOMAIN runs' : Struck(r)' =>
           \/ r \in DOMAIN runs /\ Struck(r)
           \/ /\ env'.faults < env.faults /\ r = r0
              /\ r \in DOMAIN runs => runs[r].status = "running"
<1>1. PICK r0 : (\A p \in Procs : Spared(p)) \/ Hits(r0)
  BY StepHits
<1>2. ASSUME NEW p \in Procs, ~Calm(p) PROVE Hits(r0) /\ proc[p].run = r0
  BY <1>1, <1>2 DEF Spared, Hits
<1>3. ASSUME NEW p \in Procs, Takes(p), ~Well(p)'
      PROVE  Hits(r0) /\ Len(runs) + 1 = r0
  BY <1>1, <1>3 DEF Spared, Hits
<1>4. Steady
  BY StepIsSteady
<1>5. ASSUME NEW p \in Procs, Takes(p)
      PROVE  proc'[p].run = Len(runs) + 1 /\ proc'[p].run \notin DOMAIN runs
  <2>1. Len(runs) + 1 \notin DOMAIN runs
    BY DatabaseFacts DEF ServerInv
  <2> QED BY <1>5, <2>1 DEF Takes
<1>6. ASSUME NEW r \in DOMAIN runs', Struck(r)', ~(r \in DOMAIN runs /\ Struck(r))
      PROVE  Hits(r0) /\ r = r0 /\ (r \in DOMAIN runs => runs[r].status = "running")
  <2>1. CASE runs'[r].status = "running" /\ \A p \in Procs : proc'[p].run = r => ~Well(p)'
    <3>1. CASE r \notin DOMAIN runs
      <4>1. PICK p \in Procs : Takes(p)
        BY <3>1, RunsGrow, ClaimsTake
      <4>2. r = Len(runs) + 1
        <5>1. PICK auth, q : StartOwnedAttempt(auth, q, Len(runs) + 1)
          BY <4>1 DEF Takes, Claims
        <5> QED BY <3>1, <5>1, ClaimedRow
      <4> QED BY <1>3, <1>5, <2>1, <3>1, <4>1, <4>2
    <3>2. CASE r \in DOMAIN runs
      <4>1. runs[r].status = "running"
        BY <1>4, <2>1, <3>2 DEF Steady
      <4>2. PICK p \in Procs : proc[p].run = r /\ Well(p)
        BY <1>6, <3>2, <4>1 DEF Struck
      <4>3. ~Calm(p)
        BY <2>1, <4>2 DEF Calm
      <4> QED BY <1>2, <4>1, <4>2, <4>3
    <3> QED BY <3>1, <3>2
  <2>2. ASSUME NEW p \in Procs, proc'[p].pc \in Holding, proc'[p].run = r, ~Well(p)'
        PROVE  Hits(r0) /\ r = r0 /\ (r \in DOMAIN runs => runs[r].status = "running")
    <3>1. CASE Takes(p)
      BY <1>3, <1>5, <2>2, <3>1
    <3>2. ~Loads(p)
      <4> SUFFICES ASSUME Loads(p) PROVE FALSE
        OBVIOUS
      <4>1. Expired(r)
        BY <2>2 DEF Loads
      <4>2. \A q \in Procs : proc[q].run = r => ~Well(q)
        BY <4>1, WellFacts DEF Expired
      <4> QED BY <1>6, <4>1, <4>2 DEF Struck, Expired
    <3>3. CASE proc[p].pc \in Holding /\ proc'[p].run = proc[p].run
      <4>1. Well(p) /\ r \in DOMAIN runs
        BY <1>6, <2>2, <3>3, HolderFacts DEF Struck
      <4>2. ~Calm(p)
        BY <2>2, <4>1 DEF Calm
      <4> QED BY <1>2, <2>2, <3>3, <4>1, <4>2 DEF Well
    <3> QED BY <2>2, <3>1, <3>2, <3>3, StepMoves, HoldsFrom
  <2> QED BY <1>6, <2>1, <2>2 DEF Struck
<1> QED BY <1>6 DEF Hits

(* One run at most is struck, and then the fault is spent.                    *)
OneStruck ==
  \A r1, r2 \in DOMAIN runs : Struck(r1) /\ Struck(r2) => env.faults = 0 /\ r1 = r2

LEMMA OneStruckStep ==
  ASSUME ServerInv, WorkInv, FlagsOK, [ServerNext]_runnerVars,
         env.faults <= 1, env.outages = 0, OneStruck
  PROVE  OneStruck'
<1>1. PICK r0 : \A r \in DOMAIN runs' : Struck(r)' =>
                  \/ r \in DOMAIN runs /\ Struck(r)
                  \/ env'.faults < env.faults /\ r = r0
  BY StruckStep
<1>2. env.faults \in Nat /\ env'.faults \in Nat /\ env'.faults <= env.faults
  BY PowerStays, FaultsFall
<1>3. \A r \in DOMAIN runs : Struck(r) => env.faults = 0
  BY DEF OneStruck
<1>4. env'.faults < env.faults => env.faults = 1 /\ env'.faults = 0
  BY <1>2
<1>5. env.faults = 0 => env'.faults = 0
  BY <1>2
<1> QED BY <1>1, <1>3, <1>4, <1>5 DEF OneStruck

LEMMA ExposedStays ==
  ASSUME ServerInv, WorkInv, FlagsOK, [ServerNext]_runnerVars,
         env.faults <= 1, env.outages = 0, NEW r \in DOMAIN runs, Exposed(r)'
  PROVE  Exposed(r)
<1>1. env.faults \in Nat /\ env'.faults \in Nat /\ env'.faults <= env.faults
  BY PowerStays, FaultsFall
<1>2. Steady
  BY StepIsSteady
<1>3. r \in DOMAIN runs'
  BY <1>2 DEF Steady
<1>4. CASE Struck(r)'
  <2>1. Struck(r) \/ (env'.faults < env.faults /\ runs[r].status = "running")
    BY <1>3, <1>4, StruckStep
  <2>2. env'.faults < env.faults => env.faults = 1
    BY <1>1
  <2> QED BY <2>1, <2>2 DEF Exposed
<1>5. CASE env'.faults = 1 /\ runs'[r].status = "running"
  <2>1. env.faults = 1
    BY <1>1, <1>5
  <2> QED BY <1>2, <1>5, <2>1 DEF Exposed, Steady
<1> QED BY <1>4, <1>5 DEF Exposed

-----------------------------------------------------------------------------
(* The attempts of a task and its session. *)

Earlier(r1, r2) ==
  /\ r1 \in DOMAIN runs /\ r2 \in DOMAIN runs
  /\ runs[r1].task = runs[r2].task /\ r1 < r2

FileOf(r) == files[runs[r].grant.session]

(* Where an attempt that has the session stands, or another that finds it.    *)
From(s, r) == IF s.run = r THEN s.start ELSE s.next

(* An earlier attempt has spent the fail-at directive of the task.            *)
SpentBefore(r) == \E r1 \in DOMAIN runs : Earlier(r1, r) /\ SessionOf(r1).failAt = 0

(* The session is not behind the run: no completed step would be repeated, no *)
(* spent directive fires again.                                               *)
Abreast(s, r) ==
  /\ runs[r].grant.startStep <= From(s, r)
  /\ SpentBefore(r) => s.failAt = 0 /\ (s.run = r => s.halt # "agent_error")

(* Only the latest attempt of a task goes on.                                 *)
LEMMA EarlierHasEnded ==
  ASSUME ServerInv, NEW r1, NEW r2, Earlier(r1, r2)
  PROVE  /\ runs[r1].status # "running" /\ RowOK(r1)
         /\ SessionOf(r1) # NoSession /\ Bound(SessionOf(r1), r1)
<1>1. /\ r1 \in DOMAIN runs /\ r2 \in DOMAIN runs /\ r1 \in Nat /\ r2 \in Nat
      /\ r1 # 0 /\ runs[r1].task \in DOMAIN tasks
  BY DatabaseFacts DEF Earlier, ServerInv
<1>2. /\ r1 \in RunsOf(runs[r1].task) /\ r2 \in RunsOf(runs[r1].task) /\ ~(r2 <= r1)
  BY <1>1 DEF Earlier, RunsOf
<1>3. runs[r1].status # "running"
  BY <1>1, <1>2
     DEF ServerInv, DatabaseOK, StoreInvOver, OneRunningAttempt, RunningIsLatest, IsLatestRun
<1>4. RowOK(r1)
  BY <1>1, RunFacts DEF ServerInv
<1> QED BY <1>3, <1>4 DEF RowOK

(* So what is earlier than a run is history.                                  *)
LEMMA HistoryStays ==
  ASSUME ServerInv, [ServerNext]_runnerVars, NEW r2 \in DOMAIN runs, NEW r1, Earlier(r1, r2)'
  PROVE  Earlier(r1, r2) /\ runs'[r1] = runs[r1]
<1>1. Steady
  BY StepIsSteady
<1>2. /\ DOMAIN runs = 1 .. Len(runs) /\ DOMAIN runs' = 1 .. Len(runs')
      /\ Len(runs) \in Nat /\ Len(runs') \in Nat
  BY ServerInvStep, DatabaseFacts DEF ServerInv
<1>3. r1 \in DOMAIN runs
  BY <1>2 DEF Earlier
<1>4. Earlier(r1, r2)
  BY <1>1, <1>3 DEF Earlier, Steady
<1> QED BY <1>1, <1>3, <1>4, EarlierHasEnded DEF Steady

LEMMA SpentStays ==
  ASSUME ServerInv, [ServerNext]_runnerVars, NEW r \in DOMAIN runs, SpentBefore(r)'
  PROVE  SpentBefore(r)
<1>1. PICK r1 : Earlier(r1, r)' /\ SessionOf(r1)'.failAt = 0
  BY DEF SpentBefore
<1>2. Earlier(r1, r) /\ runs'[r1] = runs[r1]
  BY <1>1, HistoryStays
<1> QED BY <1>1, <1>2 DEF SpentBefore, SessionOf, Earlier

LEMMA AbreastStays ==
  ASSUME ServerInv, [ServerNext]_runnerVars, NEW r \in DOMAIN runs, NEW s, Abreast(s, r)
  PROVE  Abreast(s, r)'
<1>1. runs'[r].grant = runs[r].grant
  BY StepIsSteady DEF Steady
<1> QED BY <1>1, SpentStays DEF Abreast, From

(* The running attempt of a task is its latest.                               *)
LEMMA RunningLatest ==
  ASSUME ServerInv, NEW r1 \in DOMAIN runs, NEW r2 \in DOMAIN runs,
         runs[r1].task = runs[r2].task, runs[r2].status = "running"
  PROVE  r1 = r2 \/ Earlier(r1, r2)
<1>1. /\ r1 \in Nat /\ r2 \in Nat /\ r2 # 0 /\ runs[r1].task \in DOMAIN tasks
  BY DatabaseFacts DEF ServerInv
<1>2. r1 <= r2
  BY <1>1 DEF ServerInv, DatabaseOK, StoreInvOver, OneRunningAttempt, RunningIsLatest,
              IsLatestRun, RunsOf
<1> QED BY <1>1, <1>2 DEF Earlier

(* A file is not replaced by a new session once its task has a run.           *)
LEMMA TaskIsClaimed ==
  ASSUME ServerInv, NEW r \in DOMAIN runs
  PROVE  /\ runs[r].grant.session \in SessionIds
         /\ runs[r].grant.session[1] = runs[r].task
         /\ tasks[runs[r].task].status # "todo"
<1>1. runs[r].task \in DOMAIN tasks /\ runs[r].grant \in GrantRow
  BY DatabaseFacts DEF ServerInv
<1>2. r \in RunsOf(runs[r].task)
  BY DEF RunsOf
<1>3. tasks[runs[r].task].status # "todo"
  BY <1>1, <1>2 DEF ServerInv, DatabaseOK, StoreInvOver, TaskMirrorsLatestRun
<1> QED BY <1>1, <1>3, RunFacts DEF GrantRow, ServerInv, RowOK

(* While power stays, the file of a run stays, or a process that works on the *)
(* task replaces it.                                                          *)
LEMMA FileOfMoves ==
  ASSUME ServerInv, [ServerNext]_runnerVars, env.outages = 0, NEW r \in DOMAIN runs
  PROVE  \/ FileOf(r)' = FileOf(r)
         \/ \E q \in Procs :
              /\ proc[q].pc \in Holding /\ proc[q].run \in DOMAIN runs
              /\ runs[proc[q].run].task = runs[r].task
              /\ proc[q].pc \in {"bind", "persist", "rebind"}
              /\ proc'[q].pc \in Owning \cup Recovering /\ proc'[q].run = proc[q].run
              /\ FileOf(r)' = proc'[q].sess /\ proc'[q].sess.next = proc[q].sess.next
              /\ UNCHANGED runs
<1>1. PICK id : id = runs[r].grant.session
  OBVIOUS
<1>2. FileOf(r) = files[id] /\ FileOf(r)' = files'[id]
  BY <1>1, StepIsSteady DEF FileOf, Steady
<1>3. id \in SessionIds /\ id[1] = runs[r].task /\ tasks[id[1]].status # "todo"
  BY <1>1, TaskIsClaimed
<1>4. FileMoves(id) /\ ~Outage
  BY <1>3, FilesMove, PowerStays
<1>5. ASSUME NEW q \in Procs, Replaces(id, q)
      PROVE  /\ proc[q].pc \in Holding /\ proc[q].run \in DOMAIN runs
             /\ runs[proc[q].run].task = runs[r].task
             /\ proc[q].pc \in {"bind", "persist", "rebind"}
             /\ proc'[q].pc \in Owning \cup Recovering /\ proc'[q].run = proc[q].run
             /\ FileOf(r)' = proc'[q].sess /\ proc'[q].sess.next = proc[q].sess.next
             /\ UNCHANGED runs
  <2>1. /\ proc[q].pc \in {"bind", "persist", "rebind"} /\ UNCHANGED runs
        /\ proc'[q].pc \in Owning \cup Recovering /\ proc'[q].run = proc[q].run
        /\ files'[id] = proc'[q].sess /\ proc'[q].sess.next = proc[q].sess.next
    BY <1>5 DEF Replaces
  <2>2. proc[q].pc \in Holding
    BY <2>1 DEF Holding, Owners, Owning, InLoop, Recovering
  <2>3. proc[q].run \in DOMAIN runs
    BY <2>2, HolderFacts
  <2>4. ServerInv'
    BY ServerInvStep
  <2>5. Bound(proc[q].sess, proc[q].run)'
    <3>1. LocalOK(proc[q])'
      BY <2>4 DEF ServerInv, LocalsOK
    <3> QED BY <2>1, <3>1 DEF LocalOK, Working
  <2>6. proc'[q].sess.id = runs'[proc'[q].run].grant.session
    BY <2>5 DEF Bound
  <2>7. runs[proc[q].run].grant.session = proc'[q].sess.id
    BY <2>1, <2>6
  <2>8. proc'[q].sess.id = id
    <3>1. FileOK(id, files[id])'
      BY <1>3, <2>4 DEF ServerInv, FilesOK
    <3>2. files'[id] # NoSession
      BY <2>1, <2>5, RunnerAssumption DEF Bound, Sound
    <3> QED BY <2>1, <3>1, <3>2 DEF FileOK
  <2> QED BY <1>2, <1>3, <2>1, <2>2, <2>3, <2>7, <2>8, TaskIsClaimed
<1> QED BY <1>2, <1>3, <1>4, <1>5 DEF FileMoves

(* A claim is the first of its task, with a new session, or takes the task up *)
(* from its latest attempt, which did not complete it.                        *)
Resumed(p, r) ==
  /\ r \in DOMAIN runs /\ runs[r].status # "running" /\ runs[r].exit # "completed"
  /\ IsLatestRun(runs[r].task, r)
  /\ proc[p].sess = Prepared(r)

LEMMA ClaimSees ==
  ASSUME ServerInv, NEW p \in Procs, Takes(p), NEW new, new = Len(runs) + 1
  PROVE  /\ new \in DOMAIN runs' /\ new \notin DOMAIN runs
         /\ \A r \in DOMAIN runs' : r # new => r \in DOMAIN runs /\ runs'[r] = runs[r]
         /\ runs'[new].grant.session = proc[p].sess.id
         /\ runs'[new].grant.startStep = proc[p].sess.next
         /\ runs'[new].status = "running" /\ runs'[new].exit = ""
         /\ runs'[new].work = NoWork
         /\ \/ proc[p].sess.next = 0 /\ \A r : ~Earlier(r, new)'
            \/ \E r : /\ Resumed(p, r)
                      /\ \A r1 : Earlier(r1, new)' => r1 = r \/ Earlier(r1, r)
<1>1. PICK auth \in {"owner", "automatic", "interrupted"}, at \in proc[p].since .. now :
        StartOwnedAttempt(auth, ClaimParams(p, at), Len(runs) + 1)
  BY DEF Takes, Claims
<1>2. proc[p].pc = "claim"
  BY DEF Takes, Claims
<1>3. PICK q : q = ClaimParams(p, at)
  OBVIOUS
<1>4. /\ q.task = proc[p].task /\ q.run = proc[p].cand /\ Claiming(proc[p])
      /\ q.grant = [session |-> proc[p].sess.id, budget |-> proc[p].sess.allowance,
                    startStep |-> proc[p].sess.next]
  BY <1>2, <1>3, ClaimFacts
<1>5. /\ new \notin DOMAIN runs /\ DOMAIN runs' = DOMAIN runs \cup {new}
      /\ \A r \in DOMAIN runs : r < new /\ runs'[r] = runs[r]
      /\ runs'[new].task = q.task /\ runs'[new].grant = q.grant
      /\ runs'[new].status = "running" /\ runs'[new].exit = ""
      /\ runs'[new].work = NoWork
  BY <1>1, <1>3, ClaimedRow
<1>6. /\ IsLatestRun(q.task, q.run) /\ q.task \in DOMAIN tasks
      /\ tasks[q.task].status \in {"todo", "failed"}
  BY <1>1, <1>3 DEF StartOwnedAttempt, Claimable, Transition
<1>7. ASSUME NEW r, Earlier(r, new)'
      PROVE  r \in RunsOf(q.task) /\ r <= q.run /\ q.run # 0
  <2>1. r \in DOMAIN runs' /\ r < new /\ runs'[r].task = q.task
    BY <1>5, <1>7 DEF Earlier
  <2>2. r # new
    <3>1. new \in Nat
      <4>1. Len(runs) \in Nat
        BY DatabaseFacts DEF ServerInv
      <4> QED BY <4>1
    <3>2. ~(new < new)
      BY <3>1
    <3> QED BY <2>1, <3>2, Zenon
  <2>3. r \in RunsOf(q.task)
    BY <1>5, <2>1, <2>2 DEF RunsOf
  <2> QED BY <1>6, <2>3 DEF IsLatestRun
<1>8. /\ new \in DOMAIN runs' /\ new \notin DOMAIN runs
      /\ \A r \in DOMAIN runs' : r # new => r \in DOMAIN runs /\ runs'[r] = runs[r]
      /\ runs'[new].grant.session = proc[p].sess.id
      /\ runs'[new].grant.startStep = proc[p].sess.next
      /\ runs'[new].status = "running" /\ runs'[new].exit = ""
      /\ runs'[new].work = NoWork
  <2>1. /\ q.grant.session = proc[p].sess.id /\ q.grant.startStep = proc[p].sess.next
    BY <1>4
  <2> QED BY <1>5, <2>1
<1>9. \/ proc[p].sess.next = 0 /\ \A r : ~Earlier(r, new)'
      \/ \E r : /\ Resumed(p, r)
                /\ \A r1 : Earlier(r1, new)' => r1 = r \/ Earlier(r1, r)
  <2>0. CASE proc[p].kind = "execute"
    <3>1. q.run = 0 /\ proc[p].sess.next = 0
      BY <1>4, <2>0 DEF Claiming
    <3> QED BY <1>7, <3>1
  <2> SUFFICES ASSUME proc[p].kind # "execute"
               PROVE  \E r : /\ Resumed(p, r)
                             /\ \A r1 : Earlier(r1, new)' => r1 = r \/ Earlier(r1, r)
    BY <2>0
  <2>1. PICK r : r = proc[p].cand
    OBVIOUS
  <2>2. /\ r \in DOMAIN runs /\ runs[r].task = q.task /\ runs[r].status # "running"
        /\ proc[p].sess = Prepared(r) /\ q.run = r
    BY <1>4, <2>1 DEF Claiming
  <2>3. runs[r].exit # "completed"
    <3>1. r \in RunsOf(q.task)
      BY <2>2 DEF RunsOf
    <3>2. PICK o \in AttemptOutcome :
            TerminalState(o) = [run |-> runs[r].status, exit |-> runs[r].exit,
                                task |-> tasks[q.task].status]
      BY <1>6, <2>2, <3>1
         DEF ServerInv, DatabaseOK, StoreInvOver, TaskMirrorsLatestRun
    <3> QED BY <1>6, <3>2 DEF TerminalState, AttemptOutcome
  <2>4. Resumed(p, r)
    BY <1>6, <2>2, <2>3 DEF Resumed
  <2>5. ASSUME NEW r1, Earlier(r1, new)' PROVE r1 = r \/ Earlier(r1, r)
    <3>1. r1 \in RunsOf(q.task) /\ r1 <= r
      BY <1>7, <2>2, <2>5
    <3>2. r1 \in Nat /\ r \in Nat
      BY <2>2, <3>1, DatabaseFacts DEF ServerInv, RunsOf
    <3> QED BY <2>2, <3>1, <3>2 DEF Earlier, RunsOf
  <2> QED BY <2>4, <2>5
<1> QED BY <1>8, <1>9

-----------------------------------------------------------------------------
(* The invariant. *)

(* While no fault has happened, a session file shows what its row does when   *)
(* an attempt ends.                                                           *)
FilesFollow ==
  env.faults = 1 =>
    /\ \A p \in Procs : proc[p].pc = "finish" => files[proc[p].sess.id] = proc[p].sess
    /\ \A r \in DOMAIN runs :
         IsLatestRun(runs[r].task, r) /\ runs[r].status # "running" =>
           FileOf(r) = SessionOf(r)

(* The sessions a run can go on with are not behind it: the file of one that  *)
(* has to be recovered, ...                                                   *)
FilesAbreast == \A r \in DOMAIN runs : Exposed(r) => Abreast(FileOf(r), r)

(* ... the one in its row, ...                                                *)
RowsAbreast == \A r \in DOMAIN runs : SessionOf(r) # NoSession => Abreast(SessionOf(r), r)

(* ... and the one of a process.                                              *)
LocalAbreast(me) ==
  /\ me.pc = "bind" => (SpentBefore(me.run) => me.sess.failAt = 0)
  /\ me.pc \in Owning \cup Recovering => Abreast(me.sess, me.run)
  /\ me.pc = "load" /\ me.sess # NoSession => Abreast(me.sess, me.run)

LocalsAbreast == \A p \in Procs : LocalAbreast(proc[p])

(* A run that is not the last of its task did not complete it, and stands no  *)
(* further than the next one starts.                                          *)
Unfinished ==
  /\ \A r \in DOMAIN runs : runs[r].status = "running" => runs[r].exit = ""
  /\ \A r1, r2 : Earlier(r1, r2) => runs[r1].exit # "completed"

Chained ==
  \A r1, r2 : Earlier(r1, r2) => SessionOf(r1).next <= runs[r2].grant.startStep

MishapInv ==
  /\ env.faults <= 1 /\ Sourced /\ FlagsOK /\ OneStruck
  /\ FilesFollow /\ FilesAbreast /\ RowsAbreast /\ LocalsAbreast
  /\ Unfinished /\ Chained

-----------------------------------------------------------------------------
(* A step keeps it. *)

LEMMA MishapFacts ==
  ASSUME ServerInv, WorkInv, MishapInv, [ServerNext]_runnerVars
  PROVE  /\ ServerInv' /\ WorkInv' /\ Steady
         /\ env.outages = 0 /\ env.faults <= 1 /\ FlagsOK /\ OneStruck
         /\ env.faults \in Nat /\ env'.faults \in Nat /\ env'.faults <= env.faults
         /\ Sourced' /\ FlagsOK' /\ OneStruck' /\ env'.faults <= 1
         /\ env'.faults = 1 => env.faults = 1
<1>1. env.outages = 0 /\ env.faults <= 1 /\ FlagsOK /\ OneStruck /\ Sourced
  BY DEF MishapInv, Sourced
<1>2. /\ env.faults \in Nat /\ env'.faults \in Nat /\ env'.faults <= env.faults
  BY <1>1, PowerStays, FaultsFall
<1>3. env'.faults <= 1 /\ (env'.faults = 1 => env.faults = 1)
  BY <1>1, <1>2
<1> QED BY <1>1, <1>2, <1>3, ServerInvStep, WorkInvStep, StepIsSteady, SourcedStep,
           FlagsStep, OneStruckStep

(* As long as nothing is struck, whoever holds a run is well.                 *)
LEMMA HoldersAreWell ==
  ASSUME ServerInv, OneStruck, env.faults = 1, NEW p \in Procs, proc[p].pc \in Holding
  PROVE  Well(p)
<1>1. proc[p].run \in DOMAIN runs
  BY HolderFacts
<1>2. ~Struck(proc[p].run)
  BY <1>1 DEF OneStruck
<1> QED BY <1>2 DEF Struck

(* Processes that are well do not share a task.                               *)
LEMMA WellAlone ==
  ASSUME ServerInv, WorkInv, NEW p \in Procs, NEW q \in Procs, Well(p), Well(q),
         runs[proc[p].run].task = runs[proc[q].run].task
  PROVE  p = q
<1>1. PICK r1, r2 : r1 = proc[p].run /\ r2 = proc[q].run
  OBVIOUS
<1>2. /\ r1 \in DOMAIN runs /\ r2 \in DOMAIN runs /\ r1 \in Nat /\ r2 \in Nat
      /\ runs[r1].status = "running" /\ runs[r2].status = "running"
      /\ runs[r1].task = runs[r2].task
      /\ proc[p].pc \in Owners /\ proc[q].pc \in Owners
  BY <1>1, WellFacts DEF Well
<1>3. r1 = r2
  BY <1>2, RunningLatest DEF Earlier
<1> QED BY <1>1, <1>2, <1>3 DEF WorkInv, DistinctOwners

(* A file of the task that nobody well replaces is not replaced.              *)
LEMMA FileOfStays ==
  ASSUME ServerInv, WorkInv, OneStruck, env.faults = 1, env.outages = 0,
         [ServerNext]_runnerVars, NEW r \in DOMAIN runs,
         \A q \in Procs : Well(q) /\ proc[q].pc \in {"bind", "persist", "rebind"}
                            => runs[proc[q].run].task # runs[r].task
  PROVE  FileOf(r)' = FileOf(r)
BY FileOfMoves, HoldersAreWell

LEMMA FilesFollowStep ==
  ASSUME ServerInv, WorkInv, MishapInv, [ServerNext]_runnerVars
  PROVE  FilesFollow'
<1> SUFFICES ASSUME env'.faults = 1
             PROVE  /\ \A p \in Procs : proc'[p].pc = "finish" =>
                         files'[proc'[p].sess.id] = proc'[p].sess
                    /\ \A r \in DOMAIN runs' :
                         IsLatestRun(runs[r].task, r)' /\ runs'[r].status # "running" =>
                           FileOf(r)' = SessionOf(r)'
  BY DEF FilesFollow
<1>1. /\ env.faults = 1 /\ env.outages = 0 /\ OneStruck /\ Steady
  BY MishapFacts
<1>2. /\ \A p \in Procs : proc[p].pc = "finish" => files[proc[p].sess.id] = proc[p].sess
      /\ \A r \in DOMAIN runs :
           IsLatestRun(runs[r].task, r) /\ runs[r].status # "running" =>
             FileOf(r) = SessionOf(r)
  BY <1>1 DEF MishapInv, FilesFollow
<1>3. ASSUME NEW p \in Procs, proc'[p].pc = "finish"
      PROVE  files'[proc'[p].sess.id] = proc'[p].sess
  <2>1. CASE GoesOn(p)
    BY <1>3, <2>1 DEF GoesOn
  <2>2. CASE Keeps(p)
    <3>1. /\ proc[p].pc = "finish" /\ proc'[p].sess = proc[p].sess
          /\ proc[p].pc \in Holding /\ proc[p].pc \in Owning
      BY <1>3, <2>2 DEF Keeps, Holding, Owners, Owning, InLoop
    <3>2. PICK r : r = proc[p].run
      OBVIOUS
    <3>3. r \in DOMAIN runs /\ Bound(proc[p].sess, r) /\ Well(p)
      BY <1>1, <3>1, <3>2, HolderFacts, HoldersAreWell
    <3>4. FileOf(r) = files[proc[p].sess.id]
      BY <3>3 DEF FileOf, Bound
    <3>5. FileOf(r)' = files'[proc[p].sess.id]
      BY <1>1, <3>3 DEF FileOf, Bound, Steady
    <3>6. FileOf(r)' = FileOf(r)
      BY <1>1, <3>1, <3>2, <3>3, FileOfStays, WellAlone
    <3> QED BY <1>2, <3>1, <3>4, <3>5, <3>6
  <2>3. ~Frees(p) /\ ~Prepares(p) /\ ~Takes(p) /\ ~Binds(p) /\ ~Loads(p) /\ ~Restores(p)
    BY <1>3 DEF Frees, Prepares, Takes, Binds, Loads, Restores,
                Holding, Owners, Owning, InLoop, Recovering
  <2> QED BY <2>1, <2>2, <2>3, StepMoves DEF Moves
<1>4. ASSUME NEW r \in DOMAIN runs', IsLatestRun(runs[r].task, r)',
             runs'[r].status # "running"
      PROVE  FileOf(r)' = SessionOf(r)'
  <2>1. r \in DOMAIN runs
    <3> SUFFICES ASSUME r \notin DOMAIN runs PROVE FALSE
      OBVIOUS
    <3>1. PICK p \in Procs : Claims(p)
      BY RunsGrow
    <3>2. PICK auth, q : StartOwnedAttempt(auth, q, Len(runs) + 1)
      BY <3>1 DEF Claims
    <3>3. runs'[r].status = "running"
      BY <3>2, ClaimedRow
    <3> QED BY <1>4, <3>3
  <2>2. IsLatestRun(runs[r].task, r)
    BY <1>1, <1>4, <2>1 DEF IsLatestRun, RunsOf, Steady
  <2>3. CASE runs[r].status # "running"
    <3>1. ASSUME NEW q \in Procs, Well(q) PROVE runs[proc[q].run].task # runs[r].task
      <4>1. PICK r2 : r2 = proc[q].run
        OBVIOUS
      <4>2. r2 \in DOMAIN runs /\ r2 \in Nat /\ runs[r2].status = "running"
        BY <3>1, <4>1, WellFacts DEF Well
      <4>3. r \in Nat
        BY <2>1, DatabaseFacts DEF ServerInv
      <4>4. runs[r2].task = runs[r].task => r2 <= r /\ r < r2
        BY <2>1, <2>2, <2>3, <4>2, RunningLatest DEF Earlier, IsLatestRun, RunsOf
      <4> QED BY <4>1, <4>2, <4>3, <4>4
    <3>2. FileOf(r)' = FileOf(r)
      BY <1>1, <2>1, <3>1, FileOfStays
    <3>3. SessionOf(r)' = SessionOf(r)
      BY <1>1, <2>1, <2>3 DEF Steady, SessionOf
    <3> QED BY <1>2, <2>1, <2>2, <2>3, <3>2, <3>3
  <2>4. CASE runs[r].status = "running"
    <3>1. PICK q \in Procs : /\ Ends(q) /\ proc[q].run = r
                             /\ runs'[r].work = Work(proc[q].sess)
      BY <1>4, <2>1, <2>4, RunChanges
    <3>2. /\ proc[q].pc \in {"finish", "reconcile"} /\ proc[q].pc \in Holding
          /\ proc[q].pc \in Owning \cup Recovering
      BY <3>1, WriterFacts DEF Ends
    <3>3. proc[q].pc = "finish"
      BY <1>1, <3>2, HoldersAreWell
         DEF Well, Owners, Owning, InLoop
    <3>4. Bound(proc[q].sess, r)
      BY <3>1, <3>2, HolderFacts
    <3>5. FileOf(r) = proc[q].sess
      BY <1>2, <3>3, <3>4 DEF FileOf, Bound
    <3>6. FileOf(r)' = FileOf(r)
      BY <1>1, <1>4, <2>1, <2>4, FileOfMoves
    <3>7. SessionOf(r)' = proc[q].sess
      BY <3>1 DEF SessionOf, Work
    <3> QED BY <3>5, <3>6, <3>7
  <2> QED BY <2>3, <2>4
<1> QED BY <1>3, <1>4

(* The session prepared for a resume goes on where the row of its candidate   *)
(* stands.                                                                    *)
LEMMA PreparedGoesOn ==
  ASSUME ServerInv, NEW r \in DOMAIN runs, runs[r].status # "running"
  PROVE  /\ SessionOf(r) # NoSession /\ SessionOf(r) \in SessionRow
         /\ Prepared(r).next = SessionOf(r).next
         /\ Prepared(r).failAt = SessionOf(r).failAt
         /\ Prepared(r).id = SessionOf(r).id
<1>1. PICK s : s = SessionOf(r)
  OBVIOUS
<1>2. s # NoSession /\ Sound(s) /\ s \in SessionRow
  BY <1>1, RunFacts DEF ServerInv, RowOK, Bound, Sound
<1>3. Restore(runs[r].work.checkpoint, runs[r].grant.session) = s
  BY <1>1, <1>2 DEF Restore, SessionOf
<1>4. Prepared(r) \in {ContinueAttempt(s), BeginAttempt(s, s.plan.budget, "fresh")}
  BY <1>3, Zenon DEF Prepared
<1>5. /\ ContinueAttempt(s).next = s.next /\ ContinueAttempt(s).failAt = s.failAt
      /\ ContinueAttempt(s).id = s.id
  BY <1>2, ContinueIsSound
<1>6. LET b == BeginAttempt(s, s.plan.budget, "fresh")
      IN b.next = s.next /\ b.failAt = s.failAt /\ b.id = s.id
  BY <1>2 DEF BeginAttempt, SessionRow
<1> QED BY <1>1, <1>2, <1>4, <1>5, <1>6

(* A claim goes on with the directive as the attempts before have left it.    *)
LEMMA TakenIsAbreast ==
  ASSUME ServerInv, RowsAbreast, NEW p \in Procs, Takes(p), NEW new, new = Len(runs) + 1,
         SpentBefore(new)'
  PROVE  proc[p].sess.failAt = 0
<1>1. PICK r1 : Earlier(r1, new)' /\ SessionOf(r1)'.failAt = 0
  BY DEF SpentBefore
<1>2. /\ \A r \in DOMAIN runs' : r # new => r \in DOMAIN runs /\ runs'[r] = runs[r]
      /\ \/ \A r : ~Earlier(r, new)'
         \/ \E r : /\ Resumed(p, r)
                   /\ \A i : Earlier(i, new)' => i = r \/ Earlier(i, r)
  BY ClaimSees
<1>3. PICK r : Resumed(p, r) /\ (r1 = r \/ Earlier(r1, r))
  BY <1>1, <1>2
<1>4. r \in DOMAIN runs /\ runs[r].status # "running" /\ proc[p].sess = Prepared(r)
  BY <1>3 DEF Resumed
<1>5. proc[p].sess.failAt = SessionOf(r).failAt /\ SessionOf(r) # NoSession
  BY <1>4, PreparedGoesOn
<1>6. r1 \in DOMAIN runs /\ runs'[r1] = runs[r1]
  <2>1. r1 \in DOMAIN runs
    BY <1>3, <1>4 DEF Earlier
  <2>2. r1 # new
    BY <2>1, ClaimSees
  <2> QED BY <1>1, <1>2, <2>2 DEF Earlier
<1>7. SessionOf(r1).failAt = 0
  BY <1>1, <1>6 DEF SessionOf
<1>8. CASE r1 = r
  BY <1>5, <1>7, <1>8
<1>9. CASE Earlier(r1, r)
  BY <1>4, <1>5, <1>6, <1>7, <1>9 DEF RowsAbreast, Abreast, SpentBefore
<1> QED BY <1>3, <1>8, <1>9

LEMMA LocalAbreastStep ==
  ASSUME ServerInv, WorkInv, MishapInv, [ServerNext]_runnerVars, NEW p \in Procs
  PROVE  LocalAbreast(proc[p])'
<1>1. PICK r, s, t : r = proc'[p].run /\ s = proc[p].sess /\ t = proc'[p].sess
  OBVIOUS
<1> DEFINE Goal == /\ proc'[p].pc = "bind" => (SpentBefore(r)' => t.failAt = 0)
                   /\ proc'[p].pc \in Owning \cup Recovering => Abreast(t, r)'
                   /\ proc'[p].pc = "load" /\ t # NoSession => Abreast(t, r)'
<1> SUFFICES Goal
  BY <1>1 DEF LocalAbreast, Abreast, SpentBefore, Earlier, From
<1>2. LocalAbreast(proc[p]) /\ RowsAbreast /\ FilesAbreast
  BY DEF MishapInv, LocalsAbreast
<1>3. LocalOK(proc[p])'
  BY ServerInvStep DEF ServerInv, LocalsOK
<1>4. proc'[p].pc \in Owning \cup Recovering => t.run = r /\ Bound(t, r)'
  BY <1>1, <1>3 DEF LocalOK, Working, Bound
<1>5. proc'[p].pc \in Owning => runs'[r].grant.startStep <= From(t, r)
  <2>1. proc'[p].pc \in Owning => t.start = runs'[r].grant.startStep /\ t.start \in Nat
    BY <1>1, <1>3, <1>4 DEF LocalOK, Bound, Sound, SessionRow
  <2> QED BY <1>4, <2>1 DEF From
<1>6. CASE proc'[p].pc \notin Holding
  BY <1>6 DEF Holding, Owners
<1>7. CASE Takes(p)
  BY <1>1, <1>2, <1>7, TakenIsAbreast
     DEF Takes, Owning, InLoop, Recovering
<1>8. ASSUME r = proc[p].run, proc[p].pc \in Holding PROVE r \in DOMAIN runs
  BY <1>8, HolderFacts
<1>9. CASE Binds(p)
  <2>1. /\ proc[p].pc = "bind" /\ proc'[p].pc = "publish" /\ r = proc[p].run
        /\ t.failAt = s.failAt /\ t.halt = "running"
    BY <1>1, <1>9 DEF Binds
  <2>2. r \in DOMAIN runs
    BY <1>8, <2>1 DEF Holding, Owners
  <2>3. SpentBefore(r)' => t.failAt = 0
    BY <1>1, <1>2, <2>1, <2>2, SpentStays DEF LocalAbreast
  <2>4. proc'[p].pc \in Owning
    BY <2>1 DEF Owning
  <2> QED BY <1>5, <2>1, <2>3, <2>4 DEF Abreast, From
<1>10. CASE GoesOn(p)
  <2>1. /\ proc[p].pc \in Owning /\ proc'[p].pc \in Owning /\ r = proc[p].run
        /\ s.failAt = 0 /\ s.halt # "agent_error" => t.failAt = 0 /\ t.halt # "agent_error"
    BY <1>1, <1>10 DEF GoesOn
  <2>2. r \in DOMAIN runs /\ s.run = r
    BY <1>1, <1>8, <2>1, HolderFacts DEF Holding, Owners, Bound
  <2>3. Abreast(s, r)
    BY <1>1, <1>2, <2>1 DEF LocalAbreast
  <2>4. SpentBefore(r)' => t.failAt = 0 /\ t.halt # "agent_error"
    BY <2>1, <2>2, <2>3, SpentStays DEF Abreast
  <2>5. proc'[p].pc # "bind" /\ proc'[p].pc # "load"
    BY <2>1 DEF Owning, InLoop
  <2> QED BY <1>5, <2>1, <2>4, <2>5 DEF Abreast, From
<1>11. CASE Loads(p)
  <2>1. r \in DOMAIN runs /\ proc'[p].pc = "load" /\ t = SessionOf(r)
    BY <1>1, <1>11 DEF Loads, Expired
  <2>2. t # NoSession => Abreast(t, r)'
    BY <1>2, <2>1, AbreastStays DEF RowsAbreast
  <2> QED BY <2>1, <2>2 DEF Owning, InLoop, Recovering
<1>12. CASE Restores(p)
  <2>1. proc[p].pc = "load" /\ proc[p].pc \in Holding /\ r = proc[p].run
    BY <1>1, <1>12 DEF Restores, Holding
  <2>2. r \in DOMAIN runs
    BY <1>8, <2>1
  <2>3. proc'[p].pc \in Recovering /\ proc'[p].pc # "bind" /\ proc'[p].pc # "load"
    BY <1>12 DEF Restores, Recovering
  <2>4. CASE s # NoSession /\ t = s
    BY <1>1, <1>2, <2>1, <2>2, <2>3, <2>4, AbreastStays DEF LocalAbreast
  <2>5. CASE s = NoSession
    <3>1. Abreast(FileOf(r), r)
      <4>1. ~Well(p)
        BY <2>1 DEF Well, Owners, Owning, InLoop
      <4> QED BY <1>2, <2>1, <2>2, <4>1 DEF FilesAbreast, Exposed, Struck
    <3>2. PICK f : f = FileOf(r)
      OBVIOUS
    <3>3. Abreast(f, r)'
      BY <2>2, <3>1, <3>2, AbreastStays
    <3>4. CASE t = f
      BY <2>3, <3>3, <3>4
    <3>5. CASE /\ f.run < r /\ t.start = f.next /\ t.failAt = f.failAt
               /\ t.halt = "running"
      <4>1. f.run # r
        <5>1. r \in Nat
          BY <2>2, DatabaseFacts DEF ServerInv
        <5> QED BY <3>5, <5>1
      <4>2. runs'[r].grant.startStep <= f.next /\ (SpentBefore(r)' => f.failAt = 0)
        BY <3>3, <4>1 DEF Abreast, From
      <4>3. t.run = r
        BY <1>4, <2>3
      <4> QED BY <2>3, <3>5, <4>2, <4>3 DEF Abreast, From
    <3> QED BY <1>1, <1>12, <2>1, <2>5, <3>2, <3>4, <3>5 DEF Restores, FileOf
  <2> QED BY <1>1, <1>12, <2>4, <2>5 DEF Restores
<1>13. CASE Keeps(p)
  <2>1. /\ r = proc[p].run /\ t = s
        /\ \/ proc'[p].pc = proc[p].pc
           \/ proc[p].pc \in Recovering /\ proc'[p].pc \in Recovering
    BY <1>1, <1>13 DEF Keeps, Recovering
  <2>2. CASE proc[p].pc \in Holding
    <3>1. r \in DOMAIN runs
      BY <1>8, <2>1, <2>2
    <3>2. Abreast(s, r) => Abreast(t, r)'
      BY <2>1, <3>1, AbreastStays
    <3>3. SpentBefore(r)' => SpentBefore(r)
      BY <3>1, SpentStays
    <3>4. proc'[p].pc \in Recovering => proc'[p].pc # "bind" /\ proc'[p].pc # "load"
      BY DEF Recovering
    <3> QED BY <1>1, <1>2, <2>1, <3>2, <3>3, <3>4 DEF LocalAbreast
  <2>3. CASE proc[p].pc \notin Holding
    BY <1>6, <2>1, <2>3 DEF Holding
  <2> QED BY <2>2, <2>3
<1>14. Frees(p) \/ Prepares(p) => proc'[p].pc \notin Holding
  BY DEF Frees, Prepares, Holding, Owners, Owning, InLoop, Recovering
<1> QED BY <1>6, <1>7, <1>9, <1>10, <1>11, <1>12, <1>13, <1>14, StepMoves DEF Moves

(* A process that is well and holds another run of the task of r leaves a     *)
(* file that r can go on with, for its run is the later one.                  *)
LEMMA LaterIsAbreast ==
  ASSUME ServerInv, MishapInv, NEW r \in DOMAIN runs, NEW q \in Procs, Well(q),
         NEW rq, rq = proc[q].run, rq # r, runs[rq].task = runs[r].task,
         NEW s, Abreast(s, rq), s.run = rq, s.start \in Nat, s.next \in Nat,
         s.start <= s.next
  PROVE  Abreast(s, r)
<1>1. rq \in DOMAIN runs /\ runs[rq].status = "running"
  BY WellFacts DEF Well
<1>2. Earlier(r, rq)
  BY <1>1, RunningLatest
<1>3. SessionOf(r) # NoSession /\ Bound(SessionOf(r), r)
  BY <1>2, EarlierHasEnded
<1>4. Abreast(SessionOf(r), r) /\ SessionOf(r).next <= runs[rq].grant.startStep
  BY <1>2, <1>3 DEF MishapInv, RowsAbreast, Chained
<1>5. /\ SessionOf(r).run = r /\ SessionOf(r).start \in Nat /\ SessionOf(r).next \in Nat
      /\ SessionOf(r).start <= SessionOf(r).next
  BY <1>3, SoundFields DEF Bound, Sound
<1>6. runs[r].grant.startStep \in Nat /\ runs[rq].grant.startStep \in Nat
  BY <1>1, DatabaseFacts DEF ServerInv, GrantRow
<1>7. runs[r].grant.startStep <= s.next
  <2>1. runs[r].grant.startStep <= SessionOf(r).start
    BY <1>4, <1>5 DEF Abreast, From
  <2>2. runs[rq].grant.startStep <= s.start
    BY DEF Abreast, From
  <2> QED BY <1>4, <1>5, <1>6, <2>1, <2>2
<1>8. SpentBefore(r) => SpentBefore(rq)
  <2>1. r \in Nat /\ rq \in Nat /\ \A r1 \in DOMAIN runs : r1 \in Nat
    BY <1>1, DatabaseFacts DEF ServerInv
  <2>2. ASSUME NEW r1 \in DOMAIN runs, Earlier(r1, r) PROVE Earlier(r1, rq)
    BY <1>2, <2>1, <2>2 DEF Earlier
  <2> QED BY <2>2 DEF SpentBefore
<1> QED BY <1>7, <1>8 DEF Abreast, From

LEMMA OldFilesAbreast ==
  ASSUME ServerInv, WorkInv, MishapInv, [ServerNext]_runnerVars,
         NEW r \in DOMAIN runs, Exposed(r)'
  PROVE  Abreast(FileOf(r), r)'
<1>1. PICK f, g : f = FileOf(r) /\ g = FileOf(r)'
  OBVIOUS
<1>2. /\ ServerInv' /\ env.outages = 0 /\ env.faults <= 1 /\ FlagsOK /\ OneStruck
  BY MishapFacts
<1>3. Exposed(r)
  BY <1>2, ExposedStays
<1>4. Abreast(f, r)
  BY <1>1, <1>3 DEF MishapInv, FilesAbreast
<1> SUFFICES Abreast(g, r)'
  BY <1>1 DEF Abreast, From, SpentBefore
<1>5. CASE g = f
  BY <1>4, <1>5, AbreastStays
<1>6. ASSUME NEW q \in Procs, NEW rq, rq = proc[q].run,
             proc[q].pc \in Holding, rq \in DOMAIN runs, runs[rq].task = runs[r].task,
             proc'[q].pc \in Owning \cup Recovering, proc'[q].run = rq,
             g = proc'[q].sess, UNCHANGED runs
      PROVE  Abreast(g, r)'
  <2>1. Abreast(g, rq)'
    <3>1. LocalAbreast(proc[q])'
      BY LocalAbreastStep
    <3> QED BY <1>6, <3>1 DEF LocalAbreast, Abreast, From, SpentBefore
  <2>2. Bound(g, rq)'
    <3>1. LocalOK(proc[q])'
      BY <1>2 DEF ServerInv, LocalsOK
    <3> QED BY <1>6, <3>1 DEF LocalOK, Working
  <2>3. /\ g.run = rq /\ g.start \in Nat /\ g.next \in Nat /\ g.start <= g.next
    BY <2>2 DEF Bound, Sound, SessionRow
  <2>4. CASE rq = r
    BY <2>1, <2>4
  <2>5. CASE rq # r
    <3>1. Well(q)
      <4> SUFFICES ASSUME ~Well(q) PROVE FALSE
        OBVIOUS
      <4>1. Struck(rq)
        BY <1>6 DEF Struck
      <4>2. ~Struck(r) /\ env.faults = 0
        BY <1>2, <1>6, <2>5, <4>1 DEF OneStruck
      <4> QED BY <1>3, <4>2 DEF Exposed
    <3>2. Abreast(g, rq)
      BY <1>6, <2>1 DEF Abreast, From, SpentBefore, Earlier, SessionOf
    <3>3. Abreast(g, r)
      BY <1>6, <2>3, <2>5, <3>1, <3>2, LaterIsAbreast
    <3> QED BY <3>3, AbreastStays
  <2> QED BY <2>4, <2>5
<1> QED BY <1>1, <1>2, <1>5, <1>6, FileOfMoves

(* A claim replaces no file.                                                  *)
LEMMA ClaimedFile ==
  ASSUME ServerInv, Sourced, [ServerNext]_runnerVars, NEW p \in Procs, Takes(p),
         NEW new, new = Len(runs) + 1
  PROVE  FileOf(new)' = files[proc[p].sess.id] /\ files[proc[p].sess.id] \in SessionRow
<1>1. PICK id : id = proc[p].sess.id
  OBVIOUS
<1>2. id \in SessionIds
  <2>1. proc[p].pc = "claim"
    BY DEF Takes, Claims
  <2>2. Sound(proc[p].sess)
    BY <2>1 DEF ServerInv, LocalsOK, LocalOK, Claiming
  <2> QED BY <1>1, <2>2, SoundFields
<1>3. runs' # runs /\ FileOf(new)' = files'[id]
  BY <1>1, ClaimSees DEF FileOf
<1>4. files'[id] = files[id]
  <2>1. FileMoves(id) /\ ~Outage
    BY <1>2, FilesMove, PowerStays DEF Sourced
  <2> QED BY <1>3, <2>1 DEF FileMoves, Replaces
<1>5. files[id] # NoSession
  BY <1>1 DEF Sourced, Takes, Claims
<1> QED BY <1>1, <1>2, <1>3, <1>4, <1>5 DEF ServerInv, FilesTyped

LEMMA NewFileAbreast ==
  ASSUME ServerInv, WorkInv, MishapInv, [ServerNext]_runnerVars,
         NEW r \in DOMAIN runs', r \notin DOMAIN runs, Exposed(r)'
  PROVE  Abreast(FileOf(r), r)'
<1>1. PICK p \in Procs : Takes(p)
  BY RunsGrow, ClaimsTake
<1>2. r = Len(runs) + 1
  <2>1. PICK auth, q : StartOwnedAttempt(auth, q, Len(runs) + 1)
    BY <1>1 DEF Takes, Claims
  <2> QED BY <2>1, ClaimedRow
<1>3. /\ env.outages = 0 /\ env.faults <= 1 /\ FlagsOK /\ Sourced /\ RowsAbreast
      /\ env.faults \in Nat /\ env'.faults \in Nat /\ (env'.faults = 1 => env.faults = 1)
  BY MishapFacts DEF MishapInv
<1>4. env.faults = 1
  <2>1. Struck(r)' => env'.faults < env.faults
    BY <1>3, StruckStep
  <2> QED BY <1>3, <2>1 DEF Exposed
<1>5. PICK f : f = FileOf(r)'
  OBVIOUS
<1>6. f = files[proc[p].sess.id] /\ f \in SessionRow
  BY <1>1, <1>2, <1>3, <1>5, ClaimedFile
<1>7. runs'[r].grant.startStep = proc[p].sess.next
  BY <1>1, <1>2, ClaimSees
<1> SUFFICES Abreast(f, r)'
  BY <1>5 DEF Abreast, From, SpentBefore
<1>8. CASE proc[p].sess.next = 0 /\ \A r1 : ~Earlier(r1, r)'
  <2>1. ~SpentBefore(r)'
    BY <1>8 DEF SpentBefore
  <2>2. From(f, r) \in Nat
    BY <1>6 DEF From, SessionRow
  <2> QED BY <1>7, <1>8, <2>1, <2>2 DEF Abreast, From
<1>9. ASSUME NEW c, Resumed(p, c) PROVE Abreast(f, r)'
  <2>1. /\ c \in DOMAIN runs /\ runs[c].status # "running"
        /\ IsLatestRun(runs[c].task, c) /\ proc[p].sess = Prepared(c)
    BY <1>9 DEF Resumed
  <2>2. FileOf(c) = SessionOf(c)
    BY <1>4, <2>1 DEF MishapInv, FilesFollow
  <2>3. /\ SessionOf(c) # NoSession /\ proc[p].sess.next = SessionOf(c).next
        /\ proc[p].sess.failAt = SessionOf(c).failAt /\ proc[p].sess.id = SessionOf(c).id
    BY <2>1, PreparedGoesOn
  <2>4. Bound(SessionOf(c), c)
    BY <2>1, <2>3, RunFacts DEF ServerInv, RowOK
  <2>5. f = SessionOf(c) /\ f.run # r
    BY <1>2, <1>6, <2>1, <2>2, <2>3, <2>4 DEF FileOf, Bound
  <2>6. SpentBefore(r)' => f.failAt = 0
    BY <1>1, <1>2, <1>3, <2>3, <2>5, TakenIsAbreast
  <2>7. f.next \in Nat
    BY <1>6 DEF SessionRow
  <2> QED BY <1>7, <2>3, <2>5, <2>6, <2>7 DEF Abreast, From
<1> QED BY <1>1, <1>2, <1>8, <1>9, ClaimSees

LEMMA RowsAbreastStep ==
  ASSUME ServerInv, WorkInv, MishapInv, [ServerNext]_runnerVars
  PROVE  RowsAbreast'
<1> SUFFICES ASSUME NEW r \in DOMAIN runs', SessionOf(r)' # NoSession
             PROVE  Abreast(SessionOf(r), r)'
  BY DEF RowsAbreast
<1>1. PICK s : s = SessionOf(r)'
  OBVIOUS
<1> SUFFICES Abreast(s, r)'
  BY <1>1 DEF Abreast, From, SpentBefore
<1>2. r \in DOMAIN runs
  <2> SUFFICES ASSUME r \notin DOMAIN runs PROVE FALSE
    OBVIOUS
  <2>1. PICK p \in Procs : Takes(p)
    BY RunsGrow, ClaimsTake
  <2>2. r = Len(runs) + 1
    <3>1. PICK auth, q : StartOwnedAttempt(auth, q, Len(runs) + 1)
      BY <2>1 DEF Takes, Claims
    <3> QED BY <3>1, ClaimedRow
  <2>3. runs'[r].work = NoWork
    BY <2>1, <2>2, ClaimSees
  <2> QED BY <2>3, RunnerAssumption DEF SessionOf
<1>3. CASE runs'[r].work = runs[r].work
  <2>1. s = SessionOf(r)
    BY <1>1, <1>3 DEF SessionOf
  <2>2. Abreast(s, r)
    BY <1>1, <1>2, <2>1 DEF MishapInv, RowsAbreast
  <2> QED BY <1>2, <2>2, AbreastStays
<1>4. ASSUME NEW q \in Procs, Publishes(q) \/ Ends(q), proc[q].run = r,
             runs'[r].work = Work(proc[q].sess)
      PROVE  Abreast(s, r)'
  <2>1. s = proc[q].sess
    BY <1>1, <1>4 DEF SessionOf, Work
  <2>2. proc[q].pc \in Owning \cup Recovering
    BY <1>4, WriterFacts
  <2>3. Abreast(s, r)
    BY <1>4, <2>1, <2>2 DEF MishapInv, LocalsAbreast, LocalAbreast
  <2> QED BY <1>2, <2>3, AbreastStays
<1> QED BY <1>2, <1>3, <1>4, RunChanges

(* A row stands between where its run starts and where the next one does.     *)
LEMMA RowAdvances ==
  ASSUME ServerInv, RowsAbreast, NEW r \in DOMAIN runs, SessionOf(r) # NoSession
  PROVE  /\ runs[r].grant.startStep \in Nat /\ SessionOf(r).start \in Nat
         /\ SessionOf(r).next \in Nat /\ SessionOf(r).run = r
         /\ runs[r].grant.startStep <= SessionOf(r).start
         /\ SessionOf(r).start <= SessionOf(r).next
<1>1. Bound(SessionOf(r), r)
  BY RunFacts DEF ServerInv, RowOK
<1>2. /\ SessionOf(r).run = r /\ SessionOf(r).start \in Nat /\ SessionOf(r).next \in Nat
      /\ SessionOf(r).start <= SessionOf(r).next
  BY <1>1, SoundFields DEF Bound, Sound
<1>3. runs[r].grant.startStep \in Nat
  BY DatabaseFacts DEF ServerInv, GrantRow
<1> QED BY <1>2, <1>3 DEF RowsAbreast, Abreast, From

LEMMA NewRun ==
  ASSUME ServerInv, [ServerNext]_runnerVars, NEW r \in DOMAIN runs', r \notin DOMAIN runs
  PROVE  r = Len(runs) + 1 /\ \E p \in Procs : Takes(p)
<1>1. PICK p \in Procs : Takes(p)
  BY RunsGrow, ClaimsTake
<1>2. PICK auth, q : StartOwnedAttempt(auth, q, Len(runs) + 1)
  BY <1>1 DEF Takes, Claims
<1> QED BY <1>1, <1>2, ClaimedRow

LEMMA UnfinishedStep ==
  ASSUME ServerInv, WorkInv, MishapInv, [ServerNext]_runnerVars
  PROVE  Unfinished'
<1>1. ASSUME NEW r \in DOMAIN runs', runs'[r].status = "running"
      PROVE  runs'[r].exit = ""
  <2>1. CASE r \notin DOMAIN runs
    BY <2>1, NewRun, ClaimSees
  <2>2. CASE r \in DOMAIN runs
    <3>1. runs[r].status = "running"
      BY <1>1, <2>2, StepIsSteady DEF Steady
    <3>2. runs[r].exit = ""
      BY <2>2, <3>1 DEF MishapInv, Unfinished
    <3> QED BY <1>1, <2>2, <3>2, RunChanges
  <2> QED BY <2>1, <2>2
<1>2. ASSUME NEW r1, NEW r2, Earlier(r1, r2)' PROVE runs'[r1].exit # "completed"
  <2>1. CASE r2 \in DOMAIN runs
    BY <1>2, <2>1, HistoryStays DEF MishapInv, Unfinished
  <2>2. CASE r2 \notin DOMAIN runs
    <3>1. r2 \in DOMAIN runs' /\ r1 \in DOMAIN runs'
      BY <1>2 DEF Earlier
    <3>2. PICK p \in Procs : Takes(p) /\ r2 = Len(runs) + 1
      BY <2>2, <3>1, NewRun
    <3>3. PICK r : Resumed(p, r) /\ (r1 = r \/ Earlier(r1, r))
      BY <1>2, <3>2, ClaimSees
    <3>4. r1 \in DOMAIN runs /\ runs[r1].exit # "completed"
      BY <3>3 DEF Resumed, MishapInv, Unfinished, Earlier
    <3>5. r1 # r2
      BY <2>2, <3>4
    <3> QED BY <3>1, <3>2, <3>4, <3>5, ClaimSees
  <2> QED BY <2>1, <2>2
<1> QED BY <1>1, <1>2 DEF Unfinished

LEMMA ChainedStep ==
  ASSUME ServerInv, WorkInv, MishapInv, [ServerNext]_runnerVars
  PROVE  Chained'
<1> SUFFICES ASSUME NEW r1, NEW r2, Earlier(r1, r2)'
             PROVE  SessionOf(r1)'.next <= runs'[r2].grant.startStep
  BY DEF Chained
<1>1. CASE r2 \in DOMAIN runs
  <2>1. Earlier(r1, r2) /\ runs'[r1] = runs[r1]
    BY <1>1, HistoryStays
  <2>2. SessionOf(r1)' = SessionOf(r1) /\ runs'[r2].grant = runs[r2].grant
    BY <1>1, <2>1, StepIsSteady DEF SessionOf, Steady
  <2> QED BY <2>1, <2>2 DEF MishapInv, Chained
<1>2. CASE r2 \notin DOMAIN runs
  <2>1. r2 \in DOMAIN runs' /\ r1 \in DOMAIN runs'
    BY DEF Earlier
  <2>2. PICK p \in Procs : Takes(p) /\ r2 = Len(runs) + 1
    BY <1>2, <2>1, NewRun
  <2>3. PICK r : Resumed(p, r) /\ (r1 = r \/ Earlier(r1, r))
    BY <2>2, ClaimSees
  <2>4. r1 \in DOMAIN runs /\ r \in DOMAIN runs
    BY <2>3 DEF Resumed, Earlier
  <2>5. SessionOf(r1)' = SessionOf(r1)
    <3>1. r1 # r2
      BY <1>2, <2>4
    <3>2. runs'[r1] = runs[r1]
      BY <2>1, <2>2, <3>1, ClaimSees
    <3> QED BY <3>2 DEF SessionOf
  <2>6. runs'[r2].grant.startStep = SessionOf(r).next /\ SessionOf(r) # NoSession
    <3>1. runs[r].status # "running" /\ proc[p].sess = Prepared(r)
      BY <2>3 DEF Resumed
    <3>2. runs'[r2].grant.startStep = proc[p].sess.next
      BY <2>2, ClaimSees
    <3> QED BY <2>4, <3>1, <3>2, PreparedGoesOn
  <2>7. /\ SessionOf(r).next \in Nat /\ runs[r].grant.startStep \in Nat
        /\ runs[r].grant.startStep <= SessionOf(r).next
    <3>1. RowsAbreast
      BY DEF MishapInv
    <3> QED BY <2>4, <2>6, <3>1, RowAdvances
  <2>8. CASE r1 = r
    BY <2>5, <2>6, <2>7, <2>8
  <2>9. CASE Earlier(r1, r)
    <3>1. SessionOf(r1).next <= runs[r].grant.startStep
      BY <2>9 DEF MishapInv, Chained
    <3>2. SessionOf(r1).next \in Nat
      BY <2>9, EarlierHasEnded, SoundFields DEF Bound
    <3> QED BY <2>5, <2>6, <2>7, <3>1, <3>2
  <2> QED BY <2>3, <2>8, <2>9
<1> QED BY <1>1, <1>2

LEMMA MishapInvStep ==
  ASSUME ServerInv, WorkInv, MishapInv, [ServerNext]_runnerVars
  PROVE  MishapInv'
<1>1. Sourced' /\ FlagsOK' /\ OneStruck' /\ env'.faults <= 1
  BY MishapFacts
<1>2. FilesAbreast'
  <2>1. ASSUME NEW r \in DOMAIN runs', Exposed(r)' PROVE Abreast(FileOf(r), r)'
    BY <2>1, OldFilesAbreast, NewFileAbreast
  <2> QED BY <2>1 DEF FilesAbreast
<1>3. LocalsAbreast'
  BY LocalAbreastStep DEF LocalsAbreast
<1> QED BY <1>1, <1>2, <1>3, FilesFollowStep, RowsAbreastStep, UnfinishedStep, ChainedStep
        DEF MishapInv

LEMMA MishapInvInit ==
  ASSUME OneFault, NeverUpgraded, RunnerInit
  PROVE  MishapInv
<1>1. env \in Scenarios /\ env.faults <= 1 /\ env.outages = 0
  BY DEF OneFault, RunnerInit
<1>2. /\ runs = << >> /\ \A p \in Procs : proc[p] = Idle
  BY <1>1 DEF RunnerInit, NeverUpgraded, NewInbox, StoreInit
<1>3. DOMAIN runs = {}
  BY <1>2
<1>4. \A p \in Procs : proc[p].pc = "idle" /\ ~proc[p].leaseLost
  <2>1. Idle.pc = "idle" /\ ~Idle.leaseLost
    BY DEF Idle
  <2> QED BY <1>2, <2>1
<1>5. Sourced /\ FlagsOK /\ OneStruck
  BY <1>1, <1>3, <1>4 DEF Sourced, FlagsOK, OneStruck
<1>6. FilesFollow /\ FilesAbreast /\ RowsAbreast
  BY <1>3, <1>4 DEF FilesFollow, FilesAbreast, RowsAbreast
<1>7. LocalsAbreast
  BY <1>4 DEF LocalsAbreast, LocalAbreast, Owning, InLoop, Recovering
<1>8. Unfinished /\ Chained
  BY <1>3 DEF Unfinished, Chained, Earlier
<1> QED BY <1>1, <1>5, <1>6, <1>7, <1>8 DEF MishapInv

LEMMA MishapInvariant ==
  ASSUME OneFault
  PROVE  NeverUpgraded /\ ServerSpec => [](ServerInv /\ WorkInv /\ MishapInv)
<1>1. NeverUpgraded /\ RunnerInit => ServerInv /\ WorkInv /\ MishapInv
  BY ServerInvInit, WorkInvInit, MishapInvInit
<1>2. ServerInv /\ WorkInv /\ MishapInv /\ [ServerNext]_runnerVars
        => ServerInv' /\ WorkInv' /\ MishapInv'
  BY ServerInvStep, WorkInvStep, MishapInvStep
<1> QED BY <1>1, <1>2, PTL DEF ServerSpec

-----------------------------------------------------------------------------
(* What one fault cannot do. *)

(* The exit of a run that ended is that of the halt in its row.               *)
LEMMA ExitIsHalt ==
  ASSUME ServerInv, NEW r \in DOMAIN runs, runs[r].status # "running",
         NEW exit \in {"completed", "agent_error"}
  PROVE  /\ SessionOf(r) # NoSession /\ Bound(SessionOf(r), r)
         /\ SessionOf(r).halt = exit <=> runs[r].exit = exit
<1>1. PICK s : s = SessionOf(r)
  OBVIOUS
<1>2. s # NoSession /\ Bound(s, r) /\ runs[r].exit = TerminalState(OutcomeOf(s)).exit
  BY <1>1, RunFacts DEF ServerInv, RowOK
<1>3. OutcomeOf(s) \in AttemptOutcome
  BY DEF OutcomeOf, AttemptOutcome
<1>4. OutcomeOf(s) = exit <=> runs[r].exit = exit
  BY <1>2, <1>3 DEF AttemptOutcome, TerminalState
<1>5. OutcomeOf(s) = exit <=> s.halt = exit
  BY DEF OutcomeOf
<1> QED BY <1>1, <1>2, <1>4, <1>5

(* The output of an attempt ends where the output of a later one begins.      *)
LEMMA EarlierIsDisjoint ==
  ASSUME ServerInv, MishapInv, NEW r1, NEW r2, Earlier(r1, r2)
  PROVE  runs[r1].work.output \cap runs[r2].work.output = {}
<1>1. r1 \in DOMAIN runs /\ r2 \in DOMAIN runs /\ RowOK(r1) /\ RowOK(r2)
  BY RunFacts DEF Earlier, ServerInv
<1>2. CASE SessionOf(r2) = NoSession
  BY <1>1, <1>2 DEF RowOK
<1>3. CASE SessionOf(r2) # NoSession
  <2>1. PICK s1, s2 : s1 = SessionOf(r1) /\ s2 = SessionOf(r2)
    OBVIOUS
  <2>2. runs[r1].status # "running" /\ s1 # NoSession
    BY <2>1, EarlierHasEnded
  <2>3. s1.halt # "completed"
    BY <1>1, <2>1, <2>2, ExitIsHalt DEF MishapInv, Unfinished
  <2>4. runs[r1].work.output = OutputOf(s1) /\ runs[r2].work.output = OutputOf(s2)
    BY <1>1, <1>3, <2>1, <2>2 DEF RowOK
  <2>5. /\ s1.start \in Nat /\ s1.next \in Nat /\ s2.start \in Nat /\ s2.next \in Nat
        /\ s1.next <= s2.start
    <3>1. RowsAbreast /\ s1.next <= runs[r2].grant.startStep
      BY <2>1 DEF MishapInv, Chained
    <3>2. /\ s1.start \in Nat /\ s1.next \in Nat
      BY <1>1, <2>1, <2>2, <3>1, RowAdvances
    <3>3. /\ s2.start \in Nat /\ s2.next \in Nat
          /\ runs[r2].grant.startStep \in Nat /\ runs[r2].grant.startStep <= s2.start
      BY <1>1, <1>3, <2>1, <3>1, RowAdvances
    <3> QED BY <3>1, <3>2, <3>3
  <2>6. OutputOf(s1) = (s1.start + 1) .. s1.next
    BY <2>3 DEF OutputOf
  <2>7. OutputOf(s2) \subseteq (s2.start + 1) .. s2.next \cup {0}
    BY DEF OutputOf
  <2> QED BY <2>4, <2>5, <2>6, <2>7
<1> QED BY <1>2, <1>3

(* Two attempts of a task are one after the other.                            *)
LEMMA OneIsEarlier ==
  ASSUME ServerInv, NEW r1 \in DOMAIN runs, NEW r2 \in DOMAIN runs, r1 # r2,
         runs[r1].task = runs[r2].task
  PROVE  Earlier(r1, r2) \/ Earlier(r2, r1)
<1>1. r1 \in Nat /\ r2 \in Nat
  BY DatabaseFacts DEF ServerInv
<1> QED BY <1>1 DEF Earlier

(* "Completed work is not repeated": while only one thing goes wrong, no step *)
(* is in the recorded output of two attempts of a task - whichever call       *)
(* fails, wherever a process dies or stalls, and whoever recovers its run     *)
(* from whatever the row and the file hold.                                   *)
THEOREM NoStepRepeatedHolds ==
  ASSUME OneFault
  PROVE  NeverUpgraded /\ ServerSpec => []NoStepRepeated
<1>1. ServerInv /\ MishapInv => NoStepRepeated
  <2> SUFFICES ASSUME ServerInv, MishapInv, NEW r1 \in DOMAIN runs, NEW r2 \in DOMAIN runs,
                      runs[r1].task = runs[r2].task, r1 # r2
               PROVE  runs[r1].work.output \cap runs[r2].work.output = {}
    BY DEF NoStepRepeated
  <2> QED BY OneIsEarlier, EarlierIsDisjoint
<1> QED BY <1>1, MishapInvariant, PTL

(* An attempt that ended with the agent error leaves none to a later one.     *)
LEMMA ErrorsOnce ==
  ASSUME ServerInv, MishapInv, NEW r1, NEW r2, Earlier(r1, r2),
         runs[r1].exit = "agent_error"
  PROVE  runs[r2].exit # "agent_error"
<1>1. r1 \in DOMAIN runs /\ r2 \in DOMAIN runs /\ runs[r1].status # "running"
  BY EarlierHasEnded DEF Earlier
<1>2. SessionOf(r1).failAt = 0
  <2>1. SessionOf(r1).halt = "agent_error" /\ Bound(SessionOf(r1), r1)
    BY <1>1, ExitIsHalt
  <2> QED BY <2>1 DEF Bound, HaltIsTrue
<1>3. SpentBefore(r2)
  BY <1>1, <1>2 DEF SpentBefore
<1>4. CASE runs[r2].status = "running"
  BY <1>1, <1>4 DEF MishapInv, Unfinished
<1>5. CASE runs[r2].status # "running"
  <2>1. /\ SessionOf(r2) # NoSession /\ SessionOf(r2).run = r2
        /\ SessionOf(r2).halt = "agent_error" <=> runs[r2].exit = "agent_error"
    BY <1>1, <1>5, ExitIsHalt DEF Bound
  <2>2. SessionOf(r2).halt # "agent_error"
    BY <1>1, <1>3, <2>1 DEF MishapInv, RowsAbreast, Abreast
  <2> QED BY <2>1, <2>2
<1> QED BY <1>4, <1>5

(* "errors once": while only one thing goes wrong, one attempt of a task at   *)
(* most ends with the agent error it was told to fail with.                   *)
THEOREM AgentErrorOnceHolds ==
  ASSUME OneFault
  PROVE  NeverUpgraded /\ ServerSpec => []AgentErrorOnce
<1>1. ServerInv /\ MishapInv => AgentErrorOnce
  <2> SUFFICES ASSUME ServerInv, MishapInv, NEW r1 \in DOMAIN runs, NEW r2 \in DOMAIN runs,
                      runs[r1].task = runs[r2].task, runs[r1].exit = "agent_error",
                      runs[r2].exit = "agent_error", r1 # r2
               PROVE  FALSE
    BY DEF AgentErrorOnce
  <2> QED BY OneIsEarlier, ErrorsOnce
<1> QED BY <1>1, MishapInvariant, PTL

-----------------------------------------------------------------------------
(* The compatibility file follows the database. *)

(* The step the row of a run stands at.                                       *)
Tip(r) == IF SessionOf(r) = NoSession THEN runs[r].grant.startStep
                                      ELSE SessionOf(r).next

(* The row of a running run stands no further than whoever holds it.          *)
RowBehind(me) ==
  runs[me.run].status = "running" =>
    /\ me.pc = "bind" => SessionOf(me.run) = NoSession
    /\ me.pc \in Owning \cup Recovering /\ SessionOf(me.run) # NoSession =>
         SessionOf(me.run).next <= me.sess.next

(* What a process holds is in the row, but for the step it is to commit next. *)
Accepted(me) ==
  /\ me.pc \in Owning \cup Recovering /\ me.pc # "commit" =>
       me.sess.next <= Tip(me.run)
  /\ me.pc = "commit" => me.sess.next <= Tip(me.run) + 1
  /\ me.pc = "load" /\ me.sess # NoSession => me.sess.next <= Tip(me.run)

FileBehind(s) ==
  s # NoSession => IF s.run = 0 THEN s.next = 0 ELSE s.next <= Tip(s.run)

BehindInv ==
  /\ \A p \in Procs : proc[p].pc \in Holding => RowBehind(proc[p])
  /\ \A p \in Procs : Accepted(proc[p])
  /\ \A id \in SessionIds : FileBehind(files[id])

LEMMA TipFacts ==
  ASSUME ServerInv, RowsAbreast, NEW r \in DOMAIN runs
  PROVE  /\ Tip(r) \in Nat /\ runs[r].grant.startStep \in Nat
         /\ runs[r].grant.startStep <= Tip(r)
<1>1. runs[r].grant.startStep \in Nat
  BY DatabaseFacts DEF ServerInv, GrantRow
<1>2. CASE SessionOf(r) = NoSession
  BY <1>1, <1>2 DEF Tip
<1>3. CASE SessionOf(r) # NoSession
  BY <1>3, RowAdvances DEF Tip
<1> QED BY <1>2, <1>3

(* Rows only move on.                                                         *)
LEMMA TipGrows ==
  ASSUME ServerInv, WorkInv, MishapInv, BehindInv, [ServerNext]_runnerVars,
         NEW r \in DOMAIN runs
  PROVE  Tip(r) <= Tip(r)' /\ Tip(r)' \in Nat
<1>1. RowsAbreast /\ LocalsAbreast
  BY DEF MishapInv
<1>2. Tip(r) \in Nat
  BY <1>1, TipFacts
<1>3. CASE runs'[r].work = runs[r].work
  <2>1. Tip(r)' = Tip(r)
    BY <1>3, StepIsSteady DEF Tip, SessionOf, Steady
  <2> QED BY <1>2, <2>1
<1>4. ASSUME NEW q \in Procs, Publishes(q) \/ Ends(q), proc[q].run = r,
             runs'[r].work = Work(proc[q].sess)
      PROVE  Tip(r) <= Tip(r)' /\ Tip(r)' \in Nat
  <2>1. PICK s : s = proc[q].sess
    OBVIOUS
  <2>2. /\ proc[q].pc \in Owning \cup Recovering /\ proc[q].pc \in Holding
        /\ runs[r].status = "running"
    BY <1>4, WriterFacts
  <2>3. s # NoSession /\ Bound(s, r) /\ s.next \in Nat /\ s.start <= s.next /\ s.start \in Nat
    BY <1>4, <2>1, <2>2, HolderFacts
  <2>4. Tip(r)' = s.next
    BY <1>4, <2>1, <2>3 DEF Tip, SessionOf, Work
  <2>5. CASE SessionOf(r) = NoSession
    <3>1. runs[r].grant.startStep <= s.start
      BY <1>1, <1>4, <2>1, <2>2, <2>3 DEF LocalsAbreast, LocalAbreast, Abreast, From, Bound
    <3>2. Tip(r) = runs[r].grant.startStep
      BY <2>5 DEF Tip
    <3> QED BY <1>2, <2>3, <2>4, <3>1, <3>2
  <2>6. CASE SessionOf(r) # NoSession
    BY <1>4, <2>1, <2>2, <2>3, <2>4, <2>6 DEF BehindInv, RowBehind, Tip
  <2> QED BY <2>5, <2>6
<1> QED BY <1>3, <1>4, RunChanges

(* A file that a run can find stands no further than its row.                 *)
LEMMA FoundIsBehind ==
  ASSUME ServerInv, MishapInv, BehindInv, NEW r \in DOMAIN runs,
         NEW s, s = FileOf(r), s.run <= r
  PROVE  s.next <= Tip(r)
<1>1. RowsAbreast /\ Chained
  BY DEF MishapInv
<1>2. PICK id : id = runs[r].grant.session /\ id \in SessionIds /\ id[1] = runs[r].task
  BY TaskIsClaimed
<1>3. s # NoSession
  BY DEF MishapInv, Sourced, FileOf
<1>4. /\ Sound(s) /\ s.id = id /\ (s.run = 0 \/ Bound(s, s.run)) /\ FileBehind(s)
  BY <1>2, <1>3 DEF ServerInv, FilesOK, FileOK, BehindInv, FileOf
<1>5. Tip(r) \in Nat /\ runs[r].grant.startStep <= Tip(r) /\ runs[r].grant.startStep \in Nat
  BY <1>1, TipFacts
<1>6. CASE s.run = 0
  BY <1>3, <1>4, <1>5, <1>6 DEF FileBehind
<1>7. CASE s.run = r /\ s.run # 0
  BY <1>3, <1>4, <1>7 DEF FileBehind
<1>8. CASE s.run # r /\ s.run # 0
  <2>1. PICK c : c = s.run
    OBVIOUS
  <2>2. c \in DOMAIN runs /\ runs[c].grant.session = id
    BY <1>4, <1>8, <2>1 DEF Bound
  <2>3. runs[c].task = runs[r].task
    BY <1>2, <2>2, TaskIsClaimed
  <2>4. Earlier(c, r)
    BY <1>8, <2>1, <2>2, <2>3, DatabaseFacts DEF Earlier, ServerInv
  <2>5. SessionOf(c) # NoSession /\ SessionOf(c).next <= runs[r].grant.startStep
    BY <1>1, <2>4, EarlierHasEnded DEF Chained
  <2>6. s.next <= SessionOf(c).next
    BY <1>3, <1>4, <1>8, <2>1, <2>5 DEF FileBehind, Tip
  <2>7. SessionOf(c).next \in Nat /\ s.next \in Nat
    BY <1>1, <1>4, <2>2, <2>5, RowAdvances, SoundFields
  <2> QED BY <1>5, <2>5, <2>6, <2>7
<1> QED BY <1>6, <1>7, <1>8

LEMMA RowBehindStep ==
  ASSUME ServerInv, WorkInv, MishapInv, BehindInv, [ServerNext]_runnerVars,
         NEW p \in Procs, proc'[p].pc \in Holding
  PROVE  RowBehind(proc[p])'
<1>1. PICK r, s, t : r = proc'[p].run /\ s = proc[p].sess /\ t = proc'[p].sess
  OBVIOUS
<1> SUFFICES ASSUME runs'[r].status = "running"
             PROVE  /\ proc'[p].pc = "bind" => SessionOf(r)' = NoSession
                    /\ proc'[p].pc \in Owning \cup Recovering /\ SessionOf(r)' # NoSession =>
                         SessionOf(r)'.next <= t.next
  BY <1>1 DEF RowBehind, SessionOf
<1>2. CASE Takes(p)
  <2>1. r = Len(runs) + 1 /\ proc'[p].pc = "bind"
    BY <1>1, <1>2 DEF Takes
  <2>2. runs'[r].work = NoWork
    BY <1>2, <2>1, ClaimSees
  <2>3. SessionOf(r)' = NoSession
    BY <2>2, RunnerAssumption DEF SessionOf
  <2> QED BY <2>1, <2>3
<1>3. CASE Loads(p)
  BY <1>3 DEF Loads, Owning, InLoop, Recovering
<1>4. CASE proc[p].pc \in Holding /\ proc'[p].run = proc[p].run
  <2>1. r = proc[p].run /\ r \in DOMAIN runs
    BY <1>1, <1>4, HolderFacts
  <2>2. /\ runs[r].status = "running"
        /\ \/ runs'[r].work = runs[r].work
           \/ Publishes(p) /\ runs'[r].work = Work(s)
    BY <1>1, <1>4, <2>1, OwnRow
  <2>3. \/ SessionOf(r)' = SessionOf(r)
        \/ Publishes(p) /\ SessionOf(r)' = s
    BY <2>2 DEF SessionOf, Work
  <2>4. /\ proc[p].pc = "bind" => SessionOf(r) = NoSession
        /\ proc[p].pc \in Owning \cup Recovering /\ SessionOf(r) # NoSession =>
             SessionOf(r).next <= s.next
    BY <1>1, <1>4, <2>1, <2>2 DEF BehindInv, RowBehind
  <2>5. Publishes(p) => proc[p].pc \in {"publish", "commit"}
    BY DEF Publishes
  <2>6. proc[p].pc = "bind" => SessionOf(r)' = NoSession
    BY <2>3, <2>4, <2>5
  <2>7. proc[p].pc \in Owning \cup Recovering =>
          /\ s.next \in Nat
          /\ SessionOf(r)' # NoSession => SessionOf(r)'.next <= s.next
    BY <1>1, <1>4, <2>3, <2>4, HolderFacts
  <2>8. CASE Binds(p)
    BY <2>6, <2>8 DEF Binds
  <2>9. CASE GoesOn(p)
    <3>1. /\ proc[p].pc \in Owning /\ proc'[p].pc # "bind"
          /\ t = s \/ s.next <= t.next
      BY <1>1, <2>9 DEF GoesOn, Owning, InLoop
    <3>2. /\ t.next \in Nat
          /\ SessionOf(r)' # NoSession => SessionOf(r)'.next \in Nat
      <4>1. ServerInv'
        BY ServerInvStep
      <4>2. LocalOK(proc[p])' /\ proc'[p].pc \in Owning
        BY <2>9, <4>1 DEF ServerInv, LocalsOK, GoesOn
      <4>3. Sound(t)'
        BY <1>1, <4>2 DEF LocalOK, Working, Bound
      <4>4. t.next \in Nat
        BY <4>3 DEF Sound, SessionRow
      <4>5. runs[r] \in RunRow(GrantRow, WorkRow)
        BY <2>1, DatabaseFacts DEF ServerInv
      <4>6. SessionOf(r) # NoSession => SessionOf(r).next \in Nat
        BY <4>5 DEF RunRow, WorkRow, SessionRow, SessionOf
      <4> QED BY <2>3, <2>7, <3>1, <4>4, <4>6
    <3>3. PICK u : u = SessionOf(r)'
      OBVIOUS
    <3>4. u # NoSession => u.next <= s.next /\ u.next \in Nat /\ s.next \in Nat
      BY <2>7, <3>1, <3>2, <3>3
    <3>5. u # NoSession => u.next <= t.next
      BY <3>1, <3>2, <3>4
    <3> QED BY <3>1, <3>3, <3>5
  <2>10. CASE Restores(p)
    <3>1. proc[p].pc = "load" /\ UNCHANGED runs /\ proc'[p].pc # "bind"
      BY <2>10 DEF Restores, Recovering
    <3>2. s = SessionOf(r)
      BY <1>1, <1>4, <2>1, <2>2, <3>1 DEF WorkInv, Ahead
    <3>3. SessionOf(r)' = SessionOf(r)
      BY <3>1 DEF SessionOf
    <3>4. s # NoSession => t = s /\ s.next \in Nat
      <4>1. runs[r] \in RunRow(GrantRow, WorkRow)
        BY <2>1, DatabaseFacts DEF ServerInv
      <4>2. s # NoSession => s.next \in Nat
        BY <3>2, <4>1 DEF RunRow, WorkRow, SessionRow, SessionOf
      <4> QED BY <1>1, <2>10, <4>2 DEF Restores
    <3> QED BY <3>1, <3>2, <3>3, <3>4
  <2>11. CASE Keeps(p)
    <3>1. /\ t = s
          /\ \/ proc'[p].pc = proc[p].pc
             \/ proc[p].pc \in Recovering /\ proc'[p].pc \in Recovering
      BY <1>1, <2>11 DEF Keeps, Recovering
    <3>2. proc'[p].pc \in Recovering => proc'[p].pc # "bind"
      BY DEF Recovering
    <3> QED BY <2>6, <2>7, <3>1, <3>2
  <2>12. ~Frees(p) /\ ~Prepares(p)
    BY DEF Frees, Prepares, Holding, Owners, Owning, InLoop, Recovering
  <2> QED BY <1>2, <1>3, <2>8, <2>9, <2>10, <2>11, <2>12, StepMoves DEF Moves
<1> QED BY <1>2, <1>3, <1>4, StepMoves, HoldsFrom

LEMMA AcceptedStep ==
  ASSUME ServerInv, WorkInv, MishapInv, BehindInv, [ServerNext]_runnerVars, NEW p \in Procs
  PROVE  Accepted(proc[p])'
<1>1. PICK r, s, t, pc, next :
        /\ r = proc'[p].run /\ s = proc[p].sess /\ t = proc'[p].sess
        /\ pc = proc[p].pc /\ next = proc'[p].pc
  OBVIOUS
<1> DEFINE Goal == /\ next = "load" => (t # NoSession => t.next <= Tip(r)')
                   /\ next = "commit" => t.next <= Tip(r)' + 1
                   /\ next # "load" /\ next # "commit" => t.next <= Tip(r)'
<1> SUFFICES ASSUME next \in Owning \cup Recovering \cup {"load"} PROVE Goal
  <2>1. "load" \notin Owning \cup Recovering /\ "commit" \in Owning
    BY DEF Owning, InLoop, Recovering
  <2> QED BY <1>1, <2>1 DEF Accepted, Tip, SessionOf
<1>2. ServerInv'
  BY ServerInvStep
<1>3. t # NoSession \/ next # "load" => t.next \in Nat
  <2>1. LocalOK(proc[p])'
    BY <1>2 DEF ServerInv, LocalsOK
  <2> QED BY <1>1, <2>1 DEF LocalOK, Working, Bound, Sound, SessionRow
<1>4. ASSUME pc \in Holding, r = proc[p].run
      PROVE  /\ r \in DOMAIN runs /\ r \in Nat
             /\ Tip(r) \in Nat /\ Tip(r)' \in Nat /\ Tip(r) <= Tip(r)'
             /\ pc \in Owning \cup Recovering => s # NoSession
  BY <1>1, <1>4, HolderFacts, TipFacts, TipGrows DEF MishapInv
(* A session that is kept is still as far behind the row.                     *)
<1>5. ASSUME t = s, r = proc[p].run, pc \in Owning \cup Recovering \cup {"load"},
             pc = "load" <=> next = "load", pc = "commit" <=> next = "commit"
      PROVE  Goal
  <2>1. /\ pc = "load" => (s # NoSession => s.next <= Tip(r))
        /\ pc = "commit" => s.next <= Tip(r) + 1
        /\ pc # "load" /\ pc # "commit" => s.next <= Tip(r)
    BY <1>1, <1>5 DEF BehindInv, Accepted
  <2>2. Tip(r) \in Nat /\ Tip(r)' \in Nat /\ Tip(r) <= Tip(r)'
    BY <1>4, <1>5 DEF Holding, Owners
  <2>3. PICK m, n : m = Tip(r) /\ n = Tip(r)'
    OBVIOUS
  <2>4. t # NoSession \/ next # "load" => s.next \in Nat
    BY <1>3, <1>5
  <2> QED BY <1>5, <2>1, <2>2, <2>4
<1> HIDE DEF Goal
<1>6. CASE GoesOn(p)
  <2>1. pc \in Owning /\ next \in Owning /\ r = proc[p].run /\ pc # "load" /\ next # "load"
    BY <1>1, <1>6 DEF GoesOn, Owning, InLoop
  <2>2. CASE t = s /\ pc = "commit"
    <3>1. Publishes(p)
      BY <1>1, <1>6, <2>2 DEF GoesOn
    <3>2. runs'[r].work = Work(s) /\ s # NoSession
      BY <1>1, <1>4, <2>1, <3>1, WriterFacts DEF Holding, Owners
    <3>3. Tip(r)' = t.next
      BY <2>2, <3>2 DEF Tip, SessionOf, Work
    <3> QED BY <1>3, <2>1, <3>3 DEF Goal
  <2>3. CASE t = s /\ pc # "commit"
    <3>1. s.next <= Tip(r)
      BY <1>1, <2>1, <2>3 DEF BehindInv, Accepted
    <3>2. Tip(r) \in Nat /\ Tip(r)' \in Nat /\ Tip(r) <= Tip(r)' /\ t.next \in Nat
      BY <1>3, <1>4, <2>1 DEF Holding, Owners
    <3>3. t.next <= Tip(r)'
      BY <2>3, <3>1, <3>2
    <3> QED BY <2>1, <3>2, <3>3 DEF Goal
  <2>4. CASE t # s
    <3>1. pc \in {"top", "delay"} /\ next = "commit" /\ t.next <= s.next + 1
      BY <1>1, <1>6, <2>4 DEF GoesOn
    <3>2. s.next <= Tip(r) /\ s.next \in Nat
      <4>1. s.next <= Tip(r)
        BY <1>1, <2>1, <3>1 DEF BehindInv, Accepted
      <4> QED BY <1>1, <2>1, <4>1, HolderFacts DEF Holding, Owners
    <3>3. Tip(r) \in Nat /\ Tip(r)' \in Nat /\ Tip(r) <= Tip(r)' /\ t.next \in Nat
      BY <1>3, <1>4, <2>1 DEF Holding, Owners
    <3>4. t.next <= Tip(r)' + 1
      BY <3>1, <3>2, <3>3
    <3> QED BY <3>1, <3>4 DEF Goal
  <2> QED BY <2>2, <2>3, <2>4
<1>7. CASE Keeps(p)
  <2>1. /\ r = proc[p].run /\ t = s
        /\ next = pc \/ (pc = "rebind" /\ next = "reconcile")
    BY <1>1, <1>7 DEF Keeps
  <2>2. pc \in Owning \cup Recovering \cup {"load"}
    BY <2>1 DEF Recovering
  <2> QED BY <1>5, <2>1, <2>2
<1>8. CASE Binds(p)
  <2>1. pc = "bind" /\ next = "publish" /\ r = proc[p].run /\ t.next = s.next
    BY <1>1, <1>8 DEF Binds
  <2>2. runs[r].grant = [session |-> s.id, budget |-> s.allowance, startStep |-> s.next]
    BY <1>1, <2>1 DEF ServerInv, LocalsOK, LocalOK, Binding
  <2>3. runs[r].grant.startStep = s.next
    BY <2>2
  <2>4. /\ r \in DOMAIN runs /\ Tip(r) \in Nat /\ Tip(r)' \in Nat /\ Tip(r) <= Tip(r)'
    BY <1>4, <2>1 DEF Holding, Owners
  <2>5. s.next \in Nat /\ s.next <= Tip(r)
    BY <2>3, <2>4, TipFacts DEF MishapInv
  <2>6. t.next <= Tip(r)'
    BY <2>1, <2>4, <2>5
  <2> QED BY <2>1, <2>6 DEF Goal
<1>9. CASE Loads(p)
  <2>1. /\ next = "load" /\ UNCHANGED runs /\ t = SessionOf(r)
    BY <1>1, <1>9 DEF Loads
  <2>2. t # NoSession => Tip(r)' = t.next
    BY <2>1 DEF Tip, SessionOf
  <2> QED BY <1>3, <2>1, <2>2 DEF Goal
<1>10. CASE Restores(p)
  <2>1. PICK f : f = FileOf(r)
    OBVIOUS
  <2>2. /\ r = proc[p].run /\ pc = "load" /\ UNCHANGED runs /\ next \in Recovering
    BY <1>1, <1>10 DEF Restores
  <2>3. \/ s # NoSession /\ t = s
        \/ t.next = f.next /\ (f.run < r \/ t = f)
    BY <1>1, <1>10, <2>1 DEF Restores, FileOf
  <2>4. r \in DOMAIN runs /\ r \in Nat
    BY <1>4, <2>2 DEF Holding
  <2>5. Tip(r)' = Tip(r)
    BY <2>2 DEF Tip, SessionOf
  <2>6. next # "load" /\ next # "commit"
    BY <2>2 DEF Recovering
  <2>7. CASE s # NoSession /\ t = s
    <3>1. s.next <= Tip(r)
      BY <1>1, <2>2, <2>7 DEF BehindInv, Accepted
    <3> QED BY <2>5, <2>6, <2>7, <3>1 DEF Goal
  <2>8. CASE t.next = f.next /\ (f.run < r \/ t = f)
    <3>1. f.run <= r
      <4>1. t = f => f.run = r
        <5>1. LocalOK(proc[p])'
          BY <1>2 DEF ServerInv, LocalsOK
        <5> QED BY <1>1, <2>2, <5>1 DEF LocalOK, Working, Bound
      <4>2. runs[r].grant.session \in SessionIds /\ f # NoSession
        BY <2>1, <2>4, TaskIsClaimed DEF MishapInv, Sourced, FileOf
      <4>3. f.run \in Nat
        BY <2>1, <4>2 DEF FileOf, ServerInv, FilesTyped, SessionRow
      <4> QED BY <2>4, <2>8, <4>1, <4>3
    <3>2. f.next <= Tip(r)
      BY <2>1, <2>4, <3>1, FoundIsBehind
    <3> QED BY <2>5, <2>6, <2>8, <3>2 DEF Goal
  <2> QED BY <2>3, <2>7, <2>8
<1>11. ~Frees(p) /\ ~Prepares(p) /\ ~Takes(p)
  BY <1>1 DEF Frees, Prepares, Takes, Holding, Owners, Owning, InLoop, Recovering
<1> QED BY <1>6, <1>7, <1>8, <1>9, <1>10, <1>11, StepMoves DEF Moves

LEMMA FileBehindStep ==
  ASSUME ServerInv, WorkInv, MishapInv, BehindInv, [ServerNext]_runnerVars,
         NEW id \in SessionIds
  PROVE  FileBehind(files[id])'
<1>1. PICK f, g : f = files[id] /\ g = files'[id]
  OBVIOUS
<1> SUFFICES ASSUME g # NoSession
             PROVE  IF g.run = 0 THEN g.next = 0 ELSE g.next <= Tip(g.run)'
  BY <1>1 DEF FileBehind, Tip, SessionOf
<1>2. ServerInv' /\ RowsAbreast
  BY ServerInvStep DEF MishapInv
<1>3. CASE g = f
  <2>1. /\ FileBehind(f) /\ FileOK(id, f)
    BY <1>1 DEF BehindInv, ServerInv, FilesOK
  <2>2. CASE g.run = 0
    BY <1>3, <2>1, <2>2 DEF FileBehind
  <2>3. CASE g.run # 0
    <3>1. PICK c : c = f.run
      OBVIOUS
    <3>2. c \in DOMAIN runs /\ f.next \in Nat /\ f.next <= Tip(c)
      BY <1>3, <2>1, <2>3, <3>1, SoundFields DEF FileOK, Bound, FileBehind
    <3>3. Tip(c) \in Nat /\ Tip(c) <= Tip(c)' /\ Tip(c)' \in Nat
      BY <1>2, <3>2, TipFacts, TipGrows
    <3>4. f.next <= Tip(c)'
      BY <3>2, <3>3
    <3> QED BY <1>3, <2>3, <3>1, <3>4 DEF Tip, SessionOf
  <2> QED BY <2>2, <2>3
<1>4. CASE g.next = 0 /\ g.run = 0
  BY <1>4
<1>5. ASSUME NEW q \in Procs, Replaces(id, q)
      PROVE  IF g.run = 0 THEN g.next = 0 ELSE g.next <= Tip(g.run)'
  <2>1. PICK r, s : r = proc[q].run /\ s = proc[q].sess
    OBVIOUS
  <2>2. /\ proc[q].pc \in {"bind", "persist", "rebind"} /\ g.next = s.next
        /\ proc'[q].pc \in Owning \cup Recovering /\ proc'[q].run = r
        /\ g = proc'[q].sess /\ UNCHANGED runs
    BY <1>1, <1>5, <2>1 DEF Replaces
  <2>3. Bound(g, r)'
    <3>1. LocalOK(proc[q])'
      BY <1>2 DEF ServerInv, LocalsOK
    <3> QED BY <2>2, <3>1 DEF LocalOK, Working
  <2>4. g.run = r
    BY <2>3 DEF Bound
  <2>5. r \in DOMAIN runs /\ r # 0
    <3>1. r \in DOMAIN runs
      BY <2>1, <2>2, HolderFacts DEF Holding, Owners, Owning, InLoop, Recovering
    <3> QED BY <3>1, DatabaseFacts DEF ServerInv
  <2>6. Tip(r)' = Tip(r)
    BY <2>2 DEF Tip, SessionOf
  <2>7. s.next <= Tip(r)
    <3>1. CASE proc[q].pc = "bind"
      <4>1. runs[r].grant = [session |-> s.id, budget |-> s.allowance, startStep |-> s.next]
        BY <2>1, <3>1 DEF ServerInv, LocalsOK, LocalOK, Binding
      <4>2. runs[r].grant.startStep = s.next
        BY <4>1
      <4> QED BY <1>2, <2>5, <4>2, TipFacts
    <3>2. CASE proc[q].pc \in {"persist", "rebind"}
      BY <2>1, <3>2 DEF BehindInv, Accepted, Owning, InLoop, Recovering
    <3> QED BY <2>2, <3>1, <3>2
  <2>8. g.next <= Tip(r)'
    BY <2>2, <2>6, <2>7
  <2> QED BY <2>4, <2>5, <2>8 DEF Tip, SessionOf
<1>6. ~Outage
  BY PowerStays DEF MishapInv, Sourced
<1> QED BY <1>1, <1>3, <1>4, <1>5, <1>6, FilesMove DEF FileMoves

LEMMA BehindInvStep ==
  ASSUME ServerInv, WorkInv, MishapInv, BehindInv, [ServerNext]_runnerVars
  PROVE  BehindInv'
BY RowBehindStep, AcceptedStep, FileBehindStep DEF BehindInv

LEMMA BehindInvInit ==
  ASSUME NeverUpgraded, RunnerInit
  PROVE  BehindInv
<1>1. /\ \A p \in Procs : proc[p] = Idle
      /\ \A id \in SessionIds : files[id] = NoSession
  BY DEF RunnerInit, NeverUpgraded, NewInbox, StoreInit
<1>2. Idle.pc = "idle"
  BY DEF Idle
<1> QED BY <1>1, <1>2
        DEF BehindInv, Accepted, FileBehind, Holding, Owners, Owning, InLoop, Recovering

(* The compatibility file never shows a step that the latest run of the task  *)
(* has not had accepted by the database, while one thing goes wrong at most:  *)
(* a process that was overtaken has no newer session to replace it with.      *)
THEOREM FileNeverAheadHolds ==
  ASSUME OneFault
  PROVE  NeverUpgraded /\ ServerSpec => []FileNeverAhead
<1>1. NeverUpgraded /\ RunnerInit => BehindInv
  BY BehindInvInit
<1>2. ServerInv /\ WorkInv /\ MishapInv /\ BehindInv /\ [ServerNext]_runnerVars => BehindInv'
  BY BehindInvStep
<1>3. ServerInv /\ MishapInv /\ BehindInv => FileNeverAhead
  <2> SUFFICES ASSUME ServerInv, MishapInv, BehindInv, NEW t \in DOMAIN tasks,
                      NEW r \in DOMAIN runs, IsLatestRun(t, r)
               PROVE  FileOf(r).next <= Tip(r)
    BY DEF FileNeverAhead, FileOf, Tip
  <2>1. PICK f : f = FileOf(r)
    OBVIOUS
  <2>2. PICK id : id = runs[r].grant.session /\ id \in SessionIds /\ id[1] = runs[r].task
    BY TaskIsClaimed
  <2>3. f # NoSession
    BY <2>1 DEF MishapInv, Sourced, FileOf
  <2>4. Sound(f) /\ f.id = id /\ (f.run = 0 \/ Bound(f, f.run))
    BY <2>1, <2>2, <2>3 DEF ServerInv, FilesOK, FileOK, FileOf
  <2>5. f.run <= r
    <3>1. CASE f.run = 0
      BY <3>1, DatabaseFacts DEF ServerInv
    <3>2. CASE f.run # 0
      <4>1. PICK c : c = f.run
        OBVIOUS
      <4>2. c \in DOMAIN runs /\ runs[c].grant.session = id
        BY <2>4, <3>2, <4>1 DEF Bound
      <4>3. runs[c].task = runs[r].task
        BY <2>2, <4>2, TaskIsClaimed
      <4>4. r # 0
        BY DatabaseFacts DEF ServerInv
      <4>5. c \in RunsOf(t)
        BY <4>2, <4>3, <4>4 DEF RunsOf, IsLatestRun
      <4> QED BY <4>1, <4>4, <4>5 DEF IsLatestRun
    <3> QED BY <3>1, <3>2
  <2> QED BY <2>1, <2>5, FoundIsBehind
<1> QED BY <1>1, <1>2, <1>3, MishapInvariant, PTL DEF ServerSpec

-----------------------------------------------------------------------------
(* What the user sees of it all. *)

(* Each task has a latest run, or none.                                       *)
HasLatest == \A t \in DOMAIN tasks : \E r : IsLatestRun(t, r)

(* A claim inserts the latest run of its task, and nothing else adds runs.    *)
LEMMA RunsMove ==
  ASSUME ServerInv, [ServerNext]_runnerVars
  PROVE  \/ DOMAIN runs' = DOMAIN runs /\ \A t : RunsOf(t)' = RunsOf(t)
         \/ \E p \in Procs, new \in Nat : \E t0 :
              /\ Takes(p) /\ new = Len(runs) + 1 /\ t0 = proc[p].sess.id[1]
              /\ RunsOf(t0)' = RunsOf(t0) \cup {new}
              /\ \A t : t # t0 => RunsOf(t)' = RunsOf(t)
              /\ \A t : \A r \in RunsOf(t) : r <= new
              /\ new # 0
<1>1. Steady
  BY StepIsSteady
<1>2. CASE \A p \in Procs : ~Takes(p)
  <2>1. \A r \in DOMAIN runs' : r \in DOMAIN runs
    BY <1>2, NewRun
  <2>2. DOMAIN runs' = DOMAIN runs
    BY <1>1, <2>1 DEF Steady
  <2> QED BY <1>1, <2>2, RunsOfStay
<1>3. CASE \E p \in Procs : Takes(p)
  <2>0. PICK p \in Procs : Takes(p)
    BY <1>3
  <2>1. PICK new, t0 : new = Len(runs) + 1 /\ t0 = proc[p].sess.id[1]
    OBVIOUS
  <2>2. /\ new \in DOMAIN runs' /\ new \notin DOMAIN runs
        /\ \A r \in DOMAIN runs' : r # new => r \in DOMAIN runs /\ runs'[r] = runs[r]
        /\ runs'[new].grant.session = proc[p].sess.id
    BY <2>0, <2>1, ClaimSees
  <2>3. runs'[new].task = t0
    <3>1. ServerInv'
      BY ServerInvStep
    <3>2. RowOK(new)'
      BY <2>2, <3>1 DEF ServerInv, DatabaseOK, RowsOK
    <3> QED BY <2>1, <2>2, <3>2 DEF RowOK
  <2>4. \A r \in DOMAIN runs : r \in DOMAIN runs' /\ runs'[r].task = runs[r].task
    BY <1>1 DEF Steady
  <2>5. /\ \A r \in DOMAIN runs : r <= new
        /\ new \in Nat /\ new # 0
    BY <2>1, DatabaseFacts DEF ServerInv
  <2>6. RunsOf(t0)' = RunsOf(t0) \cup {new}
    BY <2>2, <2>3, <2>4 DEF RunsOf
  <2>7. \A t : t # t0 => RunsOf(t)' = RunsOf(t)
    BY <2>2, <2>3, <2>4 DEF RunsOf
  <2>8. \A t : \A r \in RunsOf(t) : r <= new
    BY <2>5 DEF RunsOf
  <2> QED BY <2>0, <2>1, <2>5, <2>6, <2>7, <2>8
<1> QED BY <1>2, <1>3

LEMMA HasLatestStep ==
  ASSUME ServerInv, HasLatest, [ServerNext]_runnerVars
  PROVE  HasLatest'
<1> SUFFICES ASSUME NEW t \in DOMAIN tasks' PROVE \E r : IsLatestRun(t, r)'
  BY DEF HasLatest
<1>1. \E r : IsLatestRun(t, r)
  <2>1. CASE t \in DOMAIN tasks
    BY <2>1 DEF HasLatest
  <2>2. CASE t \notin DOMAIN tasks
    <3>1. RunsOf(t) = {}
      BY <2>2, DatabaseFacts DEF ServerInv, RunsOf
    <3> QED BY <3>1 DEF IsLatestRun
  <2> QED BY <2>1, <2>2
<1>2. CASE RunsOf(t)' = RunsOf(t)
  BY <1>1, <1>2 DEF IsLatestRun
<1>3. ASSUME NEW new \in Nat, new # 0, RunsOf(t)' = RunsOf(t) \cup {new},
             \A r \in RunsOf(t) : r <= new
      PROVE  IsLatestRun(t, new)'
  BY <1>3 DEF IsLatestRun
<1>4. \/ RunsOf(t)' = RunsOf(t)
      \/ \E new \in Nat : /\ new # 0 /\ RunsOf(t)' = RunsOf(t) \cup {new}
                          /\ \A r \in RunsOf(t) : r <= new
  BY RunsMove
<1> QED BY <1>2, <1>3, <1>4

(* So the steps of a task completed are those of its latest run.              *)
CompletedAtTip ==
  \A t \in DOMAIN tasks : \A r : IsLatestRun(t, r) =>
    CompletedSteps(t) = IF r = 0 THEN 0 ELSE Tip(r)

LEMMA CompletedIsTip == ServerInv => CompletedAtTip
<1> SUFFICES ASSUME ServerInv, NEW t \in DOMAIN tasks, NEW r, IsLatestRun(t, r)
             PROVE  CompletedSteps(t) = IF r = 0 THEN 0 ELSE Tip(r)
  BY DEF CompletedAtTip
<1>1. CASE r = 0
  BY <1>1 DEF IsLatestRun, CompletedSteps
<1>2. CASE r # 0
  <2>1. PICK c : c = CHOOSE latest \in RunsOf(t) : IsLatestRun(t, latest)
    OBVIOUS
  <2>2. r \in RunsOf(t)
    BY <1>2 DEF IsLatestRun
  <2>3. c \in RunsOf(t) /\ IsLatestRun(t, c)
    BY <2>1, <2>2
  <2>4. \A i \in RunsOf(t) : i \in Nat /\ i # 0
    BY DatabaseFacts DEF ServerInv, RunsOf
  <2>5. c = r
    BY <1>2, <2>2, <2>3, <2>4 DEF IsLatestRun
  <2>6. RunsOf(t) # {}
    BY <2>2
  <2>7. CompletedSteps(t) = Tip(c)
    BY <2>1, <2>6 DEF CompletedSteps, Tip
  <2> QED BY <1>2, <2>5, <2>7
<1> QED BY <1>1, <1>2

(* A row moves on by a commit of its owner only, and by one step.             *)
LEMMA TipMoves ==
  ASSUME ServerInv, WorkInv, MishapInv, BehindInv, [ServerNext]_runnerVars,
         NEW r \in DOMAIN runs
  PROVE  \/ Tip(r)' = Tip(r)
         \/ \E p \in Procs :
              /\ Publishes(p) /\ proc[p].run = r
              /\ Tip(r)' = Tip(r) + 1 /\ Tip(r)' = proc[p].sess.next
              /\ runs'[r].work # runs[r].work /\ runs'[r].status = "running"
<1>1. Tip(r) \in Nat /\ Tip(r)' \in Nat /\ Tip(r) <= Tip(r)'
  BY TipFacts, TipGrows DEF MishapInv
<1>2. CASE runs'[r].work = runs[r].work
  BY <1>2, StepIsSteady DEF Tip, SessionOf, Steady
<1>3. ASSUME NEW q \in Procs, Publishes(q) \/ Ends(q), proc[q].run = r,
             runs'[r].work = Work(proc[q].sess)
      PROVE  /\ Tip(r)' = proc[q].sess.next
             /\ Tip(r)' = Tip(r) \/ (Publishes(q) /\ Tip(r)' = Tip(r) + 1)
  <2>1. PICK s : s = proc[q].sess
    OBVIOUS
  <2>2. /\ proc[q].pc \in Owning \cup Recovering /\ proc[q].pc \in Holding
        /\ Ends(q) => proc[q].pc # "commit"
    BY <1>3, WriterFacts
  <2>3. s # NoSession /\ s.next \in Nat
    BY <1>3, <2>1, <2>2, HolderFacts
  <2>4. Tip(r)' = s.next
    BY <1>3, <2>1, <2>3 DEF Tip, SessionOf, Work
  <2>5. /\ proc[q].pc # "commit" => s.next <= Tip(r)
        /\ proc[q].pc = "commit" => s.next <= Tip(r) + 1
    BY <1>3, <2>1, <2>2 DEF BehindInv, Accepted
  <2> QED BY <1>1, <1>3, <2>1, <2>2, <2>3, <2>4, <2>5
<1>4. ASSUME NEW q \in Procs, Publishes(q), proc[q].run = r,
             runs'[r].status = runs[r].status
      PROVE  runs'[r].status = "running"
  BY <1>4, WriterFacts
<1>5. ASSUME NEW q \in Procs, Publishes(q) \/ Ends(q), proc[q].run = r,
             runs'[r].work = Work(proc[q].sess),
             Publishes(q) => runs'[r].status = runs[r].status
      PROVE  \/ Tip(r)' = Tip(r)
             \/ \E p \in Procs :
                  /\ Publishes(p) /\ proc[p].run = r
                  /\ Tip(r)' = Tip(r) + 1 /\ Tip(r)' = proc[p].sess.next
                  /\ runs'[r].work # runs[r].work /\ runs'[r].status = "running"
  <2>1. CASE Tip(r)' # Tip(r)
    <3>1. Publishes(q) /\ Tip(r)' = Tip(r) + 1 /\ Tip(r)' = proc[q].sess.next
      BY <1>3, <1>5, <2>1
    <3>2. runs'[r].work # runs[r].work
      BY <1>2, <2>1
    <3>3. runs'[r].status = "running"
      BY <1>4, <1>5, <3>1
    <3> QED BY <1>5, <3>1, <3>2, <3>3
  <2> QED BY <2>1
<1>6. \/ runs'[r].work = runs[r].work
      \/ \E q \in Procs : /\ Publishes(q) /\ proc[q].run = r
                          /\ runs'[r].work = Work(proc[q].sess)
                          /\ runs'[r].status = runs[r].status
      \/ \E q \in Procs : /\ Ends(q) /\ proc[q].run = r
                          /\ runs'[r].work = Work(proc[q].sess)
                          /\ runs'[r].status # "running"
  BY RunChanges
<1>7. ASSUME NEW q \in Procs, Ends(q), runs'[r].status # "running", proc[q].run = r
      PROVE  Publishes(q) => runs'[r].status = runs[r].status
  BY <1>7 DEF Publishes, Ends
<1> QED BY <1>2, <1>5, <1>6, <1>7

(* The latest attempt of the task has its next step accepted.                 *)
Commits(p, t) ==
  LET r == proc[p].run IN
  /\ Publishes(p) /\ r \in RunsOf(t)
  /\ CompletedSteps(t)' = CompletedSteps(t) + 1
  /\ CompletedSteps(t)' = proc[p].sess.next
  /\ runs'[r].work # runs[r].work /\ runs'[r].status = "running"

(* A claim, a recovery and a file that is behind complete nothing and lose    *)
(* nothing.                                                                   *)
LEMMA CompletedMoves ==
  ASSUME ServerInv, WorkInv, MishapInv, BehindInv, HasLatest, [ServerNext]_runnerVars,
         NEW t \in DOMAIN tasks
  PROVE  \/ CompletedSteps(t)' = CompletedSteps(t)
         \/ \E p \in Procs : Commits(p, t)
<1>1. PICK r : IsLatestRun(t, r)
  BY DEF HasLatest
<1>2. CompletedSteps(t) = IF r = 0 THEN 0 ELSE Tip(r)
  BY <1>1, CompletedIsTip DEF CompletedAtTip
<1>3. CompletedAtTip' /\ t \in DOMAIN tasks'
  <2>1. ServerInv'
    BY ServerInvStep
  <2>2. CompletedAtTip'
    BY <2>1, CompletedIsTip, PTL
  <2> QED BY <2>2, StepIsSteady DEF Steady
<1>4. CASE RunsOf(t)' = RunsOf(t)
  <2>1. IsLatestRun(t, r)'
    BY <1>1, <1>4 DEF IsLatestRun
  <2>2. CompletedSteps(t)' = IF r = 0 THEN 0 ELSE Tip(r)'
    BY <1>3, <2>1 DEF CompletedAtTip
  <2>3. CASE r = 0
    BY <1>2, <2>2, <2>3
  <2>4. CASE r # 0
    <3>1. r \in RunsOf(t) /\ r \in DOMAIN runs
      BY <1>1, <2>4 DEF IsLatestRun, RunsOf
    <3>2. CASE Tip(r)' = Tip(r)
      BY <1>2, <2>2, <2>4, <3>2
    <3>3. ASSUME NEW p \in Procs, Publishes(p), proc[p].run = r,
                 Tip(r)' = Tip(r) + 1, Tip(r)' = proc[p].sess.next,
                 runs'[r].work # runs[r].work, runs'[r].status = "running"
          PROVE  Commits(p, t)
      BY <1>2, <2>2, <2>4, <3>1, <3>3 DEF Commits
    <3> QED BY <3>1, <3>2, <3>3, TipMoves
  <2> QED BY <2>3, <2>4
<1>5. ASSUME NEW p \in Procs, NEW new \in Nat, Takes(p), new = Len(runs) + 1,
             t = proc[p].sess.id[1], new # 0,
             RunsOf(t)' = RunsOf(t) \cup {new}, \A i \in RunsOf(t) : i <= new
      PROVE  CompletedSteps(t)' = CompletedSteps(t)
  <2>1. IsLatestRun(t, new)'
    BY <1>5 DEF IsLatestRun
  <2>2. PICK s : s = proc[p].sess
    OBVIOUS
  <2>3. /\ new \in DOMAIN runs' /\ new \notin DOMAIN runs
        /\ runs'[new].grant.startStep = s.next /\ runs'[new].work = NoWork
        /\ \/ s.next = 0 /\ \A i : ~Earlier(i, new)'
           \/ \E c : Resumed(p, c)
    BY <1>5, <2>2, ClaimSees
  <2>4. CompletedSteps(t)' = s.next
    <3>1. SessionOf(new)' = NoSession
      BY <2>3, RunnerAssumption DEF SessionOf
    <3>2. Tip(new)' = s.next
      BY <2>3, <3>1 DEF Tip
    <3> QED BY <1>3, <1>5, <2>1, <3>2 DEF CompletedAtTip
  <2>5. CASE s.next = 0 /\ \A i : ~Earlier(i, new)'
    <3>1. ASSUME NEW i \in RunsOf(t) PROVE FALSE
      <4>1. i \in DOMAIN runs' /\ runs'[i].task = t /\ runs'[new].task = t
        BY <1>5 DEF RunsOf
      <4>2. i \in DOMAIN runs /\ i # new /\ i <= new /\ i \in Nat
        BY <1>5, <2>3, DatabaseFacts DEF RunsOf, ServerInv
      <4>3. Earlier(i, new)'
        BY <2>3, <4>1, <4>2 DEF Earlier
      <4> QED BY <2>5, <4>3
    <3>2. r = 0
      BY <1>1, <3>1 DEF IsLatestRun
    <3> QED BY <1>2, <2>4, <2>5, <3>2
  <2>6. ASSUME NEW c, Resumed(p, c) PROVE CompletedSteps(t) = s.next
    <3>1. /\ c \in DOMAIN runs /\ runs[c].status # "running"
          /\ IsLatestRun(runs[c].task, c) /\ s = Prepared(c)
      BY <2>2, <2>6 DEF Resumed
    <3>2. /\ SessionOf(c) # NoSession /\ s.next = SessionOf(c).next
          /\ s.id = SessionOf(c).id
      BY <3>1, PreparedGoesOn
    <3>3. runs[c].task = t
      <4>1. RowOK(c)
        BY <3>1 DEF ServerInv, DatabaseOK, RowsOK
      <4> QED BY <1>5, <2>2, <3>2, <4>1 DEF RowOK, Bound
    <3>4. c # 0
      BY <3>1, DatabaseFacts DEF ServerInv
    <3>5. CompletedSteps(t) = Tip(c)
      BY <3>1, <3>3, <3>4, CompletedIsTip DEF CompletedAtTip
    <3> QED BY <3>2, <3>5 DEF Tip
  <2> QED BY <2>3, <2>4, <2>5, <2>6
<1> QED BY <1>4, <1>5, RunsMove

-----------------------------------------------------------------------------
(* What the user sees of a step.                                              *)

LEMMA ItemIs ==
  /\ DOMAIN Items = DOMAIN tasks
  /\ \A t \in DOMAIN tasks :
       Items[t] = [state |-> tasks[t].status, steps |-> Len(plans[t].costs),
                   completed |-> CompletedSteps(t),
                   comments |-> Cardinality({i \in DOMAIN comments : comments[i] = t})]
BY DEF Items

(* One that concerns one task only.                                           *)
LEMMA OneItem ==
  ASSUME NEW t0 \in DOMAIN tasks, NEW item, DOMAIN tasks' = DOMAIN tasks,
         Items'[t0] = item, \A t \in DOMAIN tasks : t # t0 => Items'[t] = Items[t]
  PROVE  Items' = [Items EXCEPT ![t0] = item]
<1>1. /\ Items = [t \in DOMAIN tasks |-> Items[t]]
      /\ Items' = [t \in DOMAIN tasks |-> Items'[t]]
  BY DEF Items
<1> HIDE DEF Items
<1> QED BY <1>1

CommentsOn(t) == {i \in DOMAIN comments : comments[i] = t}

(* One that no attempt commits in, and nobody comments on.                    *)
LEMMA SameItem ==
  ASSUME ServerInv, [ServerNext]_runnerVars, NEW t \in DOMAIN tasks,
         tasks'[t].status = tasks[t].status, CompletedSteps(t)' = CompletedSteps(t),
         CommentsOn(t)' = CommentsOn(t)
  PROVE  Items'[t] = Items[t]
<1>1. t \in DOMAIN tasks' /\ plans'[t] = plans[t]
  BY StepIsSteady, DatabaseFacts DEF Steady, ServerInv
<1> QED BY <1>1 DEF Items, CommentsOn

(* What changes nothing of tasks and work changes nothing of the items.       *)
LEMMA SameItems ==
  ASSUME ServerInv, WorkInv, MishapInv, BehindInv, HasLatest, [ServerNext]_runnerVars,
         DOMAIN tasks' = DOMAIN tasks, UNCHANGED comments,
         \A t \in DOMAIN tasks : tasks'[t].status = tasks[t].status,
         \A r \in DOMAIN runs : runs'[r].work = runs[r].work
  PROVE  Items' = Items
<1>1. ASSUME NEW t \in DOMAIN tasks PROVE Items'[t] = Items[t]
  <2>1. CompletedSteps(t)' = CompletedSteps(t)
    BY CompletedMoves DEF Commits, RunsOf
  <2> QED BY <2>1, SameItem DEF CommentsOn
<1>2. /\ Items = [t \in DOMAIN tasks |-> Items[t]]
      /\ Items' = [t \in DOMAIN tasks |-> Items'[t]]
  BY DEF Items
<1> HIDE DEF Items
<1> QED BY <1>1, <1>2

(* A claim takes the item: it counts no less and no more than before.         *)
LEMMA ClaimTakesItem ==
  ASSUME ServerInv, WorkInv, MishapInv, BehindInv, HasLatest, [ServerNext]_runnerVars,
         NEW p \in Procs, Claims(p)
  PROVE  \E t \in DOMAIN Items : View!TakeItem(t)
<1>1. PICK auth, q : StartOwnedAttempt(auth, q, Len(runs) + 1)
  BY DEF Claims
<1>2. PICK t0, row : /\ t0 = q.task /\ row = [status |-> "in_progress", cont |-> NoContinuation]
  OBVIOUS
<1>3. /\ t0 \in DOMAIN tasks /\ tasks' = [tasks EXCEPT ![t0] = row] /\ UNCHANGED comments
      /\ tasks[t0].status \in {"todo", "failed"} /\ row.status = "in_progress"
  BY <1>1, <1>2 DEF StartOwnedAttempt, Claimable, Transition
<1>4. /\ DOMAIN tasks' = DOMAIN tasks /\ tasks'[t0].status = "in_progress"
      /\ \A t \in DOMAIN tasks : t # t0 => tasks'[t].status = tasks[t].status
  BY <1>3
<1>5. \A r \in DOMAIN runs : runs'[r] = runs[r]
  BY <1>1, ClaimedRow
<1>6. \A t \in DOMAIN tasks : CompletedSteps(t)' = CompletedSteps(t)
  BY <1>5, CompletedMoves DEF Commits, RunsOf
<1>7. \A t \in DOMAIN tasks : t # t0 => Items'[t] = Items[t]
  BY <1>3, <1>4, <1>6, SameItem DEF CommentsOn
<1>8. plans'[t0] = plans[t0]
  BY <1>3, StepIsSteady, DatabaseFacts DEF Steady, ServerInv
<1>9. PICK n, c : /\ n = CompletedSteps(t0)
                  /\ c = Cardinality({i \in DOMAIN comments : comments[i] = t0})
  OBVIOUS
<1>10. /\ Items[t0] = [state |-> tasks[t0].status, steps |-> Len(plans[t0].costs),
                       completed |-> n, comments |-> c]
       /\ Items'[t0] = [state |-> "in_progress", steps |-> Len(plans[t0].costs),
                        completed |-> n, comments |-> c]
  BY <1>3, <1>4, <1>6, <1>8, <1>9 DEF Items
<1>11. Items'[t0] = [Items[t0] EXCEPT !.state = "in_progress"]
  BY <1>10
<1>12. PICK item : item = [Items[t0] EXCEPT !.state = "in_progress"]
  OBVIOUS
<1>13. Items' = [Items EXCEPT ![t0] = item]
  BY <1>3, <1>4, <1>7, <1>11, <1>12, OneItem
<1>14. Items[t0].state \in {"todo", "failed"} /\ t0 \in DOMAIN Items
  BY <1>3, <1>10, ItemIs
<1> QED BY <1>12, <1>13, <1>14 DEF View!TakeItem

LEMMA CompletedIsNat ==
  ASSUME ServerInv, RowsAbreast, HasLatest, NEW t \in DOMAIN tasks
  PROVE  CompletedSteps(t) \in Nat
<1>1. PICK r : IsLatestRun(t, r)
  BY DEF HasLatest
<1>2. r # 0 => Tip(r) \in Nat
  BY <1>1, TipFacts DEF IsLatestRun, RunsOf
<1>3. CompletedSteps(t) = IF r = 0 THEN 0 ELSE Tip(r)
  BY <1>1, CompletedIsTip DEF CompletedAtTip
<1> QED BY <1>2, <1>3

(* A publication completes a step, or says again what the row says.           *)
LEMMA PublishCompletes ==
  ASSUME ServerInv, WorkInv, MishapInv, BehindInv, HasLatest, [ServerNext]_runnerVars,
         NEW p \in Procs, Publishes(p)
  PROVE  \/ Items' = Items
         \/ \E t \in DOMAIN Items : View!CompleteStep(t)
<1>1. PICK r, s, t0 : r = proc[p].run /\ s = proc[p].sess /\ t0 = runs[r].task
  OBVIOUS
<1>2. /\ proc[p].pc \in Owning \cup Recovering /\ proc[p].pc \in Holding
      /\ runs[r].status = "running"
  BY <1>1, WriterFacts
<1>3. r \in DOMAIN runs /\ Bound(s, r) /\ t0 = s.id[1] /\ s.next \in Nat
  BY <1>1, <1>2, HolderFacts
<1>4. t0 \in DOMAIN tasks /\ r \in RunsOf(t0)
  BY <1>1, <1>3, DatabaseFacts DEF ServerInv, RunsOf
<1>5. tasks[t0].status = "in_progress"
  BY <1>2, <1>3, <1>4
     DEF ServerInv, DatabaseOK, StoreInvOver, OneRunningAttempt, InProgressHasRun, RunningRuns
<1>6. /\ UNCHANGED <<tasks, comments>>
      /\ \A other \in DOMAIN runs : other # r => runs'[other] = runs[other]
  <2>1. PICK row : runs' = [runs EXCEPT ![r] = row] /\ UNCHANGED <<tasks, comments>>
    BY <1>1 DEF Publishes, UpdateProgress
  <2> QED BY <2>1
<1>7. \A t \in DOMAIN tasks : t # t0 => CompletedSteps(t)' = CompletedSteps(t)
  BY <1>1, <1>6, CompletedMoves DEF Commits, RunsOf
<1>8. \A t \in DOMAIN tasks : CompletedSteps(t)' = CompletedSteps(t) => Items'[t] = Items[t]
  BY <1>6, SameItem DEF CommentsOn
<1>9. CASE CompletedSteps(t0)' = CompletedSteps(t0)
  <2>1. \A t \in DOMAIN tasks : Items'[t] = Items[t]
    BY <1>7, <1>8, <1>9
  <2>2. /\ Items = [t \in DOMAIN tasks |-> Items[t]]
        /\ Items' = [t \in DOMAIN tasks |-> Items'[t]]
    BY <1>6 DEF Items
  <2> HIDE DEF Items
  <2> QED BY <2>1, <2>2
<1>10. CASE CompletedSteps(t0)' # CompletedSteps(t0)
  <2>1. PICK q \in Procs : Commits(q, t0)
    BY <1>4, <1>10, CompletedMoves
  <2>2. q = p \/ proc[q].run = r
    BY <1>1, <1>6, <2>1 DEF Commits, RunsOf
  <2>3. PICK n, k, c : /\ n = CompletedSteps(t0) /\ k = Len(plans[t0].costs)
                       /\ c = Cardinality({i \in DOMAIN comments : comments[i] = t0})
    OBVIOUS
  <2>4. n \in Nat /\ k \in Nat
    <3>1. plans[t0] \in Plans
      BY <1>4, DatabaseFacts DEF ServerInv
    <3> QED BY <1>4, <2>3, <3>1, CompletedIsNat, PlanFields DEF MishapInv
  <2>5. n < k
    <3>1. PICK u : u = proc[q].sess
      OBVIOUS
    <3>2. proc[q].pc \in Owning \cup Recovering /\ proc[q].pc \in Holding
      BY <2>1, WriterFacts DEF Commits
    <3>3. Bound(u, r) /\ u.next \in Nat
      BY <1>1, <2>2, <3>1, <3>2, HolderFacts
    <3>4. u.plan = plans[t0] /\ u.next <= Len(u.plan.costs)
      <4>1. u.id[1] = t0
        BY <1>3, <3>3 DEF Bound
      <4> QED BY <3>3, <4>1 DEF Bound, Sound
    <3>5. n + 1 = u.next
      BY <2>1, <2>3, <3>1 DEF Commits
    <3> QED BY <2>3, <2>4, <3>3, <3>4, <3>5
  <2>6. CompletedSteps(t0)' = n + 1
    BY <2>1, <2>3 DEF Commits
  <2>7. plans'[t0] = plans[t0]
    BY <1>4, StepIsSteady, DatabaseFacts DEF Steady, ServerInv
  <2>8. /\ Items[t0] = [state |-> "in_progress", steps |-> k, completed |-> n,
                        comments |-> c]
        /\ Items'[t0] = [state |-> "in_progress", steps |-> k, completed |-> n + 1,
                         comments |-> c]
    BY <1>4, <1>5, <1>6, <2>3, <2>6, <2>7 DEF Items
  <2>9. PICK item : item = [Items[t0] EXCEPT !.completed = Items[t0].completed + 1]
    OBVIOUS
  <2>10. Items'[t0] = item
    BY <2>8, <2>9
  <2>11. Items' = [Items EXCEPT ![t0] = item]
    BY <1>4, <1>6, <1>7, <1>8, <2>10, OneItem
  <2>12. /\ t0 \in DOMAIN Items /\ Items[t0].state = "in_progress"
         /\ Items[t0].completed < Items[t0].steps
    BY <1>4, <2>5, <2>8, ItemIs
  <2> QED BY <2>9, <2>11, <2>12 DEF View!CompleteStep
<1> QED BY <1>9, <1>10

(* An end completes nothing: the last step was accepted before.               *)
LEMMA EndLeavesSteps ==
  ASSUME ServerInv, WorkInv, MishapInv, BehindInv, HasLatest, [ServerNext]_runnerVars,
         NEW p \in Procs, Ends(p)
  PROVE  \A t \in DOMAIN tasks : CompletedSteps(t)' = CompletedSteps(t)
<1>1. PICK r : r = proc[p].run
  OBVIOUS
<1>2. /\ runs'[r].status # "running"
      /\ \A other \in DOMAIN runs : other # r => runs'[other] = runs[other]
  BY <1>1, EndedRow
<1> QED BY <1>2, CompletedMoves DEF Commits, RunsOf

(* A run that completes its task has had all of the steps accepted.           *)
LEMMA DeliveryIsComplete ==
  ASSUME ServerInv, WorkInv, MishapInv, BehindInv, [ServerNext]_runnerVars,
         NEW p \in Procs, Ends(p), proc[p].sess.halt = "completed",
         NEW t, t = proc[p].task
  PROVE  t \in DOMAIN tasks /\ CompletedSteps(t) = Len(plans[t].costs)
<1>1. PICK r, s : r = proc[p].run /\ s = proc[p].sess
  OBVIOUS
<1>2. /\ proc[p].pc \in Owning \cup Recovering /\ proc[p].pc \in Holding
      /\ runs[r].status = "running"
  BY <1>1, WriterFacts
<1>3. r \in DOMAIN runs /\ runs[r].task = t /\ Bound(s, r)
  BY <1>1, <1>2, WorkingFacts
<1>4. s.plan = plans[t] /\ s.next = Len(s.plan.costs)
  <2>1. s.id[1] = t
    BY <1>1, <1>2, <1>3, HolderFacts
  <2> QED BY <1>1, <1>3, <2>1 DEF Bound, Sound, HaltIsTrue
<1>5. IsLatestRun(t, r) /\ r # 0
  <2>1. RunningIsLatest
    BY DEF ServerInv, DatabaseOK, StoreInvOver, OneRunningAttempt
  <2>2. t \in DOMAIN tasks /\ r \in RunsOf(t)
    BY <1>3, DatabaseFacts DEF ServerInv, RunsOf
  <2>3. IsLatestRun(t, r)
    BY <1>2, <2>1, <2>2 DEF RunningIsLatest
  <2>4. r # 0
    BY <1>3, DatabaseFacts DEF ServerInv
  <2> QED BY <1>3, <2>3, <2>4
<1>6. Tip(r)' = s.next
  <2>1. s # NoSession
    BY <1>1, <1>2, HolderFacts
  <2>2. runs'[r].work = Work(s)
    BY <1>1, EndedRow
  <2> QED BY <2>1, <2>2 DEF Tip, SessionOf, Work
<1>7. Tip(r)' = Tip(r)
  <2>1. runs'[r].status # "running"
    BY <1>1, EndedRow
  <2> QED BY <1>3, <2>1, TipMoves
<1>8. t \in DOMAIN tasks
  BY <1>3, DatabaseFacts DEF ServerInv
<1> QED BY <1>4, <1>5, <1>6, <1>7, <1>8, CompletedIsTip DEF CompletedAtTip

(* What an end writes to the task and its comments.                           *)
LEMMA EndedTask ==
  ASSUME ServerInv, WorkInv, NEW p \in Procs, Ends(p), NEW t0, t0 = proc[p].task
  PROVE  /\ t0 \in DOMAIN tasks /\ tasks[t0].status = "in_progress"
         /\ DOMAIN tasks' = DOMAIN tasks
         /\ \A t \in DOMAIN tasks : t # t0 => tasks'[t] = tasks[t]
         /\ IF proc[p].sess.halt = "completed"
              THEN tasks'[t0].status = "done" /\ comments' = Append(comments, t0)
              ELSE tasks'[t0].status = "failed" /\ UNCHANGED comments
<1>1. PICK at \in 0 .. now, reset \in Resets : Finish(FinishParams(p, at, reset))
  BY EndFacts
<1>2. PICK q : q = FinishParams(p, at, reset)
  OBVIOUS
<1>3. PICK s : s = proc[p].sess
  OBVIOUS
<1>4. q.outcome = OutcomeOf(s) /\ q.comment = (s.halt = "completed") /\ q.task = t0
  BY <1>2, <1>3 DEF FinishParams
<1>5. PICK end : end = TerminalState(OutcomeOf(s))
  OBVIOUS
<1>6. PICK row : row.status = end.task /\ tasks' = [tasks EXCEPT ![t0] = row]
  <2>1. PICK cont : cont = q.cont
    OBVIOUS
  <2>2. tasks' = [tasks EXCEPT ![t0] = [status |-> end.task, cont |-> cont]]
    BY <1>1, <1>2, <1>4, <1>5, <2>1, Zenon DEF Finish
  <2> QED BY <2>2
<1>7. /\ t0 \in DOMAIN tasks /\ tasks[t0].status = "in_progress"
      /\ comments' = IF q.comment THEN Append(comments, t0) ELSE comments
  BY <1>1, <1>2, <1>4, Zenon DEF Finish, Finishable
<1>8. end.task = IF s.halt = "completed" THEN "done" ELSE "failed"
  BY <1>5 DEF OutcomeOf, TerminalState
<1>9. /\ DOMAIN tasks' = DOMAIN tasks /\ tasks'[t0].status = end.task
      /\ \A t \in DOMAIN tasks : t # t0 => tasks'[t] = tasks[t]
  BY <1>6, <1>7
<1> QED BY <1>3, <1>4, <1>7, <1>8, <1>9

(* The end of a run gives the item back, or delivers it with a comment.       *)
LEMMA EndGivesBackItem ==
  ASSUME ServerInv, WorkInv, MishapInv, BehindInv, HasLatest, [ServerNext]_runnerVars,
         NEW p \in Procs, Ends(p)
  PROVE  \E t \in DOMAIN Items : View!FailItem(t) \/ View!DeliverItem(t)
<1>1. PICK t0, done : t0 = proc[p].task /\ done = (proc[p].sess.halt = "completed")
  OBVIOUS
<1>2. /\ t0 \in DOMAIN tasks /\ tasks[t0].status = "in_progress"
      /\ DOMAIN tasks' = DOMAIN tasks
      /\ \A t \in DOMAIN tasks : t # t0 => tasks'[t] = tasks[t]
      /\ IF done
           THEN tasks'[t0].status = "done" /\ comments' = Append(comments, t0)
           ELSE tasks'[t0].status = "failed" /\ UNCHANGED comments
  BY <1>1, EndedTask
<1>3. \A t \in DOMAIN tasks : CompletedSteps(t)' = CompletedSteps(t)
  BY EndLeavesSteps
<1>4. comments \in Seq(Nat) /\ t0 \in Nat
  BY <1>2, DatabaseFacts DEF ServerInv, DatabaseOK, StoreInvOver, StoreTyped
<1>5. done => /\ DOMAIN comments' = DOMAIN comments \cup {Len(comments) + 1}
              /\ Len(comments) + 1 \notin DOMAIN comments
              /\ \A i \in DOMAIN comments : comments'[i] = comments[i]
              /\ comments'[Len(comments) + 1] = t0
  BY <1>2, <1>4, AppendRow
<1>6. \A t : t # t0 => CommentsOn(t)' = CommentsOn(t)
  <2>1. CASE done
    BY <1>5, <2>1 DEF CommentsOn
  <2>2. CASE ~done
    BY <1>2, <2>2 DEF CommentsOn
  <2> QED BY <2>1, <2>2
<1>7. \A t \in DOMAIN tasks : t # t0 => Items'[t] = Items[t]
  BY <1>2, <1>3, <1>6, SameItem
<1>8. plans'[t0] = plans[t0]
  BY <1>2, StepIsSteady, DatabaseFacts DEF Steady, ServerInv
<1>9. PICK n, k, c : /\ n = CompletedSteps(t0) /\ k = Len(plans[t0].costs)
                     /\ c = Cardinality(CommentsOn(t0))
  OBVIOUS
<1>10. /\ Items[t0] = [state |-> "in_progress", steps |-> k, completed |-> n,
                       comments |-> c]
       /\ Items'[t0] = [state |-> tasks'[t0].status, steps |-> k, completed |-> n,
                        comments |-> Cardinality(CommentsOn(t0)')]
  BY <1>2, <1>3, <1>8, <1>9 DEF Items, CommentsOn
<1>11. t0 \in DOMAIN Items
  BY <1>2, ItemIs
<1>12. CASE ~done
  <2>1. CommentsOn(t0)' = CommentsOn(t0)
    BY <1>2, <1>12 DEF CommentsOn
  <2>2. Items'[t0] = [state |-> "failed", steps |-> k, completed |-> n, comments |-> c]
    BY <1>2, <1>9, <1>10, <1>12, <2>1
  <2>3. PICK item : item = [Items[t0] EXCEPT !.state = "failed"]
    OBVIOUS
  <2>4. Items'[t0] = item
    BY <1>10, <2>2, <2>3
  <2>5. Items' = [Items EXCEPT ![t0] = item]
    BY <1>2, <1>7, <2>4, OneItem
  <2>6. Items[t0].state = "in_progress"
    BY <1>10
  <2> QED BY <1>11, <2>3, <2>5, <2>6 DEF View!FailItem
<1>13. CASE done
  <2>1. CommentsOn(t0) = {}
    BY <1>2 DEF CommentsOn, WorkInv, SaidOnce
  <2>2. CommentsOn(t0)' = {Len(comments) + 1}
    BY <1>5, <1>13, <2>1 DEF CommentsOn
  <2>3. c = 0 /\ Cardinality(CommentsOn(t0)') = 1
    BY <1>9, <2>1, <2>2, FS_EmptySet, FS_Singleton
  <2>4. Items'[t0] = [state |-> "done", steps |-> k, completed |-> n, comments |-> c + 1]
    BY <1>2, <1>10, <1>13, <2>3
  <2>5. PICK item : item = [Items[t0] EXCEPT !.state = "done",
                                             !.comments = Items[t0].comments + 1]
    OBVIOUS
  <2>6. Items'[t0] = item
    <3>1. Items[t0].comments = c
      BY <1>10
    <3>2. item = [Items[t0] EXCEPT !.state = "done", !.comments = c + 1]
      BY <2>5, <3>1
    <3>3. PICK old, m : old = Items[t0] /\ m = c + 1
      OBVIOUS
    <3>4. old = [state |-> "in_progress", steps |-> k, completed |-> n, comments |-> c]
      BY <1>10, <3>3
    <3>5. item = [old EXCEPT !.state = "done", !.comments = m]
      BY <3>2, <3>3
    <3>6. item = [state |-> "done", steps |-> k, completed |-> n, comments |-> m]
      BY <3>4, <3>5
    <3> QED BY <2>4, <3>3, <3>6
  <2>7. Items' = [Items EXCEPT ![t0] = item]
    BY <1>2, <1>7, <2>6, OneItem
  <2>8. n = k
    BY <1>1, <1>9, <1>13, DeliveryIsComplete
  <2>9. Items[t0].state = "in_progress" /\ Items[t0].completed = Items[t0].steps
    BY <1>10, <2>8
  <2>10. [Items EXCEPT ![t0].state = "done", ![t0].comments = @ + 1]
           = [Items EXCEPT ![t0] = item]
    BY <1>11, <2>5
  <2>11. View!DeliverItem(t0)
    BY <2>7, <2>9, <2>10 DEF View!DeliverItem
  <2> QED BY <1>11, <2>11
<1> QED BY <1>12, <1>13

(* A new task is a new item with nothing done.                                *)
LEMMA AddTaskAdds ==
  ASSUME ServerInv, WorkInv, HasLatest, [ServerNext]_runnerVars, AddTask
  PROVE  View!AddItem
<1>1. PICK n, plan, k : n = Len(tasks) + 1 /\ plan = env.plans[n] /\ k = Len(plan.costs)
  OBVIOUS
<1>2. /\ tasks' = Append(tasks, [status |-> "todo", cont |-> NoContinuation])
      /\ plans' = Append(plans, plan) /\ n <= Len(env.plans)
      /\ UNCHANGED <<runs, comments>>
  BY <1>1, DatabaseFacts DEF AddTask, Create, ServerInv, EnvTyped
<1>3. /\ tasks \in Seq(Task) /\ plans \in Seq(Plans) /\ Len(plans) = Len(tasks)
      /\ Len(tasks) \in Nat
  BY DatabaseFacts DEF ServerInv, DatabaseOK
<1>4. plan \in Plans
  BY <1>1, <1>2, <1>3, EnvFields DEF ServerInv, Scenario
<1>5. /\ Len(tasks') = Len(tasks) + 1 /\ DOMAIN tasks' = DOMAIN tasks \cup {n}
      /\ n \notin DOMAIN tasks
      /\ \A t \in DOMAIN tasks : tasks'[t].status = tasks[t].status
      /\ tasks'[n].status = "todo"
  <2>1. [status |-> "todo", cont |-> NoContinuation] \in Task
    BY EmptyContinuation DEF Task, TaskStatus
  <2> QED BY <1>1, <1>2, <1>3, <2>1, AppendRow
<1>6. plans'[n] = plan
  BY <1>1, <1>2, <1>3, <1>4, AppendRow
<1>7. \A t : CompletedSteps(t)' = CompletedSteps(t) /\ CommentsOn(t)' = CommentsOn(t)
  BY <1>2 DEF CompletedSteps, RunsOf, IsLatestRun, SessionOf, CommentsOn
<1>8. \A t \in DOMAIN tasks : Items'[t] = Items[t]
  BY <1>5, <1>7, SameItem
<1>9. CompletedSteps(n) = 0 /\ CommentsOn(n) = {}
  BY <1>5, DatabaseFacts DEF CompletedSteps, RunsOf, CommentsOn, ServerInv, WorkInv, SaidOnce
<1>10. PICK item : item = [state |-> "todo", steps |-> k, completed |-> 0, comments |-> 0]
  OBVIOUS
<1>11. Items'[n] = item
  <2>1. Cardinality(CommentsOn(n)') = 0
    BY <1>7, <1>9, FS_EmptySet
  <2>2. CompletedSteps(n)' = 0
    BY <1>7, <1>9
  <2> QED BY <1>1, <1>5, <1>6, <1>10, <2>1, <2>2 DEF Items, CommentsOn
<1>12. /\ Items = [t \in DOMAIN tasks |-> Items[t]]
       /\ Items' = [t \in DOMAIN tasks' |-> Items'[t]]
  BY DEF Items
<1> HIDE DEF Items
<1>13. PICK old, new, len : old = Items /\ new = Items' /\ len = Len(tasks)
  OBVIOUS
<1>14. DOMAIN tasks = 1 .. len /\ len \in Nat /\ DOMAIN tasks' = 1 .. len + 1 /\ n = len + 1
  BY <1>1, <1>3, <1>5, <1>13, DatabaseFacts DEF ServerInv
<1>15. /\ \A t \in 1 .. len : new[t] = old[t]
       /\ new[len + 1] = item /\ DOMAIN new = 1 .. len + 1
  BY <1>8, <1>11, <1>12, <1>13, <1>14
<1>16. new = Append(old, item)
  <2>1. PICK S : S = {new[t] : t \in 1 .. len + 1}
    OBVIOUS
  <2>2. ASSUME NEW t \in 1 .. len PROVE old[t] \in S
    <3>1. t \in 1 .. len + 1 /\ old[t] = new[t]
      BY <1>14, <1>15
    <3> QED BY <2>1, <3>1
  <2>3. item \in S
    BY <1>14, <1>15, <2>1
  <2>4. old \in Seq(S) /\ Len(old) = len
    <3>1. old \in [1 .. len -> S]
      BY <1>12, <1>13, <1>14, <2>2, Zenon
    <3> QED BY <1>14, <3>1
  <2>5. new \in Seq(S) /\ Len(new) = len + 1
    <3>1. new \in [1 .. len + 1 -> S]
      BY <1>12, <1>13, <1>14, <2>1, Zenon
    <3> QED BY <1>14, <3>1
  <2>6. /\ Append(old, item) \in Seq(S) /\ Len(Append(old, item)) = len + 1
        /\ \A t \in 1 .. len : Append(old, item)[t] = old[t]
        /\ Append(old, item)[len + 1] = item
    BY <1>14, <2>3, <2>4, AppendRow
  <2>7. ASSUME NEW t \in DOMAIN new PROVE new[t] = Append(old, item)[t]
    <3>1. t \in 1 .. len + 1
      BY <1>15
    <3>2. t \in 1 .. len \/ t = len + 1
      BY <1>14, <3>1
    <3> QED BY <1>15, <2>6, <3>2
  <2> QED BY <2>5, <2>6, <2>7, SameSequence
<1>17. k \in PlanSizes
  BY <1>1, <1>4 DEF PlanSizes
<1> QED BY <1>10, <1>13, <1>16, <1>17 DEF View!AddItem

(* Everything else leaves the items as they are.                              *)
LEMMA SchedulingKeepsItems ==
  ASSUME ServerInv, WorkInv, MishapInv, BehindInv, HasLatest, [ServerNext]_runnerVars,
         NEW p \in Procs, Schedules(p)
  PROVE  Items' = Items
<1>1. UNCHANGED <<runs, comments>>
  BY DEF Schedules, ReadUnscheduled, InitializeUnscheduled
<1>2. CASE UNCHANGED tasks
  BY <1>1, <1>2, SameItems
<1>3. CASE ~UNCHANGED tasks
  <2>1. PICK t0, cont : tasks' = [tasks EXCEPT ![t0].cont = cont]
    BY <1>3, Zenon DEF Schedules, ReadUnscheduled, InitializeUnscheduled
  <2>2. tasks \in Seq(Task)
    BY DatabaseFacts DEF ServerInv
  <2>3. /\ DOMAIN tasks' = DOMAIN tasks
        /\ \A t \in DOMAIN tasks : tasks'[t].status = tasks[t].status
    BY <2>1, <2>2 DEF Task
  <2> QED BY <1>1, <2>3, SameItems
<1> QED BY <1>2, <1>3

LEMMA ItemsStep ==
  ASSUME ServerInv, WorkInv, MishapInv, BehindInv, HasLatest, [ServerNext]_runnerVars
  PROVE  [View!InboxNext]_Items
<1>1. CASE AddTask
  BY <1>1, AddTaskAdds DEF View!InboxNext
<1>2. ASSUME NEW p \in Procs, CallOf(p) PROVE [View!InboxNext]_Items
  <2>1. CASE Claims(p)
    BY <2>1, ClaimTakesItem DEF View!InboxNext
  <2>2. CASE Publishes(p)
    BY <2>2, PublishCompletes DEF View!InboxNext
  <2>3. CASE Renews(p)
    <3>1. UNCHANGED <<tasks, comments>>
      BY <2>3 DEF Renews, RenewLease
    <3>2. PICK r : runs' = [runs EXCEPT ![r].lease = now + Lease]
      BY <2>3 DEF Renews, RenewLease
    <3>3. PICK lease : lease = now + Lease
      OBVIOUS
    <3>4. runs' = [runs EXCEPT ![r].lease = lease]
      BY <3>2, <3>3
    <3>5. \A i \in DOMAIN runs : runs'[i].work = runs[i].work
      <4>1. runs \in Seq(RunRow(GrantRow, WorkRow))
        BY DatabaseFacts DEF ServerInv
      <4> QED BY <3>4, <4>1 DEF RunRow
    <3> QED BY <3>1, <3>5, SameItems
  <2>4. CASE Ends(p)
    BY <2>4, EndGivesBackItem DEF View!InboxNext
  <2>5. CASE Schedules(p)
    BY <2>5, SchedulingKeepsItems
  <2> QED BY <1>2, <2>1, <2>2, <2>3, <2>4, <2>5 DEF CallOf
<1>3. CASE UNCHANGED <<tasks, runs, comments>>
  BY <1>3, SameItems
<1>4. (\E lost \in SUBSET Procs : Dies(lost)) \/ Tick \/ UNCHANGED <<dbVars, plans>>
        => UNCHANGED <<tasks, runs, comments>>
  BY DEF Dies, Tick, dbVars
<1> QED BY <1>1, <1>2, <1>3, <1>4, StepCalls

(* To its user the program is Inbox, while one thing goes wrong at most:      *)
(* steps are completed one after the other and none is taken back, whichever  *)
(* process works on the task or dies meanwhile, and the task is done, with    *)
(* its one comment, once its last step is completed.                          *)
THEOREM ImplementsInboxHolds ==
  ASSUME OneFault
  PROVE  NeverUpgraded /\ ServerSpec => ImplementsInbox
<1>1. NeverUpgraded /\ RunnerInit => BehindInv /\ HasLatest /\ View!InboxInit
  <2> SUFFICES ASSUME NeverUpgraded, RunnerInit
               PROVE  BehindInv /\ HasLatest /\ View!InboxInit
    OBVIOUS
  <2>1. tasks = << >>
    BY DEF RunnerInit, NeverUpgraded, NewInbox, StoreInit
  <2>2. Items = << >>
    BY <2>1 DEF Items
  <2> QED BY <2>1, <2>2, BehindInvInit DEF HasLatest, View!InboxInit
<1>2. ServerInv /\ WorkInv /\ MishapInv /\ BehindInv /\ HasLatest /\ [ServerNext]_runnerVars
        => BehindInv' /\ HasLatest' /\ [View!InboxNext]_Items
  BY BehindInvStep, HasLatestStep, ItemsStep
<1> QED BY <1>1, <1>2, MishapInvariant, PTL DEF ServerSpec, ImplementsInbox, View!InboxSpec

=============================================================================
