------------------------------ MODULE Session ------------------------------
(* internal/agent: the simulated agent's session, as a value. A session is a  *)
(* plan of steps with token costs and the state of the current attempt; an    *)
(* operator here is one transition of that value, and Runner decides when it  *)
(* is committed to the database and when to the session file.                 *)
(*                                                                            *)
(* Left out: names, outputs and the summary text of steps (a step is its      *)
(* number), and the BudgetHalted, Completed and ErrorMessage fields, which    *)
(* only the summary and the error text read.                                  *)
EXTENDS Domain, Sequences

HaltReason ==
  {"", "running", "completed", "agent_error", "token_exhausted", "interrupted"}

(* What a task's description and the hash of it fix: buildSteps and the       *)
(* budget and fail-at directives. failAt = 0 stands for no such directive.    *)
Plan == [costs : Seq(Nat), budget : Nat, failAt : Nat]

(* Start: an unbound session at its first step, with a fresh window.          *)
StartSession(id, plan) ==
  [id |-> id, plan |-> plan, next |-> 0, failAt |-> plan.failAt,
   allowance |-> plan.budget, remaining |-> plan.budget, used |-> 0,
   origin |-> "fresh", run |-> 0, token |-> 0, start |-> 0,
   halt |-> "", haltedAt |-> NoTime]

(* decodeState, of a session of an older release: it had one budget, which    *)
(* becomes the configured one and the allowance, and no origin of its window. *)
DecodeOlder(s) ==
  [s EXCEPT !.allowance = s.plan.budget, !.remaining = s.plan.budget - s.used,
            !.origin = ""]

BeginAttempt(s, allowance, origin) ==
  [s EXCEPT !.allowance = allowance, !.remaining = allowance, !.used = 0,
            !.origin = origin]

(* Mutant of ContinueAttempt: an interruption opens a configured window.      *)
ContinueInFullWindow(s) ==
  [s EXCEPT !.allowance = s.plan.budget, !.remaining = s.plan.budget,
            !.used = 0, !.origin = "continued"]

ContinueAttempt(s) ==
  [s EXCEPT !.allowance = s.remaining, !.used = 0, !.origin = "continued"]

(* Mutant of BindAttempt: the start of the attempt is not moved.              *)
BindKeepingStart(s, run, token) ==
  [s EXCEPT !.run = run, !.token = token,
            !.halt = "running", !.haltedAt = NoTime]

BindAttempt(s, run, token) ==
  [s EXCEPT !.run = run, !.token = token, !.start = s.next,
            !.halt = "running", !.haltedAt = NoTime]

-----------------------------------------------------------------------------
(* The conditions and transitions of the loop in run().                       *)

(* Mutants of AllStepsDone and CannotAfford: off by one.                      *)
AllButLastDone(s) == s.next + 1 >= Len(s.plan.costs)
AllStepsDone(s) == s.next >= Len(s.plan.costs)
NextCost(s) == s.plan.costs[s.next + 1]
FailsHere(s) == s.failAt > 0 /\ s.next + 1 = s.failAt
CannotAffordByTwo(s) == s.plan.costs[s.next + 1] > s.remaining + 1
CannotAfford(s) == NextCost(s) > s.remaining

(* A terminal transition stamps the instant it was observed, once.            *)
Halt(s, reason, at) ==
  [s EXCEPT !.halt = reason, !.haltedAt = IF @ = NoTime THEN at ELSE @]

(* Mutant of FailStep: the directive stays armed.                             *)
FailStepAgain(s, at) == Halt(s, "agent_error", at)

FailStep(s, at) == [Halt(s, "agent_error", at) EXCEPT !.failAt = 0]

DoStep(s) ==
  [s EXCEPT !.used = @ + NextCost(s), !.remaining = @ - NextCost(s),
            !.next = @ + 1]

Halted(s) == s.halt \notin {"", "running"}

(* AttemptCheckpoint.Output: the lines of the steps of this attempt, and the  *)
(* summary line (0) once it completed.                                        *)
OutputOf(s) ==
  (s.start + 1) .. s.next \cup (IF s.halt = "completed" THEN {0} ELSE {})
=============================================================================
