------------------------------- MODULE Domain -------------------------------
(* internal/domain/types.go: the vocabulary every other package shares, and   *)
(* the policy that turns the end of an attempt into a continuation decision.  *)
(* Durations and instants are natural numbers of one unit; an absent instant  *)
(* (a nil pointer, a NULL column) is NoTime.                                  *)
EXTENDS Naturals

CONSTANT NoTime

ASSUME NoTimeAssumption == NoTime \notin Nat

TaskStatus == {"todo", "in_progress", "failed", "done"}
RunStatus == {"running", "succeeded", "errored", "token_exhausted", "interrupted"}
ExitReason ==
  {"", "completed", "agent_error", "token_budget_exhausted", "interrupted"}
AttemptOutcome == {"completed", "agent_error", "token_exhausted", "interrupted"}
ProviderWindowOrigin == {"", "fresh", "continued"}

(* The reason text of a stopped continuation is a constant of the program,    *)
(* so the kind and the eligibility instant are the whole decision.            *)
ContinuationDecision ==
  [kind : {"", "scheduled", "stopped"}, at : Nat \cup {NoTime}]

NoContinuation == [kind |-> "", at |-> NoTime]
ScheduledContinuation(at) == [kind |-> "scheduled", at |-> at]
StoppedContinuation(at) == [kind |-> "stopped", at |-> at]

(* What ParseContinuation accepts of a stored row.                            *)
ParsesAsContinuation(d) == (d.kind = "") <=> (d.at = NoTime)

(* NewAttemptCompletion: which continuation each outcome may carry.           *)
ValidCompletion(outcome, d) ==
  \/ outcome \in {"completed", "agent_error"} /\ d.kind = ""
  \/ outcome = "token_exhausted"
  \/ outcome = "interrupted" /\ d.kind = "scheduled"

(* Mutants of DecideAttemptCompletion: the reset interval is not added, the   *)
(* origin of the window is not asked.                                         *)
DecideWithoutInterval(outcome, finishedAt, resetInterval, progressed, origin) ==
  CASE outcome = "token_exhausted" /\ resetInterval > 0 ->
         IF progressed \/ origin # "fresh"
           THEN ScheduledContinuation(finishedAt)
           ELSE StoppedContinuation(finishedAt)
    [] outcome = "interrupted" -> ScheduledContinuation(finishedAt)
    [] OTHER -> NoContinuation

DecideWithoutOrigin(outcome, finishedAt, resetInterval, progressed, origin) ==
  CASE outcome = "token_exhausted" /\ resetInterval > 0 ->
         IF progressed
           THEN ScheduledContinuation(finishedAt + resetInterval)
           ELSE StoppedContinuation(finishedAt + resetInterval)
    [] outcome = "interrupted" -> ScheduledContinuation(finishedAt)
    [] OTHER -> NoContinuation

DecideAttemptCompletion(outcome, finishedAt, resetInterval, progressed, origin) ==
  CASE outcome = "token_exhausted" /\ resetInterval > 0 ->
         IF progressed \/ origin # "fresh"
           THEN ScheduledContinuation(finishedAt + resetInterval)
           ELSE StoppedContinuation(finishedAt + resetInterval)
    [] outcome = "interrupted" -> ScheduledContinuation(finishedAt)
    [] OTHER -> NoContinuation

TerminalState(outcome) ==
  CASE outcome = "completed" ->
         [run |-> "succeeded", exit |-> "completed", task |-> "done"]
    [] outcome = "agent_error" ->
         [run |-> "errored", exit |-> "agent_error", task |-> "failed"]
    [] outcome = "token_exhausted" ->
         [run |-> "token_exhausted", exit |-> "token_budget_exhausted",
          task |-> "failed"]
    [] outcome = "interrupted" ->
         [run |-> "interrupted", exit |-> "interrupted", task |-> "failed"]

(* allowedTransitions and Transition.                                         *)
Transition(from, to) ==
  <<from, to>> \in { <<"todo", "in_progress">>, <<"in_progress", "done">>,
                     <<"in_progress", "failed">>, <<"failed", "in_progress">> }
=============================================================================
