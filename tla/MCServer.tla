------------------------------ MODULE MCServer ------------------------------
(* The inbox on small instances: two processes, one or two tasks.             *)
EXTENDS Server, TLC

(* Plans by what happens to them.                                             *)
(* Exhausting: a window funds the first step, the next one the second.        *)
(* Failing:    the first step fails once; two windows fund one step each.     *)
(* Tight:      a window funds exactly one step.                               *)
(* Single:     a window funds its only step.                                  *)
(* Oversized:  no window funds the second step.                               *)
(* FailingLate: three windows fund a step each, and the third fails once.     *)
Exhausting == [costs |-> <<1, 2>>, budget |-> 2, failAt |-> 0]
Failing == [costs |-> <<1, 1>>, budget |-> 1, failAt |-> 1]
Tight == [costs |-> <<1, 1>>, budget |-> 1, failAt |-> 0]
Single == [costs |-> <<1>>, budget |-> 1, failAt |-> 0]
Oversized == [costs |-> <<1, 3>>, budget |-> 2, failAt |-> 0]
FailingLate == [costs |-> <<1, 1, 1>>, budget |-> 1, failAt |-> 3]

(* The values the columns and the session state take. *)
TokensUsed == 0 .. 3
OwnerTokens == 1 .. MaxRuns
EmptyWork == [output |-> {}, checkpoint |-> NoSession]

-----------------------------------------------------------------------------
(* Scenarios. Nothing goes wrong in Calm, and anybody may do anything.        *)
Calm ==
  [plans |-> <<Tight>>, upgraded |-> FALSE, role |-> [p \in Procs |-> {"run", "resume", "serve"}],
   kept |-> {}, interval |-> 1, diskFails |-> FALSE,
   faults |-> 0, signals |-> 0, outages |-> 0, until |-> 2]

(* One crash or stall anywhere around an exhaustion; a signal anywhere around *)
(* one, in a plan that fresh windows can fund and in one that they cannot,    *)
(* which only servers continue.                                               *)
OneMishap ==
  {[Calm EXCEPT !.plans = <<Exhausting>>, !.faults = 1, !.until = 3],
   [Calm EXCEPT !.signals = 1],
   [Calm EXCEPT !.plans = <<Oversized>>, !.signals = 1,
                !.role = [p \in Procs |-> {"run", "serve"}]]}

(* Executors without an interval: what exhausts is left to the server.        *)
LeftUnscheduled ==
  {[Calm EXCEPT !.plans = <<Failing>>, !.interval = 0, !.faults = 1]}

TwoCrashes ==
  {[Calm EXCEPT !.plans = <<Exhausting>>, !.faults = 2, !.until = 4]}
ErrorAfterScan ==
  {[Calm EXCEPT !.plans = <<FailingLate>>, !.interval = 0, !.until = 0]}
ContinuedUnscheduled == {[Calm EXCEPT !.interval = 0, !.signals = 1, !.until = 1]}
LateStart == {[Calm EXCEPT !.faults = 1]}
ReadOnlyDisk ==
  {[Calm EXCEPT !.role = [p \in Procs |-> {"work"}], !.diskFails = TRUE]}

(* With liveness: one process serves and is restarted, the other executes.    *)
Served ==
  LET server == CHOOSE p \in Procs : TRUE IN
  [Calm EXCEPT !.kept = {server}, !.until = 1,
               !.role = [p \in Procs |-> IF p = server THEN {"serve"} ELSE {"run"}]]

(* Two servers race, each able to execute; a human resumes and is signalled;  *)
(* two tasks wait for one server; power is lost; two work commands race       *)
(* through two tasks without any server; the program is upgraded.             *)
Takeovers ==
  {[Served EXCEPT !.plans = <<Single>>, !.kept = Procs, !.faults = 1,
                  !.role = [p \in Procs |-> {"run", "serve"}]],
   [Served EXCEPT !.role = [p \in Procs |-> IF p \in Served.kept THEN {"serve"}
                                            ELSE {"work", "resume"}],
                  !.faults = 1, !.signals = 1, !.until = 0],
   [Served EXCEPT !.plans = <<Tight, Single>>, !.faults = 1, !.until = 0],
   [Served EXCEPT !.outages = 1],
   [Served EXCEPT !.upgraded = TRUE, !.faults = 1],
   [Calm EXCEPT !.plans = <<Single, Single>>, !.faults = 1, !.until = 0,
                !.role = [p \in Procs |-> {"work"}]]}

Poisoned ==
  {[Served EXCEPT !.plans = <<Tight, Tight>>, !.faults = 1, !.outages = 1]}

(* Processes are interchangeable. *)
Symmetric == Permutations(Procs)
=============================================================================
