------------------------------ MODULE Custody -------------------------------
(* What the database promises about who works on a task, without rows, owner  *)
(* tokens, leases or continuations: a task is held by at most one attempt at  *)
(* a time, attempts are numbered in the order they take a task, a task that   *)
(* is given back is failed or done, and a done task is never taken again.     *)
(* Store implements it with two tables and no lock.                           *)
EXTENDS Naturals, Sequences

VARIABLES
  board,   \* each task: its state and the attempts that hold it
  issued   \* the number of the last attempt

custodyVars == <<board, issued>>

Entry == [state : {"todo", "in_progress", "failed", "done"}, holders : SUBSET Nat]

CustodyInit == board = << >> /\ issued = 0

Add ==
  /\ board' = Append(board, [state |-> "todo", holders |-> {}])
  /\ UNCHANGED issued

Take(t) ==
  /\ board[t].state \in {"todo", "failed"}
  /\ board[t].holders = {}
  /\ issued' = issued + 1
  /\ board' = [board EXCEPT ![t] =
                 [state |-> "in_progress", holders |-> {issued'}]]

(* The holder gives the task back, or it is taken from it; nobody holds it.   *)
GiveBack(t, end) ==
  /\ board[t].state = "in_progress"
  /\ board' = [board EXCEPT ![t] = [state |-> end, holders |-> {}]]
  /\ UNCHANGED issued

CustodyNext ==
  \/ Add
  \/ \E t \in DOMAIN board : Take(t) \/ \E end \in {"failed", "done"} : GiveBack(t, end)

CustodySpec == CustodyInit /\ [][CustodyNext]_custodyVars
=============================================================================
