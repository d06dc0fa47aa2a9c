------------------------------- MODULE Inbox --------------------------------
(* What a user of the inbox sees of a task, without processes, sessions,      *)
(* checkpoints or files: it is worked on by attempts, an attempt completes    *)
(* one step after the other from where the last one stopped, and a task is    *)
(* done, with one comment, once all of its steps are completed. The whole     *)
(* program (Server) implements it.                                            *)
EXTENDS Naturals, Sequences

CONSTANT Sizes   \* the numbers of steps a task may have

VARIABLE inbox   \* each task: its state, its steps, how many are completed,
                 \* how many comments it has

InboxInit == inbox = << >>

AddItem ==
  \E steps \in Sizes :
    inbox' = Append(inbox, [state |-> "todo", steps |-> steps,
                            completed |-> 0, comments |-> 0])

TakeItem(t) ==
  /\ inbox[t].state \in {"todo", "failed"}
  /\ inbox' = [inbox EXCEPT ![t].state = "in_progress"]

CompleteStep(t) ==
  /\ inbox[t].state = "in_progress"
  /\ inbox[t].completed < inbox[t].steps
  /\ inbox' = [inbox EXCEPT ![t].completed = @ + 1]

FailItem(t) ==
  /\ inbox[t].state = "in_progress"
  /\ inbox' = [inbox EXCEPT ![t].state = "failed"]

DeliverItem(t) ==
  /\ inbox[t].state = "in_progress"
  /\ inbox[t].completed = inbox[t].steps
  /\ inbox' = [inbox EXCEPT ![t].state = "done", ![t].comments = @ + 1]

InboxNext ==
  \/ AddItem
  \/ \E t \in DOMAIN inbox :
       TakeItem(t) \/ CompleteStep(t) \/ FailItem(t) \/ DeliverItem(t)

InboxSpec == InboxInit /\ [][InboxNext]_inbox
=============================================================================
