----------------------------- MODULE WorkProofs -----------------------------
(* What attempts record of their work: every session stands at a step up to   *)
(* which the rows of its task have it all, so that a task is done with all of *)
(* its work; and there is always a session to recover a run from.             *)
EXTENDS LineageProofs

-----------------------------------------------------------------------------
(* What a step does to the session and to the run that a process holds. *)

(* Where a process has claimed the run it holds, and where it holds one.      *)
Owners == {"bind"} \cup Owning
Holding == Owners \cup {"load"} \cup Recovering

(* It goes on without a run.                                                  *)
Frees(p) ==
  /\ proc'[p].pc \notin Holding \cup {"claim"}
  /\ \/ proc'[p].sess = NoSession
     \/ proc'[p].sess = proc[p].sess /\ proc[p].pc # "commit"

(* It prepares a session for a claim: a new one, or one from a row.           *)
Prepares(p) ==
  /\ proc'[p].pc = "claim" /\ proc'[p].sess \in SessionRow
  /\ \/ proc'[p].sess.next = 0 /\ files'[proc'[p].sess.id] # NoSession
     \/ \E r \in DOMAIN runs :
          /\ SessionOf(r) # NoSession /\ proc'[p].sess.id = runs[r].grant.session
          /\ SessionOf(r).id = proc'[p].sess.id
          /\ SessionOf(r).next = proc'[p].sess.next

Takes(p) ==
  /\ Claims(p)
  /\ proc'[p].pc = "bind" /\ proc'[p].run = Len(runs) + 1
  /\ proc'[p].sess = proc[p].sess

Binds(p) ==
  /\ proc[p].pc = "bind" /\ proc'[p].pc = "publish"
  /\ proc'[p].run = proc[p].run /\ UNCHANGED runs
  /\ proc[p].sess # NoSession /\ proc'[p].sess.id = proc[p].sess.id
  /\ proc'[p].sess.next = proc[p].sess.next
  /\ proc'[p].sess.failAt = proc[p].sess.failAt /\ proc'[p].sess.halt = "running"

(* It commits the session of its loop, or moves on with it.                   *)
GoesOn(p) ==
  /\ {proc[p].pc, proc'[p].pc} \subseteq Owning /\ proc'[p].run = proc[p].run
  /\ \/ /\ proc'[p].sess = proc[p].sess
        /\ proc[p].pc = "commit" => Publishes(p)
        /\ proc'[p].pc = "persist" => proc[p].pc = "commit"
        /\ proc'[p].pc = "finish" => files'[proc[p].sess.id] = proc[p].sess
     \/ /\ proc[p].pc \in {"top", "delay"} /\ proc'[p].pc = "commit"
        /\ proc[p].sess # NoSession /\ proc'[p].sess.id = proc[p].sess.id
        /\ proc'[p].sess.start = proc[p].sess.start
        /\ proc[p].sess.start <= proc[p].sess.next
        /\ proc[p].sess.next <= proc'[p].sess.next
        /\ proc'[p].sess.next <= proc[p].sess.next + 1
        /\ OutputOf(proc[p].sess) \subseteq OutputOf(proc'[p].sess)
        /\ proc[p].sess.failAt = 0 =>
             proc'[p].sess.failAt = 0 /\ proc'[p].sess.halt # "agent_error"

(* It finds a run whose lease ran out, and restores its session.              *)
Loads(p) ==
  /\ proc'[p].pc = "load" /\ UNCHANGED <<now, runs>>
  /\ Expired(proc'[p].run) /\ proc'[p].sess = SessionOf(proc'[p].run)

Restores(p) ==
  LET file == files[runs[proc[p].run].grant.session] IN
  /\ proc[p].pc = "load" /\ proc'[p].pc \in Recovering
  /\ proc'[p].run = proc[p].run /\ UNCHANGED <<now, runs>>
  /\ \/ /\ proc[p].sess # NoSession /\ proc'[p].sess = proc[p].sess
        /\ proc'[p].pc = "reconcile"
     \/ /\ proc[p].sess = NoSession /\ file # NoSession
        /\ runs[proc[p].run].grant.session \in SessionIds
        /\ proc'[p].sess.id = file.id /\ proc'[p].sess.next = file.next
        /\ \/ proc'[p].pc = "reconcile" /\ proc'[p].sess = file
           \/ /\ proc'[p].pc = "rebind" /\ file.run < proc[p].run
              /\ proc'[p].sess.start = file.next
              /\ proc'[p].sess.failAt = file.failAt
              /\ proc'[p].sess.halt = "running"

Keeps(p) ==
  /\ \/ proc'[p].pc = proc[p].pc
     \/ proc[p].pc = "rebind" /\ proc'[p].pc = "reconcile"
  /\ proc'[p].run = proc[p].run /\ proc'[p].sess = proc[p].sess

Moves(p) ==
  \/ Frees(p) \/ Prepares(p) \/ Takes(p) \/ Binds(p) \/ GoesOn(p)
  \/ Loads(p) \/ Restores(p) \/ Keeps(p)

(* Nobody but p takes a step.                                                 *)
Alone(p) == \A q \in Procs \ {p} : proc'[q] = proc[q]

LEMMA StepsAlone ==
  ASSUME ServerInv, NEW p \in Procs, NEW new, proc' = [proc EXCEPT ![p] = new]
  PROVE  Alone(p) /\ proc'[p] = new
BY DEF ServerInv, ProcsTyped, Alone

LEMMA ReturnFrees ==
  ASSUME ServerInv, NEW p \in Procs, NEW result, Return(p, result)
  PROVE  Alone(p) /\ Frees(p)
<1> DEFINE me == CASE proc[p].mode = "serve" /\ result # "error" /\ ~proc[p].cancelled ->
                        [Idle EXCEPT !.pc = "scan", !.mode = "serve"]
                   [] proc[p].mode = "work" /\ ~proc[p].cancelled ->
                        [Idle EXCEPT !.pc = "pick", !.mode = "work"]
                   [] OTHER -> Idle
<1>1. proc' = [proc EXCEPT ![p] = me]
  BY DEF Return
<1>2. me.pc \in {"idle", "scan", "pick"} /\ me.sess = NoSession
  BY DEF Idle
<1> HIDE DEF me
<1>3. Alone(p) /\ proc'[p] = me
  BY <1>1, StepsAlone
<1> QED BY <1>2, <1>3 DEF Frees, Holding, Owners, Owning, Recovering, InLoop

LEMMA AdvanceFields ==
  ASSUME ServerInv, NEW p \in Procs, NEW pc, NEW s, Advance(p, pc, s)
  PROVE  /\ Alone(p) /\ proc'[p].pc = pc /\ proc'[p].sess = s
         /\ proc'[p].run = proc[p].run /\ proc'[p].leaseLost = proc[p].leaseLost
<1>1. PICK me : me = proc[p]
  OBVIOUS
<1>2. PICK new : new = [me EXCEPT !.pc = pc, !.sess = s]
  OBVIOUS
<1>3. me \in ProcRow
  BY <1>1, ProcFacts
<1>4. new.pc = pc /\ new.sess = s /\ new.run = me.run /\ new.leaseLost = me.leaseLost
  BY <1>2, <1>3 DEF ProcRow
<1>5. proc' = [proc EXCEPT ![p] = new]
  BY <1>1, <1>2 DEF Advance
<1> QED BY <1>1, <1>4, <1>5, StepsAlone

-----------------------------------------------------------------------------
(* The steps of an attempt. *)

(* A claim binds its process to the new run.                                  *)
LEMMA ClaimsTake ==
  ASSUME ServerInv, NEW p \in Procs, Claims(p)
  PROVE  Alone(p) /\ Takes(p)
<1>1. PICK r, me : r = Len(runs) + 1 /\ me = proc[p]
  OBVIOUS
<1>2. PICK new : new = [me EXCEPT !.pc = "bind", !.run = r]
  OBVIOUS
<1>3. proc' = [proc EXCEPT ![p] = new]
  BY <1>1, <1>2 DEF Claims
<1>4. new.pc = "bind" /\ new.run = r /\ new.sess = me.sess
  BY <1>1, <1>2, ProcFacts DEF ProcRow
<1>5. Alone(p) /\ proc'[p] = new
  BY <1>3, StepsAlone
<1> QED BY <1>1, <1>4, <1>5 DEF Takes

LEMMA ClaimAttemptMoves ==
  ASSUME ServerInv, NEW p \in Procs, ClaimAttempt(p)
  PROVE  Alone(p) /\ Moves(p)
<1> DEFINE
      auth == CASE proc[p].kind = "scheduled" -> "automatic"
                [] proc[p].kind = "interrupted" -> "interrupted"
                [] OTHER -> "owner"
<1>1. auth \in {"owner", "automatic", "interrupted"}
  BY Zenon
<1>2. /\ proc[p].pc = "claim"
      /\ \E at \in proc[p].since .. now :
           \/ /\ StartOwnedAttempt(auth, ClaimParams(p, at), Len(runs) + 1)
              /\ proc' = [proc EXCEPT ![p].pc = "bind", ![p].run = Len(runs) + 1]
           \/ Return(p, "conflict")
  BY DEF ClaimAttempt, ClaimParams, At
<1> HIDE DEF auth
<1>3. CASE Return(p, "conflict")
  BY <1>3, ReturnFrees DEF Moves
<1>4. ASSUME NEW at \in proc[p].since .. now,
             StartOwnedAttempt(auth, ClaimParams(p, at), Len(runs) + 1),
             proc' = [proc EXCEPT ![p].pc = "bind", ![p].run = Len(runs) + 1]
      PROVE  Alone(p) /\ Moves(p)
  <2>1. Claims(p)
    BY <1>1, <1>2, <1>4 DEF Claims
  <2> QED BY <2>1, ClaimsTake DEF Moves
<1> QED BY <1>2, <1>3, <1>4

LEMMA BindSessionMoves ==
  ASSUME ServerInv, NEW p \in Procs, BindSession(p)
  PROVE  Alone(p) /\ Moves(p)
<1>1. PICK s, r : s = proc[p].sess /\ r = proc[p].run
  OBVIOUS
<1>2. /\ proc[p].pc = "bind" /\ UNCHANGED runs
      /\ Advance(p, "publish", BindAttempt(s, r, RunOf(p).owner))
  BY <1>1 DEF BindSession, At, dbVars
<1>3. Binding(proc[p])
  BY <1>2, ProcFacts DEF LocalOK
<1>4. /\ Sound(s) /\ s.used = 0 /\ r \in DOMAIN runs
      /\ runs[r].grant = [session |-> s.id, budget |-> s.allowance, startStep |-> s.next]
  BY <1>1, <1>3 DEF Binding
<1>5. RunOf(p).owner = r /\ r \in Nat
  BY <1>1, <1>4, RunFacts DEF RunOf, ServerInv
<1>6. PICK b : b = BindAttempt(s, r, r)
  OBVIOUS
<1>7. b.id = s.id /\ b.next = s.next /\ b.failAt = s.failAt /\ b.halt = "running"
  BY <1>4, <1>5, <1>6, BindIsBound
<1>8. /\ Alone(p) /\ proc'[p].pc = "publish" /\ proc'[p].sess = b
      /\ proc'[p].run = proc[p].run
  BY <1>2, <1>5, <1>6, AdvanceFields
<1>9. s # NoSession
  BY <1>4, SoundFields, RunnerAssumption
<1> QED BY <1>1, <1>2, <1>7, <1>8, <1>9 DEF Binds, Moves

(* A step within the loop: the session is kept, or replaced by one that       *)
(* stands at least as far.                                                    *)
LEMMA LoopMoves ==
  ASSUME ServerInv, NEW p \in Procs, proc[p].pc \in Owning,
         NEW pc \in Owning, Goto(p, pc), proc[p].pc = "commit" => Publishes(p),
         pc = "persist" => proc[p].pc = "commit",
         pc = "finish" => files'[proc[p].sess.id] = proc[p].sess
  PROVE  Alone(p) /\ Moves(p)
<1>1. Advance(p, pc, proc[p].sess)
  BY GotoIsAdvance
<1>2. /\ Alone(p) /\ proc'[p].pc = pc /\ proc'[p].sess = proc[p].sess
      /\ proc'[p].run = proc[p].run
  BY <1>1, AdvanceFields
<1> QED BY <1>2 DEF GoesOn, Moves

LEMMA CommittingMoves ==
  ASSUME ServerInv, NEW p \in Procs, proc[p].pc \in {"top", "delay"},
         NEW s, Advance(p, "commit", s),
         s.id = proc[p].sess.id, s.start = proc[p].sess.start,
         s.next \in Nat, proc[p].sess.next <= s.next, s.next <= proc[p].sess.next + 1,
         proc[p].sess.failAt = 0 => s.failAt = 0 /\ s.halt # "agent_error"
  PROVE  Alone(p) /\ Moves(p)
<1>1. {proc[p].pc, "commit"} \subseteq Owning
  BY DEF Owning, InLoop
<1>2. /\ Alone(p) /\ proc'[p].pc = "commit" /\ proc'[p].sess = s
      /\ proc'[p].run = proc[p].run
  BY AdvanceFields
<1>3. PICK me : me = proc[p].sess
  OBVIOUS
<1>4. Bound(me, proc[p].run) /\ me.halt = "running"
  BY <1>1, <1>3, LoopFacts
<1>5. me.start \in Nat /\ me.next \in Nat /\ me # NoSession /\ me.start <= me.next
  BY <1>4, SoundFields, RunnerAssumption DEF Bound, Sound
<1>6. OutputOf(me) \subseteq OutputOf(s)
  BY <1>3, <1>4, <1>5 DEF OutputOf
<1> QED BY <1>1, <1>2, <1>3, <1>5, <1>6 DEF GoesOn, Moves

LEMMA LoopTopMoves ==
  ASSUME ServerInv, NEW p \in Procs, LoopTop(p)
  PROVE  Alone(p) /\ Moves(p)
<1>1. PICK s, r : s = proc[p].sess /\ r = proc[p].run
  OBVIOUS
<1>2. proc[p].pc = "top" /\ proc[p].pc \in Owning /\ "delay" \in Owning
  BY DEF LoopTop, At, Owning, InLoop
<1>3. /\ Bound(s, r) /\ s.halt = "running" /\ s.start = runs[r].grant.startStep
      /\ runs[r].startedAt <= now /\ now \in Nat
  BY <1>1, <1>2, LoopFacts
<1>4. s.next \in Nat
  BY <1>3, SoundFields DEF Bound
<1>5. ASSUME NEW reason \in {"completed", "interrupted", "token_exhausted"},
             reason = "completed" => AllStepsDone(s),
             reason = "token_exhausted" => ~AllStepsDone(s) /\ CannotAfford(s),
             Advance(p, "commit", Halt(s, reason, now))
      PROVE  Alone(p) /\ Moves(p)
  <2>1. PICK h : h = Halt(s, reason, now)
    OBVIOUS
  <2>2. /\ Bound(h, r) /\ h.start = s.start /\ h.next = s.next
        /\ h.failAt = s.failAt /\ h.halt = reason
    BY <1>3, <1>5, <2>1, HaltIsBound DEF AttemptOutcome
  <2>3. h.id = s.id
    BY <1>3, <2>2 DEF Bound
  <2> QED BY <1>1, <1>2, <1>4, <1>5, <2>1, <2>2, <2>3, CommittingMoves
<1>6. CASE s.failAt # 0 /\ Advance(p, "commit", FailStep(s, now))
  <2>1. PICK f : f = FailStep(s, now)
    OBVIOUS
  <2>2. Bound(f, r) /\ f.start = s.start /\ f.next = s.next
    BY <1>3, <2>1, FailIsBound
  <2>3. f.id = s.id
    BY <1>3, <2>2 DEF Bound
  <2> QED BY <1>1, <1>2, <1>4, <1>6, <2>1, <2>2, <2>3, CommittingMoves
<1>7. CASE Goto(p, "delay")
  BY <1>2, <1>7, LoopMoves
<1>8. CASE Return(p, "error")
  BY <1>8, ReturnFrees DEF Moves
<1>9. \/ AllStepsDone(s) /\ Advance(p, "commit", Halt(s, "completed", now))
      \/ Advance(p, "commit", Halt(s, "interrupted", now))
      \/ s.failAt # 0 /\ Advance(p, "commit", FailStep(s, now))
      \/ /\ ~AllStepsDone(s) /\ CannotAfford(s)
         /\ Advance(p, "commit", Halt(s, "token_exhausted", now))
      \/ Goto(p, "delay")
      \/ Return(p, "error")
  <2>1. FailsHere(s) => s.failAt # 0
    BY <1>3, SoundFields DEF Bound, FailsHere
  <2> QED BY <1>1, <2>1 DEF LoopTop
<1> QED BY <1>5, <1>6, <1>7, <1>8, <1>9

LEMMA TakeStepMoves ==
  ASSUME ServerInv, NEW p \in Procs, TakeStep(p)
  PROVE  Alone(p) /\ Moves(p)
<1>1. PICK s, r : s = proc[p].sess /\ r = proc[p].run
  OBVIOUS
<1>2. proc[p].pc = "delay" /\ proc[p].pc \in Owning
  BY DEF TakeStep, At, Owning, InLoop
<1>3. /\ Bound(s, r) /\ s.halt = "running" /\ s.start = runs[r].grant.startStep
      /\ ~AllStepsDone(s) /\ ~CannotAfford(s)
      /\ runs[r].startedAt <= now /\ now \in Nat
  BY <1>1, <1>2, LoopFacts
<1>4. s.next \in Nat
  BY <1>3, SoundFields DEF Bound
<1>5. CASE Advance(p, "commit", Halt(s, "interrupted", now))
  <2>1. PICK h : h = Halt(s, "interrupted", now)
    OBVIOUS
  <2>2. /\ Bound(h, r) /\ h.start = s.start /\ h.next = s.next
        /\ h.failAt = s.failAt /\ h.halt = "interrupted"
    BY <1>3, <2>1, HaltIsBound DEF AttemptOutcome
  <2>3. h.id = s.id
    BY <1>3, <2>2 DEF Bound
  <2> QED BY <1>1, <1>2, <1>4, <1>5, <2>1, <2>2, <2>3, CommittingMoves
<1>6. CASE Advance(p, "commit", DoStep(s))
  <2>1. PICK d : d = DoStep(s)
    OBVIOUS
  <2>2. /\ Bound(d, r) /\ d.start = s.start /\ d.next = s.next + 1
        /\ d.failAt = s.failAt /\ d.halt = "running"
    BY <1>3, <2>1, DoStepIsBound
  <2>3. d.id = s.id /\ d.next \in Nat /\ s.next <= d.next
    BY <1>3, <1>4, <2>2 DEF Bound
  <2> QED BY <1>1, <1>2, <1>6, <2>1, <2>2, <2>3, CommittingMoves
<1>7. CASE Return(p, "error")
  BY <1>7, ReturnFrees DEF Moves
<1> QED BY <1>1, <1>5, <1>6, <1>7 DEF TakeStep

LEMMA AttemptMoves ==
  ASSUME ServerInv, NEW p \in Procs, Attempt(p)
  PROVE  Alone(p) /\ Moves(p)
<1>1. CASE PublishBinding(p) \/ Commit(p)
  <2>1. proc[p].pc \in {"publish", "commit"} /\ proc[p].pc \in Owning
    BY <1>1 DEF PublishBinding, Commit, At, Owning, InLoop
  <2>2. proc[p].sess.token = proc[p].run /\ RunOf(p).owner = proc[p].run
    BY <2>1, WorkingFacts DEF RunOf
  <2>3. \/ /\ Publishes(p)
           /\ Goto(p, "top") \/ (proc[p].pc = "commit" /\ Goto(p, "persist"))
        \/ Return(p, "error")
    BY <1>1, <2>1, <2>2 DEF PublishBinding, Commit, Publishes, At
  <2>4. {"top", "persist"} \subseteq Owning
    BY DEF Owning, InLoop
  <2> QED BY <2>1, <2>3, <2>4, LoopMoves, ReturnFrees DEF Moves
<1>2. CASE Persist(p)
  <2>1. proc[p].pc = "persist" /\ \E pc \in {"finish", "top"} : Goto(p, pc)
    BY <1>2 DEF Persist, At
  <2>2. {"persist", "finish", "top"} \subseteq Owning
    BY DEF Owning, InLoop
  <2>3. files'[proc[p].sess.id] = proc[p].sess
    <3>1. proc[p].sess.id \in SessionIds /\ files \in [SessionIds -> SessionRow \cup {NoSession}]
      BY <2>1, <2>2, WorkingFacts, SoundFields DEF Bound, ServerInv, FilesTyped
    <3> QED BY <1>2, <3>1 DEF Persist
  <2> QED BY <2>1, <2>2, <2>3, LoopMoves
<1>3. CASE FinishRun(p)
  BY <1>3, ReturnFrees DEF FinishRun, Moves
<1> QED BY <1>1, <1>2, <1>3, ClaimAttemptMoves, BindSessionMoves, LoopTopMoves,
           TakeStepMoves DEF Attempt

-----------------------------------------------------------------------------
(* The steps of a recovery, and of a server and a command before an attempt.  *)

LEMMA LoadExpiredMoves ==
  ASSUME ServerInv, NEW p \in Procs, LoadExpired(p)
  PROVE  Alone(p) /\ Moves(p)
<1>1. PICK me, r : me = proc[p] /\ r = me.run
  OBVIOUS
<1>2. PICK s : s = Restore(me.sess, runs[r].grant.session)
  OBVIOUS
<1>3. me.pc = "load" /\ LocalOK(me) /\ UNCHANGED <<now, runs>>
  BY <1>1, ProcFacts DEF LoadExpired, At, dbVars
<1>4. ASSUME s # NoSession, NEW pc \in Recovering, NEW new, Advance(p, pc, new),
             new.id = s.id, new.next = s.next,
             me.sess # NoSession => new = me.sess /\ pc = "reconcile",
             \/ pc = "reconcile" /\ new = s
             \/ /\ pc = "rebind" /\ s.run < r /\ new.start = s.next
                /\ new.failAt = s.failAt /\ new.halt = "running"
      PROVE  Alone(p) /\ Moves(p)
  <2>1. /\ Alone(p) /\ proc'[p].pc = pc /\ proc'[p].sess = new
        /\ proc'[p].run = proc[p].run
    BY <1>4, AdvanceFields
  <2>2. me.sess = NoSession => s = files[runs[r].grant.session]
    BY <1>2 DEF Restore
  <2>3. runs[r].grant.session \in SessionIds
    <3>1. r \in DOMAIN runs
      BY <1>1, <1>3 DEF LocalOK
    <3> QED BY <3>1, DatabaseFacts DEF ServerInv, GrantRow
  <2> QED BY <1>1, <1>3, <1>4, <2>1, <2>2, <2>3 DEF Restores, Moves
<1>5. CASE Return(p, "error")
  BY <1>5, ReturnFrees DEF Moves
<1>6. ASSUME s # NoSession, s.run < r,
             Advance(p, "rebind",
               BindAttempt(BeginAttempt(s, runs[r].grant.budget, ""), r, runs[r].owner))
      PROVE  Alone(p) /\ Moves(p)
  <2>1. /\ r \in DOMAIN runs /\ Sound(s) /\ s.id = runs[r].grant.session
        /\ me.sess # NoSession => Bound(me.sess, r)
    BY <1>1, <1>2, <1>3, <1>6, RestoredFacts DEF LocalOK
  <2>2. RowOK(r) /\ runs[r].owner = r /\ r \in Nat /\ runs[r].grant.budget \in Nat
    BY <2>1, RunFacts, DatabaseFacts DEF ServerInv, GrantRow
  <2>3. runs[r].grant.budget <= s.plan.budget
    BY <2>1, <2>2 DEF RowOK, Sound
  <2>4. PICK b : b = BeginAttempt(s, runs[r].grant.budget, "")
    OBVIOUS
  <2>5. /\ Sound(b) /\ b.used = 0 /\ b.allowance = runs[r].grant.budget
        /\ b.id = s.id /\ b.next = s.next /\ b.failAt = s.failAt
    BY <2>1, <2>2, <2>3, <2>4, BeginIsSound DEF ProviderWindowOrigin
  <2>6. PICK new : new = BindAttempt(b, r, r)
    OBVIOUS
  <2>7. /\ new.id = s.id /\ new.next = s.next /\ new.start = s.next
        /\ new.failAt = s.failAt /\ new.halt = "running"
    BY <2>1, <2>2, <2>5, <2>6, BindIsBound
  <2>8. me.sess = NoSession
    <3>1. me.sess # NoSession => s = me.sess /\ s.run = r
      BY <1>2, <2>1 DEF Restore, Bound
    <3>2. r \in Nat /\ s.run \in Nat
      BY <2>1, <2>2, SoundFields
    <3>3. \A a, c \in Nat : a < c => a # c
      OBVIOUS
    <3>4. s.run # r
      BY <1>6, <3>2, <3>3
    <3> QED BY <3>1, <3>4
  <2>9. "rebind" \in Recovering
    BY DEF Recovering
  <2> QED BY <1>4, <1>6, <2>2, <2>4, <2>6, <2>7, <2>8, <2>9
<1>7. CASE s # NoSession /\ Advance(p, "reconcile", s)
  <2>1. me.sess # NoSession => s = me.sess
    BY <1>2 DEF Restore
  <2>2. "reconcile" \in Recovering
    BY DEF Recovering
  <2> QED BY <1>4, <1>7, <2>1, <2>2
<1> QED BY <1>1, <1>2, <1>5, <1>6, <1>7 DEF LoadExpired

LEMMA RecoveryMoves ==
  ASSUME ServerInv, NEW p \in Procs, Recovery(p)
  PROVE  Alone(p) /\ Moves(p)
<1>1. CASE Rebind(p)
  <2>1. proc[p].pc = "rebind" /\ Advance(p, "reconcile", proc[p].sess)
    BY <1>1, GotoIsAdvance DEF Rebind, At
  <2> QED BY <2>1, AdvanceFields DEF Keeps, Moves
<1>2. CASE Reconcile(p)
  BY <1>2, ReturnFrees DEF Reconcile, Moves
<1> QED BY <1>1, <1>2, LoadExpiredMoves DEF Recovery

(* A new session is in its file before the claim.                             *)
LEMMA ExecuteMoves ==
  ASSUME ServerInv, NEW p \in Procs, NEW t \in DOMAIN tasks, Execute(p, t)
  PROVE  Alone(p) /\ Moves(p)
<1>1. PICK s : s = StartSession(<<t, p>>, plans[t])
  OBVIOUS
<1>2. \/ /\ files' = [files EXCEPT ![s.id] = s]
         /\ proc' = [proc EXCEPT ![p].pc = "claim", ![p].kind = "execute",
                       ![p].task = t, ![p].since = now, ![p].sess = s]
      \/ \E result : Return(p, result)
  BY <1>1 DEF Execute
<1>3. ASSUME files' = [files EXCEPT ![s.id] = s],
             proc' = [proc EXCEPT ![p].pc = "claim", ![p].kind = "execute",
                        ![p].task = t, ![p].since = now, ![p].sess = s]
      PROVE  Alone(p) /\ Moves(p)
  <2>1. <<t, p>> \in SessionIds /\ t \in DOMAIN plans /\ plans \in Seq(Plans)
    <3>1. DatabaseOK /\ t \in 1 .. Len(tasks) /\ Len(tasks) \in Nat
      BY DatabaseFacts DEF ServerInv
    <3>2. t \in 1 .. MaxTasks
      BY <3>1, StoreAssumption DEF DatabaseOK
    <3> QED BY <3>1, <3>2, DatabaseFacts DEF SessionIds
  <2>2. Sound(s) /\ s.id = <<t, p>>
    BY <1>1, <2>1, StartIsSound
  <2>3. s \in SessionRow /\ s # NoSession /\ s.next = 0
    BY <1>1, <2>2, SoundFields, RunnerAssumption DEF StartSession
  <2>4. files'[s.id] = s
    BY <1>3, <2>1, <2>2 DEF ServerInv, FilesTyped
  <2>5. PICK me, time : me = proc[p] /\ time = now
    OBVIOUS
  <2>6. PICK new : new = [me EXCEPT !.pc = "claim", !.kind = "execute", !.task = t,
                                    !.since = time, !.sess = s]
    OBVIOUS
  <2>7. proc' = [proc EXCEPT ![p] = new]
    BY <1>3, <2>5, <2>6
  <2>8. new.pc = "claim" /\ new.sess = s
    BY <2>5, <2>6, ProcFacts DEF ProcRow
  <2>9. Alone(p) /\ proc'[p] = new
    BY <2>7, StepsAlone
  <2> QED BY <2>3, <2>4, <2>8, <2>9 DEF Prepares, Moves
<1> QED BY <1>2, <1>3, ReturnFrees DEF Moves

(* The session of a resume stands where the row of its candidate does.        *)
LEMMA ResumingMoves ==
  ASSUME ServerInv, NEW p \in Procs, NEW new, NEW r \in DOMAIN runs,
         runs[r].status # "running", proc' = [proc EXCEPT ![p] = new],
         new.pc = "claim", new.sess = Prepared(r)
  PROVE  Alone(p) /\ Moves(p)
<1>1. PICK s : s = Prepared(r)
  OBVIOUS
<1>2. /\ SessionOf(r) # NoSession /\ Bound(SessionOf(r), r)
      /\ Sound(s) /\ s.id = runs[r].grant.session /\ s.next = SessionOf(r).next
  BY <1>1, PreparedFacts DEF ServerInv
<1>3. s \in SessionRow /\ s.id = SessionOf(r).id
  BY <1>2, SoundFields DEF Bound
<1>4. Alone(p) /\ proc'[p] = new
  BY StepsAlone
<1> QED BY <1>1, <1>2, <1>3, <1>4 DEF Prepares, Moves

LEMMA ResumeMoves ==
  ASSUME ServerInv, NEW p \in Procs, NEW t, Resume(p, t)
  PROVE  Alone(p) /\ Moves(p)
<1>1. PICK r \in DOMAIN runs :
        /\ IsCandidate(t, r)
        /\ proc' = [proc EXCEPT ![p] =
             [Idle EXCEPT !.pc = "claim", !.kind = "manual", !.task = t,
                          !.cand = r, !.since = now, !.sess = Prepared(r)]]
  BY DEF Resume
<1>2. PICK time, s : time = now /\ s = Prepared(r)
  OBVIOUS
<1>3. PICK new : new = [Idle EXCEPT !.pc = "claim", !.kind = "manual", !.task = t,
                                    !.cand = r, !.since = time, !.sess = s]
  OBVIOUS
<1>4. proc' = [proc EXCEPT ![p] = new] /\ new.pc = "claim" /\ new.sess = s
  BY <1>1, <1>2, <1>3 DEF Idle
<1>5. runs[r].status # "running"
  BY <1>1 DEF IsCandidate, RunningRuns
<1> QED BY <1>2, <1>4, <1>5, ResumingMoves

LEMMA ResumeSelectedMoves ==
  ASSUME ServerInv, NEW p \in Procs, ResumeSelected(p)
  PROVE  Alone(p) /\ Moves(p)
<1>1. PICK me, r : me = proc[p] /\ r = me.cand
  OBVIOUS
<1>2. \/ /\ IsCandidate(me.task, r)
         /\ proc' = [proc EXCEPT ![p].pc = "claim",
                                 ![p].since = now, ![p].sess = Prepared(r)]
      \/ Return(p, "conflict")
  BY <1>1 DEF ResumeSelected
<1>3. CASE /\ IsCandidate(me.task, r)
           /\ proc' = [proc EXCEPT ![p].pc = "claim",
                                   ![p].since = now, ![p].sess = Prepared(r)]
  <2>1. r \in DOMAIN runs /\ runs[r].status # "running"
    BY <1>3 DEF IsCandidate, RunsOf, RunningRuns
  <2>2. PICK time, s : time = now /\ s = Prepared(r)
    OBVIOUS
  <2>3. PICK new : new = [me EXCEPT !.pc = "claim", !.since = time, !.sess = s]
    OBVIOUS
  <2>4. proc' = [proc EXCEPT ![p] = new]
    BY <1>1, <1>3, <2>2, <2>3
  <2>5. new.pc = "claim" /\ new.sess = s
    BY <1>1, <2>3, ProcFacts DEF ProcRow
  <2> QED BY <2>1, <2>2, <2>4, <2>5, ResumingMoves
<1> QED BY <1>2, <1>3, ReturnFrees DEF Moves

-----------------------------------------------------------------------------
(* The other steps. *)

LEMMA FreeMoves ==
  ASSUME ServerInv, NEW p \in Procs, NEW new, proc' = [proc EXCEPT ![p] = new],
         new.pc \notin Holding \cup {"claim"},
         new.sess = NoSession \/ (new.sess = proc[p].sess /\ proc[p].pc # "commit")
  PROVE  Alone(p) /\ Moves(p)
BY StepsAlone DEF Frees, Moves

LEMMA IdleMoves ==
  ASSUME ServerInv, NEW p \in Procs, proc' = [proc EXCEPT ![p] = Idle]
  PROVE  Alone(p) /\ Moves(p)
<1>1. Idle.pc = "idle" /\ Idle.sess = NoSession
  BY DEF Idle
<1>2. "idle" \notin Holding \cup {"claim"}
  BY DEF Holding, Owners, Owning, Recovering, InLoop
<1> QED BY <1>1, <1>2, FreeMoves

LEMMA GotoMoves ==
  ASSUME ServerInv, NEW p \in Procs, proc[p].pc # "commit",
         NEW pc \in {"scan", "initialize", "expired", "next"}, Goto(p, pc)
  PROVE  Alone(p) /\ Moves(p)
<1>1. Alone(p) /\ proc'[p].pc = pc /\ proc'[p].sess = proc[p].sess
  BY GotoIsAdvance, AdvanceFields
<1>2. pc \notin Holding \cup {"claim"}
  BY DEF Holding, Owners, Owning, Recovering, InLoop
<1> QED BY <1>1, <1>2 DEF Frees, Moves

LEMMA PickTaskMoves ==
  ASSUME ServerInv, NEW p \in Procs, PickTask(p)
  PROVE  Alone(p) /\ Moves(p)
<1>1. CASE proc' = [proc EXCEPT ![p] = Idle]
  BY <1>1, IdleMoves
<1>2. ASSUME NEW t, proc' = [proc EXCEPT ![p].pc = "start", ![p].task = t]
      PROVE  Alone(p) /\ Moves(p)
  <2>1. PICK me : me = proc[p]
    OBVIOUS
  <2>2. PICK new : new = [me EXCEPT !.pc = "start", !.task = t]
    OBVIOUS
  <2>3. proc' = [proc EXCEPT ![p] = new]
    BY <1>2, <2>1, <2>2
  <2>4. new.pc = "start" /\ new.sess = me.sess
    BY <2>1, <2>2, ProcFacts DEF ProcRow
  <2>5. "start" \notin Holding \cup {"claim"} /\ me.pc = "pick"
    BY <2>1 DEF PickTask, At, Holding, Owners, Owning, Recovering, InLoop
  <2> QED BY <2>1, <2>3, <2>4, <2>5, FreeMoves
<1> QED BY <1>1, <1>2 DEF PickTask

LEMMA StartMoves ==
  ASSUME ServerInv, NEW p \in Procs, Serve(p) \/ RunWork(p)
  PROVE  Alone(p) /\ Moves(p)
<1>1. proc[p].pc = "idle"
  BY DEF Serve, RunWork, At
<1>2. ASSUME NEW pc \in {"scan", "pick"}, NEW mode,
             proc' = [proc EXCEPT ![p].pc = pc, ![p].mode = mode]
      PROVE  Alone(p) /\ Moves(p)
  <2>1. PICK me : me = proc[p]
    OBVIOUS
  <2>2. PICK new : new = [me EXCEPT !.pc = pc, !.mode = mode]
    OBVIOUS
  <2>3. proc' = [proc EXCEPT ![p] = new]
    BY <1>2, <2>1, <2>2
  <2>4. new.pc = pc /\ new.sess = me.sess
    BY <2>1, <2>2, ProcFacts DEF ProcRow
  <2>5. pc \notin Holding \cup {"claim"}
    BY DEF Holding, Owners, Owning, Recovering, InLoop
  <2> QED BY <1>1, <2>1, <2>3, <2>4, <2>5, FreeMoves
<1>3. CASE Serve(p)
  BY <1>2, <1>3 DEF Serve
<1>4. CASE RunWork(p)
  BY <1>2, <1>4 DEF RunWork
<1> QED BY <1>3, <1>4

LEMMA ScanMoves ==
  ASSUME ServerInv, NEW p \in Procs, ScanUnscheduled(p) \/ Initialize(p)
  PROVE  Alone(p) /\ Moves(p)
<1>1. proc[p].pc # "commit"
  BY DEF ScanUnscheduled, Initialize, At
<1>2. CASE Return(p, "ok")
  BY <1>2, ReturnFrees DEF Moves
<1>3. CASE \E pc \in {"scan", "initialize", "expired", "next"} : Goto(p, pc)
  BY <1>1, <1>3, GotoMoves
<1> QED BY <1>2, <1>3, Zenon DEF ScanUnscheduled, Initialize

LEMMA FindExpiredMoves ==
  ASSUME ServerInv, NEW p \in Procs, FindExpired(p)
  PROVE  Alone(p) /\ Moves(p)
<1>1. proc[p].pc = "expired" /\ UNCHANGED <<now, runs>>
  BY DEF FindExpired, At, dbVars
<1>2. CASE Goto(p, "next")
  BY <1>1, <1>2, GotoMoves
<1>3. ASSUME NEW r \in DOMAIN runs, IsNextExpired(r),
             proc' = [proc EXCEPT ![p].pc = "load", ![p].run = r,
                        ![p].task = runs[r].task, ![p].since = now,
                        ![p].sess = runs[r].work.checkpoint]
      PROVE  Alone(p) /\ Moves(p)
  <2>1. PICK me, t, time, s :
          me = proc[p] /\ t = runs[r].task /\ time = now /\ s = SessionOf(r)
    OBVIOUS
  <2>2. PICK new : new = [me EXCEPT !.pc = "load", !.run = r, !.task = t, !.since = time,
                                    !.sess = s]
    OBVIOUS
  <2>3. proc' = [proc EXCEPT ![p] = new]
    BY <1>3, <2>1, <2>2 DEF SessionOf
  <2>4. new.pc = "load" /\ new.run = r /\ new.sess = s
    BY <2>1, <2>2, ProcFacts DEF ProcRow
  <2>5. Alone(p) /\ proc'[p] = new
    BY <2>3, StepsAlone
  <2> QED BY <1>1, <1>3, <2>1, <2>4, <2>5 DEF IsNextExpired, Loads, Moves
<1> QED BY <1>2, <1>3 DEF FindExpired

LEMMA FindContinuationMoves ==
  ASSUME ServerInv, NEW p \in Procs, FindContinuation(p)
  PROVE  Alone(p) /\ Moves(p)
<1>1. proc[p].pc = "next"
  BY DEF FindContinuation, At
<1>2. CASE Goto(p, "scan")
  BY <1>1, <1>2, GotoMoves
<1>3. ASSUME NEW t, NEW r, NEW kind,
             proc' = [proc EXCEPT ![p].pc = "select", ![p].task = t, ![p].cand = r,
                                  ![p].kind = kind]
      PROVE  Alone(p) /\ Moves(p)
  <2>1. PICK me : me = proc[p]
    OBVIOUS
  <2>2. PICK new : new = [me EXCEPT !.pc = "select", !.task = t, !.cand = r, !.kind = kind]
    OBVIOUS
  <2>3. proc' = [proc EXCEPT ![p] = new]
    BY <1>3, <2>1, <2>2
  <2>4. new.pc = "select" /\ new.sess = me.sess
    BY <2>1, <2>2, ProcFacts DEF ProcRow
  <2>5. "select" \notin Holding \cup {"claim"}
    BY DEF Holding, Owners, Owning, Recovering, InLoop
  <2> QED BY <1>1, <2>1, <2>3, <2>4, <2>5, FreeMoves
<1> QED BY <1>2, <1>3 DEF FindContinuation

LEMMA SignalMoves ==
  ASSUME ServerInv, NEW p \in Procs, Cancel(p) \/ RenewInBackground(p)
  PROVE  Alone(p) /\ Moves(p)
<1>1. PICK me : me = proc[p]
  OBVIOUS
<1>2. me \in ProcRow
  BY <1>1, ProcFacts
<1>3. CASE UNCHANGED proc
  BY <1>3 DEF Alone, Keeps, Moves
<1>4. ASSUME NEW new, proc' = [proc EXCEPT ![p] = new],
             new.pc = me.pc, new.run = me.run, new.sess = me.sess
      PROVE  Alone(p) /\ Moves(p)
  BY <1>1, <1>4, StepsAlone DEF Keeps, Moves
<1>5. CASE proc' = [proc EXCEPT ![p].cancelled = TRUE]
  <2>1. PICK new : new = [me EXCEPT !.cancelled = TRUE]
    OBVIOUS
  <2>2. proc' = [proc EXCEPT ![p] = new]
    BY <1>1, <1>5, <2>1
  <2> QED BY <1>2, <1>4, <2>1, <2>2 DEF ProcRow
<1>6. CASE proc' = [proc EXCEPT ![p].leaseLost = TRUE]
  <2>1. PICK new : new = [me EXCEPT !.leaseLost = TRUE]
    OBVIOUS
  <2>2. proc' = [proc EXCEPT ![p] = new]
    BY <1>1, <1>6, <2>1
  <2> QED BY <1>2, <1>4, <2>1, <2>2 DEF ProcRow
<1> QED BY <1>3, <1>5, <1>6, Zenon DEF Cancel, RenewInBackground

(* Every step moves every process in one of these ways, and at most one       *)
(* process claims.                                                            *)
LEMMA StepMoves ==
  ASSUME ServerInv, [ServerNext]_runnerVars
  PROVE  /\ \A q \in Procs : Moves(q)
         /\ \A q1, q2 \in Procs : Takes(q1) /\ Takes(q2) => q1 = q2
<1>1. ASSUME NEW p \in Procs, Alone(p), Moves(p)
      PROVE  /\ \A q \in Procs : Moves(q)
             /\ \A q1, q2 \in Procs : Takes(q1) /\ Takes(q2) => q1 = q2
  <2>1. \A q \in Procs \ {p} : Keeps(q) /\ ~Takes(q)
    BY <1>1 DEF Alone, Keeps, Takes, Claims
  <2> QED BY <1>1, <2>1 DEF Moves
<1>2. CASE UNCHANGED proc
  BY <1>2 DEF Moves, Keeps, Takes, Claims
<1>3. CASE Outage
  <2>1. \A q \in Procs : proc'[q] = Idle
    BY <1>3 DEF Outage
  <2>2. \A q \in Procs : proc'[q].pc = "idle" /\ proc'[q].sess = NoSession
    <3>1. Idle.pc = "idle" /\ Idle.sess = NoSession
      BY DEF Idle
    <3> QED BY <2>1, <3>1
  <2>3. \A q \in Procs : Frees(q) /\ ~Takes(q)
    BY <2>2 DEF Frees, Takes, Holding, Owners, Owning, Recovering, InLoop
  <2> QED BY <2>3 DEF Moves
<1>4. ASSUME NEW p \in Procs, Command(p) PROVE Alone(p) /\ Moves(p)
  BY <1>4, StartMoves, ExecuteMoves, ResumeMoves DEF Command
<1>5. ASSUME NEW p \in Procs, Proceed(p) PROVE Alone(p) /\ Moves(p)
  <2>1. ASSUME At(p, "start"), Execute(p, proc[p].task) PROVE Alone(p) /\ Moves(p)
    <3>1. proc[p].task \in DOMAIN tasks
      BY <2>1, ProcFacts DEF At, LocalOK
    <3> QED BY <2>1, <3>1, ExecuteMoves
  <2>2. CASE ServerStep(p)
    BY <2>2, ScanMoves, FindExpiredMoves, FindContinuationMoves, ResumeSelectedMoves,
       RecoveryMoves DEF ServerStep
  <2> QED BY <1>5, <2>1, <2>2, AttemptMoves, PickTaskMoves DEF Proceed
<1>6. ASSUME NEW p \in Procs, Crash(p) \/ FailCall(p) PROVE Alone(p) /\ Moves(p)
  BY <1>6, IdleMoves, ReturnFrees DEF Crash, FailCall, Moves
<1>7. AddTask \/ PassTime \/ (\E id \in SessionIds : WriteBack(id)) \/ UNCHANGED runnerVars
        => UNCHANGED proc
  BY DEF AddTask, PassTime, WriteBack, runnerVars
<1>8. \/ AddTask \/ PassTime \/ (\E id \in SessionIds : WriteBack(id)) \/ Outage
      \/ UNCHANGED runnerVars
      \/ \E p \in Procs : \/ Command(p) \/ Proceed(p) \/ RenewInBackground(p)
                          \/ Cancel(p) \/ Crash(p) \/ FailCall(p)
  BY DEF ServerNext
<1> QED BY <1>1, <1>2, <1>3, <1>4, <1>5, <1>6, <1>7, <1>8, SignalMoves

-----------------------------------------------------------------------------
(* What a step does to a row and to a file. *)

(* The end of a run writes to the run the process holds, and to no other.     *)
LEMMA EndedRow ==
  ASSUME ServerInv, NEW q \in Procs, Ends(q), NEW r, r = proc[q].run
  PROVE  /\ r \in DOMAIN runs /\ runs'[r].work = Work(proc[q].sess)
         /\ runs'[r].status # "running"
         /\ runs'[r].exit = TerminalState(OutcomeOf(proc[q].sess)).exit
         /\ \A other \in DOMAIN runs : other # r => runs'[other] = runs[other]
<1>1. PICK at \in 0 .. now, reset \in Resets : Finish(FinishParams(q, at, reset))
  BY EndFacts
<1>2. Working(proc[q])
  BY EndFacts
<1>3. PICK work, used, s : s = proc[q].sess /\ work = Work(s) /\ used = s.used
  OBVIOUS
<1>4. PICK end : end = TerminalState(OutcomeOf(s))
  OBVIOUS
<1>5. LET p == FinishParams(q, at, reset)
      IN p.run = r /\ p.work = work /\ p.tokens = used /\ p.outcome = OutcomeOf(s)
         /\ p.finishedAt = at
  BY <1>3 DEF FinishParams
<1>6. runs' = [runs EXCEPT ![r] =
                [@ EXCEPT !.status = end.run, !.exit = end.exit, !.tokens = used,
                          !.work = work, !.finishedAt = at]]
  BY <1>1, <1>4, <1>5, Zenon DEF Finish
<1>7. /\ r \in DOMAIN runs /\ runs[r] \in RunRow(GrantRow, WorkRow)
      /\ runs \in Seq(RunRow(GrantRow, WorkRow))
  BY <1>2, DatabaseFacts DEF ServerInv, Working, Bound
<1>8. PICK row, new :
        /\ row = runs[r]
        /\ new = [row EXCEPT !.status = end.run, !.exit = end.exit, !.tokens = used,
                             !.work = work, !.finishedAt = at]
  OBVIOUS
<1>9. runs'[r] = new /\ \A other \in DOMAIN runs : other # r => runs'[other] = runs[other]
  BY <1>6, <1>7, <1>8
<1>10. new.work = work /\ new.status = end.run /\ new.exit = end.exit
  BY <1>7, <1>8 DEF RunRow
<1>11. OutcomeOf(s) \in AttemptOutcome
  BY DEF OutcomeOf, AttemptOutcome
<1>12. end.run # "running"
  BY <1>4, <1>11 DEF AttemptOutcome, TerminalState
<1> QED BY <1>3, <1>4, <1>7, <1>9, <1>10, <1>12

(* The work of a row is what it was, or what the process that owns the run    *)
(* publishes, or what the process that ends the run has in its session.       *)
LEMMA RunChanges ==
  ASSUME ServerInv, [ServerNext]_runnerVars, NEW r \in DOMAIN runs
  PROVE  \/ /\ runs'[r].work = runs[r].work /\ runs'[r].status = runs[r].status
            /\ runs'[r].exit = runs[r].exit
            /\ runs[r].lease <= now => runs'[r].lease = runs[r].lease
            /\ runs'[r].lease \in {runs[r].lease, now + Lease}
         \/ \E q \in Procs :
              /\ Publishes(q) /\ proc[q].run = r /\ runs'[r].work = Work(proc[q].sess)
              /\ runs'[r].status = runs[r].status /\ runs'[r].lease = runs[r].lease
              /\ runs'[r].exit = runs[r].exit
         \/ \E q \in Procs :
              /\ Ends(q) /\ proc[q].run = r /\ runs'[r].work = Work(proc[q].sess)
              /\ runs'[r].status # "running"
              /\ runs'[r].exit = TerminalState(OutcomeOf(proc[q].sess)).exit
<1>1. DatabaseOK /\ runs[r] \in RunRow(GrantRow, WorkRow) /\ now \in Nat
  BY DatabaseFacts DEF ServerInv
<1>2. CASE runs'[r] = runs[r]
  BY <1>2
<1>3. ASSUME NEW q \in Procs, Claims(q) PROVE runs'[r] = runs[r]
  <2>1. PICK auth, params : StartOwnedAttempt(auth, params, Len(runs) + 1)
    BY <1>3 DEF Claims
  <2> QED BY <2>1, ClaimedRow
<1>4. ASSUME NEW q \in Procs, Publishes(q), runs'[r] # runs[r]
      PROVE  /\ proc[q].run = r /\ runs'[r].work = Work(proc[q].sess)
             /\ runs'[r].status = runs[r].status /\ runs'[r].lease = runs[r].lease
             /\ runs'[r].exit = runs[r].exit
  <2>1. PICK n, work, used : n = proc[q].run /\ work = Work(proc[q].sess)
                             /\ used = proc[q].sess.used
    OBVIOUS
  <2>2. runs' = [runs EXCEPT ![n].tokens = used, ![n].work = work]
    BY <1>4, <2>1 DEF Publishes, UpdateProgress
  <2>3. n = r
    BY <1>1, <1>4, <2>2
  <2>4. PICK row, new : row = runs[r] /\ new = [row EXCEPT !.tokens = used, !.work = work]
    OBVIOUS
  <2>5. runs'[r] = new
    BY <1>1, <2>2, <2>3, <2>4
  <2>6. /\ new.work = work /\ new.status = row.status /\ new.lease = row.lease
        /\ new.exit = row.exit
    BY <1>1, <2>4 DEF RunRow
  <2> QED BY <2>1, <2>3, <2>4, <2>5, <2>6
<1>5. ASSUME NEW q \in Procs, Renews(q), runs'[r] # runs[r]
      PROVE  /\ runs'[r].work = runs[r].work /\ runs'[r].status = runs[r].status
             /\ runs'[r].exit = runs[r].exit /\ ~(runs[r].lease <= now)
             /\ runs'[r].lease = now + Lease
  <2>1. PICK n, end : n = proc[q].run /\ end = now + Lease
    OBVIOUS
  <2>2. runs' = [runs EXCEPT ![n].lease = end] /\ runs[n].lease > now
    BY <1>5, <2>1 DEF Renews, RenewLease, Owns
  <2>3. n = r
    BY <1>1, <1>5, <2>2
  <2>4. PICK row, new : row = runs[r] /\ new = [row EXCEPT !.lease = end]
    OBVIOUS
  <2>5. runs'[r] = new
    BY <1>1, <2>2, <2>3, <2>4
  <2>6. /\ new.work = row.work /\ new.status = row.status /\ new.exit = row.exit
        /\ new.lease = end
    BY <1>1, <2>4 DEF RunRow
  <2>7. row.lease \in Nat /\ row.lease > now
    BY <1>1, <2>2, <2>3, <2>4 DEF RunRow
  <2>8. ~(row.lease <= now)
    BY <1>1, <2>7
  <2> QED BY <2>1, <2>4, <2>5, <2>6, <2>8
<1>6. ASSUME NEW q \in Procs, Ends(q), runs'[r] # runs[r]
      PROVE  /\ proc[q].run = r /\ runs'[r].work = Work(proc[q].sess)
             /\ runs'[r].status # "running"
             /\ runs'[r].exit = TerminalState(OutcomeOf(proc[q].sess)).exit
  BY <1>6, EndedRow
<1>7. \/ UNCHANGED runs
      \/ \E q \in Procs : Claims(q) \/ Publishes(q) \/ Renews(q) \/ Ends(q)
  BY StepCalls DEF AddTask, Create, CallOf, Schedules, ReadUnscheduled,
     InitializeUnscheduled, Dies, Tick, dbVars
<1> QED BY <1>2, <1>3, <1>4, <1>5, <1>6, <1>7

(* A session file is replaced by a new session, or by the one of a process    *)
(* that is not about to commit it; or power is lost, and an older version of  *)
(* it is back.                                                                *)
Replaces(id, p) ==
  LET s == proc[p].sess IN
  /\ s # NoSession /\ proc[p].pc \in {"bind", "persist", "rebind"}
  /\ files'[id].id = s.id /\ files'[id].next = s.next
  /\ files'[id] = proc'[p].sess /\ proc'[p].run = proc[p].run /\ UNCHANGED runs
  /\ proc'[p].pc \in Owning \cup Recovering

FileMoves(id) ==
  \/ files'[id] = files[id]
  \/ files'[id] = disk[id] /\ Outage
  \/ /\ files'[id] # NoSession /\ files'[id].next = 0 /\ files'[id].run = 0
     /\ tasks[id[1]].status = "todo" /\ UNCHANGED runs
  \/ files'[id] # NoSession /\ \E p \in Procs : Replaces(id, p)

LEMMA FilesMove ==
  ASSUME ServerInv, [ServerNext]_runnerVars, NEW id \in SessionIds
  PROVE  FileMoves(id) /\ disk'[id] \in {disk[id], files[id], files'[id]}
<1>1. /\ files \in [SessionIds -> SessionRow \cup {NoSession}]
      /\ disk \in [SessionIds -> SessionRow \cup {NoSession}]
  BY DEF ServerInv, FilesTyped
<1>2. CASE UNCHANGED <<files, disk>>
  BY <1>2 DEF FileMoves
<1>3. ASSUME NEW id1 \in SessionIds, WriteBack(id1)
      PROVE  FileMoves(id) /\ disk'[id] \in {disk[id], files[id], files'[id]}
  <2>1. disk' = [disk EXCEPT ![id1] = files[id1]] /\ UNCHANGED files
    BY <1>3 DEF WriteBack
  <2> QED BY <1>1, <2>1 DEF FileMoves
<1>4. CASE Outage
  <2>1. files'[id] \in {disk[id], files[id]} /\ disk' = files'
    BY <1>4 DEF Outage
  <2> QED BY <1>4, <2>1 DEF FileMoves
<1>5. ASSUME NEW p \in Procs, Attempt(p) \/ Recovery(p)
      PROVE  FileMoves(id) /\ disk'[id] \in {disk[id], files[id], files'[id]}
  <2>1. PICK me : me = proc[p]
    OBVIOUS
  <2>2. ASSUME NEW s, s # NoSession, files' = [files EXCEPT ![s.id] = s], UNCHANGED disk,
               me.sess # NoSession, me.pc \in {"bind", "persist", "rebind"},
               s.id = me.sess.id, s.next = me.sess.next,
               NEW pc \in Owning \cup Recovering, Advance(p, pc, s), UNCHANGED runs
        PROVE  FileMoves(id) /\ disk'[id] \in {disk[id], files[id], files'[id]}
    <3>1. proc'[p].sess = s /\ proc'[p].run = me.run /\ proc'[p].pc = pc
      BY <2>1, <2>2, AdvanceFields
    <3> QED BY <1>1, <2>1, <2>2, <3>1 DEF FileMoves, Replaces
  <2>3. CASE BindSession(p)
    <3>1. PICK old, r : old = me.sess /\ r = me.run
      OBVIOUS
    <3>2. me.pc = "bind" /\ UNCHANGED disk /\ Binding(me)
      BY <2>1, <2>3, ProcFacts DEF BindSession, At, LocalOK
    <3>3. /\ Sound(old) /\ old.used = 0 /\ r \in DOMAIN runs
          /\ runs[r].grant = [session |-> old.id, budget |-> old.allowance,
                             startStep |-> old.next]
      BY <3>1, <3>2 DEF Binding
    <3>4. RunOf(p).owner = r /\ r \in Nat
      BY <2>1, <3>1, <3>3, RunFacts DEF RunOf, ServerInv
    <3>5. PICK s : s = BindAttempt(old, r, r)
      OBVIOUS
    <3>6. Bound(s, r) /\ s.id = old.id /\ s.next = old.next
      BY <3>3, <3>4, <3>5, BindIsBound
    <3>7. s # NoSession /\ old # NoSession
      BY <3>3, <3>6, SoundFields, RunnerAssumption DEF Bound
    <3>8. /\ files' = [files EXCEPT ![s.id] = s] /\ Advance(p, "publish", s)
          /\ UNCHANGED runs
      BY <2>1, <2>3, <3>1, <3>4, <3>5 DEF BindSession, dbVars
    <3>9. "publish" \in Owning
      BY DEF Owning
    <3> QED BY <2>2, <3>1, <3>2, <3>6, <3>7, <3>8, <3>9
  <2>4. CASE Persist(p) \/ Rebind(p)
    <3>1. /\ me.pc \in {"persist", "rebind"} /\ UNCHANGED disk
          /\ files' = [files EXCEPT ![me.sess.id] = me.sess] /\ UNCHANGED runs
          /\ \E pc \in Owning \cup Recovering : Goto(p, pc)
      BY <2>1, <2>4 DEF Persist, Rebind, At, dbVars, Owning, InLoop, Recovering
    <3>2. me.pc \in Owning \cup Recovering
      BY <3>1 DEF Owning, InLoop, Recovering
    <3>3. me.sess # NoSession
      BY <2>1, <3>2, WorkingFacts, SoundFields, RunnerAssumption DEF Bound
    <3>4. \E pc \in Owning \cup Recovering : Advance(p, pc, me.sess)
      BY <2>1, <3>1, GotoIsAdvance
    <3> QED BY <2>2, <3>1, <3>3, <3>4
  <2>5. \/ UNCHANGED <<files, disk>> \/ BindSession(p) \/ Persist(p) \/ Rebind(p)
    BY <1>5 DEF Attempt, Recovery, ClaimAttempt, PublishBinding, LoopTop, TakeStep, Commit,
       FinishRun, LoadExpired, Reconcile
  <2> QED BY <1>2, <2>3, <2>4, <2>5
<1>6. ASSUME NEW p \in Procs, NEW t \in DOMAIN tasks, Execute(p, t)
      PROVE  FileMoves(id) /\ disk'[id] \in {disk[id], files[id], files'[id]}
  <2>1. PICK s : s = StartSession(<<t, p>>, plans[t])
    OBVIOUS
  <2>2. /\ UNCHANGED <<disk, runs>>
        /\ \/ tasks[t].status = "todo" /\ files' = [files EXCEPT ![s.id] = s]
           \/ UNCHANGED files
    BY <1>6, <2>1 DEF Execute, dbVars
  <2>3. s # NoSession /\ s.next = 0 /\ s.run = 0 /\ s.id[1] = t
    <3>1. s.next = 0 /\ s.run = 0 /\ s.id = <<t, p>>
      BY <2>1 DEF StartSession
    <3>2. <<t, p>> \in SessionIds /\ t \in DOMAIN plans /\ plans \in Seq(Plans)
      <4>1. DatabaseOK /\ t \in 1 .. Len(tasks) /\ Len(tasks) \in Nat
        BY DatabaseFacts DEF ServerInv
      <4>2. t \in 1 .. MaxTasks
        BY <4>1, StoreAssumption DEF DatabaseOK
      <4> QED BY <4>1, <4>2, DatabaseFacts DEF SessionIds
    <3>3. Sound(s)
      BY <2>1, <3>2, StartIsSound
    <3> QED BY <3>1, <3>3, SoundFields, RunnerAssumption
  <2> QED BY <1>1, <2>2, <2>3 DEF FileMoves
<1>7. ASSUME NEW p \in Procs, Proceed(p) \/ Command(p), ~Attempt(p), ~Recovery(p)
      PROVE  \/ UNCHANGED <<files, disk>>
             \/ \E t \in DOMAIN tasks : Execute(p, t)
  <2>1. ASSUME At(p, "start"), Execute(p, proc[p].task)
        PROVE  \E t \in DOMAIN tasks : Execute(p, t)
    <3>1. proc[p].task \in DOMAIN tasks
      BY <2>1, ProcFacts DEF At, LocalOK
    <3> QED BY <2>1, <3>1
  <2>2. ASSUME ServerStep(p) \/ PickTask(p) \/ Serve(p) \/ RunWork(p)
                 \/ \E t \in DOMAIN tasks : Resume(p, t)
        PROVE  UNCHANGED <<files, disk>>
    BY <1>7, <2>2 DEF ServerStep, PickTask, Serve, RunWork, Resume, ScanUnscheduled,
       Initialize, FindExpired, FindContinuation, ResumeSelected
  <2> QED BY <1>7, <2>1, <2>2 DEF Proceed, Command
<1>8. ASSUME \/ AddTask \/ PassTime \/ UNCHANGED runnerVars
             \/ \E p \in Procs : RenewInBackground(p) \/ Cancel(p) \/ Crash(p) \/ FailCall(p)
      PROVE  UNCHANGED <<files, disk>>
  BY <1>8 DEF AddTask, PassTime, runnerVars, RenewInBackground, Cancel, Crash, FailCall
<1>9. \/ AddTask \/ PassTime \/ (\E id1 \in SessionIds : WriteBack(id1)) \/ Outage
      \/ UNCHANGED runnerVars
      \/ \E p \in Procs : \/ Command(p) \/ Proceed(p) \/ RenewInBackground(p)
                          \/ Cancel(p) \/ Crash(p) \/ FailCall(p)
  BY DEF ServerNext
<1> QED BY <1>2, <1>3, <1>4, <1>5, <1>6, <1>7, <1>8, <1>9

-----------------------------------------------------------------------------
(* The invariant. *)

(* Whoever owns a run owns it alone.                                          *)
DistinctOwners ==
  \A p, q \in Procs : p # q /\ proc[p].pc \in Owners /\ proc[q].pc \in Owners
                        => proc[p].run # proc[q].run

(* What a process holds of a running run is no older than the row: its owner  *)
(* alone writes to it, and nobody does once the lease has run out.            *)
Ahead(me) ==
  runs[me.run].status = "running" =>
    /\ me.pc = "bind" => runs[me.run].work.output = {}
    /\ me.pc \in Owning \cup Recovering =>
         runs[me.run].work.output \subseteq OutputOf(me.sess)
    /\ me.pc \in {"load"} \cup Recovering => runs[me.run].lease <= now
    /\ me.pc = "load" => me.sess = SessionOf(me.run)

(* The rows of the task have its first k steps.                               *)
Recorded(t, k) == \A i \in 1 .. k : \E r \in RunsOf(t) : i \in runs[r].work.output

(* A session stands at a step up to which the rows have everything; one that  *)
(* is about to be committed started there.                                    *)
Backed(s) == s # NoSession => Recorded(s.id[1], s.next)
Held(me) ==
  me.sess # NoSession =>
    Recorded(me.sess.id[1], IF me.pc = "commit" THEN me.sess.start ELSE me.sess.next)

(* The done tasks are the ones with a comment, and have one completed run.    *)
SaidOnce ==
  /\ \A i, j \in DOMAIN comments : comments[i] = comments[j] => i = j
  /\ \A i \in DOMAIN comments :
       comments[i] \in DOMAIN tasks /\ tasks[comments[i]].status = "done"
  /\ \A t \in DOMAIN tasks : tasks[t].status = "done" =>
       /\ \E i \in DOMAIN comments : comments[i] = t
       /\ \E r \in RunsOf(t) : runs[r].status # "running" /\ runs[r].exit = "completed"

WorkInv ==
  /\ DistinctOwners
  /\ \A p \in Procs : proc[p].pc \in Holding => Ahead(proc[p])
  /\ \A p \in Procs : Held(proc[p])
  /\ \A r \in DOMAIN runs : Backed(SessionOf(r))
  /\ \A id \in SessionIds : Backed(files[id]) /\ Backed(disk[id])
  /\ SaidOnce

-----------------------------------------------------------------------------
(* Rows only gain work. *)

(* A process that holds a run holds one that is there.                        *)
LEMMA HolderFacts ==
  ASSUME ServerInv, NEW p \in Procs, proc[p].pc \in Holding
  PROVE  /\ proc[p].run \in DOMAIN runs /\ proc[p].run \in Nat
         /\ proc[p].pc \in Owning \cup Recovering =>
              /\ Bound(proc[p].sess, proc[p].run)
              /\ proc[p].sess # NoSession /\ proc[p].sess.start \in Nat
              /\ proc[p].sess.next \in Nat /\ proc[p].sess.start <= proc[p].sess.next
              /\ runs[proc[p].run].task = proc[p].sess.id[1]
<1>1. PICK me : me = proc[p]
  OBVIOUS
<1>2. LocalOK(me) /\ me.run \in Nat
  BY <1>1, ProcFacts
<1>3. me.run \in DOMAIN runs
  BY <1>1, <1>2, WorkingFacts DEF Holding, Owners, LocalOK, Binding
<1>4. ASSUME me.pc \in Owning \cup Recovering
      PROVE  /\ Bound(me.sess, me.run) /\ me.sess # NoSession /\ me.sess.start \in Nat
             /\ me.sess.next \in Nat /\ me.sess.start <= me.sess.next
             /\ runs[me.run].task = me.sess.id[1]
  <2>1. Bound(me.sess, me.run)
    BY <1>1, <1>4, WorkingFacts
  <2>2. /\ me.sess # NoSession /\ me.sess.start \in Nat
        /\ me.sess.next \in Nat /\ me.sess.start <= me.sess.next
    BY <2>1, SoundFields, RunnerAssumption DEF Bound, Sound
  <2>3. runs[me.run].task = me.sess.id[1]
    BY <1>3, <2>1, RunFacts DEF ServerInv, RowOK, Bound
  <2> QED BY <2>1, <2>2, <2>3
<1> QED BY <1>1, <1>2, <1>3, <1>4

(* Whoever publishes owns the run, whoever ends it owns it or recovers it.    *)
LEMMA WriterFacts ==
  ASSUME ServerInv, NEW q \in Procs, Publishes(q) \/ Ends(q)
  PROVE  /\ proc[q].pc \in Owning \cup Recovering /\ proc[q].pc \in Holding
         /\ runs[proc[q].run].status = "running"
         /\ Publishes(q) => /\ proc[q].pc \in Owners /\ runs[proc[q].run].lease > now
                            /\ runs'[proc[q].run].work = Work(proc[q].sess)
         /\ Ends(q) => proc[q].pc # "commit"
<1>1. PICK me, r, s : me = proc[q] /\ r = me.run /\ s = me.sess
  OBVIOUS
<1>2. /\ me.pc \in {"publish", "commit", "finish", "reconcile"}
      /\ Ends(q) => me.pc # "commit" /\ runs[r].status = "running"
      /\ Publishes(q) => /\ me.pc \in {"publish", "commit"}
                         /\ runs[r].status = "running" /\ runs[r].lease > now
                         /\ r \in DOMAIN runs
  BY <1>1 DEF Publishes, Ends, UpdateProgress, Owns, Expired
<1>3. ASSUME Publishes(q) PROVE runs'[r].work = Work(s)
  <2>1. PICK used, work, row : used = s.used /\ work = Work(s) /\ row = runs[r]
    OBVIOUS
  <2>2. runs' = [runs EXCEPT ![r].tokens = used, ![r].work = work]
    BY <1>1, <1>3, <2>1 DEF Publishes, UpdateProgress
  <2>3. PICK new : new = [row EXCEPT !.tokens = used, !.work = work]
    OBVIOUS
  <2>4. row \in RunRow(GrantRow, WorkRow) /\ r \in DOMAIN runs
    BY <1>2, <1>3, <2>1, DatabaseFacts DEF ServerInv
  <2>5. runs'[r] = new
    BY <2>1, <2>2, <2>3, <2>4
  <2>6. new.work = work
    BY <2>3, <2>4 DEF RunRow
  <2> QED BY <2>1, <2>5, <2>6
<1> QED BY <1>1, <1>2, <1>3 DEF Owners, Owning, Recovering, InLoop, Holding

LEMMA OutputsGrow ==
  ASSUME ServerInv, WorkInv, [ServerNext]_runnerVars, NEW r \in DOMAIN runs
  PROVE  runs[r].work.output \subseteq runs'[r].work.output
<1>1. ASSUME NEW q \in Procs, Publishes(q) \/ Ends(q), proc[q].run = r,
             runs'[r].work = Work(proc[q].sess)
      PROVE  runs[r].work.output \subseteq runs'[r].work.output
  <2>1. /\ proc[q].pc \in Owning \cup Recovering /\ proc[q].pc \in Holding
        /\ runs[r].status = "running"
    BY <1>1, WriterFacts
  <2>2. runs[r].work.output \subseteq OutputOf(proc[q].sess)
    BY <1>1, <2>1 DEF WorkInv, Ahead
  <2>3. Work(proc[q].sess).output = OutputOf(proc[q].sess)
    BY DEF Work
  <2> QED BY <1>1, <2>2, <2>3
<1> QED BY <1>1, RunChanges

LEMMA RecordedStays ==
  ASSUME ServerInv, WorkInv, [ServerNext]_runnerVars, NEW t, NEW k, Recorded(t, k)
  PROVE  Recorded(t, k)'
<1>1. ASSUME NEW r \in RunsOf(t)
      PROVE  r \in RunsOf(t)' /\ runs[r].work.output \subseteq runs'[r].work.output
  BY <1>1, StepIsSteady, OutputsGrow DEF Steady, RunsOf
<1> QED BY <1>1 DEF Recorded

LEMMA RecordedBefore ==
  ASSUME NEW t, NEW k \in Nat, Recorded(t, k), NEW j \in Nat, j <= k
  PROVE  Recorded(t, j)
<1>1. 1 .. j \subseteq 1 .. k
  OBVIOUS
<1> QED BY <1>1 DEF Recorded

(* A commit records the steps that its session took since its start.          *)
LEMMA CommitRecords ==
  ASSUME ServerInv, WorkInv, [ServerNext]_runnerVars, NEW p \in Procs, Publishes(p),
         NEW s, proc[p].sess = s
  PROVE  Recorded(s.id[1], s.next)'
<1>1. PICK r : s = proc[p].sess /\ r = proc[p].run
  OBVIOUS
<1>2. /\ proc[p].pc \in Owning \cup Recovering /\ proc[p].pc \in Holding
      /\ runs'[r].work = Work(s)
  BY <1>1, WriterFacts
<1>3. /\ r \in DOMAIN runs /\ s # NoSession /\ s.start \in Nat /\ s.next \in Nat
      /\ s.start <= s.next /\ runs[r].task = s.id[1]
  BY <1>1, <1>2, HolderFacts
<1>4. Recorded(s.id[1], s.start)
  BY <1>1, <1>3, RecordedBefore DEF WorkInv, Held
<1>5. Recorded(s.id[1], s.start)'
  BY <1>4, RecordedStays
<1>6. r \in RunsOf(s.id[1])'
  BY <1>3, StepIsSteady DEF Steady, RunsOf
<1>7. ASSUME NEW i \in 1 .. s.next
      PROVE  \E r1 \in RunsOf(s.id[1])' : i \in runs'[r1].work.output
  <2>1. CASE i \in 1 .. s.start
    BY <1>5, <2>1 DEF Recorded
  <2>2. CASE i \notin 1 .. s.start
    <3>1. i \in (s.start + 1) .. s.next
      BY <1>3, <1>7, <2>2
    <3>2. i \in Work(s).output
      BY <3>1 DEF Work, OutputOf
    <3> QED BY <1>2, <1>6, <3>2
  <2> QED BY <2>1, <2>2
<1> QED BY <1>7 DEF Recorded

-----------------------------------------------------------------------------
(* A step keeps the invariant. *)

(* Where a process that holds a run has it from.                              *)
LEMMA HoldsFrom ==
  ASSUME ServerInv, NEW p \in Procs, Moves(p), proc'[p].pc \in Holding
  PROVE  \/ Takes(p) \/ Loads(p)
         \/ /\ proc[p].pc \in Holding /\ proc'[p].run = proc[p].run
            /\ proc'[p].pc \in Owners => proc[p].pc \in Owners
<1>1. "claim" \notin Holding /\ "load" \notin Owners /\ Owners \subseteq Holding
      /\ Recovering \subseteq Holding /\ Recovering \cap Owners = {} /\ "load" \in Holding
      /\ "bind" \in Owners /\ Owning \subseteq Owners /\ {"rebind", "reconcile"} = Recovering
  BY DEF Holding, Owners, Owning, Recovering, InLoop
<1>2. ~Frees(p) /\ ~Prepares(p)
  BY <1>1 DEF Frees, Prepares
<1>3. CASE Binds(p) \/ GoesOn(p)
  BY <1>1, <1>3 DEF Binds, GoesOn
<1>4. CASE Restores(p)
  BY <1>1, <1>4 DEF Restores
<1>5. CASE Keeps(p)
  BY <1>1, <1>5 DEF Keeps
<1> QED BY <1>2, <1>3, <1>4, <1>5 DEF Moves

LEMMA DistinctStep ==
  ASSUME ServerInv, WorkInv, [ServerNext]_runnerVars
  PROVE  DistinctOwners'
<1> SUFFICES ASSUME NEW p \in Procs, NEW q \in Procs, p # q,
                    proc'[p].pc \in Owners, proc'[q].pc \in Owners
             PROVE  proc'[p].run # proc'[q].run
  BY DEF DistinctOwners
<1>1. ASSUME NEW a \in Procs, proc'[a].pc \in Owners
      PROVE  \/ Takes(a)
             \/ /\ proc[a].pc \in Owners /\ proc'[a].run = proc[a].run
                /\ proc[a].run \in DOMAIN runs
  <2>1. proc'[a].pc \in Holding /\ ~Loads(a)
    BY <1>1 DEF Holding, Owners, Owning, InLoop, Loads
  <2>2. \/ Takes(a)
        \/ /\ proc[a].pc \in Owners /\ proc'[a].run = proc[a].run
           /\ proc[a].pc \in Holding
    BY <1>1, <2>1, StepMoves, HoldsFrom
  <2> QED BY <2>2, HolderFacts
<1>2. Len(runs) + 1 \notin DOMAIN runs
  BY DatabaseFacts DEF ServerInv
<1>3. ~(Takes(p) /\ Takes(q))
  BY StepMoves
<1> QED BY <1>1, <1>2, <1>3 DEF Takes, WorkInv, DistinctOwners

(* Only its owner writes to the row that a process owns.                      *)
LEMMA OwnRow ==
  ASSUME ServerInv, WorkInv, [ServerNext]_runnerVars, NEW p \in Procs,
         proc[p].pc \in Holding, NEW r, r = proc[p].run, runs'[r].status = "running"
  PROVE  /\ runs[r].status = "running"
         /\ \/ /\ runs'[r].work = runs[r].work
               /\ runs[r].lease <= now => runs'[r].lease = runs[r].lease
            \/ Publishes(p) /\ runs'[r].work = Work(proc[p].sess)
<1>1. r \in DOMAIN runs
  BY HolderFacts
<1>2. CASE /\ runs'[r].work = runs[r].work /\ runs'[r].status = runs[r].status
           /\ runs[r].lease <= now => runs'[r].lease = runs[r].lease
  BY <1>2
<1>3. ASSUME NEW q \in Procs, Publishes(q), proc[q].run = r,
             runs'[r].work = Work(proc[q].sess)
      PROVE  runs[r].status = "running" /\ q = p
  <2>1. /\ runs[r].status = "running" /\ proc[q].pc \in Owners /\ runs[r].lease > now
    BY <1>3, WriterFacts
  <2>2. now \in Nat /\ runs[r].lease \in Nat
    BY <1>1, DatabaseFacts DEF ServerInv, RunRow
  <2>3. ~(runs[r].lease <= now)
    BY <2>1, <2>2
  <2>4. Ahead(proc[p])
    BY DEF WorkInv
  <2>5. proc[p].pc \notin {"load"} \cup Recovering
    BY <2>1, <2>3, <2>4 DEF Ahead
  <2>6. proc[p].pc \in Owners
    BY <2>5 DEF Holding
  <2> QED BY <1>3, <2>1, <2>6 DEF WorkInv, DistinctOwners
<1> QED BY <1>1, <1>2, <1>3, RunChanges

LEMMA AheadStep ==
  ASSUME ServerInv, WorkInv, [ServerNext]_runnerVars,
         NEW p \in Procs, proc'[p].pc \in Holding
  PROVE  Ahead(proc[p])'
<1>1. PICK me, pc, s, r :
        me = proc[p] /\ pc = proc'[p].pc /\ s = proc'[p].sess /\ r = proc'[p].run
  OBVIOUS
<1> SUFFICES ASSUME runs'[r].status = "running"
             PROVE  /\ pc = "bind" => runs'[r].work.output = {}
                    /\ pc \in Owning \cup Recovering =>
                         runs'[r].work.output \subseteq OutputOf(s)
                    /\ pc \in {"load"} \cup Recovering => runs'[r].lease <= now'
                    /\ pc = "load" => s = SessionOf(r)'
  BY <1>1 DEF Ahead
<1>2. /\ "bind" \notin Owning /\ "bind" \notin Recovering
      /\ "load" \notin Owning /\ "load" \notin Recovering
      /\ Owning \cap Recovering = {} /\ {"publish", "commit"} \subseteq Owning
      /\ Recovering = {"rebind", "reconcile"}
  BY DEF Owning, Recovering, InLoop
<1>3. CASE Takes(p)
  <2>1. PICK auth, q : StartOwnedAttempt(auth, q, Len(runs) + 1)
    BY <1>3 DEF Takes, Claims
  <2>2. r = Len(runs) + 1 /\ pc = "bind"
    BY <1>1, <1>3 DEF Takes
  <2>3. runs'[r].work = NoWork
    BY <2>1, <2>2, ClaimedRow
  <2> QED BY <1>2, <2>2, <2>3, RunnerAssumption
<1>4. CASE Loads(p)
  <2>1. pc = "load" /\ UNCHANGED <<now, runs>> /\ Expired(r) /\ s = SessionOf(r)
    BY <1>1, <1>4 DEF Loads
  <2> QED BY <1>2, <2>1 DEF Expired, SessionOf
<1>5. ASSUME me.pc \in Holding, r = me.run PROVE Ahead(me) /\ r \in DOMAIN runs
  BY <1>1, <1>5, HolderFacts DEF WorkInv
<1>6. CASE Binds(p)
  <2>1. me.pc = "bind" /\ pc = "publish" /\ r = me.run /\ UNCHANGED runs
    BY <1>1, <1>6 DEF Binds
  <2>2. Ahead(me)
    BY <1>5, <2>1 DEF Holding, Owners
  <2>3. runs[r].work.output = {}
    BY <2>1, <2>2 DEF Ahead
  <2> QED BY <1>2, <2>1, <2>3
<1>7. CASE Restores(p)
  <2>1. /\ me.pc = "load" /\ pc \in Recovering /\ r = me.run /\ UNCHANGED <<now, runs>>
        /\ me.sess = NoSession \/ s = me.sess
    BY <1>1, <1>7 DEF Restores
  <2>2. Ahead(me) /\ r \in DOMAIN runs
    BY <1>5, <2>1 DEF Holding
  <2>3. me.sess = SessionOf(r) /\ runs[r].lease <= now
    BY <2>1, <2>2 DEF Ahead
  <2>4. runs[r].work.output \subseteq OutputOf(s)
    BY <2>1, <2>2, <2>3, RunFacts DEF ServerInv, RowOK
  <2> QED BY <1>2, <2>1, <2>3, <2>4
<1>8. CASE GoesOn(p) \/ Keeps(p)
  <2>1. /\ r = me.run /\ me.pc \in Holding
        /\ \/ me.pc = pc
           \/ me.pc \in Owning /\ pc \in Owning
           \/ me.pc = "rebind" /\ pc = "reconcile"
    <3>1. CASE GoesOn(p)
      BY <1>1, <3>1 DEF GoesOn, Holding, Owners
    <3>2. CASE Keeps(p)
      BY <1>1, <3>2 DEF Keeps, Holding, Recovering
    <3> QED BY <1>8, <3>1, <3>2
  <2>2. /\ OutputOf(me.sess) \subseteq OutputOf(s)
        /\ Publishes(p) => s = me.sess
        /\ me.pc \notin Owning => s = me.sess
    BY <1>1, <1>2, <1>8 DEF GoesOn, Keeps, Publishes
  <2>3. Ahead(me) /\ r \in DOMAIN runs
    BY <1>5, <2>1
  <2>4. /\ runs[r].status = "running"
        /\ \/ /\ runs'[r].work = runs[r].work
              /\ runs[r].lease <= now => runs'[r].lease = runs[r].lease
           \/ Publishes(p) /\ runs'[r].work = Work(me.sess)
    BY <1>1, <2>1, OwnRow
  <2>5. now \in Nat /\ now' \in Nat /\ now <= now' /\ runs[r].lease \in Nat
    BY <2>3, StepIsSteady, DatabaseFacts DEF Steady, ServerInv, RunRow
  <2>6. CASE Publishes(p) /\ runs'[r].work = Work(me.sess)
    <3>1. me.pc \in Owning /\ pc \in Owning
      BY <1>1, <1>2, <2>1, <2>6 DEF Publishes
    <3> QED BY <1>2, <2>2, <2>6, <3>1 DEF Work
  <2>7. CASE /\ runs'[r].work = runs[r].work
             /\ runs[r].lease <= now => runs'[r].lease = runs[r].lease
    <3>1. pc = "bind" => me.pc = "bind"
      BY <1>2, <2>1
    <3>2. pc \in Owning \cup Recovering => me.pc \in Owning \cup Recovering
      BY <1>2, <2>1
    <3>3. pc \in {"load"} \cup Recovering => me.pc \in {"load"} \cup Recovering
      BY <1>2, <2>1
    <3>4. pc = "load" => me.pc = "load" /\ s = me.sess
      BY <1>2, <2>1, <2>2
    <3>5. /\ pc = "bind" => runs'[r].work.output = {}
          /\ pc \in Owning \cup Recovering => runs'[r].work.output \subseteq OutputOf(s)
      BY <2>1, <2>2, <2>3, <2>4, <2>7, <3>1, <3>2 DEF Ahead
    <3>6. pc \in {"load"} \cup Recovering => runs'[r].lease = runs[r].lease
                                             /\ runs[r].lease <= now
      BY <2>1, <2>3, <2>4, <2>7, <3>3 DEF Ahead
    <3>7. pc = "load" => s = SessionOf(r)'
      BY <2>1, <2>3, <2>4, <2>7, <3>4 DEF Ahead, SessionOf
    <3> QED BY <2>5, <3>5, <3>6, <3>7
  <2> QED BY <2>4, <2>6, <2>7
<1>9. Takes(p) \/ Loads(p) \/ Binds(p) \/ Restores(p) \/ GoesOn(p) \/ Keeps(p)
  <2>1. "claim" \notin Holding
    BY DEF Holding, Owners, Owning, Recovering, InLoop
  <2> QED BY <2>1, StepMoves DEF Moves, Frees, Prepares
<1> QED BY <1>3, <1>4, <1>6, <1>7, <1>8, <1>9

LEMMA HeldStep ==
  ASSUME ServerInv, WorkInv, [ServerNext]_runnerVars, NEW p \in Procs
  PROVE  Held(proc[p])'
<1>1. PICK me, pc, s, new :
        me = proc[p] /\ pc = proc'[p].pc /\ s = me.sess /\ new = proc'[p].sess
  OBVIOUS
<1> SUFFICES ASSUME new # NoSession
             PROVE  Recorded(new.id[1], IF pc = "commit" THEN new.start ELSE new.next)'
  BY <1>1 DEF Held
<1>2. /\ "commit" \in Holding /\ Owning \cup Recovering \subseteq Holding
      /\ "load" \in Holding /\ "commit" \notin Recovering /\ "commit" \in Owning
  BY DEF Holding, Owners, Owning, Recovering, InLoop
<1>3. s # NoSession /\ me.pc # "commit" => Recorded(s.id[1], s.next)'
  <2>1. s # NoSession /\ me.pc # "commit" => Recorded(s.id[1], s.next)
    BY <1>1 DEF WorkInv, Held
  <2> QED BY <2>1, RecordedStays
<1>4. CASE pc # "commit" /\ me.pc # "commit" /\ s # NoSession
           /\ new.id = s.id /\ new.next = s.next
  BY <1>3, <1>4
<1>5. CASE Frees(p)
  BY <1>1, <1>2, <1>4, <1>5 DEF Frees
<1>6. CASE Prepares(p)
  <2>1. CASE new.next = 0
    BY <1>1, <1>6, <2>1 DEF Prepares, Recorded
  <2>2. ASSUME NEW r \in DOMAIN runs, SessionOf(r) # NoSession,
               SessionOf(r).id = new.id, SessionOf(r).next = new.next
        PROVE  Recorded(new.id[1], new.next)'
    <3>1. Recorded(new.id[1], new.next)
      BY <2>2 DEF WorkInv, Backed
    <3> QED BY <3>1, RecordedStays
  <2> QED BY <1>1, <1>6, <2>1, <2>2 DEF Prepares
<1>7. CASE Takes(p) \/ Binds(p)
  BY <1>1, <1>4, <1>7 DEF Takes, Claims, Binds
<1>8. CASE GoesOn(p)
  <2>1. /\ me.pc \in Owning /\ s # NoSession /\ s.start \in Nat /\ s.next \in Nat
        /\ s.start <= s.next
    BY <1>1, <1>2, <1>8, HolderFacts DEF GoesOn
  <2>2. me.pc = "commit" => Recorded(s.id[1], s.next)' /\ new = s
    BY <1>1, <1>8, CommitRecords DEF GoesOn
  <2>3. Recorded(s.id[1], s.next)'
    BY <1>3, <2>1, <2>2
  <2>4. Recorded(s.id[1], s.start)'
    BY <2>1, <2>3 DEF Recorded
  <2>5. \/ new = s
        \/ pc = "commit" /\ new.id = s.id /\ new.start = s.start
    BY <1>1, <1>8 DEF GoesOn
  <2> QED BY <2>3, <2>4, <2>5
<1>9. CASE Loads(p)
  <2>1. pc = "load" /\ \E r \in DOMAIN runs : new = SessionOf(r)
    BY <1>1, <1>9 DEF Loads, Expired
  <2>2. Recorded(new.id[1], new.next)
    BY <2>1 DEF WorkInv, Backed
  <2> QED BY <2>1, <2>2, RecordedStays
<1>10. CASE Restores(p)
  <2>1. /\ me.pc = "load" /\ pc # "commit"
        /\ \/ s # NoSession /\ new = s
           \/ \E id \in SessionIds :
                /\ files[id] # NoSession
                /\ new.id = files[id].id /\ new.next = files[id].next
    BY <1>1, <1>2, <1>10 DEF Restores
  <2>2. ASSUME NEW id \in SessionIds, files[id] # NoSession,
               new.id = files[id].id, new.next = files[id].next
        PROVE  Recorded(new.id[1], new.next)'
    <3>1. Recorded(new.id[1], new.next)
      BY <2>2 DEF WorkInv, Backed
    <3> QED BY <3>1, RecordedStays
  <2> QED BY <1>4, <2>1, <2>2
<1>11. CASE Keeps(p)
  <2>1. new = s /\ (pc = me.pc \/ (pc # "commit" /\ me.pc # "commit"))
    BY <1>1, <1>11 DEF Keeps
  <2>2. Recorded(s.id[1], IF me.pc = "commit" THEN s.start ELSE s.next)
    BY <1>1, <2>1 DEF WorkInv, Held
  <2>3. Recorded(s.id[1], IF me.pc = "commit" THEN s.start ELSE s.next)'
    BY <2>2, RecordedStays
  <2> QED BY <2>1, <2>3
<1> QED BY <1>5, <1>6, <1>7, <1>8, <1>9, <1>10, <1>11, StepMoves DEF Moves

LEMMA RowsStep ==
  ASSUME ServerInv, WorkInv, [ServerNext]_runnerVars, NEW r \in DOMAIN runs'
  PROVE  Backed(SessionOf(r))'
<1>1. CASE r \notin DOMAIN runs
  <2>1. PICK auth, q : StartOwnedAttempt(auth, q, Len(runs) + 1)
    <3>1. \E p \in Procs : Claims(p)
      BY <1>1, RunsGrow
    <3> QED BY <3>1 DEF Claims
  <2>2. r = Len(runs) + 1 /\ runs'[r].work = NoWork
    BY <1>1, <2>1, ClaimedRow
  <2>3. runs'[r].work.checkpoint = NoSession
    BY <2>2, RunnerAssumption
  <2> QED BY <2>3 DEF Backed, SessionOf
<1>2. CASE r \in DOMAIN runs /\ runs'[r].work = runs[r].work
  <2>1. PICK s : s = SessionOf(r)
    OBVIOUS
  <2>2. s # NoSession => Recorded(s.id[1], s.next)
    BY <1>2, <2>1 DEF WorkInv, Backed
  <2>3. s # NoSession => Recorded(s.id[1], s.next)'
    BY <2>2, RecordedStays
  <2>4. SessionOf(r)' = s
    BY <1>2, <2>1 DEF SessionOf
  <2> QED BY <2>3, <2>4 DEF Backed
<1>3. ASSUME NEW q \in Procs, Publishes(q) \/ Ends(q), runs'[r].work = Work(proc[q].sess)
      PROVE  Backed(SessionOf(r))'
  <2>1. PICK s : s = proc[q].sess
    OBVIOUS
  <2>2. SessionOf(r)' = s
    BY <1>3, <2>1 DEF SessionOf, Work
  <2>3. CASE Publishes(q)
    BY <2>1, <2>2, <2>3, CommitRecords DEF Backed
  <2>4. CASE Ends(q)
    <3>1. s # NoSession => Recorded(s.id[1], s.next)
      BY <2>1, <2>4, WriterFacts DEF WorkInv, Held
    <3> QED BY <2>2, <3>1, RecordedStays DEF Backed
  <2> QED BY <1>3, <2>3, <2>4
<1> QED BY <1>1, <1>2, <1>3, RunChanges

LEMMA FilesStep ==
  ASSUME ServerInv, WorkInv, [ServerNext]_runnerVars, NEW id \in SessionIds
  PROVE  Backed(files[id])' /\ Backed(disk[id])'
<1>1. ASSUME NEW s, s # NoSession => Recorded(s.id[1], s.next)
      PROVE  s # NoSession => Recorded(s.id[1], s.next)'
  BY <1>1, RecordedStays
<1>2. PICK file, old, new, disk1 :
        file = files'[id] /\ old = files[id] /\ new = disk[id] /\ disk1 = disk'[id]
  OBVIOUS
<1>3. /\ old # NoSession => Recorded(old.id[1], old.next)'
      /\ new # NoSession => Recorded(new.id[1], new.next)'
  BY <1>1, <1>2 DEF WorkInv, Backed
<1>4. file # NoSession => Recorded(file.id[1], file.next)'
  <2>1. CASE file = old \/ file = new
    BY <1>3, <2>1
  <2>2. CASE file.next = 0
    BY <2>2 DEF Recorded
  <2>3. ASSUME NEW p \in Procs, Replaces(id, p)
        PROVE  Recorded(file.id[1], file.next)'
    <3>1. PICK s : s = proc[p].sess
      OBVIOUS
    <3>2. /\ s # NoSession /\ proc[p].pc # "commit"
          /\ file.id = s.id /\ file.next = s.next
      BY <1>2, <2>3, <3>1 DEF Replaces
    <3>3. Recorded(s.id[1], s.next)
      BY <3>1, <3>2 DEF WorkInv, Held
    <3> QED BY <3>2, <3>3, RecordedStays
  <2> QED BY <1>2, <2>1, <2>2, <2>3, FilesMove DEF FileMoves
<1>5. disk1 \in {new, old, file}
  BY <1>2, FilesMove
<1> QED BY <1>2, <1>3, <1>4, <1>5 DEF Backed

(* A completed run stays one.                                                 *)
LEMMA CompletedStays ==
  ASSUME ServerInv, [ServerNext]_runnerVars, NEW t,
         \E r \in RunsOf(t) : runs[r].status # "running" /\ runs[r].exit = "completed"
  PROVE  \E r \in RunsOf(t)' : runs'[r].status # "running" /\ runs'[r].exit = "completed"
<1>1. PICK r \in RunsOf(t) : runs[r].status # "running" /\ runs[r].exit = "completed"
  OBVIOUS
<1>2. r \in RunsOf(t)' /\ runs'[r] = runs[r]
  BY <1>1, StepIsSteady DEF Steady, RunsOf
<1> QED BY <1>1, <1>2

(* The comment and the task's end are written with the run's.                 *)
LEMMA SaidStep ==
  ASSUME ServerInv, WorkInv, [ServerNext]_runnerVars
  PROVE  SaidOnce'
<1>1. /\ tasks \in Seq(Task) /\ Len(tasks) \in Nat /\ DOMAIN tasks = 1 .. Len(tasks)
      /\ comments \in Seq(Nat)
  BY DatabaseFacts DEF ServerInv, DatabaseOK, StoreInvOver, StoreTyped
<1>2. ASSUME UNCHANGED comments, DOMAIN tasks \subseteq DOMAIN tasks',
             \A t \in DOMAIN tasks' : tasks'[t].status = "done" <=>
               t \in DOMAIN tasks /\ tasks[t].status = "done"
      PROVE  SaidOnce'
  BY <1>2, CompletedStays DEF WorkInv, SaidOnce
<1>3. CASE UNCHANGED <<tasks, comments>>
  BY <1>2, <1>3
<1>4. CASE AddTask
  <2>1. PICK row : tasks' = Append(tasks, row) /\ row.status = "todo" /\ UNCHANGED comments
    BY <1>4 DEF AddTask, Create
  <2> QED BY <1>1, <1>2, <2>1
<1>5. ASSUME NEW t0 \in DOMAIN tasks, NEW row, tasks' = [tasks EXCEPT ![t0] = row],
             UNCHANGED comments, tasks[t0].status # "done", row.status # "done"
      PROVE  SaidOnce'
  BY <1>1, <1>2, <1>5
<1>6. ASSUME NEW p \in Procs, Claims(p) PROVE SaidOnce'
  <2>1. PICK auth, q : StartOwnedAttempt(auth, q, Len(runs) + 1)
    BY <1>6 DEF Claims
  <2>2. PICK t0, row : t0 = q.task /\ row = [status |-> "in_progress", cont |-> NoContinuation]
    OBVIOUS
  <2>3. /\ t0 \in DOMAIN tasks /\ tasks' = [tasks EXCEPT ![t0] = row] /\ UNCHANGED comments
        /\ tasks[t0].status # "done"
    BY <2>1, <2>2 DEF StartOwnedAttempt, Claimable, Transition
  <2>4. row.status # "done"
    BY <2>2
  <2> QED BY <1>5, <2>3, <2>4
<1>7. ASSUME NEW p \in Procs, Schedules(p) PROVE SaidOnce'
  <2>1. CASE UNCHANGED tasks
    BY <1>3, <1>7, <2>1 DEF Schedules, ReadUnscheduled, InitializeUnscheduled
  <2>2. CASE ~UNCHANGED tasks
    <3>1. PICK t0, cont :
            /\ tasks' = [tasks EXCEPT ![t0].cont = cont] /\ UNCHANGED comments
      BY <1>7, <2>2, Zenon DEF Schedules, ReadUnscheduled, InitializeUnscheduled
    <3>2. DOMAIN tasks' = DOMAIN tasks
          /\ \A t \in DOMAIN tasks : tasks'[t].status = tasks[t].status
      BY <1>1, <3>1 DEF Task
    <3> QED BY <1>2, <3>1, <3>2
  <2> QED BY <2>1, <2>2
<1>8. ASSUME NEW p \in Procs, Ends(p) PROVE SaidOnce'
  <2>1. PICK at \in 0 .. now, reset \in Resets : Finish(FinishParams(p, at, reset))
    BY <1>8, EndFacts
  <2>2. PICK q : q = FinishParams(p, at, reset)
    OBVIOUS
  <2>3. PICK s, r, t0 : s = proc[p].sess /\ r = proc[p].run /\ t0 = proc[p].task
    OBVIOUS
  <2>4. q.outcome = OutcomeOf(s) /\ q.comment = (s.halt = "completed") /\ q.task = t0
    BY <2>2, <2>3 DEF FinishParams
  <2>5. PICK end : end = TerminalState(OutcomeOf(s))
    OBVIOUS
  <2>6. PICK row : row.status = end.task /\ tasks' = [tasks EXCEPT ![t0] = row]
    <3>1. PICK cont : cont = q.cont
      OBVIOUS
    <3>2. tasks' = [tasks EXCEPT ![t0] = [status |-> end.task, cont |-> cont]]
      BY <2>1, <2>2, <2>4, <2>5, <3>1, Zenon DEF Finish
    <3> QED BY <3>2
  <2>7. /\ t0 \in DOMAIN tasks /\ tasks[t0].status = "in_progress"
        /\ comments' = IF q.comment THEN Append(comments, t0) ELSE comments
    BY <2>1, <2>2, <2>4, Zenon DEF Finish, Finishable
  <2>8. CASE s.halt = "completed"
    <3>1. end = [run |-> "succeeded", exit |-> "completed", task |-> "done"]
      BY <2>5, <2>8, Zenon DEF OutcomeOf, TerminalState
    <3>2. comments' = Append(comments, t0)
      BY <2>4, <2>7, <2>8
    <3>3. /\ DOMAIN comments' = DOMAIN comments \cup {Len(comments) + 1}
          /\ Len(comments) + 1 \notin DOMAIN comments
          /\ \A i \in DOMAIN comments : comments'[i] = comments[i]
          /\ comments'[Len(comments) + 1] = t0
      BY <1>1, <2>7, <3>2
    <3>4. /\ DOMAIN tasks' = DOMAIN tasks /\ tasks'[t0].status = "done"
          /\ \A t \in DOMAIN tasks : t # t0 => tasks'[t] = tasks[t]
      BY <1>1, <2>6, <2>7, <3>1
    <3>5. r \in RunsOf(t0)' /\ runs'[r].status # "running" /\ runs'[r].exit = "completed"
      <4>1. /\ proc[p].pc \in Holding /\ runs[r].status = "running"
            /\ proc[p].pc \in Owning \cup Recovering
        BY <1>8, <2>3, WriterFacts
      <4>2. r \in DOMAIN runs /\ runs[r].task = t0
        BY <2>3, <4>1, HolderFacts, WorkingFacts
      <4>3. PICK row1 : /\ runs' = [runs EXCEPT ![r] = row1]
                        /\ row1.status = end.run /\ row1.exit = end.exit
        <5>1. PICK old, used, work : old = runs[r] /\ used = q.tokens /\ work = q.work
          OBVIOUS
        <5>2. PICK new : new = [old EXCEPT !.status = end.run, !.exit = end.exit,
                                           !.tokens = used, !.work = work, !.finishedAt = at]
          OBVIOUS
        <5>3. q.run = r /\ q.finishedAt = at
          BY <2>2, <2>3 DEF FinishParams
        <5>4. runs' = [runs EXCEPT ![r] =
                  [@ EXCEPT !.status = end.run, !.exit = end.exit, !.tokens = used,
                            !.work = work, !.finishedAt = at]]
          BY <2>1, <2>2, <2>4, <2>5, <5>1, <5>3, Zenon DEF Finish
        <5>5. runs' = [runs EXCEPT ![r] = new]
          BY <5>1, <5>2, <5>4
        <5>6. old \in RunRow(GrantRow, WorkRow)
          BY <4>2, <5>1, DatabaseFacts DEF ServerInv
        <5>7. new.status = end.run /\ new.exit = end.exit
          BY <5>2, <5>6 DEF RunRow
        <5> QED BY <5>5, <5>7
      <4>4. r \in DOMAIN runs' /\ runs'[r] = row1 /\ runs'[r].task = t0
        BY <4>2, <4>3, StepIsSteady DEF Steady
      <4> QED BY <3>1, <4>3, <4>4 DEF RunsOf
    <3>6. \A i \in DOMAIN comments : comments[i] # t0
      BY <2>7 DEF WorkInv, SaidOnce
    <3>7. SaidOnce
      BY DEF WorkInv
    <3>8. \A i, j \in DOMAIN comments' : comments'[i] = comments'[j] => i = j
      BY <3>3, <3>6, <3>7 DEF SaidOnce
    <3>9. \A i \in DOMAIN comments' :
            comments'[i] \in DOMAIN tasks' /\ tasks'[comments'[i]].status = "done"
      BY <2>7, <3>3, <3>4, <3>6, <3>7 DEF SaidOnce
    <3>10. \A t \in DOMAIN tasks' : tasks'[t].status = "done" =>
             /\ \E i \in DOMAIN comments' : comments'[i] = t
             /\ \E r1 \in RunsOf(t)' :
                  runs'[r1].status # "running" /\ runs'[r1].exit = "completed"
      BY <3>3, <3>4, <3>5, <3>7, CompletedStays DEF SaidOnce
    <3> QED BY <3>8, <3>9, <3>10 DEF SaidOnce
  <2>9. CASE s.halt # "completed"
    <3>1. OutcomeOf(s) \in AttemptOutcome \ {"completed"}
      BY <2>9 DEF OutcomeOf, AttemptOutcome
    <3>2. end.task # "done"
      BY <2>5, <3>1 DEF AttemptOutcome, TerminalState
    <3> QED BY <1>5, <2>4, <2>6, <2>7, <2>9, <3>2
  <2> QED BY <2>8, <2>9
<1>9. \/ AddTask \/ UNCHANGED <<tasks, comments>>
      \/ \E p \in Procs : Claims(p) \/ Ends(p) \/ Schedules(p)
  BY StepCalls DEF CallOf, Publishes, Renews, UpdateProgress, RenewLease, Dies, Tick, dbVars
<1> QED BY <1>3, <1>4, <1>6, <1>7, <1>8, <1>9

LEMMA WorkInvStep ==
  ASSUME ServerInv, WorkInv, [ServerNext]_runnerVars
  PROVE  WorkInv'
BY DistinctStep, AheadStep, HeldStep, RowsStep, FilesStep, SaidStep DEF WorkInv

LEMMA WorkInvInit ==
  ASSUME NeverUpgraded, RunnerInit
  PROVE  WorkInv
<1>1. /\ \A p \in Procs : proc[p].pc = "idle" /\ proc[p].sess = NoSession
      /\ DOMAIN runs = {} /\ DOMAIN comments = {} /\ DOMAIN tasks = {}
      /\ \A id \in SessionIds : files[id] = NoSession /\ disk[id] = NoSession
  <2>1. Idle.pc = "idle" /\ Idle.sess = NoSession
    BY DEF Idle
  <2> QED BY <2>1 DEF RunnerInit, NewInbox, StoreInit, NeverUpgraded
<1>2. "idle" \notin Holding /\ "idle" \notin Owners
  BY DEF Holding, Owners, Owning, Recovering, InLoop
<1> QED BY <1>1, <1>2 DEF WorkInv, DistinctOwners, Held, Backed, SaidOnce

LEMMA WorkInvariant == NeverUpgraded /\ ServerSpec => [](ServerInv /\ WorkInv)
<1>1. NeverUpgraded /\ RunnerInit => WorkInv
  BY WorkInvInit
<1>2. ServerInv /\ WorkInv /\ [ServerNext]_runnerVars => WorkInv'
  BY WorkInvStep
<1> QED BY <1>1, <1>2, ServerInvariant, PTL DEF ServerSpec

(* The outputs of a task are steps of its plan, or the summary.               *)
LEMMA OutputsArePlanned ==
  ASSUME ServerInv, NEW t, NEW r \in RunsOf(t)
  PROVE  runs[r].work.output \subseteq 0 .. Len(plans[t].costs)
<1>1. PICK s : s = SessionOf(r)
  OBVIOUS
<1>2. r \in DOMAIN runs /\ runs[r].task = t /\ RowOK(r) /\ t \in DOMAIN tasks
  BY RunFacts, DatabaseFacts DEF ServerInv, RunsOf
<1>3. CASE s = NoSession
  BY <1>1, <1>2, <1>3 DEF RowOK
<1>4. CASE s # NoSession
  <2>1. Bound(s, r) /\ runs[r].work.output = OutputOf(s) /\ runs[r].grant.session[1] = t
    BY <1>1, <1>2, <1>4 DEF RowOK
  <2>2. /\ s.start \in Nat /\ s.next \in Nat /\ Len(plans[t].costs) \in Nat
        /\ s.next <= Len(plans[t].costs)
    BY <2>1, SoundFields DEF Bound, Sound
  <2>3. (s.start + 1) .. s.next \subseteq 0 .. Len(plans[t].costs)
        /\ {0} \subseteq 0 .. Len(plans[t].costs)
    BY <2>2
  <2> QED BY <2>1, <2>3 DEF OutputOf
<1> QED BY <1>3, <1>4

(* A task is done once, and with all of its work: each step and the summary   *)
(* is in the output of some attempt, and the summary is the only comment.     *)
THEOREM DoneIsCompleteHolds == NeverUpgraded /\ ServerSpec => []DoneIsComplete
<1>1. ASSUME ServerInv, WorkInv PROVE DoneIsComplete
  <2> SUFFICES ASSUME NEW t \in DOMAIN tasks
               PROVE  LET said == {i \in DOMAIN comments : comments[i] = t}
                          output == UNION {runs[r].work.output : r \in RunsOf(t)}
                      IN IF tasks[t].status = "done"
                           THEN Cardinality(said) = 1 /\ output = 0 .. Len(plans[t].costs)
                           ELSE said = {}
    BY DEF DoneIsComplete
  <2>1. SaidOnce
    BY <1>1 DEF WorkInv
  <2>2. PICK said : said = {i \in DOMAIN comments : comments[i] = t}
    OBVIOUS
  <2>3. tasks[t].status # "done" => said = {}
    BY <2>1, <2>2 DEF SaidOnce
  <2>4. ASSUME tasks[t].status = "done"
        PROVE  /\ Cardinality(said) = 1
               /\ UNION {runs[r].work.output : r \in RunsOf(t)} = 0 .. Len(plans[t].costs)
    <3>1. Cardinality(said) = 1
      <4>1. PICK i \in DOMAIN comments : comments[i] = t
        BY <2>1, <2>4 DEF SaidOnce
      <4>2. said = {i}
        BY <2>1, <2>2, <4>1 DEF SaidOnce
      <4> QED BY <4>2, FS_Singleton
    <3>2. PICK r \in RunsOf(t) : runs[r].status # "running" /\ runs[r].exit = "completed"
      BY <2>1, <2>4 DEF SaidOnce
    <3>3. PICK s : s = SessionOf(r)
      OBVIOUS
    <3>4. r \in DOMAIN runs /\ runs[r].task = t /\ RowOK(r)
      BY <1>1, RunFacts DEF ServerInv, RunsOf
    <3>5. /\ s # NoSession /\ Bound(s, r) /\ runs[r].work.output = OutputOf(s)
          /\ "completed" = TerminalState(OutcomeOf(s)).exit /\ s.id[1] = t
      BY <3>2, <3>3, <3>4 DEF RowOK, Bound
    <3>6. OutcomeOf(s) = "completed"
      <4>1. OutcomeOf(s) \in AttemptOutcome
        BY DEF OutcomeOf, AttemptOutcome
      <4> QED BY <3>5, <4>1 DEF AttemptOutcome, TerminalState
    <3>7. s.halt = "completed" /\ s.next = Len(plans[t].costs)
      BY <3>5, <3>6 DEF OutcomeOf, Bound, Sound, HaltIsTrue
    <3>8. 0 \in runs[r].work.output
      BY <3>5, <3>7 DEF OutputOf
    <3>9. Recorded(t, Len(plans[t].costs))
      BY <1>1, <3>3, <3>4, <3>5, <3>7 DEF WorkInv, Backed
    <3>10. Len(plans[t].costs) \in Nat
      BY <3>5, SoundFields DEF Bound, Sound
    <3>11. \A i \in 0 .. Len(plans[t].costs) : \E r1 \in RunsOf(t) : i \in runs[r1].work.output
      BY <3>8, <3>9, <3>10 DEF Recorded
    <3>12. \A r1 \in RunsOf(t) : runs[r1].work.output \subseteq 0 .. Len(plans[t].costs)
      BY <1>1, OutputsArePlanned
    <3> QED BY <3>1, <3>11, <3>12
  <2> QED BY <2>2, <2>3, <2>4
<1> QED BY <1>1, WorkInvariant, PTL

-----------------------------------------------------------------------------
(* There is always a session to recover a run from. *)

(* While power is not lost, every row's session has a file, and so has the    *)
(* one a process is about to claim a run with.                                *)
Sourced ==
  /\ env.outages = 0
  /\ \A r \in DOMAIN runs : files[runs[r].grant.session] # NoSession
  /\ \A p \in Procs : proc[p].pc = "claim" => files[proc[p].sess.id] # NoSession

(* Only a mishap, a signal and time change what may still go wrong.           *)
LEMMA EnvMoves ==
  ASSUME [ServerNext]_runnerVars
  PROVE  \/ UNCHANGED env \/ Happens("faults") \/ Happens("signals")
         \/ PassTime \/ Outage
<1>1. ASSUME NEW p \in Procs, Attempt(p)
      PROVE  UNCHANGED env \/ Happens("faults")
  <2>1. CASE ClaimAttempt(p)
    BY <2>1 DEF ClaimAttempt
  <2>2. CASE ~ClaimAttempt(p)
    BY <1>1, <2>2 DEF Attempt, BindSession, PublishBinding, LoopTop, TakeStep, Commit,
       Persist, FinishRun
  <2> QED BY <2>1, <2>2
<1>2. ASSUME NEW p \in Procs, ServerStep(p) \/ PickTask(p) PROVE UNCHANGED env
  BY <1>2 DEF ServerStep, PickTask, ScanUnscheduled, Initialize, FindExpired,
     FindContinuation, ResumeSelected, Recovery, LoadExpired, Rebind, Reconcile
<1>3. ASSUME NEW p \in Procs, Command(p) \/ (At(p, "start") /\ Execute(p, proc[p].task))
      PROVE  UNCHANGED env
  BY <1>3 DEF Command, Serve, RunWork, Execute, Resume
<1>4. ASSUME NEW p \in Procs, RenewInBackground(p) \/ Cancel(p) \/ Crash(p) \/ FailCall(p)
      PROVE  UNCHANGED env \/ Happens("faults") \/ Happens("signals")
  BY <1>4 DEF RenewInBackground, Cancel, Crash, FailCall
<1>5. ASSUME AddTask \/ (\E id \in SessionIds : WriteBack(id)) \/ UNCHANGED runnerVars
      PROVE  UNCHANGED env
  BY <1>5 DEF AddTask, WriteBack, runnerVars
<1> QED BY <1>1, <1>2, <1>3, <1>4, <1>5, Zenon DEF ServerNext, Proceed

(* Only an outage loses power.                                                *)
LEMMA PowerStays ==
  ASSUME ServerInv, [ServerNext]_runnerVars, env.outages = 0
  PROVE  env'.outages = 0 /\ ~Outage
<1>1. env \in Scenario
  BY EnvFields DEF ServerInv
<1>2. ~Outage
  BY DEF Happens, Outage
<1>3. CASE UNCHANGED env \/ Happens("faults") \/ Happens("signals")
  <2>1. \/ UNCHANGED env
        \/ \E n : env' = [env EXCEPT !["faults"] = n] \/ env' = [env EXCEPT !["signals"] = n]
    BY <1>3 DEF Happens
  <2>2. env'.outages = 0
    BY <1>1, <2>1 DEF Scenario
  <2> QED BY <1>2, <2>2
<1>4. CASE PassTime
  <2>1. \E n : env' = [env EXCEPT !.faults = n]
    BY <1>4 DEF PassTime
  <2>2. env'.outages = 0
    BY <1>1, <2>1 DEF Scenario
  <2> QED BY <1>2, <2>2
<1> QED BY <1>2, <1>3, <1>4, EnvMoves

LEMMA SourcedStep ==
  ASSUME ServerInv, Sourced, [ServerNext]_runnerVars
  PROVE  Sourced'
<1>1. env'.outages = 0 /\ ~Outage
  BY PowerStays DEF Sourced
<1>2. ASSUME NEW id \in SessionIds, files[id] # NoSession PROVE files'[id] # NoSession
  BY <1>1, <1>2, FilesMove DEF FileMoves
<1>3. ASSUME NEW p \in Procs, proc[p].pc = "claim"
      PROVE  proc[p].sess.id \in SessionIds
  BY <1>3, ProcFacts, SoundFields DEF LocalOK, Claiming
<1>4. ASSUME NEW r \in DOMAIN runs
      PROVE  runs[r].grant.session \in SessionIds
             /\ files'[runs[r].grant.session] # NoSession
  BY <1>2, <1>4, DatabaseFacts DEF ServerInv, GrantRow, Sourced
<1>5. ASSUME NEW r \in DOMAIN runs' PROVE files'[runs'[r].grant.session] # NoSession
  <2>1. CASE r \in DOMAIN runs
    BY <1>4, <2>1, StepIsSteady DEF Steady
  <2>2. CASE r \notin DOMAIN runs
    <3>1. PICK p \in Procs : Claims(p)
      BY <2>2, RunsGrow
    <3>2. PICK auth, at :
            /\ at \in proc[p].since .. now
            /\ StartOwnedAttempt(auth, ClaimParams(p, at), Len(runs) + 1)
      BY <3>1 DEF Claims
    <3>3. r = Len(runs) + 1 /\ runs'[r].grant = ClaimParams(p, at).grant
      BY <2>2, <3>2, ClaimedRow
    <3>4. runs'[r].grant.session = proc[p].sess.id
      BY <3>3 DEF ClaimParams
    <3> QED BY <1>2, <1>3, <3>1, <3>4 DEF Claims, Sourced
  <2> QED BY <2>1, <2>2
<1>6. ASSUME NEW p \in Procs, proc'[p].pc = "claim"
      PROVE  files'[proc'[p].sess.id] # NoSession
  <2>1. "claim" \notin Owning /\ "claim" \notin Recovering
    BY DEF Owning, Recovering, InLoop
  <2>2. CASE Prepares(p)
    BY <1>4, <2>2 DEF Prepares
  <2>3. CASE Keeps(p)
    BY <1>2, <1>3, <1>6, <2>3 DEF Keeps, Sourced
  <2> QED BY <1>6, <2>1, <2>2, <2>3, StepMoves
          DEF Moves, Frees, Takes, Binds, GoesOn, Loads, Restores
<1> QED BY <1>1, <1>5, <1>6 DEF Sourced

(* A run can be recovered at every moment its process may die: from the       *)
(* checkpoint in its row, or from the session file.                           *)
THEOREM RecoverySourceHolds ==
  ASSUME \A s \in Scenarios : s.outages = 0
  PROVE  NeverUpgraded /\ ServerSpec => []RecoverySource
<1>1. NeverUpgraded /\ RunnerInit => Sourced
  <2>1. Idle.pc = "idle"
    BY DEF Idle
  <2> QED BY <2>1 DEF RunnerInit, NewInbox, StoreInit, NeverUpgraded, Sourced
<1>2. ServerInv /\ Sourced /\ [ServerNext]_runnerVars => Sourced'
  BY SourcedStep
<1>3. Sourced => RecoverySource
  BY DEF Sourced, RecoverySource, RunningRuns, Stranded
<1> QED BY <1>1, <1>2, <1>3, ServerInvariant, PTL DEF ServerSpec

-----------------------------------------------------------------------------
(* What has ended stays. *)

(* No step of the program changes a column of a run that has ended, session   *)
(* and output included.                                                       *)
THEOREM InboxKeepsTerminalRuns == NeverUpgraded /\ ServerSpec => TerminalRunsFrozen
<1>1. ServerInv /\ [ServerNext]_runnerVars =>
        [\A r \in DOMAIN runs : runs[r].status # "running" =>
           r \in DOMAIN runs' /\ runs'[r] = runs[r]]_storeVars
  BY StepIsSteady DEF Steady
<1> QED BY <1>1, ServerInvariant, PTL DEF ServerSpec, TerminalRunsFrozen

LEMMA DoneStays ==
  ASSUME ServerInv, [ServerNext]_runnerVars, NEW t \in DOMAIN tasks,
         tasks[t].status = "done"
  PROVE  tasks'[t] = tasks[t]
<1>1. tasks \in Seq(Task)
  BY DatabaseFacts DEF ServerInv, DatabaseOK, StoreInvOver, StoreTyped
<1>2. CASE AddTask
  <2>1. PICK row : tasks' = Append(tasks, row)
    BY <1>2 DEF AddTask, Create
  <2> QED BY <1>1, <2>1
<1>3. ASSUME NEW t0 \in DOMAIN tasks, NEW row, tasks' = [tasks EXCEPT ![t0] = row],
             tasks[t0].status # "done"
      PROVE  tasks'[t] = tasks[t]
  BY <1>1, <1>3
<1>4. ASSUME NEW p \in Procs, Claims(p) PROVE tasks'[t] = tasks[t]
  <2>1. PICK auth, q : StartOwnedAttempt(auth, q, Len(runs) + 1)
    BY <1>4 DEF Claims
  <2>2. PICK t0, row : t0 = q.task /\ row = [status |-> "in_progress", cont |-> NoContinuation]
    OBVIOUS
  <2>3. /\ t0 \in DOMAIN tasks /\ tasks' = [tasks EXCEPT ![t0] = row]
        /\ tasks[t0].status # "done"
    BY <2>1, <2>2 DEF StartOwnedAttempt, Claimable, Transition
  <2> QED BY <1>3, <2>3
<1>5. ASSUME NEW p \in Procs, Ends(p) PROVE tasks'[t] = tasks[t]
  <2>1. PICK at \in 0 .. now, reset \in Resets : Finish(FinishParams(p, at, reset))
    BY <1>5, EndFacts
  <2>2. PICK q : q = FinishParams(p, at, reset)
    OBVIOUS
  <2>3. PICK t0, row : t0 = q.task
                       /\ row = [status |-> TerminalState(q.outcome).task, cont |-> q.cont]
    OBVIOUS
  <2>4. /\ t0 \in DOMAIN tasks /\ tasks[t0].status = "in_progress"
        /\ tasks' = [tasks EXCEPT ![t0] = row]
    BY <2>1, <2>2, <2>3, Zenon DEF Finish, Finishable
  <2> QED BY <1>3, <2>4
<1>6. ASSUME NEW p \in Procs, Schedules(p) PROVE tasks'[t] = tasks[t]
  BY <1>1, <1>6 DEF Schedules, ReadUnscheduled, InitializeUnscheduled
<1>7. \/ AddTask \/ UNCHANGED tasks
      \/ \E p \in Procs : Claims(p) \/ Ends(p) \/ Schedules(p)
  BY StepCalls DEF CallOf, Publishes, Renews, UpdateProgress, RenewLease, Dies, Tick, dbVars
<1> QED BY <1>2, <1>4, <1>5, <1>6, <1>7

(* Nothing a process does touches a task that is done: not a human's `run` or *)
(* `resume`, not a late server.                                               *)
THEOREM InboxKeepsDoneTasks == NeverUpgraded /\ ServerSpec => DoneIsFinal
<1>1. ServerInv /\ [ServerNext]_runnerVars =>
        [\A t \in DOMAIN tasks : tasks[t].status = "done" =>
           tasks'[t] = tasks[t]]_storeVars
  BY DoneStays
<1> QED BY <1>1, ServerInvariant, PTL DEF ServerSpec, DoneIsFinal

=============================================================================
