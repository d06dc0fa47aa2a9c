---------------------------- MODULE ServerProofs ----------------------------
(* The inductive invariant of the whole inbox, for any number of processes,   *)
(* tasks, runs, faults, signals and losses of power: what every session in a  *)
(* row, a file or a process has to do with the run it is bound to.            *)
EXTENDS Server, StoreProofs, FiniteSetTheorems

(* No release before this one has worked in the inbox.                        *)
NeverUpgraded == \A s \in Scenarios : ~s.upgraded

-----------------------------------------------------------------------------
(* The invariant. *)

(* A session stands at a step of its task's plan, in a window it has not      *)
(* overdrawn.                                                                 *)
Sound(s) ==
  /\ s \in SessionRow
  /\ s.id[1] \in DOMAIN plans /\ s.plan = plans[s.id[1]]
  /\ s.start <= s.next /\ s.next <= Len(s.plan.costs)
  /\ s.used + s.remaining = s.allowance /\ s.allowance <= s.plan.budget
  /\ s.origin = "fresh" => s.allowance = s.plan.budget
  /\ s.haltedAt # NoTime => s.haltedAt <= now

(* What the halt of a session that is bound to a run says of it. A session    *)
(* that a server binds to the run it recovers does not start where the run    *)
(* did, and never halts.                                                      *)
HaltIsTrue(s, r) ==
  /\ s.halt # ""
  /\ s.next = s.start => s.used = 0
  /\ s.halt = "running" <=> s.haltedAt = NoTime
  /\ s.halt # "running" => /\ s.start = runs[r].grant.startStep
                           /\ s.haltedAt >= runs[r].startedAt
  /\ s.halt = "completed" => s.next = Len(s.plan.costs)
  /\ s.halt = "agent_error" => s.failAt = 0
  /\ s.halt = "token_exhausted" =>
       s.next < Len(s.plan.costs) /\ NextCost(s) > s.remaining

(* A session bound to a run has the run's number for its token, and runs in   *)
(* the window the run was granted.                                            *)
Bound(s, r) ==
  /\ Sound(s)
  /\ r \in DOMAIN runs /\ s.run = r /\ s.token = r
  /\ s.id = runs[r].grant.session /\ s.allowance = runs[r].grant.budget
  /\ HaltIsTrue(s, r)

(* A row is of its task's session, and its columns agree with its checkpoint. *)
(* A run that ended has one.                                                  *)
RowOK(r) ==
  /\ runs[r].owner = r
  /\ runs[r].grant.session[1] = runs[r].task
  /\ runs[r].grant.budget <= plans[runs[r].task].budget
  /\ runs[r].startedAt <= now
  /\ SessionOf(r) = NoSession =>
       /\ runs[r].status = "running"
       /\ runs[r].tokens = 0 /\ runs[r].work.output = {}
  /\ SessionOf(r) # NoSession =>
       /\ Bound(SessionOf(r), r)
       /\ runs[r].tokens = SessionOf(r).used
       /\ runs[r].work.output = OutputOf(SessionOf(r))
       /\ runs[r].status # "running" =>
            runs[r].exit = TerminalState(OutcomeOf(SessionOf(r))).exit

(* A file holds the session it is named after, not yet bound or bound.        *)
FileOK(id, s) ==
  s # NoSession => Sound(s) /\ s.id = id /\ (s.run = 0 \/ Bound(s, s.run))

(* Where a process owns the run it works on, and where it only recovers it.   *)
Owning == {"publish"} \cup InLoop
Recovering == {"rebind", "reconcile"}

(* Before its claim a process has a new session, or the one prepared from the *)
(* run it saw last, which had ended. *)
Claiming(me) ==
  /\ Sound(me.sess) /\ me.sess.id[1] = me.task /\ me.sess.used = 0
  /\ me.kind = "execute" => me.cand = 0 /\ me.sess.next = 0
  /\ me.kind # "execute" =>
       /\ me.cand \in DOMAIN runs /\ runs[me.cand].task = me.task
       /\ runs[me.cand].status # "running" /\ me.sess = Prepared(me.cand)

(* After its claim it holds a session that fits the run it was granted.       *)
Binding(me) ==
  /\ Sound(me.sess) /\ me.sess.used = 0
  /\ me.run \in DOMAIN runs /\ runs[me.run].task = me.task
  /\ runs[me.run].grant = [session |-> me.sess.id, budget |-> me.sess.allowance,
                           startStep |-> me.sess.next]

(* Then it holds a session bound to the run. *)
Working(me) == Bound(me.sess, me.run) /\ runs[me.run].task = me.task

LocalOK(me) ==
  /\ me.since <= now
  /\ me.pc \in {"idle", "pick", "start"} => me.cand = 0
  /\ me.pc = "start" => me.task \in DOMAIN tasks
  /\ me.pc = "select" => me.kind # "execute"
  /\ me.pc = "claim" => Claiming(me)
  /\ me.pc = "bind" => Binding(me)
  /\ me.pc \in Owning \cup Recovering => Working(me)
  /\ me.pc \in Owning => me.sess.start = runs[me.run].grant.startStep
  /\ me.pc \in {"publish", "top", "delay"} => me.sess.halt = "running"
  /\ me.pc = "delay" => ~AllStepsDone(me.sess) /\ ~CannotAfford(me.sess)
  /\ me.pc = "load" => /\ me.run \in DOMAIN runs /\ runs[me.run].task = me.task
                       /\ me.sess # NoSession => Bound(me.sess, me.run)

RowsOK == \A r \in DOMAIN runs : RowOK(r)
FilesOK == \A id \in SessionIds : FileOK(id, files[id]) /\ FileOK(id, disk[id])
LocalsOK == \A p \in Procs : LocalOK(proc[p])

DatabaseOK ==
  /\ StoreInvOver(GrantRow, WorkRow)
  /\ plans \in Seq(Plans) /\ Len(plans) = Len(tasks)
  /\ Len(tasks) <= MaxTasks /\ Len(runs) <= MaxRuns
  /\ RowsOK

FilesTyped == {files, disk} \subseteq [SessionIds -> SessionRow \cup {NoSession}]

ProcsTyped ==
  /\ proc \in [Procs -> ProcRow]
  /\ \A p \in Procs :
       proc[p].run \in 0 .. Len(runs) /\ proc[p].task \in 0 .. Len(tasks)

EnvTyped ==
  /\ {env.faults, env.signals, env.outages} \subseteq Nat
  /\ \E s \in Scenarios :
       env = [s EXCEPT !.faults = env.faults, !.signals = env.signals,
                       !.outages = env.outages]

ServerInv ==
  /\ DatabaseOK
  /\ FilesTyped /\ FilesOK
  /\ ProcsTyped /\ LocalsOK
  /\ EnvTyped

-----------------------------------------------------------------------------
(* The transitions of a session. *)

(* The steps of a plan have costs, and a window of it has a size.             *)
LEMMA PlanFields ==
  ASSUME NEW plan \in Plans
  PROVE  /\ plan.costs \in Seq(Nat) /\ Len(plan.costs) \in Nat
         /\ plan.budget \in Nat /\ plan.failAt \in Nat
         /\ 0 .. plan.budget \subseteq Amounts
<1>1. PICK s \in Scenarios : plan \in {s.plans[t] : t \in DOMAIN s.plans}
  BY DEF Plans
<1>2. s.plans \in Seq(Plan)
  BY RunnerAssumption DEF Scenario
<1>3. plan \in Plan
  BY <1>1, <1>2
<1> QED BY <1>3, RunnerAssumption DEF Plan

(* The fields of a sound session are numbers, and its tokens are an amount    *)
(* the column can hold.                                                       *)
LEMMA SoundFields ==
  ASSUME NEW s, Sound(s)
  PROVE  /\ s \in SessionRow /\ s.plan \in Plans /\ s.id \in SessionIds
         /\ s.next \in Nat /\ s.start \in Nat /\ s.failAt \in Nat
         /\ s.allowance \in Nat /\ s.remaining \in Nat /\ s.used \in Nat
         /\ s.run \in Nat /\ s.token \in Nat
         /\ s.haltedAt \in Nat \cup {NoTime}
         /\ s.plan.budget \in Nat /\ Len(s.plan.costs) \in Nat
         /\ s.used \in Amounts
<1>1. s \in SessionRow /\ s.plan \in Plans
  BY DEF Sound, SessionRow
<1>2. /\ s.id \in SessionIds
      /\ s.next \in Nat /\ s.start \in Nat /\ s.failAt \in Nat
      /\ s.allowance \in Nat /\ s.remaining \in Nat /\ s.used \in Nat
      /\ s.run \in Nat /\ s.token \in Nat /\ s.haltedAt \in Nat \cup {NoTime}
  BY <1>1 DEF SessionRow
<1>3. /\ s.plan.budget \in Nat /\ Len(s.plan.costs) \in Nat
      /\ 0 .. s.plan.budget \subseteq Amounts
  BY <1>1, PlanFields
<1>4. s.used \in 0 .. s.plan.budget
  BY <1>2, <1>3 DEF Sound
<1> QED BY <1>1, <1>2, <1>3, <1>4

(* Start: a new session stands at the first step of its task's plan.          *)
LEMMA StartIsSound ==
  ASSUME plans \in Seq(Plans), NEW t \in DOMAIN plans, NEW id \in SessionIds, id[1] = t
  PROVE  LET s == StartSession(id, plans[t])
         IN Sound(s) /\ s.id = id /\ s.next = 0 /\ s.used = 0 /\ s.run = 0
<1> DEFINE plan == plans[t]
           s == StartSession(id, plan)
<1>1. plan \in Plans
  BY RowIds
<1>2. plan.failAt \in Nat /\ plan.budget \in Nat /\ Len(plan.costs) \in Nat
  BY <1>1, PlanFields
<1> HIDE DEF plan
<1>3. s \in SessionRow
  BY <1>1, <1>2 DEF StartSession, SessionRow, ProviderWindowOrigin, HaltReason
<1>4. /\ s.id = id /\ s.plan = plan /\ s.next = 0 /\ s.start = 0 /\ s.used = 0
      /\ s.remaining = plan.budget /\ s.allowance = plan.budget
      /\ s.haltedAt = NoTime /\ s.run = 0
  BY DEF StartSession
<1> HIDE DEF s
<1>5. s.plan = plans[s.id[1]] /\ s.id[1] \in DOMAIN plans
  BY <1>4 DEF plan
<1>6. Sound(s)
  BY <1>2, <1>3, <1>4, <1>5 DEF Sound
<1>7. s = StartSession(id, plans[t])
  BY DEF s, plan
<1> QED BY <1>4, <1>6, <1>7

(* A fresh window of a sound session holds no more than its plan gives it.    *)
LEMMA BeginIsSound ==
  ASSUME NEW s, Sound(s), NEW allowance \in Nat, allowance <= s.plan.budget,
         NEW origin \in ProviderWindowOrigin,
         origin = "fresh" => allowance = s.plan.budget
  PROVE  LET b == BeginAttempt(s, allowance, origin)
         IN /\ Sound(b) /\ b.used = 0 /\ b.allowance = allowance
            /\ b.id = s.id /\ b.next = s.next /\ b.failAt = s.failAt
<1> DEFINE b == BeginAttempt(s, allowance, origin)
<1>1. s \in SessionRow /\ s.next \in Nat /\ s.plan.budget \in Nat
  BY SoundFields
<1>2. b \in SessionRow
  BY <1>1 DEF BeginAttempt, SessionRow
<1>3. /\ b.id = s.id /\ b.plan = s.plan /\ b.next = s.next /\ b.start = s.start
      /\ b.used = 0 /\ b.remaining = allowance /\ b.allowance = allowance
      /\ b.haltedAt = s.haltedAt /\ b.origin = origin /\ b.failAt = s.failAt
  BY <1>1 DEF BeginAttempt, SessionRow
<1> HIDE DEF b
<1>4. Sound(b)
  BY <1>2, <1>3 DEF Sound
<1> QED BY <1>3, <1>4 DEF b

(* What is left of a window is a window.                                      *)
LEMMA ContinueIsSound ==
  ASSUME NEW s, Sound(s)
  PROVE  LET c == ContinueAttempt(s)
         IN /\ Sound(c) /\ c.used = 0 /\ c.allowance = s.remaining
            /\ c.id = s.id /\ c.next = s.next /\ c.failAt = s.failAt
<1> DEFINE c == ContinueAttempt(s)
<1>1. /\ s \in SessionRow /\ s.plan.budget \in Nat /\ s.allowance \in Nat
      /\ s.remaining \in Nat /\ s.used \in Nat
  BY SoundFields
<1>2. c \in SessionRow
  BY <1>1 DEF ContinueAttempt, SessionRow, ProviderWindowOrigin
<1>3. /\ c.id = s.id /\ c.plan = s.plan /\ c.next = s.next /\ c.start = s.start
      /\ c.used = 0 /\ c.remaining = s.remaining /\ c.allowance = s.remaining
      /\ c.haltedAt = s.haltedAt /\ c.origin = "continued" /\ c.failAt = s.failAt
  BY <1>1 DEF ContinueAttempt, SessionRow
<1> HIDE DEF c
<1>4. Sound(c)
  BY <1>1, <1>2, <1>3 DEF Sound
<1> QED BY <1>3, <1>4 DEF c

(* Binding a session with an unspent window that fits the run's grant.        *)
LEMMA BindIsBound ==
  ASSUME NEW s, Sound(s), s.used = 0, NEW r \in DOMAIN runs, r \in Nat,
         s.id = runs[r].grant.session, s.allowance = runs[r].grant.budget
  PROVE  LET b == BindAttempt(s, r, r)
         IN /\ Bound(b, r) /\ b.id = s.id /\ b.next = s.next
            /\ b.start = s.next /\ b.halt = "running" /\ b.used = 0
            /\ b.failAt = s.failAt
<1> DEFINE b == BindAttempt(s, r, r)
<1>1. /\ s \in SessionRow /\ s.next \in Nat /\ s.allowance \in Nat
      /\ s.remaining \in Nat
  BY SoundFields
<1>2. b \in SessionRow
  BY <1>1 DEF BindAttempt, SessionRow, HaltReason
<1>3. /\ b.id = s.id /\ b.plan = s.plan /\ b.next = s.next /\ b.start = s.next
      /\ b.used = s.used /\ b.remaining = s.remaining /\ b.allowance = s.allowance
      /\ b.haltedAt = NoTime /\ b.origin = s.origin /\ b.halt = "running"
      /\ b.run = r /\ b.token = r /\ b.failAt = s.failAt
  BY <1>1 DEF BindAttempt, SessionRow
<1> HIDE DEF b
<1>4. Sound(b)
  BY <1>1, <1>2, <1>3 DEF Sound
<1>5. HaltIsTrue(b, r)
  BY <1>3 DEF HaltIsTrue
<1> QED BY <1>3, <1>4, <1>5 DEF Bound, b

(* A halt observed now, by the process that bound the session to its run.     *)
LEMMA HaltIsBound ==
  ASSUME NEW s, NEW r, Bound(s, r), s.halt = "running", now \in Nat,
         s.start = runs[r].grant.startStep, runs[r].startedAt <= now,
         NEW reason \in AttemptOutcome,
         reason = "completed" => AllStepsDone(s),
         reason = "agent_error" => s.failAt = 0,
         reason = "token_exhausted" => ~AllStepsDone(s) /\ CannotAfford(s)
  PROVE  LET h == Halt(s, reason, now)
         IN /\ Bound(h, r) /\ h.start = s.start /\ h.next = s.next
            /\ h.halt = reason /\ h.used = s.used /\ h.failAt = s.failAt
<1> DEFINE h == Halt(s, reason, now)
<1>1. /\ s \in SessionRow /\ s.next \in Nat /\ Len(s.plan.costs) \in Nat
      /\ s.haltedAt = NoTime
  BY SoundFields DEF Bound, HaltIsTrue
<1>2. h \in SessionRow
  BY <1>1 DEF Halt, SessionRow, HaltReason, AttemptOutcome
<1>3. /\ h.id = s.id /\ h.plan = s.plan /\ h.next = s.next /\ h.start = s.start
      /\ h.used = s.used /\ h.remaining = s.remaining /\ h.allowance = s.allowance
      /\ h.haltedAt = now /\ h.origin = s.origin /\ h.halt = reason
      /\ h.run = s.run /\ h.token = s.token /\ h.failAt = s.failAt
  BY <1>1 DEF Halt, SessionRow
<1> HIDE DEF h
<1>4. Sound(s) /\ s.next <= Len(s.plan.costs) /\ (s.next = s.start => s.used = 0)
  BY DEF Bound, Sound, HaltIsTrue
<1>5. Sound(h)
  BY <1>2, <1>3, <1>4 DEF Sound
<1>6. NextCost(h) = NextCost(s)
  BY <1>3 DEF NextCost
<1>7. HaltIsTrue(h, r)
  <2>1. h.haltedAt >= runs[r].startedAt /\ h.haltedAt # NoTime
    BY <1>3, NoTimeAssumption
  <2>2. reason = "completed" => s.next = Len(s.plan.costs)
    BY <1>1, <1>4 DEF AllStepsDone
  <2>3. reason = "token_exhausted" =>
          s.next < Len(s.plan.costs) /\ NextCost(s) > s.remaining
    BY <1>1 DEF AllStepsDone, CannotAfford
  <2> QED BY <1>3, <1>4, <1>6, <2>1, <2>2, <2>3 DEF HaltIsTrue, AttemptOutcome
<1> QED BY <1>3, <1>5, <1>7 DEF Bound, h

(* The agent error disarms its directive.                                     *)
LEMMA FailIsBound ==
  ASSUME NEW s, NEW r, Bound(s, r), s.halt = "running", now \in Nat,
         s.start = runs[r].grant.startStep, runs[r].startedAt <= now
  PROVE  LET f == FailStep(s, now)
         IN /\ Bound(f, r) /\ f.start = s.start /\ f.next = s.next
            /\ f.halt = "agent_error" /\ f.failAt = 0
<1>1. s \in SessionRow
  BY SoundFields DEF Bound
<1>2. PICK d : d = [s EXCEPT !.failAt = 0]
  OBVIOUS
<1>3. /\ d \in SessionRow
      /\ d.id = s.id /\ d.plan = s.plan /\ d.next = s.next /\ d.start = s.start
      /\ d.used = s.used /\ d.remaining = s.remaining /\ d.allowance = s.allowance
      /\ d.haltedAt = s.haltedAt /\ d.origin = s.origin /\ d.halt = s.halt
      /\ d.run = s.run /\ d.token = s.token /\ d.failAt = 0
  BY <1>1, <1>2 DEF SessionRow
<1>4. Bound(d, r)
  BY <1>3 DEF Bound, Sound, HaltIsTrue, NextCost
<1>5. PICK f : f = Halt(d, "agent_error", now)
  OBVIOUS
<1>6. Bound(f, r) /\ f.start = d.start /\ f.next = d.next /\ f.halt = "agent_error"
      /\ f.failAt = 0
  BY <1>3, <1>4, <1>5, HaltIsBound DEF AttemptOutcome
<1>7. FailStep(s, now) = f
  BY <1>1, <1>2, <1>5 DEF FailStep, Halt, SessionRow
<1> QED BY <1>3, <1>6, <1>7

(* A step that the window can afford is paid for and done.                    *)
LEMMA DoStepIsBound ==
  ASSUME NEW s, NEW r, Bound(s, r), s.halt = "running",
         ~AllStepsDone(s), ~CannotAfford(s)
  PROVE  LET d == DoStep(s)
         IN /\ Bound(d, r) /\ d.start = s.start /\ d.next = s.next + 1
            /\ d.halt = "running" /\ d.failAt = s.failAt
<1> DEFINE d == DoStep(s)
           cost == s.plan.costs[s.next + 1]
<1>1. /\ s \in SessionRow /\ s.next \in Nat /\ Len(s.plan.costs) \in Nat
      /\ s.start \in Nat /\ s.remaining \in Nat /\ s.used \in Nat
      /\ s.allowance \in Nat
  BY SoundFields DEF Bound
<1>2. cost \in Nat /\ cost <= s.remaining /\ s.next < Len(s.plan.costs)
  <2>1. s.plan.costs \in Seq(Nat)
    BY SoundFields, PlanFields DEF Bound
  <2>2. s.next < Len(s.plan.costs)
    BY <1>1 DEF AllStepsDone
  <2>3. s.next + 1 \in DOMAIN s.plan.costs
    BY <1>1, <2>1, <2>2
  <2>4. cost \in Nat
    BY <2>1, <2>3
  <2>5. ~(cost > s.remaining)
    BY DEF CannotAfford, NextCost
  <2> QED BY <1>1, <2>2, <2>4, <2>5
<1>3. d = [s EXCEPT !.used = s.used + cost, !.remaining = s.remaining - cost,
                    !.next = s.next + 1]
  BY DEF DoStep, NextCost
<1> HIDE DEF d, cost
<1>4. d \in SessionRow
  <2>1. s.used + cost \in Nat /\ s.remaining - cost \in Nat /\ s.next + 1 \in Nat
    BY <1>1, <1>2
  <2> QED BY <1>1, <1>3, <2>1 DEF SessionRow
<1>5. /\ d.id = s.id /\ d.plan = s.plan /\ d.next = s.next + 1 /\ d.start = s.start
      /\ d.used = s.used + cost /\ d.remaining = s.remaining - cost
      /\ d.allowance = s.allowance /\ d.haltedAt = s.haltedAt
      /\ d.origin = s.origin /\ d.halt = s.halt /\ d.run = s.run /\ d.token = s.token
      /\ d.failAt = s.failAt
  BY <1>1, <1>3 DEF SessionRow
<1>6. Sound(d)
  <2>1. Sound(s)
    BY DEF Bound
  <2>2. s.start <= s.next /\ s.used + s.remaining = s.allowance
    BY <2>1 DEF Sound
  <2>3. d.start <= d.next /\ d.next <= Len(d.plan.costs)
    BY <1>1, <1>2, <1>5, <2>2
  <2>4. d.used + d.remaining = d.allowance
    BY <1>1, <1>2, <1>5, <2>2
  <2> QED BY <1>4, <1>5, <2>1, <2>3, <2>4 DEF Sound
<1>7. HaltIsTrue(d, r)
  BY <1>1, <1>5 DEF HaltIsTrue, Bound, Sound
<1> QED BY <1>5, <1>6, <1>7 DEF Bound, d
-----------------------------------------------------------------------------
(* What no step takes back. *)

(* Time and the tables only grow, and what a claim inserted stays. A run that *)
(* ended is history.                                                          *)
Steady ==
  /\ now \in Nat /\ now' \in Nat /\ now <= now'
  /\ Len(tasks) <= Len(tasks') /\ Len(runs) <= Len(runs')
  /\ DOMAIN tasks \subseteq DOMAIN tasks'
  /\ \A t \in DOMAIN plans : t \in DOMAIN plans' /\ plans'[t] = plans[t]
  /\ \A r \in DOMAIN runs :
       /\ r \in DOMAIN runs'
       /\ runs'[r].task = runs[r].task /\ runs'[r].grant = runs[r].grant
       /\ runs'[r].owner = runs[r].owner /\ runs'[r].startedAt = runs[r].startedAt
       /\ runs[r].status # "running" => runs'[r] = runs[r]

(* What is said of a session stays true while time passes and tables grow.    *)
LEMMA SoundStays ==
  ASSUME Steady, NEW s, Sound(s)
  PROVE  Sound(s)'
<1>1. /\ now \in Nat /\ now' \in Nat /\ now <= now'
      /\ \A t \in DOMAIN plans : t \in DOMAIN plans' /\ plans'[t] = plans[t]
  BY DEF Steady
<1>2. s.haltedAt # NoTime => s.haltedAt \in Nat
  BY SoundFields
<1> QED BY <1>1, <1>2 DEF Sound

(* So does what relates it to its run.                                        *)
LEMMA BoundStays ==
  ASSUME Steady, NEW s, NEW r, Bound(s, r)
  PROVE  Bound(s, r)'
<1>1. Sound(s)'
  BY SoundStays DEF Bound
<1>2. /\ r \in DOMAIN runs /\ r \in DOMAIN runs'
      /\ runs'[r].grant = runs[r].grant /\ runs'[r].startedAt = runs[r].startedAt
  BY DEF Steady, Bound
<1>3. HaltIsTrue(s, r)'
  BY <1>2 DEF Bound, HaltIsTrue
<1> QED BY <1>1, <1>2, <1>3 DEF Bound

(* A file that is not written stays true to its run.                          *)
LEMMA FileStays ==
  ASSUME Steady, NEW id, NEW s, FileOK(id, s)
  PROVE  FileOK(id, s)'
BY SoundStays, BoundStays DEF FileOK

(* A row whose progress is not written stays true to its session.             *)
LEMMA RowStays ==
  ASSUME Steady, NEW r \in DOMAIN runs, RowOK(r),
         runs[r].task \in DOMAIN plans, runs[r].startedAt \in Nat,
         runs'[r].status = runs[r].status, runs'[r].exit = runs[r].exit,
         runs'[r].tokens = runs[r].tokens, runs'[r].work = runs[r].work
  PROVE  RowOK(r)'
<1>1. /\ now \in Nat /\ now' \in Nat /\ now <= now'
      /\ plans'[runs[r].task] = plans[runs[r].task]
      /\ runs'[r].task = runs[r].task /\ runs'[r].grant = runs[r].grant
      /\ runs'[r].owner = runs[r].owner /\ runs'[r].startedAt = runs[r].startedAt
  BY DEF Steady
<1>2. PICK s : s = SessionOf(r)
  OBVIOUS
<1>3. SessionOf(r)' = s
  BY <1>2 DEF SessionOf
<1>4. s # NoSession => Bound(s, r)'
  BY <1>2, BoundStays DEF RowOK
<1> QED BY <1>1, <1>2, <1>3, <1>4 DEF RowOK

(* The session prepared from a run that ended is prepared from its row.       *)
LEMMA PreparedStays ==
  ASSUME NEW r \in DOMAIN runs, RowOK(r), runs[r].status # "running",
         runs'[r] = runs[r]
  PROVE  Prepared(r)' = Prepared(r)
BY DEF Prepared, Restore, RowOK, SessionOf

(* What is said of a process stays true while others step.                    *)
LEMMA LocalStays ==
  ASSUME Steady, RowsOK, NEW me \in ProcRow, LocalOK(me)
  PROVE  LocalOK(me)'
<1> USE DEF Steady
<1>1. me.since <= now'
  <2>1. me.since \in Nat
    BY DEF ProcRow
  <2> QED BY <2>1 DEF LocalOK
<1>2. me.pc = "start" => me.task \in DOMAIN tasks'
  BY DEF LocalOK
<1>3. me.pc = "claim" => Claiming(me)'
  <2> SUFFICES ASSUME Claiming(me) PROVE Claiming(me)'
    BY DEF LocalOK
  <2>1. Sound(me.sess)'
    BY SoundStays DEF Claiming
  <2>2. CASE me.kind = "execute"
    BY <2>1, <2>2 DEF Claiming
  <2>3. CASE me.kind # "execute"
    <3>1. /\ me.cand \in DOMAIN runs /\ runs[me.cand].status # "running"
          /\ RowOK(me.cand) /\ runs'[me.cand] = runs[me.cand]
      BY <2>3 DEF Claiming, RowsOK
    <3>2. Prepared(me.cand)' = Prepared(me.cand)
      BY <3>1, PreparedStays
    <3> QED BY <2>1, <2>3, <3>1, <3>2 DEF Claiming
  <2> QED BY <2>2, <2>3
<1>4. me.pc = "bind" => Binding(me)'
  BY SoundStays DEF LocalOK, Binding
<1>5. me.pc \in Owning \cup Recovering => Working(me)'
  BY BoundStays DEF LocalOK, Working, Bound
<1>6. me.pc \in Owning => me.sess.start = runs'[me.run].grant.startStep
  BY DEF LocalOK, Working, Bound
<1>7. me.pc = "load" => /\ me.run \in DOMAIN runs' /\ runs'[me.run].task = me.task
                        /\ me.sess # NoSession => Bound(me.sess, me.run)'
  BY BoundStays DEF LocalOK
<1> QED BY <1>1, <1>2, <1>3, <1>4, <1>5, <1>6, <1>7 DEF LocalOK
-----------------------------------------------------------------------------
(* What a call does to the database. *)

(* Every run has a row of a task with a plan, and an id that is a token.      *)
LEMMA DatabaseFacts ==
  ASSUME DatabaseOK
  PROVE  /\ now \in Nat
         /\ tasks \in Seq(Task) /\ Len(tasks) \in Nat /\ DOMAIN tasks = 1 .. Len(tasks)
         /\ plans \in Seq(Plans) /\ DOMAIN plans = DOMAIN tasks
         /\ runs \in Seq(RunRow(GrantRow, WorkRow)) /\ Len(runs) \in Nat
         /\ DOMAIN runs = 1 .. Len(runs)
         /\ \A r \in DOMAIN runs :
              /\ r \in Nat /\ r # 0 /\ r \in Tokens
              /\ runs[r] \in RunRow(GrantRow, WorkRow)
              /\ runs[r].task \in DOMAIN tasks /\ runs[r].task \in Nat
              /\ runs[r].startedAt \in Nat /\ runs[r].grant \in GrantRow
<1>1. /\ now \in Nat /\ tasks \in Seq(Task) /\ plans \in Seq(Plans)
      /\ runs \in Seq(RunRow(GrantRow, WorkRow))
  BY DEF DatabaseOK, StoreInvOver, StoreTyped
<1>2. /\ Len(tasks) \in Nat /\ DOMAIN tasks = 1 .. Len(tasks)
      /\ DOMAIN plans = DOMAIN tasks
      /\ Len(runs) \in Nat /\ DOMAIN runs = 1 .. Len(runs)
  BY <1>1, RowIds DEF DatabaseOK
<1>3. ASSUME NEW r \in DOMAIN runs
      PROVE  /\ r \in Nat /\ r # 0 /\ r \in Tokens
             /\ runs[r] \in RunRow(GrantRow, WorkRow)
             /\ runs[r].task \in DOMAIN tasks /\ runs[r].task \in Nat
             /\ runs[r].startedAt \in Nat /\ runs[r].grant \in GrantRow
  <2>1. r \in Nat /\ r # 0 /\ runs[r] \in RunRow(GrantRow, WorkRow)
    BY <1>1, RowIds
  <2>2. r \in 1 .. MaxRuns
    BY <1>2, StoreAssumption DEF DatabaseOK
  <2>3. runs[r].task \in DOMAIN tasks
    BY DEF DatabaseOK, StoreInvOver, RunsBelongToTasks
  <2> QED BY <2>1, <2>2, <2>3, RunnerAssumption DEF RunRow
<1> QED BY <1>1, <1>2, <1>3

(* Calls that leave the runs alone: whatever they do to tasks and scans, and  *)
(* new tasks come with their plans.                                           *)
LEMMA RunsStay ==
  ASSUME DatabaseOK, StoreInvOver(GrantRow, WorkRow)', UNCHANGED runs, now <= now',
         plans' \in Seq(Plans), Len(plans') = Len(tasks'),
         Len(tasks) <= Len(tasks'), Len(tasks') <= MaxTasks,
         \A t \in DOMAIN plans : plans'[t] = plans[t]
  PROVE  DatabaseOK' /\ Steady
<1>1. now' \in Nat /\ tasks' \in Seq(Task)
  BY DEF StoreInvOver, StoreTyped
<1>2. /\ Len(tasks') \in Nat /\ DOMAIN tasks' = 1 .. Len(tasks')
      /\ DOMAIN plans' = DOMAIN tasks'
  BY <1>1, RowIds
<1>3. /\ now \in Nat /\ Len(tasks) \in Nat /\ DOMAIN tasks = 1 .. Len(tasks)
      /\ DOMAIN plans = DOMAIN tasks /\ Len(runs) \in Nat
      /\ \A r \in DOMAIN runs : runs[r].task \in DOMAIN tasks /\ runs[r].startedAt \in Nat
  BY DatabaseFacts
<1>4. DOMAIN tasks \subseteq DOMAIN tasks'
  BY <1>2, <1>3
<1>5. Steady
  BY <1>1, <1>2, <1>3, <1>4 DEF Steady
<1>6. RowsOK'
  BY <1>3, <1>5, RowStays DEF RowsOK, DatabaseOK
<1> QED BY <1>5, <1>6 DEF DatabaseOK

(* No call.                                                                   *)
LEMMA SameDatabase ==
  ASSUME DatabaseOK, UNCHANGED <<dbVars, plans>>
  PROVE  DatabaseOK' /\ Steady
<1>1. UNCHANGED <<now, tasks, runs, comments, scans, plans>>
  BY DEF dbVars
<1>2. StoreInvOver(GrantRow, WorkRow)
  BY DEF DatabaseOK
<1>3. StoreInvOver(GrantRow, WorkRow)'
  BY <1>1, <1>2, SameTables
     DEF StoreInvOver, StoreTyped, ScansBelongToTasks, TakeoverIsBounded
<1>4. now <= now' /\ Len(tasks) <= Len(tasks')
  BY <1>1, DatabaseFacts
<1> QED BY <1>1, <1>3, <1>4, RunsStay DEF DatabaseOK

(* A call that replaces the row of a running run, keeping what its claim      *)
(* inserted, leaves the other rows true to their sessions.                    *)
LEMMA RowChanges ==
  ASSUME DatabaseOK, NEW r0 \in DOMAIN runs, NEW row,
         runs[r0].status = "running", runs' = [runs EXCEPT ![r0] = row],
         row.task = runs[r0].task, row.grant = runs[r0].grant,
         row.owner = runs[r0].owner, row.startedAt = runs[r0].startedAt,
         UNCHANGED <<now, plans>>, DOMAIN tasks' = DOMAIN tasks,
         Len(tasks') = Len(tasks), StoreInvOver(GrantRow, WorkRow)'
  PROVE  /\ Steady /\ runs'[r0] = row
         /\ RowOK(r0)' => DatabaseOK'
<1>1. /\ now \in Nat /\ runs \in Seq(RunRow(GrantRow, WorkRow)) /\ Len(runs) \in Nat
      /\ Len(tasks) \in Nat /\ DOMAIN plans = DOMAIN tasks
      /\ \A r \in DOMAIN runs : runs[r].task \in DOMAIN tasks /\ runs[r].startedAt \in Nat
  BY DatabaseFacts
<1>2. /\ runs'[r0] = row /\ DOMAIN runs' = DOMAIN runs
      /\ \A r \in DOMAIN runs : r # r0 => runs'[r] = runs[r]
  BY <1>1
<1>3. Len(runs') = Len(runs)
  BY <1>1
<1>4. Steady
  BY <1>1, <1>2, <1>3 DEF Steady
<1>5. \A r \in DOMAIN runs : r # r0 => RowOK(r)'
  BY <1>1, <1>2, <1>4, RowStays DEF RowsOK, DatabaseOK
<1>6. RowOK(r0)' => RowsOK'
  BY <1>2, <1>5 DEF RowsOK
<1> QED BY <1>2, <1>3, <1>4, <1>6 DEF DatabaseOK
(* A claim: the n-th run gets token n, and the session it was prepared with.  *)
LEMMA ClaimEffect ==
  ASSUME DatabaseOK, NEW auth, NEW p, UNCHANGED plans,
         StartOwnedAttempt(auth, p, Len(runs) + 1),
         p.run \in Nat, p.startedAt \in 0 .. now, p.grant \in GrantRow,
         p.grant.session[1] = p.task, p.grant.budget <= plans[p.task].budget
  PROVE  /\ DatabaseOK' /\ Steady
         /\ Len(runs) + 1 \in DOMAIN runs'
         /\ runs'[Len(runs) + 1].task = p.task
         /\ runs'[Len(runs) + 1].grant = p.grant
         /\ runs'[Len(runs) + 1].owner = Len(runs) + 1
<1>0. PICK r0 : r0 = Len(runs) + 1
  OBVIOUS
<1> DEFINE
      row == [task |-> p.task, grant |-> p.grant, status |-> "running",
              exit |-> "", tokens |-> 0, work |-> NoWork,
              startedAt |-> p.startedAt, finishedAt |-> NoTime,
              owner |-> r0, lease |-> p.startedAt + Lease]
      claimed == [status |-> "in_progress", cont |-> NoContinuation]
<1>1. /\ Len(runs) < MaxRuns /\ p.task \in DOMAIN tasks
      /\ tasks' = [tasks EXCEPT ![p.task] = claimed]
      /\ runs' = Append(runs, row)
      /\ UNCHANGED <<now, comments, scans>>
  BY <1>0 DEF StartOwnedAttempt, Claimable
<1>2. /\ now \in Nat /\ runs \in Seq(RunRow(GrantRow, WorkRow)) /\ Len(runs) \in Nat
      /\ tasks \in Seq(Task) /\ DOMAIN plans = DOMAIN tasks /\ Len(tasks) \in Nat
      /\ \A r \in DOMAIN runs : runs[r].task \in DOMAIN tasks /\ runs[r].startedAt \in Nat
  BY DatabaseFacts
<1>3. r0 \in Tokens /\ NoWork \in WorkRow
  <2> HIDE DEF row, claimed
  <2>1. Len(runs) \in Nat /\ MaxRuns \in Nat /\ Len(runs) < MaxRuns
    BY <1>1, <1>2, StoreAssumption
  <2>2. r0 \in 1 .. MaxRuns
    BY <1>0, <2>1
  <2>3. [output |-> {}, checkpoint |-> NoSession] \in WorkRow
    BY DEF WorkRow
  <2> QED BY <2>2, <2>3, RunnerAssumption
<1>4. StoreInvOver(GrantRow, WorkRow)'
  BY <1>0, <1>1, <1>3, ClaimStep DEF DatabaseOK
<1>5. /\ row.task = p.task /\ row.grant = p.grant /\ row.owner = r0
      /\ row.startedAt = p.startedAt /\ row.status = "running" /\ row.tokens = 0
      /\ row.work.output = {} /\ row.work.checkpoint = NoSession
  BY RunnerAssumption
<1> HIDE DEF row, claimed
<1>6. runs' \in Seq(RunRow(GrantRow, WorkRow)) /\ tasks' \in Seq(Task)
  BY <1>4 DEF StoreInvOver, StoreTyped
<1>7. /\ Len(runs') = Len(runs) + 1 /\ DOMAIN runs' = DOMAIN runs \cup {r0}
      /\ \A r \in DOMAIN runs : runs'[r] = runs[r]
      /\ runs'[r0] = row
  BY <1>0, <1>1, <1>2
<1>8. DOMAIN tasks' = DOMAIN tasks /\ Len(tasks') = Len(tasks)
  BY <1>1, <1>2
<1>9. Steady
  BY <1>1, <1>2, <1>7, <1>8 DEF Steady
<1>10. RowOK(r0)'
  <2>1. SessionOf(r0)' = NoSession
    BY <1>5, <1>7 DEF SessionOf
  <2>2. p.startedAt <= now'
    BY <1>1, <1>2
  <2> QED BY <1>1, <1>5, <1>7, <2>1, <2>2 DEF RowOK
<1>11. \A r \in DOMAIN runs : RowOK(r)'
  BY <1>2, <1>7, <1>9, RowStays DEF RowsOK, DatabaseOK
<1>12. RowsOK'
  BY <1>7, <1>10, <1>11 DEF RowsOK
<1>13. DatabaseOK'
  <2>1. Len(runs') <= MaxRuns
    BY <1>1, <1>2, <1>7, StoreAssumption
  <2> QED BY <1>4, <1>8, <1>12, <2>1 DEF DatabaseOK
<1> QED BY <1>0, <1>5, <1>7, <1>9, <1>13

(* A renewal changes nothing that relates a row to its session.               *)
LEMMA RenewEffect ==
  ASSUME DatabaseOK, NEW r, NEW token, UNCHANGED plans, RenewLease(r, token)
  PROVE  DatabaseOK' /\ Steady
<1> DEFINE row == [runs[r] EXCEPT !.lease = now + Lease]
<1>1. /\ r \in DOMAIN runs /\ runs[r].status = "running"
      /\ runs' = [runs EXCEPT ![r] = row]
      /\ UNCHANGED <<now, tasks, comments, scans>>
  BY DEF RenewLease, Owns
<1>2. StoreInvOver(GrantRow, WorkRow)'
  BY RenewStep DEF DatabaseOK
<1>3. /\ runs[r] \in RunRow(GrantRow, WorkRow) /\ runs[r].task \in DOMAIN plans
      /\ runs[r].startedAt \in Nat
  BY <1>1, DatabaseFacts
<1>4. /\ row.task = runs[r].task /\ row.grant = runs[r].grant
      /\ row.owner = runs[r].owner /\ row.startedAt = runs[r].startedAt
      /\ row.status = runs[r].status /\ row.exit = runs[r].exit
      /\ row.tokens = runs[r].tokens /\ row.work = runs[r].work
  BY <1>3 DEF RunRow
<1> HIDE DEF row
<1>5. Steady /\ runs'[r] = row /\ (RowOK(r)' => DatabaseOK')
  BY <1>1, <1>2, <1>4, RowChanges
<1>6. RowOK(r)'
  BY <1>1, <1>3, <1>4, <1>5, RowStays DEF DatabaseOK, RowsOK
<1> QED BY <1>5, <1>6

(* A row whose progress is that of a session bound to it.                     *)
LEMMA ProgressIsTrue ==
  ASSUME Steady, NEW r \in DOMAIN runs, NEW s, RowOK(r), Bound(s, r),
         runs[r].task \in DOMAIN plans, runs[r].startedAt \in Nat,
         runs'[r].tokens = s.used, runs'[r].work = Work(s),
         \/ runs'[r].status = "running"
         \/ runs'[r].exit = TerminalState(OutcomeOf(s)).exit
  PROVE  RowOK(r)'
<1>1. /\ now \in Nat /\ now' \in Nat /\ now <= now'
      /\ plans'[runs[r].task] = plans[runs[r].task]
      /\ runs'[r].task = runs[r].task /\ runs'[r].grant = runs[r].grant
      /\ runs'[r].owner = runs[r].owner /\ runs'[r].startedAt = runs[r].startedAt
  BY DEF Steady
<1>2. SessionOf(r)' = s /\ runs'[r].work.output = OutputOf(s)
  BY DEF SessionOf, Work
<1>3. Bound(s, r)'
  BY BoundStays
<1>4. s # NoSession
  BY SoundFields, RunnerAssumption DEF Bound
<1> QED BY <1>1, <1>2, <1>3, <1>4 DEF RowOK

(* The progress columns can hold a bound session and what it used and said.   *)
LEMMA WorkIsStorable ==
  ASSUME NEW s, NEW r, Bound(s, r)
  PROVE  Work(s) \in WorkRow /\ s.used \in Amounts
<1>1. s \in SessionRow /\ s.next \in Nat /\ s.start \in Nat /\ s.used \in Amounts
  BY SoundFields DEF Bound
<1>2. OutputOf(s) \subseteq Nat
  BY <1>1 DEF OutputOf
<1> QED BY <1>1, <1>2 DEF Work, WorkRow

(* A publication stores the progress of the session its caller holds.         *)
LEMMA PublishEffect ==
  ASSUME DatabaseOK, NEW r, NEW token, NEW s, Bound(s, r), UNCHANGED plans,
         UpdateProgress(r, token, s.used, Work(s))
  PROVE  DatabaseOK' /\ Steady
<1> DEFINE row == [runs[r] EXCEPT !.tokens = s.used, !.work = Work(s)]
<1>1. /\ r \in DOMAIN runs /\ runs[r].status = "running"
      /\ runs' = [runs EXCEPT ![r] = row]
      /\ UNCHANGED <<now, tasks, comments, scans>>
  BY DEF UpdateProgress, Owns
<1>2. StoreInvOver(GrantRow, WorkRow)'
  BY WorkIsStorable, PublishStep DEF DatabaseOK
<1>3. /\ runs[r] \in RunRow(GrantRow, WorkRow) /\ runs[r].task \in DOMAIN plans
      /\ runs[r].startedAt \in Nat
  BY <1>1, DatabaseFacts
<1>4. /\ row.task = runs[r].task /\ row.grant = runs[r].grant
      /\ row.owner = runs[r].owner /\ row.startedAt = runs[r].startedAt
      /\ row.status = runs[r].status /\ row.tokens = s.used /\ row.work = Work(s)
  BY <1>3 DEF RunRow
<1> HIDE DEF row
<1>5. Steady /\ runs'[r] = row /\ (RowOK(r)' => DatabaseOK')
  BY <1>1, <1>2, <1>4, RowChanges
<1>6. RowOK(r)'
  BY <1>1, <1>3, <1>4, <1>5, ProgressIsTrue DEF DatabaseOK, RowsOK
<1> QED BY <1>5, <1>6
(* What the end of a bound session decides is storable, at any instant and    *)
(* with any interval.                                                         *)
LEMMA CompletionIsStorable ==
  ASSUME NEW s, NEW r, Bound(s, r), NEW startStep, NEW at \in Nat, NEW reset \in Nat
  PROVE  LET cont == Completion(s, startStep, at, reset)
         IN /\ OutcomeOf(s) \in AttemptOutcome
            /\ cont \in ContinuationDecision /\ ParsesAsContinuation(cont)
            /\ OutcomeOf(s) = "completed" => cont = NoContinuation
<1>1. OutcomeOf(s) \in AttemptOutcome
  BY DEF OutcomeOf, AttemptOutcome
<1> DEFINE policyAt == IF OutcomeOf(s) = "token_exhausted" /\ s.haltedAt # NoTime
                         THEN s.haltedAt ELSE at
<1>2. policyAt \in Nat
  BY SoundFields DEF Bound
<1>3. Completion(s, startStep, at, reset) =
        DecideAttemptCompletion(OutcomeOf(s), policyAt, reset,
                                s.next > startStep, s.origin)
  BY DEF Completion
<1> HIDE DEF policyAt
<1> QED BY <1>1, <1>2, <1>3, DecisionIsStorable

(* A finish stores the outcome of the session its caller holds.               *)
LEMMA FinishEffect ==
  ASSUME DatabaseOK, NEW p \in Procs, Working(proc[p]), UNCHANGED plans,
         NEW at \in Nat, NEW reset \in Nat, Finish(FinishParams(p, at, reset))
  PROVE  DatabaseOK' /\ Steady
<1>1. PICK s : s = proc[p].sess
  OBVIOUS
<1>2. PICK r : r = proc[p].run
  OBVIOUS
<1>3. PICK q : q = FinishParams(p, at, reset)
  OBVIOUS
<1>4. Bound(s, r) /\ runs[r].task = proc[p].task
  BY <1>1, <1>2 DEF Working
<1>5. /\ q.run = r /\ q.task = proc[p].task /\ q.outcome = OutcomeOf(s)
      /\ q.cont = Completion(s, runs[r].grant.startStep, at, reset)
      /\ q.tokens = s.used /\ q.work = Work(s) /\ q.finishedAt = at
  BY <1>1, <1>2, <1>3 DEF FinishParams, RunOf
<1>6. Finish(q)
  BY <1>3
<1>7. StoreInvOver(GrantRow, WorkRow)'
  BY <1>4, <1>5, <1>6, CompletionIsStorable, WorkIsStorable, FinishStep DEF DatabaseOK
<1> DEFINE
      end == TerminalState(OutcomeOf(s))
      row == [runs[r] EXCEPT !.status = end.run, !.exit = end.exit,
                !.tokens = s.used, !.work = Work(s), !.finishedAt = at]
<1>8. /\ r \in DOMAIN runs /\ runs[r].status = "running"
      /\ runs' = [runs EXCEPT ![r] = row]
      /\ tasks' = [tasks EXCEPT ![q.task] = [status |-> end.task, cont |-> q.cont]]
      /\ UNCHANGED now
  BY <1>5, <1>6 DEF Finish, Finishable
<1>9. /\ runs[r] \in RunRow(GrantRow, WorkRow) /\ runs[r].task \in DOMAIN plans
      /\ runs[r].startedAt \in Nat /\ tasks \in Seq(Task)
  BY <1>8, DatabaseFacts
<1>10. /\ row.task = runs[r].task /\ row.grant = runs[r].grant
       /\ row.owner = runs[r].owner /\ row.startedAt = runs[r].startedAt
       /\ row.exit = end.exit /\ row.tokens = s.used /\ row.work = Work(s)
  BY <1>9 DEF RunRow
<1> HIDE DEF row, end
<1>11. DOMAIN tasks' = DOMAIN tasks /\ Len(tasks') = Len(tasks)
  BY <1>8, <1>9
<1>12. Steady /\ runs'[r] = row /\ (RowOK(r)' => DatabaseOK')
  BY <1>7, <1>8, <1>10, <1>11, RowChanges
<1>13. RowOK(r)
  BY <1>8 DEF DatabaseOK, RowsOK
<1>14. RowOK(r)'
  BY <1>4, <1>8, <1>9, <1>10, <1>12, <1>13, ProgressIsTrue DEF end
<1> QED BY <1>12, <1>14

-----------------------------------------------------------------------------
(* What a step does to the files and to the processes. *)

(* A file is replaced by a session that is true to its run, or none is.       *)
LEMMA FileReplaced ==
  ASSUME ServerInv, Steady, NEW s, s # NoSession, FileOK(s.id, s)',
         files' = [files EXCEPT ![s.id] = s], UNCHANGED disk
  PROVE  FilesTyped' /\ FilesOK'
<1>1. /\ files \in [SessionIds -> SessionRow \cup {NoSession}]
      /\ disk \in [SessionIds -> SessionRow \cup {NoSession}]
      /\ \A id \in SessionIds : FileOK(id, files[id]) /\ FileOK(id, disk[id])
  BY DEF ServerInv, FilesTyped, FilesOK
<1>2. s \in SessionRow
  BY DEF FileOK, Sound
<1>3. FilesTyped'
  BY <1>1, <1>2 DEF FilesTyped
<1>4. ASSUME NEW id \in SessionIds PROVE FileOK(id, files[id])' /\ FileOK(id, disk[id])'
  <2>1. PICK f, d : f = files[id] /\ d = disk[id]
    OBVIOUS
  <2>2. FileOK(id, f)' /\ FileOK(id, d)'
    BY <1>1, <2>1, FileStays
  <2>3. disk'[id] = d /\ files'[id] = IF id = s.id THEN s ELSE f
    BY <1>1, <2>1
  <2> QED BY <2>2, <2>3
<1> QED BY <1>3, <1>4 DEF FilesOK

LEMMA FilesStay ==
  ASSUME ServerInv, Steady, UNCHANGED <<files, disk>>
  PROVE  FilesTyped' /\ FilesOK'
<1>1. FilesTyped'
  BY DEF ServerInv, FilesTyped
<1>2. ASSUME NEW id \in SessionIds PROVE FileOK(id, files[id])' /\ FileOK(id, disk[id])'
  <2>1. PICK f, d : f = files[id] /\ d = disk[id]
    OBVIOUS
  <2>2. FileOK(id, f)' /\ FileOK(id, d)'
    BY <2>1, FileStays DEF ServerInv, FilesOK
  <2>3. disk'[id] = d /\ files'[id] = f
    BY <2>1
  <2> QED BY <2>2, <2>3
<1> QED BY <1>1, <1>2 DEF FilesOK

(* A process steps to a state that is true to its run, or none does.          *)
LEMMA ProcSteps ==
  ASSUME ServerInv, Steady, NEW p, NEW me \in ProcRow,
         proc' = [proc EXCEPT ![p] = me],
         me.run \in 0 .. Len(runs'), me.task \in 0 .. Len(tasks'), LocalOK(me)',
         Len(runs') \in Nat, Len(tasks') \in Nat
  PROVE  ProcsTyped' /\ LocalsOK'
<1>1. /\ proc \in [Procs -> ProcRow] /\ RowsOK
      /\ Len(runs) \in Nat /\ Len(tasks) \in Nat
      /\ Len(tasks) <= Len(tasks') /\ Len(runs) <= Len(runs')
  BY DatabaseFacts DEF ServerInv, ProcsTyped, DatabaseOK, Steady
<1>2. ASSUME NEW q \in Procs
      PROVE  /\ proc'[q].run \in 0 .. Len(runs') /\ proc'[q].task \in 0 .. Len(tasks')
             /\ LocalOK(proc[q])'
  <2>1. PICK you : you = proc[q]
    OBVIOUS
  <2>2. /\ you \in ProcRow /\ LocalOK(you)
        /\ you.run \in 0 .. Len(runs) /\ you.task \in 0 .. Len(tasks)
    BY <2>1 DEF ServerInv, ProcsTyped, LocalsOK
  <2>3. LocalOK(you)'
    BY <1>1, <2>2, LocalStays
  <2>4. you.run \in 0 .. Len(runs') /\ you.task \in 0 .. Len(tasks')
    BY <1>1, <2>2
  <2>5. proc'[q] = IF q = p THEN me ELSE you
    BY <1>1, <2>1
  <2> QED BY <2>3, <2>4, <2>5
<1>3. ProcsTyped'
  BY <1>1, <1>2 DEF ProcsTyped
<1> QED BY <1>2, <1>3 DEF LocalsOK

LEMMA ProcsStay ==
  ASSUME ServerInv, DatabaseOK', Steady, UNCHANGED proc
  PROVE  ProcsTyped' /\ LocalsOK'
<1>1. /\ RowsOK /\ Len(runs) \in Nat /\ Len(tasks) \in Nat
      /\ Len(tasks) <= Len(tasks') /\ Len(runs) <= Len(runs')
  BY DatabaseFacts DEF ServerInv, DatabaseOK, Steady
<1>2. Len(runs') \in Nat /\ Len(tasks') \in Nat
  BY RowIds DEF DatabaseOK, StoreInvOver, StoreTyped
<1>3. ASSUME NEW q \in Procs
      PROVE  /\ proc'[q].run \in 0 .. Len(runs') /\ proc'[q].task \in 0 .. Len(tasks')
             /\ LocalOK(proc[q])'
  <2>1. PICK you : you = proc[q]
    OBVIOUS
  <2>2. /\ you \in ProcRow /\ LocalOK(you)
        /\ you.run \in 0 .. Len(runs) /\ you.task \in 0 .. Len(tasks)
    BY <2>1 DEF ServerInv, ProcsTyped, LocalsOK
  <2>3. LocalOK(you)'
    BY <1>1, <2>2, LocalStays
  <2>4. you.run \in 0 .. Len(runs') /\ you.task \in 0 .. Len(tasks')
    BY <1>1, <1>2, <2>2
  <2>5. proc'[q] = you
    BY <2>1
  <2> QED BY <2>3, <2>4, <2>5
<1> QED BY <1>3 DEF ServerInv, ProcsTyped, LocalsOK

(* A process between two commands, or in the queries between two calls, has   *)
(* no run and no session.                                                     *)
Resting(me) ==
  /\ me \in ProcRow /\ me.pc \in {"idle", "scan", "pick"}
  /\ me.run = 0 /\ me.task = 0 /\ me.since = 0 /\ me.cand = 0

LEMMA ReturnRests ==
  ASSUME ServerInv, NEW p \in Procs, NEW result, Return(p, result)
  PROVE  \E me : Resting(me) /\ proc' = [proc EXCEPT ![p] = me]
<1> DEFINE me == CASE proc[p].mode = "serve" /\ result # "error" /\ ~proc[p].cancelled ->
                        [Idle EXCEPT !.pc = "scan", !.mode = "serve"]
                   [] proc[p].mode = "work" /\ ~proc[p].cancelled ->
                        [Idle EXCEPT !.pc = "pick", !.mode = "work"]
                   [] OTHER -> Idle
<1>1. proc' = [proc EXCEPT ![p] = me]
  BY DEF Return
<1>2. /\ Resting(Idle)
      /\ Resting([Idle EXCEPT !.pc = "scan", !.mode = "serve"])
      /\ Resting([Idle EXCEPT !.pc = "pick", !.mode = "work"])
  BY DEF Resting, Idle, ProcRow
<1>3. Resting(me)
  BY <1>2
<1> QED BY <1>1, <1>3

(* A call that returns leaves its process at rest.                            *)
LEMMA ReturnStep ==
  ASSUME ServerInv, DatabaseOK', Steady, NEW p \in Procs, NEW result, Return(p, result)
  PROVE  ProcsTyped' /\ LocalsOK'
<1>1. PICK me : Resting(me) /\ proc' = [proc EXCEPT ![p] = me]
  BY ReturnRests
<1>2. LocalOK(me)'
  BY <1>1 DEF Resting, LocalOK, Owning, Recovering, InLoop, Steady
<1>3. Len(runs') \in Nat /\ Len(tasks') \in Nat
  BY RowIds DEF DatabaseOK, StoreInvOver, StoreTyped
<1>4. me \in ProcRow /\ me.run \in 0 .. Len(runs') /\ me.task \in 0 .. Len(tasks')
  BY <1>1, <1>3 DEF Resting
<1> QED BY <1>1, <1>2, <1>3, <1>4, ProcSteps
(* The scenario stays, and its mishaps are spent one by one.                  *)
LEMMA EnvFields ==
  ASSUME EnvTyped
  PROVE  /\ env \in Scenario /\ env.interval \in Nat
         /\ \A t \in DOMAIN env.plans : env.plans[t] \in Plans
         /\ env.faults \in Nat /\ env.signals \in Nat /\ env.outages \in Nat
<1>1. PICK s \in Scenarios :
        env = [s EXCEPT !.faults = env.faults, !.signals = env.signals,
                        !.outages = env.outages]
  BY DEF EnvTyped
<1>2. s \in Scenario
  BY RunnerAssumption
<1>3. env.faults \in Nat /\ env.signals \in Nat /\ env.outages \in Nat
  BY DEF EnvTyped
<1>4. env \in Scenario /\ env.plans = s.plans
  BY <1>1, <1>2, <1>3 DEF Scenario
<1>5. env.interval \in Nat
  BY <1>4, StoreAssumption DEF Scenario
<1> QED BY <1>3, <1>4, <1>5 DEF Plans

LEMMA EnvChanges ==
  ASSUME EnvTyped, NEW faults \in Nat, NEW signals \in Nat, NEW outages \in Nat,
         env' = [env EXCEPT !.faults = faults, !.signals = signals, !.outages = outages]
  PROVE  EnvTyped'
<1>1. PICK s \in Scenarios :
        env = [s EXCEPT !.faults = env.faults, !.signals = env.signals,
                        !.outages = env.outages]
  BY DEF EnvTyped
<1>2. s \in Scenario
  BY RunnerAssumption
<1>3. env \in Scenario
  BY EnvFields
<1>4. env'.faults = faults /\ env'.signals = signals /\ env'.outages = outages
  BY <1>3 DEF Scenario
<1>5. env' = [s EXCEPT !.faults = env'.faults, !.signals = env'.signals,
                       !.outages = env'.outages]
  BY <1>1, <1>2, <1>3, <1>4 DEF Scenario
<1> QED BY <1>4, <1>5 DEF EnvTyped

LEMMA MishapStep ==
  ASSUME EnvTyped, NEW what \in {"faults", "signals", "outages"}, Happens(what)
  PROVE  EnvTyped'
<1>1. /\ env \in Scenario
      /\ env.faults \in Nat /\ env.signals \in Nat /\ env.outages \in Nat
  BY EnvFields
<1>2. CASE what = "faults"
  <2>1. env.faults - 1 \in Nat
    BY <1>1, <1>2 DEF Happens
  <2>2. env' = [env EXCEPT !.faults = env.faults - 1, !.signals = env.signals,
                           !.outages = env.outages]
    BY <1>1, <1>2 DEF Happens, Scenario
  <2> QED BY <1>1, <2>1, <2>2, EnvChanges
<1>3. CASE what = "signals"
  <2>1. env.signals - 1 \in Nat
    BY <1>1, <1>3 DEF Happens
  <2>2. env' = [env EXCEPT !.faults = env.faults, !.signals = env.signals - 1,
                           !.outages = env.outages]
    BY <1>1, <1>3 DEF Happens, Scenario
  <2> QED BY <1>1, <2>1, <2>2, EnvChanges
<1>4. CASE what = "outages"
  <2>1. env.outages - 1 \in Nat
    BY <1>1, <1>4 DEF Happens
  <2>2. env' = [env EXCEPT !.faults = env.faults, !.signals = env.signals,
                           !.outages = env.outages - 1]
    BY <1>1, <1>4 DEF Happens, Scenario
  <2> QED BY <1>1, <2>1, <2>2, EnvChanges
<1> QED BY <1>2, <1>3, <1>4

-----------------------------------------------------------------------------
(* The steps of an attempt. *)

(* The state of the process that takes a step, by its parts.                  *)
LEMMA ProcFacts ==
  ASSUME ServerInv, NEW p \in Procs
  PROVE  /\ proc[p] \in ProcRow /\ LocalOK(proc[p])
         /\ proc[p].run \in Nat /\ proc[p].task \in Nat
         /\ proc[p].run <= Len(runs) /\ proc[p].task <= Len(tasks)
BY DatabaseFacts DEF ServerInv, ProcsTyped, LocalsOK

(* A step of a process that has a session bound to its run, to another step   *)
(* of its loop or of its recovery.                                            *)
LEMMA LoopStep ==
  ASSUME ServerInv, DatabaseOK', Steady, NEW p \in Procs,
         NEW pc \in Owning \cup Recovering, NEW s, Advance(p, pc, s),
         Bound(s, proc[p].run), runs[proc[p].run].task = proc[p].task,
         pc \in Owning => s.start = runs[proc[p].run].grant.startStep,
         pc \in {"publish", "top", "delay"} => s.halt = "running",
         pc = "delay" => ~AllStepsDone(s) /\ ~CannotAfford(s)
  PROVE  ProcsTyped' /\ LocalsOK'
<1>1. PICK me : me = proc[p]
  OBVIOUS
<1>2. /\ me \in ProcRow /\ LocalOK(me) /\ me.since \in Nat
      /\ me.run \in 0 .. Len(runs) /\ me.task \in 0 .. Len(tasks)
  BY <1>1 DEF ServerInv, ProcsTyped, LocalsOK, ProcRow
<1>3. PICK new : new = [me EXCEPT !.pc = pc, !.sess = s]
  OBVIOUS
<1>4. proc' = [proc EXCEPT ![p] = new]
  BY <1>1, <1>3 DEF Advance
<1>5. s \in SessionRow
  BY SoundFields DEF Bound
<1>6. /\ new \in ProcRow /\ new.pc = pc /\ new.sess = s /\ new.run = me.run
      /\ new.task = me.task /\ new.since = me.since
  BY <1>2, <1>3, <1>5 DEF ProcRow, Owning, Recovering, InLoop
<1>7. /\ Len(runs) \in Nat /\ Len(tasks) \in Nat
      /\ Len(runs') \in Nat /\ Len(tasks') \in Nat
  BY RowIds DEF ServerInv, DatabaseOK, StoreInvOver, StoreTyped
<1>8. new.run \in 0 .. Len(runs') /\ new.task \in 0 .. Len(tasks')
  BY <1>2, <1>6, <1>7 DEF Steady
<1>9. Bound(s, me.run)' /\ runs'[me.run].task = me.task
  <2>1. Bound(s, me.run) /\ runs[me.run].task = me.task
    BY <1>1
  <2> QED BY <2>1, BoundStays DEF Bound, Steady
<1>10. pc \in Owning => s.start = runs'[me.run].grant.startStep
  BY <1>1 DEF Bound, Steady
<1>11. new.since <= now'
  BY <1>2, <1>6 DEF LocalOK, Steady
<1>12. LocalOK(new)'
  BY <1>6, <1>9, <1>10, <1>11 DEF LocalOK, Working, Owning, Recovering, InLoop
<1> QED BY <1>4, <1>6, <1>7, <1>8, <1>12, ProcSteps

LEMMA GotoIsAdvance ==
  ASSUME ServerInv, NEW p \in Procs, NEW pc, Goto(p, pc)
  PROVE  Advance(p, pc, proc[p].sess)
<1>1. proc \in [Procs -> ProcRow]
  BY DEF ServerInv, ProcsTyped
<1>2. proc[p] \in ProcRow
  BY <1>1
<1>3. [proc[p] EXCEPT !.pc = pc, !.sess = proc[p].sess] = [proc[p] EXCEPT !.pc = pc]
  BY <1>2 DEF ProcRow
<1> QED BY <1>1, <1>3 DEF Goto, Advance

(* A step of a process that has no session: a server between its queries.     *)
LEMMA QueryStep ==
  ASSUME ServerInv, DatabaseOK', Steady, NEW p \in Procs, NEW new \in ProcRow,
         proc' = [proc EXCEPT ![p] = new],
         new.pc \in {"idle", "pick", "start", "scan", "initialize", "expired",
                    "next", "select"},
         new.pc \in {"idle", "pick", "start"} => new.cand = 0,
         new.pc = "start" => new.task \in DOMAIN tasks,
         new.pc = "select" => new.kind # "execute",
         new.run \in 0 .. Len(runs), new.task \in 0 .. Len(tasks), new.since <= now
  PROVE  ProcsTyped' /\ LocalsOK'
<1>1. /\ Len(runs) \in Nat /\ Len(tasks) \in Nat
      /\ Len(runs') \in Nat /\ Len(tasks') \in Nat
  BY RowIds DEF ServerInv, DatabaseOK, StoreInvOver, StoreTyped
<1>2. new.run \in 0 .. Len(runs') /\ new.task \in 0 .. Len(tasks')
  BY <1>1 DEF Steady
<1>3. new.since <= now' /\ (new.pc = "start" => new.task \in DOMAIN tasks')
  <2>1. new.since \in Nat
    BY DEF ProcRow
  <2> QED BY <2>1 DEF Steady
<1>4. LocalOK(new)'
  BY <1>3 DEF LocalOK, Owning, Recovering, InLoop
<1> QED BY <1>1, <1>2, <1>4, ProcSteps

(* A claim binds nothing yet: the process knows its run, the row its session. *)
LEMMA ClaimAttemptStep ==
  ASSUME ServerInv, NEW p \in Procs, ClaimAttempt(p)
  PROVE  ServerInv'
<1>1. PICK me : me = proc[p]
  OBVIOUS
<1>2. /\ me \in ProcRow /\ me.pc = "claim" /\ me.since <= now /\ Claiming(me)
      /\ me.since \in Nat /\ me.cand \in Nat /\ me.task \in Nat
  <2>1. me \in ProcRow /\ LocalOK(me) /\ me.pc = "claim"
    BY <1>1, ProcFacts DEF ClaimAttempt, At
  <2> QED BY <2>1 DEF LocalOK, ProcRow
<1> DEFINE
      auth == CASE me.kind = "scheduled" -> "automatic"
                [] me.kind = "interrupted" -> "interrupted"
                [] OTHER -> "owner"
      params(at) ==
        [task |-> me.task, run |-> me.cand, startedAt |-> at,
         status |-> IF me.kind = "execute" THEN "todo" ELSE "failed",
         grant |-> [session |-> me.sess.id, budget |-> me.sess.allowance,
                    startStep |-> me.sess.next]]
<1>3. /\ UNCHANGED <<plans, files, disk>>
      /\ \E at \in me.since .. now :
           \/ /\ StartOwnedAttempt(auth, params(at), Len(runs) + 1)
              /\ Happens("faults") \/ UNCHANGED env
              /\ proc' = [proc EXCEPT ![p].pc = "bind", ![p].run = Len(runs) + 1]
           \/ /\ Return(p, "conflict")
              /\ UNCHANGED <<dbVars, env>>
  BY <1>1 DEF ClaimAttempt
<1> HIDE DEF auth
<1>4. DatabaseOK
  BY DEF ServerInv
<1>5. CASE Return(p, "conflict") /\ UNCHANGED <<dbVars, env>>
  <2>1. DatabaseOK' /\ Steady
    BY <1>3, <1>4, <1>5, SameDatabase
  <2>2. FilesTyped' /\ FilesOK'
    BY <1>3, <2>1, FilesStay
  <2>3. ProcsTyped' /\ LocalsOK'
    BY <1>5, <2>1, ReturnStep
  <2>4. EnvTyped'
    BY <1>5 DEF ServerInv, EnvTyped
  <2> QED BY <2>1, <2>2, <2>3, <2>4 DEF ServerInv
<1>6. ASSUME NEW at \in me.since .. now,
             StartOwnedAttempt(auth, params(at), Len(runs) + 1),
             Happens("faults") \/ UNCHANGED env,
             proc' = [proc EXCEPT ![p].pc = "bind", ![p].run = Len(runs) + 1]
      PROVE  ServerInv'
  <2>1. PICK q : q = params(at)
    OBVIOUS
  <2>2. PICK r : r = Len(runs) + 1
    OBVIOUS
  <2>3. /\ q.task = me.task /\ q.run = me.cand /\ q.startedAt = at
        /\ q.grant = [session |-> me.sess.id, budget |-> me.sess.allowance,
                      startStep |-> me.sess.next]
    BY <2>1
  <2> HIDE DEF params
  <2>4. Sound(me.sess) /\ me.sess.id[1] = me.task /\ me.sess.used = 0
    BY <1>2 DEF Claiming
  <2>5. /\ q.grant \in GrantRow /\ q.grant.session[1] = q.task
        /\ q.grant.budget <= plans[q.task].budget
    <3>1. me.sess.id \in SessionIds /\ me.sess.allowance \in Nat /\ me.sess.next \in Nat
      BY <2>4, SoundFields
    <3>2. me.sess.allowance <= plans[me.task].budget
      BY <2>4 DEF Sound
    <3> QED BY <2>3, <2>4, <3>1, <3>2 DEF GrantRow
  <2>6. q.run \in Nat /\ q.startedAt \in 0 .. now /\ now \in Nat
    BY <1>2, <1>4, <2>3, DatabaseFacts
  <2>7. /\ DatabaseOK' /\ Steady
        /\ r \in DOMAIN runs' /\ runs'[r].task = q.task /\ runs'[r].grant = q.grant
    BY <1>3, <1>4, <1>6, <2>1, <2>2, <2>5, <2>6, ClaimEffect
  <2>8. FilesTyped' /\ FilesOK'
    BY <1>3, <2>7, FilesStay
  <2>9. EnvTyped'
    BY <1>6, MishapStep DEF ServerInv, EnvTyped
  <2>10. PICK new : new = [me EXCEPT !.pc = "bind", !.run = r]
    OBVIOUS
  <2>11. proc' = [proc EXCEPT ![p] = new]
    BY <1>1, <1>6, <2>2, <2>10
  <2>12. Len(runs') \in Nat /\ Len(tasks') \in Nat /\ DOMAIN runs' = 1 .. Len(runs')
    BY <2>7, RowIds DEF DatabaseOK, StoreInvOver, StoreTyped
  <2>13. me.task <= Len(tasks')
    BY <1>1, <1>4, <2>7, <2>12, ProcFacts, DatabaseFacts DEF Steady
  <2>14. /\ new \in ProcRow /\ new.pc = "bind" /\ new.run = r /\ new.task = me.task
         /\ new.sess = me.sess /\ new.since = me.since
         /\ new.run \in 0 .. Len(runs') /\ new.task \in 0 .. Len(tasks')
    <3>1. r \in Nat /\ r \in 0 .. Len(runs') /\ me.task \in 0 .. Len(tasks')
      BY <1>2, <2>7, <2>12, <2>13
    <3>2. /\ new \in ProcRow /\ new.pc = "bind" /\ new.run = r /\ new.task = me.task
          /\ new.sess = me.sess /\ new.since = me.since
      BY <1>2, <2>10, <3>1 DEF ProcRow
    <3> QED BY <3>1, <3>2
  <2>15. Binding(new)'
    <3>1. Sound(me.sess)'
      BY <2>4, <2>7, SoundStays
    <3> QED BY <2>3, <2>4, <2>7, <2>14, <3>1 DEF Binding
  <2>16. LocalOK(new)'
    <3>1. new.since <= now'
      BY <1>2, <2>7, <2>14 DEF Steady
    <3> QED BY <2>14, <2>15, <3>1 DEF LocalOK, Owning, Recovering, InLoop
  <2>17. ProcsTyped' /\ LocalsOK'
    BY <2>7, <2>11, <2>12, <2>14, <2>16, ProcSteps
  <2> QED BY <2>7, <2>8, <2>9, <2>17 DEF ServerInv
<1> QED BY <1>3, <1>5, <1>6
(* What a process knows of the run it is bound to.                            *)
LEMMA RunFacts ==
  ASSUME DatabaseOK, NEW r \in DOMAIN runs
  PROVE  /\ RowOK(r) /\ runs[r].owner = r /\ r \in Nat
         /\ runs[r].startedAt <= now /\ now \in Nat
BY DatabaseFacts DEF DatabaseOK, RowsOK, RowOK

LEMMA WorkingFacts ==
  ASSUME ServerInv, NEW p \in Procs, proc[p].pc \in Owning \cup Recovering
  PROVE  /\ Working(proc[p]) /\ Bound(proc[p].sess, proc[p].run)
         /\ proc[p].run \in DOMAIN runs /\ runs[proc[p].run].task = proc[p].task
         /\ proc[p].sess.token = proc[p].run
         /\ runs[proc[p].run].owner = proc[p].run /\ proc[p].run \in Nat
         /\ runs[proc[p].run].startedAt <= now /\ now \in Nat
<1>1. Working(proc[p])
  BY ProcFacts DEF LocalOK
<1>2. /\ Bound(proc[p].sess, proc[p].run) /\ runs[proc[p].run].task = proc[p].task
      /\ proc[p].run \in DOMAIN runs /\ proc[p].sess.token = proc[p].run
  BY <1>1 DEF Working, Bound
<1> QED BY <1>1, <1>2, RunFacts DEF ServerInv

(* The file of a bound session is named after it.                             *)
LEMMA BoundFile ==
  ASSUME NEW s, NEW r, Bound(s, r)
  PROVE  FileOK(s.id, s) /\ s # NoSession
BY SoundFields, RunnerAssumption DEF FileOK, Bound

LEMMA BindSessionStep ==
  ASSUME ServerInv, NEW p \in Procs, BindSession(p)
  PROVE  ServerInv'
<1>1. PICK me : me = proc[p]
  OBVIOUS
<1>2. me.pc = "bind" /\ Binding(me)
  BY <1>1, ProcFacts DEF BindSession, At, LocalOK
<1>3. /\ me.run \in DOMAIN runs /\ runs[me.run].owner = me.run /\ me.run \in Nat
      /\ runs[me.run].task = me.task
  BY <1>2, RunFacts DEF Binding, ServerInv
<1>4. PICK s : s = BindAttempt(me.sess, me.run, me.run)
  OBVIOUS
<1>5. /\ files' = [files EXCEPT ![s.id] = s]
      /\ Advance(p, "publish", s)
      /\ UNCHANGED <<dbVars, plans, disk, env>>
  BY <1>1, <1>3, <1>4 DEF BindSession, RunOf
<1>6. /\ Bound(s, me.run) /\ s.start = runs[me.run].grant.startStep /\ s.halt = "running"
  <2>1. /\ Sound(me.sess) /\ me.sess.used = 0
        /\ runs[me.run].grant = [session |-> me.sess.id, budget |-> me.sess.allowance,
                                 startStep |-> me.sess.next]
    BY <1>2 DEF Binding
  <2> QED BY <1>3, <1>4, <2>1, BindIsBound
<1>7. DatabaseOK' /\ Steady
  BY <1>5, SameDatabase DEF ServerInv
<1>8. FileOK(s.id, s)' /\ s # NoSession
  BY <1>6, <1>7, BoundFile, FileStays
<1>9. FilesTyped' /\ FilesOK'
  BY <1>5, <1>7, <1>8, FileReplaced
<1>10. "publish" \in Owning
  BY DEF Owning
<1>11. ProcsTyped' /\ LocalsOK'
  BY <1>1, <1>3, <1>5, <1>6, <1>7, <1>10, LoopStep
<1>12. EnvTyped'
  BY <1>5 DEF ServerInv, EnvTyped
<1> QED BY <1>7, <1>9, <1>11, <1>12 DEF ServerInv

(* A step that returns, having called nothing.                                *)
LEMMA GiveUp ==
  ASSUME ServerInv, NEW p \in Procs, NEW result, Return(p, result),
         UNCHANGED <<dbVars, plans, files, disk, env>>
  PROVE  ServerInv'
<1>1. DatabaseOK' /\ Steady
  BY SameDatabase DEF ServerInv
<1>2. FilesTyped' /\ FilesOK'
  BY <1>1, FilesStay
<1>3. ProcsTyped' /\ LocalsOK'
  BY <1>1, ReturnStep
<1>4. EnvTyped'
  BY DEF ServerInv, EnvTyped
<1> QED BY <1>1, <1>2, <1>3, <1>4 DEF ServerInv

(* A step of the loop that leaves the files alone.                            *)
LEMMA GoOn ==
  ASSUME ServerInv, DatabaseOK', Steady, NEW p \in Procs,
         proc[p].pc \in Owning \cup Recovering,
         NEW pc \in Owning \cup Recovering, NEW s, Advance(p, pc, s),
         Bound(s, proc[p].run),
         pc \in Owning => s.start = runs[proc[p].run].grant.startStep,
         pc \in {"publish", "top", "delay"} => s.halt = "running",
         pc = "delay" => ~AllStepsDone(s) /\ ~CannotAfford(s),
         UNCHANGED <<files, disk, env>>
  PROVE  ServerInv'
<1>1. FilesTyped' /\ FilesOK'
  BY FilesStay
<1>2. runs[proc[p].run].task = proc[p].task
  BY WorkingFacts
<1>3. ProcsTyped' /\ LocalsOK'
  BY <1>2, LoopStep
<1>4. EnvTyped'
  BY DEF ServerInv, EnvTyped
<1> QED BY <1>1, <1>3, <1>4 DEF ServerInv

LEMMA PublishBindingStep ==
  ASSUME ServerInv, NEW p \in Procs, PublishBinding(p)
  PROVE  ServerInv'
<1>1. PICK me : me = proc[p]
  OBVIOUS
<1>2. /\ me.pc = "publish" /\ me.pc \in Owning /\ "top" \in Owning
      /\ Bound(me.sess, me.run) /\ me.sess.halt = "running"
      /\ me.sess.start = runs[me.run].grant.startStep
  BY <1>1, ProcFacts, WorkingFacts DEF PublishBinding, At, LocalOK, Owning, InLoop
<1>3. UNCHANGED <<plans, files, disk, env>>
  BY DEF PublishBinding
<1>4. CASE UpdateProgress(me.run, RunOf(p).owner, me.sess.used, Work(me.sess)) /\ Goto(p, "top")
  <2>1. DatabaseOK' /\ Steady
    BY <1>2, <1>3, <1>4, PublishEffect DEF ServerInv
  <2>2. Advance(p, "top", me.sess)
    BY <1>1, <1>4, GotoIsAdvance
  <2> QED BY <1>1, <1>2, <1>3, <2>1, <2>2, GoOn
<1>5. CASE Return(p, "error") /\ UNCHANGED dbVars
  BY <1>3, <1>5, GiveUp
<1> QED BY <1>1, <1>4, <1>5 DEF PublishBinding
(* What a process in its loop holds.                                          *)
LEMMA LoopFacts ==
  ASSUME ServerInv, NEW p \in Procs, proc[p].pc \in Owning
  PROVE  /\ Bound(proc[p].sess, proc[p].run)
         /\ proc[p].sess.start = runs[proc[p].run].grant.startStep
         /\ proc[p].pc \in {"publish", "top", "delay"} => proc[p].sess.halt = "running"
         /\ proc[p].pc = "delay" => /\ ~AllStepsDone(proc[p].sess)
                                    /\ ~CannotAfford(proc[p].sess)
         /\ runs[proc[p].run].startedAt <= now /\ now \in Nat
<1>1. LocalOK(proc[p])
  BY ProcFacts
<1>2. /\ Bound(proc[p].sess, proc[p].run)
      /\ runs[proc[p].run].startedAt <= now /\ now \in Nat
  BY WorkingFacts
<1> QED BY <1>1, <1>2 DEF LocalOK

LEMMA LoopTopStep ==
  ASSUME ServerInv, NEW p \in Procs, LoopTop(p)
  PROVE  ServerInv'
<1>1. PICK r : r = proc[p].run
  OBVIOUS
<1>2. PICK s : s = proc[p].sess
  OBVIOUS
<1>3. proc[p].pc = "top" /\ proc[p].pc \in Owning /\ {"top", "delay", "commit"} \subseteq Owning
  BY DEF LoopTop, At, Owning, InLoop
<1>4. /\ Bound(s, r) /\ s.halt = "running" /\ s.start = runs[r].grant.startStep
      /\ runs[r].startedAt <= now /\ now \in Nat
  BY <1>1, <1>2, <1>3, LoopFacts
<1>5. UNCHANGED <<plans, files, disk, env>>
  BY DEF LoopTop
<1>6. \A reason \in {"completed", "interrupted", "token_exhausted"} :
        /\ reason = "completed" => AllStepsDone(s)
        /\ reason = "token_exhausted" => ~AllStepsDone(s) /\ CannotAfford(s)
        => LET h == Halt(s, reason, now)
           IN Bound(h, r) /\ h.start = s.start
  BY <1>4, HaltIsBound DEF AttemptOutcome
<1>7. ASSUME NEW reason \in {"completed", "interrupted", "token_exhausted"},
             reason = "completed" => AllStepsDone(s),
             reason = "token_exhausted" => ~AllStepsDone(s) /\ CannotAfford(s),
             Advance(p, "commit", Halt(s, reason, now)), DatabaseOK', Steady
      PROVE  ServerInv'
  <2>1. PICK h : h = Halt(s, reason, now)
    OBVIOUS
  <2>2. Bound(h, r) /\ h.start = s.start
    BY <1>6, <1>7, <2>1
  <2> QED BY <1>1, <1>3, <1>4, <1>5, <1>7, <2>1, <2>2, GoOn
<1>8. CASE AllStepsDone(s) /\ Advance(p, "commit", Halt(s, "completed", now))
           /\ UNCHANGED dbVars
  <2>1. DatabaseOK' /\ Steady
    BY <1>5, <1>8, SameDatabase DEF ServerInv
  <2> QED BY <1>7, <1>8, <2>1
<1>9. CASE Advance(p, "commit", Halt(s, "interrupted", now)) /\ UNCHANGED dbVars
  <2>1. DatabaseOK' /\ Steady
    BY <1>5, <1>9, SameDatabase DEF ServerInv
  <2> QED BY <1>7, <1>9, <2>1
<1>10. ASSUME ~AllStepsDone(s), RenewLease(r, s.token),
              \/ Advance(p, "commit", FailStep(s, now))
              \/ CannotAfford(s) /\ Advance(p, "commit", Halt(s, "token_exhausted", now))
              \/ ~CannotAfford(s) /\ Goto(p, "delay")
       PROVE  ServerInv'
  <2>1. DatabaseOK' /\ Steady
    BY <1>5, <1>10, RenewEffect DEF ServerInv
  <2>2. CASE Advance(p, "commit", FailStep(s, now))
    <3>1. PICK f : f = FailStep(s, now)
      OBVIOUS
    <3>2. Bound(f, r) /\ f.start = s.start
      BY <1>4, <3>1, FailIsBound
    <3> QED BY <1>1, <1>3, <1>4, <1>5, <2>1, <2>2, <3>1, <3>2, GoOn
  <2>3. CASE CannotAfford(s) /\ Advance(p, "commit", Halt(s, "token_exhausted", now))
    BY <1>7, <1>10, <2>1, <2>3
  <2>4. CASE ~CannotAfford(s) /\ Goto(p, "delay")
    <3>1. Advance(p, "delay", s)
      BY <1>2, <2>4, GotoIsAdvance
    <3> QED BY <1>1, <1>3, <1>4, <1>5, <1>10, <2>1, <2>4, <3>1, GoOn
  <2> QED BY <1>10, <2>2, <2>3, <2>4
<1>11. CASE Return(p, "error") /\ UNCHANGED dbVars
  BY <1>5, <1>11, GiveUp
<1>12. \/ AllStepsDone(s) /\ Advance(p, "commit", Halt(s, "completed", now)) /\ UNCHANGED dbVars
       \/ Advance(p, "commit", Halt(s, "interrupted", now)) /\ UNCHANGED dbVars
       \/ /\ ~AllStepsDone(s) /\ RenewLease(r, s.token)
          /\ \/ Advance(p, "commit", FailStep(s, now))
             \/ CannotAfford(s) /\ Advance(p, "commit", Halt(s, "token_exhausted", now))
             \/ ~CannotAfford(s) /\ Goto(p, "delay")
       \/ Return(p, "error") /\ UNCHANGED dbVars
  BY <1>1, <1>2 DEF LoopTop
<1> QED BY <1>8, <1>9, <1>10, <1>11, <1>12

LEMMA TakeStepStep ==
  ASSUME ServerInv, NEW p \in Procs, TakeStep(p)
  PROVE  ServerInv'
<1>1. PICK r : r = proc[p].run
  OBVIOUS
<1>2. PICK s : s = proc[p].sess
  OBVIOUS
<1>3. proc[p].pc = "delay" /\ proc[p].pc \in Owning /\ "commit" \in Owning
  BY DEF TakeStep, At, Owning, InLoop
<1>4. /\ Bound(s, r) /\ s.halt = "running" /\ s.start = runs[r].grant.startStep
      /\ ~AllStepsDone(s) /\ ~CannotAfford(s)
      /\ runs[r].startedAt <= now /\ now \in Nat
  BY <1>1, <1>2, <1>3, LoopFacts
<1>5. UNCHANGED <<plans, files, disk, env>>
  BY DEF TakeStep
<1>6. CASE Advance(p, "commit", Halt(s, "interrupted", now)) /\ UNCHANGED dbVars
  <2>1. DatabaseOK' /\ Steady
    BY <1>5, <1>6, SameDatabase DEF ServerInv
  <2>2. PICK h : h = Halt(s, "interrupted", now)
    OBVIOUS
  <2>3. Bound(h, r) /\ h.start = s.start
    BY <1>4, <2>2, HaltIsBound DEF AttemptOutcome
  <2> QED BY <1>1, <1>3, <1>4, <1>5, <1>6, <2>1, <2>2, <2>3, GoOn
<1>7. CASE RenewLease(r, s.token) /\ Advance(p, "commit", DoStep(s))
  <2>1. DatabaseOK' /\ Steady
    BY <1>5, <1>7, RenewEffect DEF ServerInv
  <2>2. PICK d : d = DoStep(s)
    OBVIOUS
  <2>3. Bound(d, r) /\ d.start = s.start
    BY <1>4, <2>2, DoStepIsBound
  <2> QED BY <1>1, <1>3, <1>4, <1>5, <1>7, <2>1, <2>2, <2>3, GoOn
<1>8. CASE Return(p, "error") /\ UNCHANGED dbVars
  BY <1>5, <1>8, GiveUp
<1> QED BY <1>1, <1>2, <1>6, <1>7, <1>8 DEF TakeStep

LEMMA CommitStep ==
  ASSUME ServerInv, NEW p \in Procs, Commit(p)
  PROVE  ServerInv'
<1>1. PICK r : r = proc[p].run
  OBVIOUS
<1>2. PICK s : s = proc[p].sess
  OBVIOUS
<1>3. proc[p].pc = "commit" /\ proc[p].pc \in Owning /\ "persist" \in Owning
  BY DEF Commit, At, Owning, InLoop
<1>4. Bound(s, r) /\ s.start = runs[r].grant.startStep
  BY <1>1, <1>2, <1>3, LoopFacts
<1>5. UNCHANGED <<plans, files, disk, env>>
  BY DEF Commit
<1>6. CASE UpdateProgress(r, s.token, s.used, Work(s)) /\ Goto(p, "persist")
  <2>1. DatabaseOK' /\ Steady
    BY <1>4, <1>5, <1>6, PublishEffect DEF ServerInv
  <2>2. Advance(p, "persist", s)
    BY <1>2, <1>6, GotoIsAdvance
  <2> QED BY <1>1, <1>3, <1>4, <1>5, <2>1, <2>2, GoOn
<1>7. CASE Return(p, "error") /\ UNCHANGED dbVars
  BY <1>5, <1>7, GiveUp
<1> QED BY <1>1, <1>2, <1>6, <1>7 DEF Commit

LEMMA PersistStep ==
  ASSUME ServerInv, NEW p \in Procs, Persist(p)
  PROVE  ServerInv'
<1>1. PICK r : r = proc[p].run
  OBVIOUS
<1>2. PICK s : s = proc[p].sess
  OBVIOUS
<1>3. PICK pc : pc = IF Halted(s) THEN "finish" ELSE "top"
  OBVIOUS
<1>4. /\ proc[p].pc = "persist" /\ proc[p].pc \in Owning /\ pc \in Owning
      /\ pc \in {"publish", "top", "delay"} => pc = "top"
      /\ pc # "delay"
  BY <1>3 DEF Persist, At, Owning, InLoop
<1>5. Bound(s, r) /\ s.start = runs[r].grant.startStep
  BY <1>1, <1>2, <1>4, LoopFacts
<1>6. /\ files' = [files EXCEPT ![s.id] = s] /\ Goto(p, pc)
      /\ UNCHANGED <<dbVars, plans, disk, env>>
  BY <1>2, <1>3 DEF Persist
<1>7. pc = "top" => s.halt = "running"
  BY <1>3, <1>5 DEF Halted, Bound, HaltIsTrue
<1>8. DatabaseOK' /\ Steady
  BY <1>6, SameDatabase DEF ServerInv
<1>9. FilesTyped' /\ FilesOK'
  BY <1>5, <1>6, <1>8, BoundFile, FileStays, FileReplaced
<1>10. Advance(p, pc, s)
  BY <1>2, <1>6, GotoIsAdvance
<1>11. runs[r].task = proc[p].task
  BY <1>1, <1>4, WorkingFacts
<1>12. ProcsTyped' /\ LocalsOK'
  BY <1>1, <1>4, <1>5, <1>7, <1>8, <1>10, <1>11, LoopStep
<1>13. EnvTyped'
  BY <1>6 DEF ServerInv, EnvTyped
<1> QED BY <1>8, <1>9, <1>12, <1>13 DEF ServerInv

LEMMA FinishRunStep ==
  ASSUME ServerInv, NEW p \in Procs, FinishRun(p)
  PROVE  ServerInv'
<1>1. UNCHANGED <<plans, files, disk, env>>
  BY DEF FinishRun
<1>2. proc[p].pc \in Owning
  BY DEF FinishRun, At, Owning, InLoop
<1>3. Working(proc[p]) /\ now \in Nat
  BY <1>2, WorkingFacts
<1>4. PICK reset : reset = ResetOf(p)
  OBVIOUS
<1>5. reset \in Nat
  BY <1>4, EnvFields, StoreAssumption DEF ResetOf, ServerInv
<1>6. CASE Finish(FinishParams(p, now, reset)) /\ Return(p, "ok")
  <2>1. DatabaseOK' /\ Steady
    BY <1>1, <1>3, <1>5, <1>6, FinishEffect DEF ServerInv
  <2>2. FilesTyped' /\ FilesOK'
    BY <1>1, <2>1, FilesStay
  <2>3. ProcsTyped' /\ LocalsOK'
    BY <1>6, <2>1, ReturnStep
  <2>4. EnvTyped'
    BY <1>1 DEF ServerInv, EnvTyped
  <2> QED BY <2>1, <2>2, <2>3, <2>4 DEF ServerInv
<1>7. CASE Return(p, "error") /\ UNCHANGED dbVars
  BY <1>1, <1>7, GiveUp
<1> QED BY <1>4, <1>6, <1>7 DEF FinishRun, FinishAttempt
LEMMA RebindStep ==
  ASSUME ServerInv, NEW p \in Procs, Rebind(p)
  PROVE  ServerInv'
<1>1. PICK r : r = proc[p].run
  OBVIOUS
<1>2. PICK s : s = proc[p].sess
  OBVIOUS
<1>3. /\ proc[p].pc = "rebind" /\ proc[p].pc \in Recovering
      /\ "reconcile" \in Recovering /\ "reconcile" \notin Owning
  BY DEF Rebind, At, Owning, Recovering, InLoop
<1>4. Bound(s, r) /\ runs[r].task = proc[p].task
  BY <1>1, <1>2, <1>3, WorkingFacts
<1>5. /\ files' = [files EXCEPT ![s.id] = s] /\ Goto(p, "reconcile")
      /\ UNCHANGED <<dbVars, plans, disk, env>>
  BY <1>2 DEF Rebind
<1>6. DatabaseOK' /\ Steady
  BY <1>5, SameDatabase DEF ServerInv
<1>7. FilesTyped' /\ FilesOK'
  BY <1>4, <1>5, <1>6, BoundFile, FileStays, FileReplaced
<1>8. Advance(p, "reconcile", s)
  BY <1>2, <1>5, GotoIsAdvance
<1>9. ProcsTyped' /\ LocalsOK'
  BY <1>1, <1>3, <1>4, <1>6, <1>8, LoopStep
<1>10. EnvTyped'
  BY <1>5 DEF ServerInv, EnvTyped
<1> QED BY <1>6, <1>7, <1>9, <1>10 DEF ServerInv

LEMMA ReconcileStep ==
  ASSUME ServerInv, NEW p \in Procs, Reconcile(p)
  PROVE  ServerInv'
<1>1. UNCHANGED <<plans, files, disk, env>>
  BY DEF Reconcile
<1>2. proc[p].pc \in Recovering
  BY DEF Reconcile, At, Recovering
<1>3. Working(proc[p]) /\ proc[p].since \in Nat /\ Reset \in Nat
  BY <1>2, WorkingFacts, ProcFacts, StoreAssumption DEF ProcRow
<1>4. CASE Finish(FinishParams(p, proc[p].since, Reset)) /\ Return(p, "ok")
  <2>1. DatabaseOK' /\ Steady
    BY <1>1, <1>3, <1>4, FinishEffect DEF ServerInv
  <2>2. FilesTyped' /\ FilesOK'
    BY <1>1, <2>1, FilesStay
  <2>3. ProcsTyped' /\ LocalsOK'
    BY <1>4, <2>1, ReturnStep
  <2>4. EnvTyped'
    BY <1>1 DEF ServerInv, EnvTyped
  <2> QED BY <2>1, <2>2, <2>3, <2>4 DEF ServerInv
<1>5. CASE Return(p, "error") /\ UNCHANGED dbVars
  BY <1>1, <1>5, GiveUp
<1> QED BY <1>4, <1>5 DEF Reconcile, RecoverExpiredAttempt

(* What a server finds of the session of a run it recovers: a session of that *)
(* name, which may be bound to an earlier run, or to none.                    *)
LEMMA RestoredFacts ==
  ASSUME ServerInv, NEW me, LocalOK(me), me.pc = "load",
         NEW s, s = Restore(me.sess, runs[me.run].grant.session), s # NoSession
  PROVE  /\ me.run \in DOMAIN runs /\ runs[me.run].task = me.task
         /\ Sound(s) /\ s.id = runs[me.run].grant.session
         /\ s.run = 0 \/ Bound(s, s.run)
<1>1. /\ me.run \in DOMAIN runs /\ runs[me.run].task = me.task
      /\ me.sess # NoSession => Bound(me.sess, me.run)
  BY DEF LocalOK
<1>2. CASE me.sess # NoSession
  BY <1>1, <1>2 DEF Restore, Bound
<1>3. CASE me.sess = NoSession
  <2>1. s = files[runs[me.run].grant.session]
    BY <1>3 DEF Restore
  <2>2. runs[me.run].grant.session \in SessionIds
    BY <1>1, DatabaseFacts DEF ServerInv, GrantRow
  <2> QED BY <1>1, <2>1, <2>2 DEF ServerInv, FilesOK, FileOK
<1> QED BY <1>2, <1>3

LEMMA LoadExpiredStep ==
  ASSUME ServerInv, NEW p \in Procs, LoadExpired(p)
  PROVE  ServerInv'
<1>1. PICK me : me = proc[p]
  OBVIOUS
<1>2. PICK r : r = me.run
  OBVIOUS
<1>3. PICK s : s = Restore(me.sess, runs[r].grant.session)
  OBVIOUS
<1>4. me.pc = "load" /\ LocalOK(me)
  BY <1>1, ProcFacts DEF LoadExpired, At
<1>5. UNCHANGED <<dbVars, plans, files, disk, env>>
  BY DEF LoadExpired
<1>6. CASE Return(p, "error")
  BY <1>5, <1>6, GiveUp
<1>7. ASSUME s # NoSession, NEW pc \in Recovering, NEW new, Bound(new, r),
             Advance(p, pc, new)
      PROVE  ServerInv'
  <2>1. DatabaseOK' /\ Steady
    BY <1>5, SameDatabase DEF ServerInv
  <2>2. FilesTyped' /\ FilesOK'
    BY <1>5, <2>1, FilesStay
  <2>3. pc \in Recovering /\ pc \notin Owning /\ pc \notin {"publish", "top", "delay"}
    BY <1>7 DEF Recovering, Owning, InLoop
  <2>4. runs[r].task = me.task
    BY <1>2, <1>3, <1>4, <1>7, RestoredFacts
  <2>5. ProcsTyped' /\ LocalsOK'
    BY <1>1, <1>2, <1>7, <2>1, <2>3, <2>4, LoopStep
  <2>6. EnvTyped'
    BY <1>5 DEF ServerInv, EnvTyped
  <2> QED BY <2>1, <2>2, <2>5, <2>6 DEF ServerInv
<1>8. ASSUME s # NoSession,
             Advance(p, "rebind",
               BindAttempt(BeginAttempt(s, runs[r].grant.budget, ""), r, runs[r].owner))
      PROVE  ServerInv'
  <2>1. r \in DOMAIN runs /\ Sound(s) /\ s.id = runs[r].grant.session
    BY <1>2, <1>3, <1>4, <1>8, RestoredFacts
  <2>2. RowOK(r) /\ runs[r].owner = r /\ r \in Nat /\ runs[r].grant.budget \in Nat
    BY <2>1, RunFacts, DatabaseFacts DEF ServerInv, GrantRow
  <2>3. runs[r].grant.budget <= s.plan.budget
    BY <2>1, <2>2 DEF RowOK, Sound
  <2>4. PICK b : b = BeginAttempt(s, runs[r].grant.budget, "")
    OBVIOUS
  <2>5. Sound(b) /\ b.used = 0 /\ b.allowance = runs[r].grant.budget /\ b.id = s.id
    BY <2>1, <2>2, <2>3, <2>4, BeginIsSound DEF ProviderWindowOrigin
  <2>6. PICK new : new = BindAttempt(b, r, r)
    OBVIOUS
  <2>7. Bound(new, r)
    BY <2>1, <2>2, <2>5, <2>6, BindIsBound
  <2>8. "rebind" \in Recovering
    BY DEF Recovering
  <2> QED BY <1>7, <1>8, <2>2, <2>4, <2>6, <2>7, <2>8
<1>9. ASSUME s # NoSession, s.run = r, Advance(p, "reconcile", s)
      PROVE  ServerInv'
  <2>1. Bound(s, r)
    <3>1. r \in DOMAIN runs /\ (s.run = 0 \/ Bound(s, s.run))
      BY <1>2, <1>3, <1>4, <1>9, RestoredFacts
    <3>2. r # 0
      BY <3>1, DatabaseFacts DEF ServerInv
    <3> QED BY <1>9, <3>1, <3>2
  <2>2. "reconcile" \in Recovering
    BY DEF Recovering
  <2> QED BY <1>7, <1>9, <2>1, <2>2
<1> QED BY <1>1, <1>2, <1>3, <1>6, <1>8, <1>9 DEF LoadExpired

(* A signal and a lost lease change nothing a process knows of its run.       *)
LEMMA FlagStep ==
  ASSUME ServerInv, DatabaseOK', Steady, NEW p \in Procs, NEW new \in ProcRow,
         proc' = [proc EXCEPT ![p] = new],
         new.pc = proc[p].pc, new.kind = proc[p].kind, new.task = proc[p].task,
         new.cand = proc[p].cand, new.since = proc[p].since,
         new.sess = proc[p].sess, new.run = proc[p].run
  PROVE  ProcsTyped' /\ LocalsOK'
<1>1. /\ LocalOK(proc[p])
      /\ proc[p].run \in 0 .. Len(runs) /\ proc[p].task \in 0 .. Len(tasks)
  BY DEF ServerInv, LocalsOK, ProcsTyped
<1>2. LocalOK(new)
  BY <1>1 DEF LocalOK, Claiming, Binding, Working
<1>3. LocalOK(new)'
  BY <1>2, LocalStays DEF ServerInv, DatabaseOK
<1>4. /\ Len(runs) \in Nat /\ Len(tasks) \in Nat
      /\ Len(runs') \in Nat /\ Len(tasks') \in Nat
  BY RowIds DEF ServerInv, DatabaseOK, StoreInvOver, StoreTyped
<1>5. new.run \in 0 .. Len(runs') /\ new.task \in 0 .. Len(tasks')
  BY <1>1, <1>4 DEF Steady
<1> QED BY <1>3, <1>4, <1>5, ProcSteps

LEMMA RenewInBackgroundStep ==
  ASSUME ServerInv, NEW p \in Procs, RenewInBackground(p)
  PROVE  ServerInv'
<1>1. UNCHANGED <<plans, files, disk>>
  BY DEF RenewInBackground
<1>2. CASE RenewLease(proc[p].run, proc[p].sess.token) /\ UNCHANGED <<proc, env>>
  <2>1. DatabaseOK' /\ Steady
    BY <1>1, <1>2, RenewEffect DEF ServerInv
  <2>2. FilesTyped' /\ FilesOK'
    BY <1>1, <2>1, FilesStay
  <2>3. ProcsTyped' /\ LocalsOK'
    BY <1>2, <2>1, ProcsStay
  <2>4. EnvTyped'
    BY <1>2 DEF ServerInv, EnvTyped
  <2> QED BY <2>1, <2>2, <2>3, <2>4 DEF ServerInv
<1>3. CASE /\ proc' = [proc EXCEPT ![p].leaseLost = TRUE] /\ UNCHANGED dbVars
           /\ Happens("faults") \/ UNCHANGED env
  <2>1. DatabaseOK' /\ Steady
    BY <1>1, <1>3, SameDatabase DEF ServerInv
  <2>2. FilesTyped' /\ FilesOK'
    BY <1>1, <2>1, FilesStay
  <2>3. PICK new : new = [proc[p] EXCEPT !.leaseLost = TRUE]
    OBVIOUS
  <2>4. proc' = [proc EXCEPT ![p] = new]
    BY <1>3, <2>3
  <2>5. /\ new \in ProcRow
        /\ new.pc = proc[p].pc /\ new.kind = proc[p].kind /\ new.task = proc[p].task
        /\ new.cand = proc[p].cand /\ new.since = proc[p].since
        /\ new.sess = proc[p].sess /\ new.run = proc[p].run
    BY <2>3, ProcFacts DEF ProcRow
  <2>6. ProcsTyped' /\ LocalsOK'
    BY <2>1, <2>4, <2>5, FlagStep
  <2>7. EnvTyped'
    BY <1>3, MishapStep DEF ServerInv, EnvTyped
  <2> QED BY <2>1, <2>2, <2>6, <2>7 DEF ServerInv
<1> QED BY <1>2, <1>3 DEF RenewInBackground

LEMMA CancelStep ==
  ASSUME ServerInv, NEW p \in Procs, Cancel(p)
  PROVE  ServerInv'
<1>1. /\ UNCHANGED <<dbVars, plans, files, disk>>
      /\ proc' = [proc EXCEPT ![p].cancelled = TRUE] /\ Happens("signals")
  BY DEF Cancel
<1>2. DatabaseOK' /\ Steady
  BY <1>1, SameDatabase DEF ServerInv
<1>3. FilesTyped' /\ FilesOK'
  BY <1>1, <1>2, FilesStay
<1>4. PICK new : new = [proc[p] EXCEPT !.cancelled = TRUE]
  OBVIOUS
<1>5. proc' = [proc EXCEPT ![p] = new]
  BY <1>1, <1>4
<1>6. /\ new \in ProcRow
      /\ new.pc = proc[p].pc /\ new.kind = proc[p].kind /\ new.task = proc[p].task
      /\ new.cand = proc[p].cand /\ new.since = proc[p].since
      /\ new.sess = proc[p].sess /\ new.run = proc[p].run
  BY <1>4, ProcFacts DEF ProcRow
<1>7. ProcsTyped' /\ LocalsOK'
  BY <1>2, <1>5, <1>6, FlagStep
<1>8. EnvTyped'
  BY <1>1, MishapStep DEF ServerInv
<1> QED BY <1>2, <1>3, <1>7, <1>8 DEF ServerInv
-----------------------------------------------------------------------------
(* The steps before an attempt. *)

(* A process that is about to claim holds a session nobody was bound to yet.  *)
LEMMA ClaimingStep ==
  ASSUME ServerInv, DatabaseOK', Steady, NEW p \in Procs, NEW new \in ProcRow,
         proc' = [proc EXCEPT ![p] = new], new.pc = "claim", Claiming(new)',
         new.run \in 0 .. Len(runs), new.task \in 0 .. Len(tasks), new.since = now
  PROVE  ProcsTyped' /\ LocalsOK'
<1>1. /\ Len(runs) \in Nat /\ Len(tasks) \in Nat
      /\ Len(runs') \in Nat /\ Len(tasks') \in Nat
  BY RowIds DEF ServerInv, DatabaseOK, StoreInvOver, StoreTyped
<1>2. new.run \in 0 .. Len(runs') /\ new.task \in 0 .. Len(tasks')
  BY <1>1 DEF Steady
<1>3. LocalOK(new)'
  BY DEF LocalOK, Owning, Recovering, InLoop, Steady
<1> QED BY <1>1, <1>2, <1>3, ProcSteps

LEMMA ExecuteStep ==
  ASSUME ServerInv, NEW p \in Procs, NEW t \in DOMAIN tasks, Execute(p, t)
  PROVE  ServerInv'
<1>1. PICK me : me = proc[p]
  OBVIOUS
<1>2. /\ me \in ProcRow /\ LocalOK(me) /\ me.pc \in {"idle", "start"}
      /\ me.run \in 0 .. Len(runs)
  BY <1>1, ProcFacts DEF Execute, At, ServerInv, ProcsTyped
<1>3. me.cand = 0
  BY <1>2 DEF LocalOK
<1>4. UNCHANGED <<dbVars, plans, disk, env>>
  BY DEF Execute
<1>5. DatabaseOK' /\ Steady
  BY <1>4, SameDatabase DEF ServerInv
<1>6. /\ t \in DOMAIN plans /\ plans \in Seq(Plans) /\ <<t, p>> \in SessionIds
      /\ t \in Nat /\ t \in 0 .. Len(tasks) /\ now \in Nat
  <2>1. /\ DOMAIN tasks = 1 .. Len(tasks) /\ Len(tasks) \in Nat /\ DOMAIN plans = DOMAIN tasks
        /\ plans \in Seq(Plans) /\ now \in Nat
    BY DatabaseFacts DEF ServerInv
  <2>2. t \in 1 .. MaxTasks
    BY <2>1, StoreAssumption DEF ServerInv, DatabaseOK
  <2> QED BY <2>1, <2>2 DEF SessionIds
<1>7. PICK s : s = StartSession(<<t, p>>, plans[t])
  OBVIOUS
<1>8. Sound(s) /\ s.id = <<t, p>> /\ s.next = 0 /\ s.used = 0 /\ s.run = 0
  BY <1>6, <1>7, StartIsSound
<1>9. CASE /\ files' = [files EXCEPT ![s.id] = s]
           /\ proc' = [proc EXCEPT ![p].pc = "claim", ![p].kind = "execute",
                          ![p].task = t, ![p].since = now, ![p].sess = s]
  <2>1. s \in SessionRow /\ s # NoSession
    BY <1>8, SoundFields, RunnerAssumption
  <2>2. FileOK(s.id, s)'
    BY <1>5, <1>8, FileStays DEF FileOK
  <2>3. FilesTyped' /\ FilesOK'
    BY <1>4, <1>5, <1>9, <2>1, <2>2, FileReplaced
  <2>4. PICK new : new = [me EXCEPT !.pc = "claim", !.kind = "execute", !.task = t,
                                    !.since = now, !.sess = s]
    OBVIOUS
  <2>5. proc' = [proc EXCEPT ![p] = new]
    BY <1>1, <1>9, <2>4
  <2>6. /\ new \in ProcRow /\ new.pc = "claim" /\ new.kind = "execute" /\ new.task = t
        /\ new.since = now /\ new.sess = s /\ new.run = me.run /\ new.cand = me.cand
    BY <1>2, <1>6, <2>1, <2>4 DEF ProcRow
  <2>7. Claiming(new)'
    <3>1. Sound(s)'
      BY <1>5, <1>8, SoundStays
    <3> QED BY <1>3, <1>8, <2>6, <3>1 DEF Claiming
  <2>8. ProcsTyped' /\ LocalsOK'
    BY <1>2, <1>5, <1>6, <2>5, <2>6, <2>7, ClaimingStep
  <2>9. EnvTyped'
    BY <1>4 DEF ServerInv, EnvTyped
  <2> QED BY <1>5, <2>3, <2>8, <2>9 DEF ServerInv
<1>10. ASSUME NEW result, Return(p, result), UNCHANGED files PROVE ServerInv'
  BY <1>4, <1>10, GiveUp
<1> QED BY <1>7, <1>9, <1>10 DEF Execute

(* The session that is prepared from a run that ended: in a fresh window or   *)
(* in what the run left of its own, at the step its checkpoint stands at.     *)
LEMMA PreparedFacts ==
  ASSUME DatabaseOK, NEW r \in DOMAIN runs, runs[r].status # "running"
  PROVE  /\ SessionOf(r) # NoSession /\ Bound(SessionOf(r), r)
         /\ Sound(Prepared(r)) /\ Prepared(r).used = 0
         /\ Prepared(r).id = runs[r].grant.session
         /\ Prepared(r).id[1] = runs[r].task
         /\ Prepared(r).next = SessionOf(r).next
         /\ Prepared(r).failAt = SessionOf(r).failAt
         /\ Prepared(r).allowance = IF runs[r].exit = "interrupted"
                                      THEN SessionOf(r).remaining
                                      ELSE SessionOf(r).plan.budget
<1>1. PICK s : s = SessionOf(r)
  OBVIOUS
<1>2. s # NoSession /\ Bound(s, r) /\ runs[r].grant.session[1] = runs[r].task
  BY <1>1, RunFacts DEF RowOK
<1>3. Sound(s) /\ s.id = runs[r].grant.session
  BY <1>2 DEF Bound
<1>4. Prepared(r) = IF runs[r].exit = "interrupted" THEN ContinueAttempt(s)
                      ELSE BeginAttempt(s, s.plan.budget, "fresh")
  BY <1>1, <1>2 DEF Prepared, Restore, SessionOf
<1>5. s.plan.budget \in Nat /\ "fresh" \in ProviderWindowOrigin
      /\ s.plan.budget <= s.plan.budget
  BY <1>3, SoundFields DEF ProviderWindowOrigin
<1> QED BY <1>1, <1>2, <1>3, <1>4, <1>5, BeginIsSound, ContinueIsSound

(* A resume prepares its session, whoever asked for it.                       *)
LEMMA ResumingStep ==
  ASSUME ServerInv, NEW p \in Procs, NEW new,
         new.task \in DOMAIN tasks, new.cand \in DOMAIN runs,
         IsCandidate(new.task, new.cand), new.sess = Prepared(new.cand),
         new.sess \in SessionRow => new \in ProcRow,
         new.pc = "claim", new.kind # "execute", new.since = now,
         new.run \in 0 .. Len(runs), proc' = [proc EXCEPT ![p] = new],
         UNCHANGED <<dbVars, plans, files, disk, env>>
  PROVE  ServerInv'
<1>1. DatabaseOK' /\ Steady
  BY SameDatabase DEF ServerInv
<1>2. FilesTyped' /\ FilesOK'
  BY <1>1, FilesStay
<1>3. PICK r, t, s : r = new.cand /\ t = new.task /\ s = new.sess
  OBVIOUS
<1>4. /\ r \in DOMAIN runs /\ runs[r].task = t /\ runs[r].status # "running"
      /\ s = Prepared(r)
  BY <1>3 DEF IsCandidate, RunsOf, RunningRuns
<1>5. Sound(s) /\ s.used = 0 /\ s.id[1] = t
  BY <1>4, PreparedFacts DEF ServerInv
<1>6. s \in SessionRow /\ t \in 0 .. Len(tasks)
  BY <1>3, <1>5, SoundFields, DatabaseFacts DEF ServerInv
<1>7. Claiming(new)'
  <2>1. Sound(s)'
    BY <1>1, <1>5, SoundStays
  <2>2. r \in DOMAIN runs' /\ runs'[r] = runs[r]
    BY <1>1, <1>4 DEF Steady
  <2>3. Prepared(r)' = s
    BY <1>4, <2>2, RunFacts, PreparedStays DEF ServerInv
  <2> QED BY <1>3, <1>4, <1>5, <2>1, <2>2, <2>3 DEF Claiming
<1>8. ProcsTyped' /\ LocalsOK'
  BY <1>1, <1>3, <1>6, <1>7, ClaimingStep
<1>9. EnvTyped'
  BY DEF ServerInv, EnvTyped
<1> QED BY <1>1, <1>2, <1>8, <1>9 DEF ServerInv

LEMMA ResumeStep ==
  ASSUME ServerInv, NEW p \in Procs, NEW t \in DOMAIN tasks, Resume(p, t)
  PROVE  ServerInv'
<1>1. PICK r \in DOMAIN runs :
        /\ IsCandidate(t, r)
        /\ proc' = [proc EXCEPT ![p] =
             [Idle EXCEPT !.pc = "claim", !.kind = "manual", !.task = t,
                          !.cand = r, !.since = now, !.sess = Prepared(r)]]
  BY DEF Resume
<1>2. UNCHANGED <<dbVars, plans, files, disk, env>>
  BY DEF Resume
<1>3. PICK s : s = Prepared(r)
  OBVIOUS
<1>4. PICK new : new = [Idle EXCEPT !.pc = "claim", !.kind = "manual", !.task = t,
                                    !.cand = r, !.since = now, !.sess = s]
  OBVIOUS
<1>5. proc' = [proc EXCEPT ![p] = new]
  BY <1>1, <1>3, <1>4
<1>6. t \in Nat /\ r \in Nat /\ now \in Nat /\ 0 \in 0 .. Len(runs)
  BY DatabaseFacts DEF ServerInv
<1>7. /\ new.kind = "manual" /\ new.pc = "claim" /\ new.task = t /\ new.cand = r
      /\ new.since = now /\ new.sess = s /\ new.run = 0
  BY <1>4 DEF Idle
<1>8. s \in SessionRow => new \in ProcRow
  BY <1>4, <1>6 DEF Idle, ProcRow
<1>9. new.kind # "execute" /\ new.run \in 0 .. Len(runs)
  BY <1>6, <1>7
<1>10. /\ new.task \in DOMAIN tasks /\ new.cand \in DOMAIN runs
       /\ IsCandidate(new.task, new.cand) /\ new.sess = Prepared(new.cand)
  BY <1>1, <1>3, <1>7
<1> QED BY <1>2, <1>5, <1>7, <1>8, <1>9, <1>10, ResumingStep

LEMMA ResumeSelectedStep ==
  ASSUME ServerInv, NEW p \in Procs, ResumeSelected(p)
  PROVE  ServerInv'
<1>1. PICK me : me = proc[p]
  OBVIOUS
<1>2. /\ me \in ProcRow /\ me.kind # "execute" /\ me.run \in 0 .. Len(runs)
  BY <1>1, ProcFacts DEF ResumeSelected, At, LocalOK, ServerInv, ProcsTyped
<1>3. UNCHANGED <<dbVars, plans, files, disk, env>>
  BY DEF ResumeSelected
<1>4. CASE Return(p, "conflict")
  BY <1>3, <1>4, GiveUp
<1>5. ASSUME IsCandidate(me.task, me.cand),
             proc' = [proc EXCEPT ![p].pc = "claim", ![p].since = now,
                                  ![p].sess = Prepared(me.cand)]
      PROVE  ServerInv'
  <2>1. me.cand \in DOMAIN runs /\ me.task \in DOMAIN tasks /\ now \in Nat
    BY <1>5, DatabaseFacts DEF IsCandidate, RunsOf, ServerInv
  <2>2. PICK s : s = Prepared(me.cand)
    OBVIOUS
  <2>3. PICK new : new = [me EXCEPT !.pc = "claim", !.since = now, !.sess = s]
    OBVIOUS
  <2>4. proc' = [proc EXCEPT ![p] = new]
    BY <1>1, <1>5, <2>2, <2>3
  <2>5. /\ new.kind = me.kind /\ new.pc = "claim" /\ new.task = me.task
        /\ new.cand = me.cand /\ new.since = now /\ new.sess = s /\ new.run = me.run
    BY <1>2, <2>3 DEF ProcRow
  <2>6. s \in SessionRow => new \in ProcRow
    BY <1>2, <2>1, <2>3 DEF ProcRow
  <2>7. /\ IsCandidate(new.task, new.cand) /\ new.sess = Prepared(new.cand)
        /\ new.task \in DOMAIN tasks /\ new.cand \in DOMAIN runs
    BY <1>5, <2>1, <2>2, <2>5
  <2> QED BY <1>2, <1>3, <2>4, <2>5, <2>6, <2>7, ResumingStep
<1> QED BY <1>1, <1>4, <1>5 DEF ResumeSelected

(* A query whose answer only moves its process on.                            *)
LEMMA AnswerStep ==
  ASSUME ServerInv, NEW p \in Procs, NEW new \in ProcRow,
         proc' = [proc EXCEPT ![p] = new],
         new.pc \in {"idle", "pick", "start", "scan", "initialize", "expired",
                    "next", "select"},
         new.pc \in {"idle", "pick", "start"} => new.cand = 0,
         new.pc = "start" => new.task \in DOMAIN tasks,
         new.pc = "select" => new.kind # "execute",
         new.run \in 0 .. Len(runs), new.task \in 0 .. Len(tasks), new.since <= now,
         UNCHANGED <<dbVars, plans, files, disk, env>>
  PROVE  ServerInv'
<1>1. DatabaseOK' /\ Steady
  BY SameDatabase DEF ServerInv
<1>2. FilesTyped' /\ FilesOK'
  BY <1>1, FilesStay
<1>3. ProcsTyped' /\ LocalsOK'
  BY <1>1, QueryStep
<1>4. EnvTyped'
  BY DEF ServerInv, EnvTyped
<1> QED BY <1>1, <1>2, <1>3, <1>4 DEF ServerInv

(* A process at rest is true to any state of the database.                    *)
LEMMA RestStep ==
  ASSUME ServerInv, NEW p \in Procs, NEW me, Resting(me),
         proc' = [proc EXCEPT ![p] = me],
         UNCHANGED <<dbVars, plans, files, disk, env>>
  PROVE  ServerInv'
<1>1. /\ me \in ProcRow /\ me.cand = 0 /\ me.run = 0 /\ me.task = 0 /\ me.since = 0
      /\ me.pc \in {"idle", "scan", "pick"}
  BY DEF Resting
<1>2. 0 \in 0 .. Len(runs) /\ 0 \in 0 .. Len(tasks) /\ 0 <= now
  BY DatabaseFacts DEF ServerInv
<1> QED BY <1>1, <1>2, AnswerStep

LEMMA IdleRests == Resting(Idle)
BY DEF Resting, Idle, ProcRow

LEMMA PickTaskStep ==
  ASSUME ServerInv, NEW p \in Procs, PickTask(p)
  PROVE  ServerInv'
<1>1. PICK me : me = proc[p]
  OBVIOUS
<1>2. me \in ProcRow /\ me.cand = 0 /\ me.run \in 0 .. Len(runs) /\ me.since <= now
  BY <1>1, ProcFacts DEF PickTask, At, LocalOK, ServerInv, ProcsTyped
<1>3. UNCHANGED <<dbVars, plans, files, disk, env>>
  BY DEF PickTask
<1>4. CASE proc' = [proc EXCEPT ![p] = Idle]
  BY <1>3, <1>4, IdleRests, RestStep
<1>5. ASSUME NEW t \in DOMAIN tasks,
             proc' = [proc EXCEPT ![p].pc = "start", ![p].task = t]
      PROVE  ServerInv'
  <2>1. t \in Nat /\ t \in 0 .. Len(tasks)
    BY DatabaseFacts DEF ServerInv
  <2>2. PICK new : new = [me EXCEPT !.pc = "start", !.task = t]
    OBVIOUS
  <2>3. proc' = [proc EXCEPT ![p] = new]
    BY <1>1, <1>5, <2>2
  <2>4. /\ new \in ProcRow /\ new.pc = "start" /\ new.task = t /\ new.cand = 0
        /\ new.run = me.run /\ new.since = me.since
    BY <1>2, <2>1, <2>2 DEF ProcRow
  <2> QED BY <1>2, <1>3, <2>1, <2>3, <2>4, AnswerStep
<1> QED BY <1>4, <1>5 DEF PickTask

LEMMA ServeStep ==
  ASSUME ServerInv, NEW p \in Procs, Serve(p) \/ RunWork(p)
  PROVE  ServerInv'
<1>1. PICK me : me = proc[p]
  OBVIOUS
<1>2. /\ me \in ProcRow /\ me.cand = 0 /\ me.since <= now
      /\ me.run \in 0 .. Len(runs) /\ me.task \in 0 .. Len(tasks)
  BY <1>1, ProcFacts DEF Serve, RunWork, At, LocalOK, ServerInv, ProcsTyped
<1>3. UNCHANGED <<dbVars, plans, files, disk, env>>
  BY DEF Serve, RunWork
<1>4. PICK pc \in {"scan", "pick"}, mode \in {"serve", "work"} :
        proc' = [proc EXCEPT ![p].pc = pc, ![p].mode = mode]
  BY DEF Serve, RunWork
<1>5. PICK new : new = [me EXCEPT !.pc = pc, !.mode = mode]
  OBVIOUS
<1>6. proc' = [proc EXCEPT ![p] = new]
  BY <1>1, <1>4, <1>5
<1>7. /\ new \in ProcRow /\ new.pc = pc /\ new.task = me.task /\ new.cand = 0
      /\ new.run = me.run /\ new.since = me.since
  BY <1>2, <1>5 DEF ProcRow
<1> QED BY <1>2, <1>3, <1>6, <1>7, AnswerStep

(* A server between two queries is moved on to the next of them.              *)
LEMMA GotoFields ==
  ASSUME ServerInv, NEW p \in Procs,
         NEW pc \in {"scan", "initialize", "expired", "next"}, Goto(p, pc)
  PROVE  \E new \in ProcRow :
           /\ proc' = [proc EXCEPT ![p] = new] /\ new.pc = pc
           /\ new.run \in 0 .. Len(runs) /\ new.task \in 0 .. Len(tasks)
           /\ new.since <= now
<1>1. PICK me : me = proc[p]
  OBVIOUS
<1>2. /\ me \in ProcRow /\ me.since <= now
      /\ me.run \in 0 .. Len(runs) /\ me.task \in 0 .. Len(tasks)
  BY <1>1, ProcFacts DEF LocalOK, ServerInv, ProcsTyped
<1>3. PICK new : new = [me EXCEPT !.pc = pc]
  OBVIOUS
<1>4. proc' = [proc EXCEPT ![p] = new]
  BY <1>1, <1>3 DEF Goto
<1>5. /\ new \in ProcRow /\ new.pc = pc /\ new.task = me.task
      /\ new.run = me.run /\ new.since = me.since
  BY <1>2, <1>3 DEF ProcRow
<1> QED BY <1>2, <1>4, <1>5

LEMMA GotoStep ==
  ASSUME ServerInv, NEW p \in Procs,
         NEW pc \in {"scan", "initialize", "expired", "next"}, Goto(p, pc),
         UNCHANGED <<dbVars, plans, files, disk, env>>
  PROVE  ServerInv'
<1>1. PICK new \in ProcRow :
        /\ proc' = [proc EXCEPT ![p] = new] /\ new.pc = pc
        /\ new.run \in 0 .. Len(runs) /\ new.task \in 0 .. Len(tasks)
        /\ new.since <= now
  BY GotoFields
<1> QED BY <1>1, AnswerStep

(* A query of the continuation repository, and the server moves on.           *)
LEMMA ScheduleGotoStep ==
  ASSUME ServerInv, NEW p \in Procs,
         NEW pc \in {"scan", "initialize", "expired", "next"}, Goto(p, pc),
         ReadUnscheduled(p) \/ InitializeUnscheduled(p),
         UNCHANGED <<plans, files, disk, env>>
  PROVE  ServerInv'
<1>1. /\ StoreInvOver(GrantRow, WorkRow) /\ plans \in Seq(Plans)
      /\ Len(plans) = Len(tasks) /\ Len(tasks) <= MaxTasks
  BY DEF ServerInv, DatabaseOK
<1>2. StoreInvOver(GrantRow, WorkRow)'
  BY <1>1, RunnerAssumption, ScheduleStep
<1>3. /\ UNCHANGED <<now, runs>> /\ Len(tasks') = Len(tasks) /\ now <= now'
      /\ Len(tasks) <= Len(tasks')
  <2>1. tasks \in Seq(Task) /\ tasks' \in Seq(Task) /\ now \in Nat /\ Len(tasks) \in Nat
    BY <1>1, <1>2, RowIds DEF StoreInvOver, StoreTyped
  <2>2. UNCHANGED <<now, runs>>
    BY DEF ReadUnscheduled, InitializeUnscheduled
  <2>3. DOMAIN tasks' = DOMAIN tasks
    BY DEF ReadUnscheduled, InitializeUnscheduled
  <2>4. PICK n, m : n = Len(tasks) /\ m = Len(tasks')
    OBVIOUS
  <2>5. n \in Nat /\ m \in Nat /\ 1 .. n = 1 .. m
    BY <2>1, <2>3, <2>4, RowIds
  <2>6. n = m
    BY <2>5
  <2> QED BY <2>1, <2>2, <2>4, <2>6
<1>4. DatabaseOK' /\ Steady
  BY <1>1, <1>2, <1>3, RunsStay DEF ServerInv
<1>5. FilesTyped' /\ FilesOK'
  BY <1>4, FilesStay
<1>6. PICK new \in ProcRow :
        /\ proc' = [proc EXCEPT ![p] = new] /\ new.pc = pc
        /\ new.run \in 0 .. Len(runs) /\ new.task \in 0 .. Len(tasks)
        /\ new.since <= now
  BY GotoFields
<1>7. ProcsTyped' /\ LocalsOK'
  BY <1>4, <1>6, QueryStep
<1>8. EnvTyped'
  BY DEF ServerInv, EnvTyped
<1> QED BY <1>4, <1>5, <1>7, <1>8 DEF ServerInv

LEMMA ScanUnscheduledStep ==
  ASSUME ServerInv, NEW p \in Procs, ScanUnscheduled(p)
  PROVE  ServerInv'
<1>1. UNCHANGED <<plans, files, disk, env>>
  BY DEF ScanUnscheduled
<1>2. CASE Return(p, "ok") /\ UNCHANGED dbVars
  BY <1>1, <1>2, GiveUp
<1>3. CASE ReadUnscheduled(p) /\ Goto(p, "initialize")
  BY <1>1, <1>3, ScheduleGotoStep
<1>4. CASE Goto(p, "expired") /\ UNCHANGED dbVars
  BY <1>1, <1>4, GotoStep
<1> QED BY <1>2, <1>3, <1>4 DEF ScanUnscheduled

LEMMA InitializeStep ==
  ASSUME ServerInv, NEW p \in Procs, Initialize(p)
  PROVE  ServerInv'
<1>1. PICK pc \in {"scan", "expired"} : Goto(p, pc)
  BY DEF Initialize
<1> QED BY <1>1, ScheduleGotoStep DEF Initialize

(* The server loads the checkpoint of the row it found.                       *)
LEMMA FindExpiredStep ==
  ASSUME ServerInv, NEW p \in Procs, FindExpired(p)
  PROVE  ServerInv'
<1>1. PICK me : me = proc[p]
  OBVIOUS
<1>2. me \in ProcRow
  BY <1>1, ProcFacts
<1>3. UNCHANGED <<dbVars, plans, files, disk, env>>
  BY DEF FindExpired
<1>4. CASE Goto(p, "next")
  BY <1>3, <1>4, GotoStep
<1>5. ASSUME NEW r \in DOMAIN runs,
             proc' = [proc EXCEPT ![p].pc = "load", ![p].run = r,
                        ![p].task = runs[r].task, ![p].since = now,
                        ![p].sess = runs[r].work.checkpoint]
      PROVE  ServerInv'
  <2>1. DatabaseOK' /\ Steady
    BY <1>3, SameDatabase DEF ServerInv
  <2>2. FilesTyped' /\ FilesOK'
    BY <1>3, <2>1, FilesStay
  <2>3. PICK t, s : t = runs[r].task /\ s = runs[r].work.checkpoint
    OBVIOUS
  <2>4. /\ r \in Nat /\ now \in Nat /\ t \in Nat /\ t \in 0 .. Len(tasks)
        /\ r \in 0 .. Len(runs) /\ s \in SessionRow \cup {NoSession}
    <3>1. /\ r \in Nat /\ now \in Nat /\ t \in DOMAIN tasks /\ t \in Nat
          /\ runs[r] \in RunRow(GrantRow, WorkRow)
          /\ DOMAIN tasks = 1 .. Len(tasks) /\ DOMAIN runs = 1 .. Len(runs)
          /\ Len(tasks) \in Nat /\ Len(runs) \in Nat
      BY <2>3, DatabaseFacts DEF ServerInv
    <3>2. runs[r].work \in WorkRow
      BY <3>1 DEF RunRow
    <3>3. s \in SessionRow \cup {NoSession}
      BY <2>3, <3>2 DEF WorkRow
    <3> QED BY <3>1, <3>3
  <2>5. PICK new : new = [me EXCEPT !.pc = "load", !.run = r, !.task = t,
                                    !.since = now, !.sess = s]
    OBVIOUS
  <2>6. proc' = [proc EXCEPT ![p] = new]
    BY <1>1, <1>5, <2>3, <2>5
  <2>7. /\ new \in ProcRow /\ new.pc = "load" /\ new.run = r /\ new.task = t
        /\ new.since = now /\ new.sess = s
    BY <1>2, <2>4, <2>5 DEF ProcRow
  <2>8. LocalOK(new)'
    <3>1. s # NoSession => Bound(s, r)'
      <4>1. s # NoSession => Bound(s, r)
        BY <2>3, RunFacts DEF ServerInv, RowOK, SessionOf
      <4> QED BY <2>1, <4>1, BoundStays
    <3>2. r \in DOMAIN runs' /\ runs'[r].task = t /\ now <= now'
      BY <2>1, <2>3 DEF Steady
    <3> QED BY <2>7, <3>1, <3>2 DEF LocalOK, Owning, Recovering, InLoop
  <2>9. /\ new.run \in 0 .. Len(runs') /\ new.task \in 0 .. Len(tasks')
        /\ Len(runs') \in Nat /\ Len(tasks') \in Nat
    <3>1. UNCHANGED <<runs, tasks>>
      BY <1>3 DEF dbVars
    <3> QED BY <2>4, <2>7, <3>1, DatabaseFacts DEF ServerInv
  <2>10. ProcsTyped' /\ LocalsOK'
    BY <2>1, <2>6, <2>7, <2>8, <2>9, ProcSteps
  <2>11. EnvTyped'
    BY <1>3 DEF ServerInv, EnvTyped
  <2> QED BY <2>1, <2>2, <2>10, <2>11 DEF ServerInv
<1> QED BY <1>4, <1>5 DEF FindExpired

LEMMA FindContinuationStep ==
  ASSUME ServerInv, NEW p \in Procs, FindContinuation(p)
  PROVE  ServerInv'
<1>1. PICK me : me = proc[p]
  OBVIOUS
<1>2. me \in ProcRow /\ me.run \in 0 .. Len(runs) /\ me.since <= now
  BY <1>1, ProcFacts DEF LocalOK, ServerInv, ProcsTyped
<1>3. UNCHANGED <<dbVars, plans, files, disk, env>>
  BY DEF FindContinuation
<1>4. CASE Goto(p, "scan")
  BY <1>3, <1>4, GotoStep
<1>5. ASSUME NEW t \in DOMAIN tasks, NEW r \in DOMAIN runs,
             NEW kind \in {"interrupted", "scheduled"},
             proc' = [proc EXCEPT ![p].pc = "select", ![p].task = t, ![p].cand = r,
                                  ![p].kind = kind]
      PROVE  ServerInv'
  <2>1. t \in Nat /\ t \in 0 .. Len(tasks) /\ r \in Nat
    BY DatabaseFacts DEF ServerInv
  <2>2. PICK new : new = [me EXCEPT !.pc = "select", !.task = t, !.cand = r, !.kind = kind]
    OBVIOUS
  <2>3. proc' = [proc EXCEPT ![p] = new]
    BY <1>1, <1>5, <2>2
  <2>4. /\ new \in ProcRow /\ new.pc = "select" /\ new.task = t /\ new.kind = kind
        /\ new.run = me.run /\ new.since = me.since
    BY <1>2, <2>1, <2>2 DEF ProcRow
  <2>5. new.kind # "execute"
    BY <2>4
  <2> QED BY <1>2, <1>3, <2>1, <2>3, <2>4, <2>5, AnswerStep
<1> QED BY <1>4, <1>5 DEF FindContinuation

-----------------------------------------------------------------------------
(* The steps of the environment. *)

LEMMA AddTaskStep ==
  ASSUME ServerInv, AddTask
  PROVE  ServerInv'
<1>1. /\ StoreInvOver(GrantRow, WorkRow) /\ plans \in Seq(Plans)
      /\ Len(plans) = Len(tasks) /\ tasks \in Seq(Task) /\ Len(tasks) \in Nat
      /\ now \in Nat
  BY DatabaseFacts DEF ServerInv, DatabaseOK
<1>2. PICK row, plan :
        /\ Len(tasks) < MaxTasks /\ Len(tasks) < Len(env.plans)
        /\ tasks' = Append(tasks, row) /\ plans' = Append(plans, plan)
        /\ plan = env.plans[Len(tasks) + 1]
        /\ UNCHANGED <<now, runs, comments, scans, files, disk, proc, env>>
  BY DEF AddTask, Create
<1>3. StoreInvOver(GrantRow, WorkRow)'
  BY <1>1, CreateStep DEF AddTask
<1>4. plan \in Plans
  <2>1. env.plans \in Seq(Plan)
    BY EnvFields DEF ServerInv, Scenario
  <2>2. Len(tasks) + 1 \in DOMAIN env.plans
    BY <1>1, <1>2, <2>1
  <2> QED BY <1>2, <2>2, EnvFields DEF ServerInv
<1>5. /\ plans' \in Seq(Plans) /\ Len(plans') = Len(tasks')
      /\ Len(tasks) <= Len(tasks') /\ Len(tasks') <= MaxTasks
      /\ \A t \in DOMAIN plans : plans'[t] = plans[t]
  BY <1>1, <1>2, <1>4, StoreAssumption
<1>6. DatabaseOK' /\ Steady
  BY <1>1, <1>2, <1>3, <1>5, RunsStay DEF ServerInv
<1>7. FilesTyped' /\ FilesOK'
  BY <1>2, <1>6, FilesStay
<1>8. ProcsTyped' /\ LocalsOK'
  BY <1>2, <1>6, ProcsStay
<1>9. EnvTyped'
  BY <1>2 DEF ServerInv, EnvTyped
<1> QED BY <1>6, <1>7, <1>8, <1>9 DEF ServerInv

(* Processes that die take the rows of their scans along.                     *)
LEMMA ScansDie ==
  ASSUME DatabaseOK, NEW lost \in SUBSET Procs,
         scans' = [q \in Procs |-> IF q \in lost THEN NoScan ELSE scans[q]],
         UNCHANGED <<now, tasks, runs, comments, plans>>
  PROVE  DatabaseOK' /\ Steady
<1>1. /\ StoreInvOver(GrantRow, WorkRow) /\ scans \in [Procs -> ScanRow]
      /\ plans \in Seq(Plans) /\ Len(plans) = Len(tasks) /\ Len(tasks) <= MaxTasks
  BY RunnerAssumption DEF DatabaseOK, StoreInvOver, StoreTyped
<1>2. CASE \E q \in lost : scans[q] # NoScan
  <2>1. AbandonScans(lost)
    BY <1>2, RunnerAssumption DEF AbandonScans
  <2>2. StoreInvOver(GrantRow, WorkRow)'
    BY <1>1, <2>1, RunnerAssumption, AbandonStep
  <2>3. now <= now' /\ Len(tasks) <= Len(tasks')
    BY DatabaseFacts
  <2> QED BY <1>1, <2>2, <2>3, RunsStay
<1>3. CASE \A q \in lost : scans[q] = NoScan
  <2>1. scans' = scans
    BY <1>1, <1>3
  <2> QED BY <2>1, SameDatabase DEF dbVars
<1> QED BY <1>2, <1>3

LEMMA CrashStep ==
  ASSUME ServerInv, NEW p \in Procs, Crash(p)
  PROVE  ServerInv'
<1>1. /\ Happens("faults") /\ proc' = [proc EXCEPT ![p] = Idle]
      /\ scans' = [scans EXCEPT ![p] = NoScan]
      /\ UNCHANGED <<now, tasks, runs, comments, plans, files, disk>>
  BY DEF Crash
<1>2. DatabaseOK' /\ Steady
  <2>1. scans \in [Procs -> ScanRow]
    BY RunnerAssumption DEF ServerInv, DatabaseOK, StoreInvOver, StoreTyped
  <2>2. scans' = [q \in Procs |-> IF q \in {p} THEN NoScan ELSE scans[q]]
    BY <1>1, <2>1
  <2> QED BY <1>1, <2>2, ScansDie DEF ServerInv
<1>3. FilesTyped' /\ FilesOK'
  BY <1>1, <1>2, FilesStay
<1>4. Idle \in ProcRow /\ Idle.pc = "idle" /\ Idle.cand = 0 /\ Idle.run = 0
      /\ Idle.task = 0 /\ Idle.since = 0
  BY IdleRests DEF Resting, Idle
<1>5. 0 \in 0 .. Len(runs) /\ 0 \in 0 .. Len(tasks) /\ 0 <= now
  BY DatabaseFacts DEF ServerInv
<1>6. ProcsTyped' /\ LocalsOK'
  BY <1>1, <1>2, <1>4, <1>5, QueryStep
<1>7. EnvTyped'
  BY <1>1, MishapStep DEF ServerInv
<1> QED BY <1>2, <1>3, <1>6, <1>7 DEF ServerInv

LEMMA OutageStep ==
  ASSUME ServerInv, Outage
  PROVE  ServerInv'
<1>1. PICK lost \in SUBSET SessionIds :
        files' = [id \in SessionIds |-> IF id \in lost THEN disk[id] ELSE files[id]]
  BY DEF Outage
<1>2. /\ Happens("outages") /\ disk' = files'
      /\ proc' = [p \in Procs |-> Idle] /\ scans' = [p \in Procs |-> NoScan]
      /\ UNCHANGED <<now, tasks, runs, comments, plans>>
  BY DEF Outage
<1>3. DatabaseOK' /\ Steady
  <2>1. scans' = [q \in Procs |-> IF q \in Procs THEN NoScan ELSE scans[q]]
    BY <1>2
  <2> QED BY <1>2, <2>1, ScansDie DEF ServerInv
<1>4. FilesTyped'
  BY <1>1, <1>2 DEF ServerInv, FilesTyped
<1>5. FilesOK'
  <2>1. ASSUME NEW id \in SessionIds PROVE FileOK(id, files[id])'
    <3>1. PICK f, d : f = files[id] /\ d = disk[id]
      OBVIOUS
    <3>2. FileOK(id, f)' /\ FileOK(id, d)'
      BY <1>3, <3>1, FileStays DEF ServerInv, FilesOK
    <3>3. files'[id] = IF id \in lost THEN d ELSE f
      BY <1>1, <3>1
    <3> QED BY <3>2, <3>3
  <2> QED BY <1>2, <2>1 DEF FilesOK
<1>6. ProcsTyped' /\ LocalsOK'
  <2>1. Idle \in ProcRow /\ Idle.pc = "idle" /\ Idle.cand = 0 /\ Idle.run = 0
        /\ Idle.task = 0 /\ Idle.since = 0
    BY IdleRests DEF Resting, Idle
  <2>2. Len(runs') \in Nat /\ Len(tasks') \in Nat /\ 0 <= now'
    BY <1>3, RowIds DEF DatabaseOK, StoreInvOver, StoreTyped
  <2>3. LocalOK(Idle)'
    BY <2>1, <2>2 DEF LocalOK, Owning, Recovering, InLoop
  <2>4. ProcsTyped'
    BY <1>2, <2>1, <2>2 DEF ProcsTyped
  <2> QED BY <1>2, <2>3, <2>4 DEF LocalsOK
<1>7. EnvTyped'
  BY <1>2, MishapStep DEF ServerInv
<1> QED BY <1>3, <1>4, <1>5, <1>6, <1>7 DEF ServerInv

LEMMA FailCallStep ==
  ASSUME ServerInv, NEW p \in Procs, FailCall(p)
  PROVE  ServerInv'
<1>1. /\ Happens("faults") /\ Return(p, "error")
      /\ UNCHANGED <<dbVars, plans, files, disk>>
  BY DEF FailCall
<1>2. DatabaseOK' /\ Steady
  BY <1>1, SameDatabase DEF ServerInv
<1>3. FilesTyped' /\ FilesOK'
  BY <1>1, <1>2, FilesStay
<1>4. ProcsTyped' /\ LocalsOK'
  BY <1>1, <1>2, ReturnStep
<1>5. EnvTyped'
  BY <1>1, MishapStep DEF ServerInv
<1> QED BY <1>2, <1>3, <1>4, <1>5 DEF ServerInv

LEMMA WriteBackStep ==
  ASSUME ServerInv, NEW id0 \in SessionIds, WriteBack(id0)
  PROVE  ServerInv'
<1>1. /\ disk' = [disk EXCEPT ![id0] = files[id0]]
      /\ UNCHANGED <<dbVars, plans, files, proc, env>>
  BY DEF WriteBack
<1>2. DatabaseOK' /\ Steady
  BY <1>1, SameDatabase DEF ServerInv
<1>3. FilesTyped'
  BY <1>1 DEF ServerInv, FilesTyped
<1>4. FilesOK'
  <2>1. ASSUME NEW id \in SessionIds PROVE FileOK(id, files[id])' /\ FileOK(id, disk[id])'
    <3>1. PICK f, d : f = files[id] /\ d = disk[id]
      OBVIOUS
    <3>2. FileOK(id, f)' /\ FileOK(id, d)'
      BY <1>2, <3>1, FileStays DEF ServerInv, FilesOK
    <3>3. files'[id] = f /\ disk'[id] = IF id = id0 THEN f ELSE d
      BY <1>1, <3>1 DEF ServerInv, FilesTyped
    <3> QED BY <3>2, <3>3
  <2> QED BY <2>1 DEF FilesOK
<1>5. ProcsTyped' /\ LocalsOK'
  BY <1>1, <1>2, ProcsStay
<1>6. EnvTyped'
  BY <1>1 DEF ServerInv, EnvTyped
<1> QED BY <1>2, <1>3, <1>4, <1>5, <1>6 DEF ServerInv

LEMMA PassTimeStep ==
  ASSUME ServerInv, PassTime
  PROVE  ServerInv'
<1>1. PICK stalls : stalls = Cardinality(Stalling)
  OBVIOUS
<1>2. /\ Tick /\ stalls <= env.faults /\ env' = [env EXCEPT !.faults = @ - stalls]
      /\ UNCHANGED <<plans, files, disk, proc>>
  BY <1>1 DEF PassTime
<1>3. /\ StoreInvOver(GrantRow, WorkRow) /\ plans \in Seq(Plans) /\ now \in Nat
      /\ Len(plans) = Len(tasks) /\ Len(tasks) <= MaxTasks /\ Len(tasks) \in Nat
  BY DatabaseFacts DEF ServerInv, DatabaseOK
<1>4. DatabaseOK' /\ Steady
  <2>1. now <= now' /\ UNCHANGED <<tasks, runs>> /\ Len(tasks) <= Len(tasks')
    BY <1>2, <1>3 DEF Tick
  <2>2. StoreInvOver(GrantRow, WorkRow)'
    BY <1>2, <1>3, TickStep
  <2> QED BY <1>2, <1>3, <2>1, <2>2, RunsStay DEF ServerInv
<1>5. FilesTyped' /\ FilesOK'
  BY <1>2, <1>4, FilesStay
<1>6. ProcsTyped' /\ LocalsOK'
  BY <1>2, <1>4, ProcsStay
<1>7. EnvTyped'
  <2>1. stalls \in Nat
    <3>1. Stalling \subseteq Procs
      BY DEF Stalling
    <3>2. IsFiniteSet(Stalling)
      BY <3>1, RunnerAssumption, FS_Subset
    <3> QED BY <1>1, <3>2, FS_CardinalityType
  <2>2. /\ env.faults \in Nat /\ env.signals \in Nat /\ env.outages \in Nat
        /\ env \in Scenario
    BY EnvFields DEF ServerInv
  <2>3. env.faults - stalls \in Nat
    BY <1>2, <2>1, <2>2
  <2>4. env' = [env EXCEPT !.faults = env.faults - stalls, !.signals = env.signals,
                           !.outages = env.outages]
    BY <1>2, <2>2 DEF Scenario
  <2> QED BY <2>2, <2>3, <2>4, EnvChanges DEF ServerInv
<1> QED BY <1>4, <1>5, <1>6, <1>7 DEF ServerInv

LEMMA StutterStep ==
  ASSUME ServerInv, UNCHANGED runnerVars
  PROVE  ServerInv'
<1>1. UNCHANGED <<dbVars, plans, files, disk, proc, env>>
  BY DEF runnerVars, dbVars
<1>2. DatabaseOK' /\ Steady
  BY <1>1, SameDatabase DEF ServerInv
<1>3. FilesTyped' /\ FilesOK'
  BY <1>1, <1>2, FilesStay
<1>4. ProcsTyped' /\ LocalsOK'
  BY <1>1, <1>2, ProcsStay
<1>5. EnvTyped'
  BY <1>1 DEF ServerInv, EnvTyped
<1> QED BY <1>2, <1>3, <1>4, <1>5 DEF ServerInv

-----------------------------------------------------------------------------
(* The invariant is one. *)

(* A new inbox has no rows, no files and idle processes.                      *)
LEMMA ServerInvInit ==
  ASSUME NeverUpgraded, RunnerInit
  PROVE  ServerInv
<1>1. env \in Scenarios /\ NewInbox /\ disk = files /\ proc = [p \in Procs |-> Idle]
  BY DEF NeverUpgraded, RunnerInit
<1>2. /\ StoreInit /\ tasks = << >> /\ runs = << >> /\ plans = << >> /\ now = 0
      /\ files = [id \in SessionIds |-> NoSession]
  BY <1>1 DEF NewInbox, StoreInit
<1>3. DatabaseOK
  <2>1. StoreInvOver(GrantRow, WorkRow)
    BY <1>2, StoreInvInit
  <2>2. RowsOK
    BY <1>2 DEF RowsOK
  <2>3. plans \in Seq(Plans) /\ Len(plans) = 0 /\ Len(tasks) = 0 /\ Len(runs) = 0
    BY <1>2
  <2> QED BY <2>1, <2>2, <2>3, StoreAssumption DEF DatabaseOK
<1>4. FilesTyped /\ FilesOK
  BY <1>1, <1>2 DEF FilesTyped, FilesOK, FileOK
<1>5. ProcsTyped /\ LocalsOK
  <2>1. Idle \in ProcRow /\ Idle.pc = "idle" /\ Idle.cand = 0 /\ Idle.run = 0
        /\ Idle.task = 0 /\ Idle.since = 0
    BY IdleRests DEF Resting, Idle
  <2>2. LocalOK(Idle)
    BY <1>2, <2>1 DEF LocalOK, Owning, Recovering, InLoop
  <2>3. ProcsTyped
    BY <1>1, <1>2, <2>1 DEF ProcsTyped
  <2> QED BY <1>1, <2>2, <2>3 DEF LocalsOK
<1>6. EnvTyped
  <2>1. env \in Scenario
    BY <1>1, RunnerAssumption
  <2>2. env.faults \in Nat /\ env.signals \in Nat /\ env.outages \in Nat
    BY <2>1 DEF Scenario
  <2>3. env = [env EXCEPT !.faults = env.faults, !.signals = env.signals,
                          !.outages = env.outages]
    BY <2>1 DEF Scenario
  <2> QED BY <1>1, <2>2, <2>3 DEF EnvTyped
<1> QED BY <1>3, <1>4, <1>5, <1>6 DEF ServerInv

(* Every step of every process and of the environment preserves it.           *)
LEMMA ServerInvStep ==
  ASSUME ServerInv, [ServerNext]_runnerVars
  PROVE  ServerInv'
<1>1. ASSUME NEW p \in Procs, Attempt(p) PROVE ServerInv'
  BY <1>1, ClaimAttemptStep, BindSessionStep, PublishBindingStep, LoopTopStep,
     TakeStepStep, CommitStep, PersistStep, FinishRunStep DEF Attempt
<1>2. ASSUME NEW p \in Procs, ServerStep(p) PROVE ServerInv'
  BY <1>2, ScanUnscheduledStep, InitializeStep, FindExpiredStep,
     FindContinuationStep, ResumeSelectedStep, LoadExpiredStep, RebindStep,
     ReconcileStep DEF ServerStep, Recovery
<1>3. ASSUME NEW p \in Procs, Command(p) PROVE ServerInv'
  BY <1>3, ServeStep, ExecuteStep, ResumeStep DEF Command
<1>4. ASSUME NEW p \in Procs, Proceed(p) PROVE ServerInv'
  <2>1. CASE At(p, "start") /\ Execute(p, proc[p].task)
    <3>1. proc[p].task \in DOMAIN tasks
      BY <2>1, ProcFacts DEF At, LocalOK
    <3> QED BY <2>1, <3>1, ExecuteStep
  <2> QED BY <1>1, <1>2, <1>4, <2>1, PickTaskStep DEF Proceed
<1>5. CASE ServerNext
  BY <1>3, <1>4, <1>5, AddTaskStep, RenewInBackgroundStep, CancelStep, CrashStep,
     FailCallStep, WriteBackStep, OutageStep, PassTimeStep DEF ServerNext
<1> QED BY <1>5, StutterStep

(* In an inbox no older release has worked in, every session in a row, a file *)
(* or a process fits its run, whatever dies, stalls or is signalled.          *)
THEOREM ServerInvariant == NeverUpgraded /\ ServerSpec => []ServerInv
<1>1. NeverUpgraded /\ RunnerInit => ServerInv
  BY ServerInvInit
<1>2. ServerInv /\ [ServerNext]_runnerVars => ServerInv'
  BY ServerInvStep
<1> QED BY <1>1, <1>2, PTL DEF ServerSpec

(* Type correctness of the whole inbox: every value a process writes fits its *)
(* column, every file holds a session, every local variable its type.         *)
THEOREM ServerTypeOKHolds == NeverUpgraded /\ ServerSpec => []ServerTypeOK
<1>1. ServerInv => ServerTypeOK
  BY DEF ServerInv, DatabaseOK, StoreInvOver, FilesTyped, ProcsTyped, EnvTyped,
         ServerTypeOK
<1> QED BY <1>1, ServerInvariant, PTL

=============================================================================
