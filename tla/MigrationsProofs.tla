-------------------------- MODULE MigrationsProofs --------------------------
(* Concurrent startup is safe for every number of openers and of migrations,  *)
(* however many of them die, fail or time out.                                *)
EXTENDS Migrations, TLAPS

InTransaction(o) ==
  opener[o].pc \in {"check", "apply", "record", "commit", "rollback"}

(* The schema of some release; once it has leases, no running row lacks one.  *)
IsRelease(schema, k) ==
  /\ schema = Release(k, schema.leaseless)
  /\ LeaseVersion <= k => schema.leaseless = 0

(* Mutual exclusion: who is in its transaction holds the write lock.          *)
OneWriter == \A o \in Openers : InTransaction(o) <=> writer = o

CommittedIsRelease == \E k \in 0 .. Last : IsRelease(db, k)

(* Version v has been applied, and is not recorded yet.                       *)
Unrecorded(v, leaseless) ==
  [recorded |-> 1 .. v - 1, applied |-> 1 .. v, torn |-> {}, leaseless |-> leaseless]

(* What the open transaction has of the loop: everything before its version.  *)
DraftFollowsLoop ==
  \A o \in Openers :
    LET v == opener[o].at IN
    /\ In(o, "check") => v \in 1 .. Last + 1
                         /\ \E k \in 0 .. Last : v - 1 <= k /\ IsRelease(draft, k)
    /\ In(o, "apply") => v \in 1 .. Last /\ IsRelease(draft, v - 1)
    /\ In(o, "record") =>
         /\ v \in 1 .. Last
         /\ draft = Unrecorded(v, draft.leaseless)
         /\ LeaseVersion <= v => draft.leaseless = 0
    /\ In(o, "commit") => draft = Release(Last, 0)

(* Past its commit an opener relies on what it committed, or found.           *)
PastCommit ==
  \A o \in Openers :
    /\ opener[o].pc \in {"wal", "opened"} => db = Release(Last, 0)
    /\ In(o, "opened") => mode = "wal"

MigrationsInv ==
  /\ MigrationsTypeOK
  /\ OneWriter
  /\ CommittedIsRelease
  /\ DraftFollowsLoop
  /\ PastCommit
  /\ NeverAppliedTwice

(* The schema of a release is a schema.                                       *)
LEMMA ReleaseIsSchema ==
  ASSUME NEW k \in 0 .. Last, NEW leaseless \in Nat
  PROVE  Release(k, leaseless) \in Schema
<1>1. 1 .. k \subseteq 1 .. Last
  BY MigrationsAssumption
<1> QED BY <1>1 DEF Release, Schema, Versions

(* Every release's database satisfies the invariant.                          *)
LEMMA MigrationsInvInit == MigrationsInit => MigrationsInv
<1> SUFFICES ASSUME MigrationsInit PROVE MigrationsInv
  OBVIOUS
<1>1. PICK k \in 0 .. Last, leaseless \in {0, 1} :
        /\ leaseless # 0 => 0 < k /\ k < LeaseVersion
        /\ db = Release(k, leaseless)
  BY DEF MigrationsInit
<1>2. /\ draft = db /\ writer = Nobody /\ mode \in {"delete", "wal"}
      /\ opener = [o \in Openers |-> [pc |-> "closed", at |-> 0, cause |-> ""]]
      /\ mishaps = [faults |-> 0, timeouts |-> 0]
  BY DEF MigrationsInit
<1>3. \A o \in Openers : opener[o].pc = "closed" /\ opener[o].cause = ""
  BY <1>2
<1>4. MigrationsTypeOK
  <2>1. db \in Schema /\ draft \in Schema
    BY <1>1, <1>2, ReleaseIsSchema
  <2>2. [pc |-> "closed", at |-> 0, cause |-> ""] \in Opener
    BY MigrationsAssumption DEF Opener
  <2> QED BY <1>2, <2>1, <2>2 DEF MigrationsTypeOK
<1>5. OneWriter
  BY <1>2, <1>3, MigrationsAssumption DEF OneWriter, InTransaction
<1>6. CommittedIsRelease
  <2>1. LeaseVersion <= k => leaseless = 0
    BY <1>1, MigrationsAssumption
  <2> QED BY <1>1, <2>1 DEF CommittedIsRelease, IsRelease, Release
<1>7. DraftFollowsLoop /\ PastCommit /\ NeverAppliedTwice
  BY <1>3 DEF DraftFollowsLoop, PastCommit, NeverAppliedTwice, In
<1> QED BY <1>4, <1>5, <1>6, <1>7 DEF MigrationsInv

(* Entering a place moves one opener.                                         *)
LEMMA EnterMovesOne ==
  ASSUME MigrationsInv, NEW o \in Openers, NEW pc, NEW at, NEW cause,
         Enter(o, pc, at, cause)
  PROVE  /\ opener'[o].pc = pc /\ opener'[o].at = at /\ opener'[o].cause = cause
         /\ \A p \in Openers : p # o => opener'[p] = opener[p]
         /\ [pc |-> pc, at |-> at, cause |-> cause] \in Opener
              => opener' \in [Openers -> Opener]
BY DEF Enter, MigrationsInv, MigrationsTypeOK

(* A step that leaves the schemas alone and moves one opener, in or out of    *)
(* its transaction with the lock, to where it may be.                         *)
LEMMA MoveStep ==
  ASSUME MigrationsInv, MigrationsTypeOK', NEW o \in Openers,
         NEW pc, NEW at, NEW cause, Enter(o, pc, at, cause), cause # "exists",
         db' = db, mode' = mode,
         InTransaction(o)' <=> writer' = o,
         \A p \in Openers \ {o} : writer' = p <=> writer = p,
         pc \notin {"apply", "record", "commit", "wal", "opened"},
         \/ pc # "check" /\ draft' = draft
         \/ pc # "check" /\ writer = o
         \/ writer = Nobody /\ pc = "check" /\ at = 1 /\ draft' = db
  PROVE  MigrationsInv'
<1>1. /\ opener'[o].pc = pc /\ opener'[o].at = at /\ opener'[o].cause = cause
      /\ \A p \in Openers : p # o => opener'[p] = opener[p]
  BY EnterMovesOne
<1>2. OneWriter'
  <2> SUFFICES ASSUME NEW p \in Openers PROVE InTransaction(p)' <=> writer' = p
    BY DEF OneWriter
  <2>1. CASE p = o
    BY <2>1
  <2>2. CASE p # o
    BY <1>1, <2>2 DEF MigrationsInv, OneWriter, InTransaction
  <2> QED BY <2>1, <2>2
<1>3. CommittedIsRelease'
  BY DEF MigrationsInv, CommittedIsRelease, IsRelease
<1>4. DraftFollowsLoop'
  <2>1. ASSUME NEW p \in Openers, p # o, writer # Nobody => writer = o
        PROVE  opener[p].pc \notin {"check", "apply", "record", "commit"}
    BY <2>1, MigrationsAssumption DEF MigrationsInv, OneWriter, InTransaction
  <2>2. CASE pc # "check" /\ draft' = draft
    BY <1>1, <2>2 DEF MigrationsInv, DraftFollowsLoop, In, IsRelease
  <2>3. CASE pc # "check" /\ writer = o
    BY <1>1, <2>1, <2>3 DEF DraftFollowsLoop, In
  <2>4. CASE writer = Nobody /\ pc = "check" /\ at = 1 /\ draft' = db
    <3>1. PICK k \in 0 .. Last : IsRelease(db, k)
      BY DEF MigrationsInv, CommittedIsRelease
    <3>2. 1 \in 1 .. Last + 1 /\ 1 - 1 <= k /\ IsRelease(draft', k)
      BY <2>4, <3>1, MigrationsAssumption
    <3> QED BY <1>1, <2>1, <2>4, <3>2 DEF DraftFollowsLoop, In, IsRelease
  <2> QED BY <2>2, <2>3, <2>4
<1>5. PastCommit' /\ NeverAppliedTwice'
  BY <1>1 DEF MigrationsInv, PastCommit, NeverAppliedTwice, In
<1> QED BY <1>2, <1>3, <1>4, <1>5 DEF MigrationsInv

-----------------------------------------------------------------------------
(* Applying and recording a version, and failing in between, make a schema.   *)
LEMMA StatementsKeepSchema ==
  ASSUME NEW schema \in Schema, NEW v \in Versions
  PROVE  /\ [schema EXCEPT !.applied = @ \cup {v},
                           !.leaseless = IF v = LeaseVersion THEN 0 ELSE @] \in Schema
         /\ [schema EXCEPT !.recorded = @ \cup {v}] \in Schema
         /\ [schema EXCEPT !.torn = @ \cup {v}] \in Schema
BY DEF Schema

(* A statement leaves schemas behind, in a transaction or out of one.         *)
LEMMA StatementTyped ==
  ASSUME MigrationsInv, NEW o \in Openers, NEW schema \in Schema,
         Statement(o, schema)
  PROVE  db' \in Schema /\ draft' \in Schema
BY DEF Statement, MigrationsInv, MigrationsTypeOK

(* Where an opener is, and every place it enters, is typed.                   *)
LEMMA TypedOpener ==
  ASSUME MigrationsInv, NEW o \in Openers
  PROVE  /\ opener[o].pc \in {"closed", "begin", "check", "apply", "record",
              "commit", "rollback", "wal", "opened", "failed"}
         /\ opener[o].at \in 0 .. Last + 1
         /\ opener[o].cause \in {"", "exists", "busy", "fault"}
         /\ Sees(o) \in Schema
<1>1. opener[o] \in Opener
  BY DEF MigrationsInv, MigrationsTypeOK
<1> QED BY <1>1 DEF Opener, MigrationsInv, MigrationsTypeOK, Sees

(* Entering a place keeps the openers typed.                                  *)
LEMMA EnterTyped ==
  ASSUME MigrationsInv, NEW o \in Openers,
         NEW pc \in {"closed", "begin", "check", "apply", "record", "commit",
                     "rollback", "wal", "opened", "failed"},
         NEW at \in 0 .. Last + 1, NEW cause \in {"", "exists", "busy", "fault"},
         Enter(o, pc, at, cause)
  PROVE  opener' \in [Openers -> Opener]
BY EnterMovesOne DEF Opener

(* Every step keeps the types.                                                *)
LEMMA TypeStep ==
  MigrationsInv /\ [MigrationsNext]_migrationVars => MigrationsTypeOK'
<1> SUFFICES ASSUME MigrationsInv, [MigrationsNext]_migrationVars
             PROVE  MigrationsTypeOK'
  OBVIOUS
<1>1. /\ MigrationsTypeOK /\ 0 \in 0 .. Last + 1 /\ 1 \in 0 .. Last + 1
      /\ \A o \in Openers : Sees(o) \in Schema
  <2>1. 0 \in 0 .. Last + 1 /\ 1 \in 0 .. Last + 1
    BY MigrationsAssumption
  <2>2. MigrationsTypeOK
    BY DEF MigrationsInv
  <2>3. \A o \in Openers : Sees(o) \in Schema
    BY TypedOpener
  <2> QED BY <2>1, <2>2, <2>3
<1>2. ASSUME NEW o \in Openers, Open(o) PROVE MigrationsTypeOK'
  <2>1. opener' \in [Openers -> Opener]
    BY <1>2, TypedOpener, EnterTyped DEF Open, Goto
  <2> QED BY <1>1, <1>2, <2>1 DEF Open, MigrationsTypeOK
<1>3. ASSUME NEW o \in Openers, Begin(o) PROVE MigrationsTypeOK'
  <2>1. opener' \in [Openers -> Opener]
    BY <1>1, <1>3, TypedOpener, EnterTyped DEF Begin, Loop
  <2> QED BY <1>1, <1>3, <2>1 DEF Begin, MigrationsTypeOK
<1>4. ASSUME NEW o \in Openers, Check(o) PROVE MigrationsTypeOK'
  <2>1. opener[o].at \in 0 .. Last + 1
    BY TypedOpener
  <2>2. ~(opener[o].at > Last) => opener[o].at + 1 \in 0 .. Last + 1
    BY <2>1, MigrationsAssumption
  <2>3. opener' \in [Openers -> Opener]
    BY <1>4, <2>2, TypedOpener, EnterTyped DEF Check, Goto, Loop
  <2> QED BY <1>1, <1>4, <2>3 DEF Check, MigrationsTypeOK
<1>5. ASSUME NEW o \in Openers, Apply(o) PROVE MigrationsTypeOK'
  <2>1. opener[o].at \in Versions
    BY <1>5 DEF MigrationsInv, DraftFollowsLoop, Apply, In, Versions
  <2>2. db' \in Schema /\ draft' \in Schema
    BY <1>5, <2>1, StatementTyped, StatementsKeepSchema, TypedOpener
       DEF Apply, MigrationsInv, MigrationsTypeOK
  <2>3. opener' \in [Openers -> Opener]
    BY <1>5, TypedOpener, EnterTyped DEF Apply, Goto, FailWith
  <2> QED BY <1>1, <1>5, <2>2, <2>3 DEF Apply, MigrationsTypeOK
<1>6. ASSUME NEW o \in Openers, Record(o) PROVE MigrationsTypeOK'
  <2>1. opener[o].at \in Versions
    BY <1>6 DEF MigrationsInv, DraftFollowsLoop, Record, In, Versions
  <2>2. [Sees(o) EXCEPT !.recorded = @ \cup {opener[o].at}] \in Schema
    BY <1>1, <2>1, StatementsKeepSchema
  <2>5. db' \in Schema /\ draft' \in Schema
    BY <1>6, <2>2, StatementTyped DEF Record
  <2>3. opener[o].at + 1 \in 0 .. Last + 1
    BY <2>1, MigrationsAssumption DEF Versions
  <2>4. opener' \in [Openers -> Opener]
    BY <1>6, <2>3, TypedOpener, EnterTyped DEF Record, Loop
  <2> QED BY <1>1, <1>6, <2>5, <2>4 DEF Record, MigrationsTypeOK
<1>7. ASSUME NEW o \in Openers, Commit(o) \/ Rollback(o) \/ SwitchMode(o)
      PROVE  MigrationsTypeOK'
  <2>1. opener' \in [Openers -> Opener]
    BY <1>7, TypedOpener, EnterTyped DEF Commit, Rollback, SwitchMode, Goto
  <2> QED BY <1>1, <1>7, <2>1 DEF Commit, Rollback, SwitchMode, MigrationsTypeOK
<1>8. ASSUME NEW o \in Openers, TimeOut(o) PROVE MigrationsTypeOK'
  <2>1. opener' \in [Openers -> Opener]
    BY <1>8, TypedOpener, EnterTyped DEF TimeOut, FailWith
  <2> QED BY <1>1, <1>8, <2>1 DEF TimeOut, MigrationsTypeOK
<1>9. ASSUME NEW o \in Openers, Fail(o) PROVE MigrationsTypeOK'
  <2>1. CASE In(o, "apply")
    <3>1. opener[o].at \in Versions
      BY <2>1 DEF MigrationsInv, DraftFollowsLoop, Versions
    <3>2. /\ Statement(o, [Sees(o) EXCEPT !.torn = @ \cup {opener[o].at}])
          /\ FailWith(o, "rollback", "fault")
      BY <1>9, <2>1 DEF Fail, In
    <3>3. db' \in Schema /\ draft' \in Schema
      <4>1. [Sees(o) EXCEPT !.torn = @ \cup {opener[o].at}] \in Schema
        BY <1>1, <3>1, StatementsKeepSchema
      <4> QED BY <3>2, <4>1, StatementTyped
    <3>4. opener' \in [Openers -> Opener]
      BY <3>2, TypedOpener, EnterTyped DEF FailWith
    <3> QED BY <1>1, <1>9, <3>3, <3>4 DEF Fail, MigrationsTypeOK
  <2>2. CASE ~In(o, "apply")
    <3>1. opener' \in [Openers -> Opener] /\ UNCHANGED <<db, draft>>
      BY <1>9, <2>2, TypedOpener, EnterTyped DEF Fail, FailWith
    <3> QED BY <1>1, <1>9, <3>1 DEF Fail, MigrationsTypeOK
  <2> QED BY <2>1, <2>2
<1>10. ASSUME NEW o \in Openers, Crash(o) PROVE MigrationsTypeOK'
  <2>1. opener' \in [Openers -> Opener]
    BY <1>1, <1>10, EnterTyped DEF Crash
  <2>2. writer' \in Openers \cup {Nobody} /\ UNCHANGED <<db, draft, mode>>
    BY <1>1, <1>10 DEF Crash, MigrationsTypeOK
  <2>3. mishaps' \in [faults : Nat, timeouts : Nat]
    <3>1. mishaps \in [faults : Nat, timeouts : Nat]
      BY <1>1 DEF MigrationsTypeOK
    <3>2. mishaps' = [mishaps EXCEPT !.faults = @ + 1]
      BY <1>10 DEF Crash
    <3> QED BY <3>1, <3>2
  <2> QED BY <1>1, <2>1, <2>2, <2>3 DEF MigrationsTypeOK
<1>11. CASE UNCHANGED migrationVars
  BY <1>1, <1>11 DEF migrationVars, MigrationsTypeOK
<1> QED
  BY <1>2, <1>3, <1>4, <1>5, <1>6, <1>7, <1>8, <1>9, <1>10, <1>11
     DEF MigrationsNext, Proceeds

-----------------------------------------------------------------------------
(* The loop head leaves the draft as it is and finds what is missing.         *)
LEMMA CheckStep ==
  ASSUME MigrationsInv, MigrationsTypeOK', NEW o \in Openers, Check(o)
  PROVE  MigrationsInv'
<1> DEFINE v == opener[o].at
<1>1. /\ In(o, "check") /\ UNCHANGED <<db, draft, writer, mode>>
      /\ writer = o
  BY DEF Check, MigrationsInv, OneWriter, InTransaction, In
<1>2. PICK k \in 0 .. Last : v - 1 <= k /\ IsRelease(draft, k)
  BY <1>1 DEF MigrationsInv, DraftFollowsLoop
<1>3. v \in 1 .. Last + 1 /\ Last \in Nat /\ k \in 0 .. Last
  BY <1>1, MigrationsAssumption DEF MigrationsInv, DraftFollowsLoop
<1>4. draft.recorded = 1 .. k
  BY <1>2 DEF IsRelease, Release
<1>5. PICK pc, at : /\ Enter(o, pc, at, opener[o].cause)
                    /\ \/ pc = "commit" /\ v > Last
                       \/ pc = "check" /\ at = v + 1 /\ v \in 1 .. k
                       \/ pc = "apply" /\ at = v /\ ~(v > Last) /\ v \notin 1 .. k
  <2>1. Sees(o).recorded = 1 .. k
    BY <1>1, <1>4 DEF Sees
  <2> QED BY <1>1, <2>1 DEF Check, Goto, Loop
<1> HIDE DEF v
<1>6. /\ opener'[o].pc = pc /\ opener'[o].at = at
      /\ opener'[o].cause = opener[o].cause
      /\ \A p \in Openers : p # o => opener'[p] = opener[p]
  <2>1. Enter(o, pc, at, opener[o].cause)
    BY <1>5
  <2> QED BY <2>1 DEF Enter, MigrationsInv, MigrationsTypeOK
<1>7. OneWriter'
  BY <1>1, <1>5, <1>6 DEF MigrationsInv, OneWriter, InTransaction
<1>8. \A p \in Openers : p # o =>
        opener[p].pc \notin {"check", "apply", "record", "commit"}
  BY <1>1 DEF MigrationsInv, OneWriter, InTransaction
<1>9. DraftFollowsLoop'
  <2>1. CASE pc = "commit"
    <3>1. k = Last /\ draft.leaseless = 0
      <4>1. v > Last
        BY <1>5, <2>1
      <4>2. k = Last /\ LeaseVersion <= k
        BY <1>2, <1>3, <4>1, MigrationsAssumption
      <4> QED BY <1>2, <4>2 DEF IsRelease
    <3>2. draft' = Release(Last, 0)
      BY <1>1, <1>2, <3>1 DEF IsRelease
    <3> QED BY <1>6, <1>8, <2>1, <3>2 DEF DraftFollowsLoop, In
  <2>2. CASE pc = "check"
    <3>1. at \in 1 .. Last + 1 /\ at - 1 <= k
      BY <1>3, <1>5, <2>2
    <3>2. IsRelease(draft, k)' 
      BY <1>1, <1>2 DEF IsRelease, Release
    <3> QED BY <1>6, <1>8, <2>2, <3>1, <3>2 DEF DraftFollowsLoop, In
  <2>3. CASE pc = "apply"
    <3>1. at \in 1 .. Last /\ k = at - 1
      BY <1>2, <1>3, <1>5, <2>3
    <3>2. IsRelease(draft, at - 1)'
      BY <1>1, <1>2, <3>1 DEF IsRelease, Release
    <3> QED BY <1>6, <1>8, <2>3, <3>1, <3>2 DEF DraftFollowsLoop, In
  <2> QED BY <1>5, <2>1, <2>2, <2>3
<1>10. PastCommit' /\ NeverAppliedTwice' /\ CommittedIsRelease'
  BY <1>1, <1>5, <1>6
     DEF MigrationsInv, PastCommit, NeverAppliedTwice, CommittedIsRelease, IsRelease, In
<1> QED BY <1>7, <1>9, <1>10 DEF MigrationsInv

(* A missing version is not there yet, so that its statements succeed.        *)
LEMMA ApplyStep ==
  ASSUME MigrationsInv, MigrationsTypeOK', NEW o \in Openers, Apply(o)
  PROVE  MigrationsInv'
<1> DEFINE v == opener[o].at
           schema == [draft EXCEPT !.applied = @ \cup {v},
                                   !.leaseless = IF v = LeaseVersion THEN 0 ELSE @]
<1>1. In(o, "apply") /\ UNCHANGED <<writer, mode>> /\ writer = o
  BY DEF Apply, MigrationsInv, OneWriter, InTransaction, In
<1>2. v \in 1 .. Last /\ IsRelease(draft, v - 1)
  BY <1>1 DEF MigrationsInv, DraftFollowsLoop
<1>3. v \notin draft.applied \cup draft.torn
  BY <1>2 DEF IsRelease, Release
<1>4. draft' = schema /\ db' = db /\ Enter(o, "record", v, opener[o].cause)
  BY <1>1, <1>3 DEF Apply, Sees, Statement, Goto
<1>5. /\ opener'[o].pc = "record" /\ opener'[o].at = v
      /\ opener'[o].cause = opener[o].cause
      /\ \A p \in Openers : p # o => opener'[p] = opener[p]
  BY <1>4, EnterMovesOne, Zenon
<1>6. OneWriter'
  BY <1>1, <1>5 DEF MigrationsInv, OneWriter, InTransaction, In
<1>7. \A p \in Openers : p # o =>
        opener[p].pc \notin {"check", "apply", "record", "commit"}
  BY <1>1 DEF MigrationsInv, OneWriter, InTransaction
<1>8. /\ draft' = Unrecorded(v, draft'.leaseless)
      /\ LeaseVersion <= v => draft'.leaseless = 0
  <2>1. PICK l : draft = Release(v - 1, l) /\ l = draft.leaseless
    BY <1>2 DEF IsRelease
  <2>2. 1 .. v = (1 .. v - 1) \cup {v}
    BY <1>2
  <2>3. draft'.leaseless = IF v = LeaseVersion THEN 0 ELSE draft.leaseless
    BY <1>4, <2>1 DEF Release
  <2>4. LeaseVersion <= v => LeaseVersion <= v - 1 \/ v = LeaseVersion
    BY <1>2, MigrationsAssumption
  <2>5. LeaseVersion <= v => draft'.leaseless = 0
    BY <1>2, <2>3, <2>4 DEF IsRelease
  <2>6. PICK m : draft' = [recorded |-> 1 .. v - 1, applied |-> (1 .. v - 1) \cup {v},
                           torn |-> {}, leaseless |-> m]
    BY <1>4, <2>1 DEF Release
  <2> HIDE DEF schema, v
  <2>7. draft' = Unrecorded(v, draft'.leaseless)
    <3>1. draft'.leaseless = m
      BY <2>6
    <3>2. draft' = Unrecorded(v, m)
      BY <2>2, <2>6 DEF Unrecorded
    <3> QED BY <3>1, <3>2
  <2> QED BY <2>5, <2>7
<1> HIDE DEF v, schema
<1>9. DraftFollowsLoop'
  BY <1>2, <1>5, <1>7, <1>8 DEF DraftFollowsLoop, In
<1>10. PastCommit' /\ NeverAppliedTwice' /\ CommittedIsRelease'
  BY <1>1, <1>4, <1>5
     DEF MigrationsInv, PastCommit, NeverAppliedTwice, CommittedIsRelease, IsRelease, In
<1> QED BY <1>6, <1>9, <1>10 DEF MigrationsInv

(* Recording a version makes the draft the schema of its release.             *)
LEMMA RecordStep ==
  ASSUME MigrationsInv, MigrationsTypeOK', NEW o \in Openers, Record(o)
  PROVE  MigrationsInv'
<1>1. In(o, "record") /\ UNCHANGED <<writer, mode>> /\ writer = o
  BY DEF Record, MigrationsInv, OneWriter, InTransaction, In
<1>2. PICK v \in 1 .. Last :
        /\ v = opener[o].at
        /\ draft = Unrecorded(v, draft.leaseless)
        /\ LeaseVersion <= v => draft.leaseless = 0
  BY <1>1 DEF MigrationsInv, DraftFollowsLoop
<1>3. /\ draft' = [draft EXCEPT !.recorded = @ \cup {v}] /\ db' = db
      /\ Enter(o, "check", v + 1, opener[o].cause)
  BY <1>1, <1>2 DEF Record, Sees, Statement, Loop
<1>4. /\ opener'[o].pc = "check" /\ opener'[o].at = v + 1
      /\ opener'[o].cause = opener[o].cause
      /\ \A p \in Openers : p # o => opener'[p] = opener[p]
  BY <1>3 DEF Enter, MigrationsInv, MigrationsTypeOK
<1>5. OneWriter'
  BY <1>1, <1>4 DEF MigrationsInv, OneWriter, InTransaction, In
<1>6. \A p \in Openers : p # o =>
        opener[p].pc \notin {"check", "apply", "record", "commit"}
  BY <1>1 DEF MigrationsInv, OneWriter, InTransaction
<1>7. IsRelease(draft, v)'
  <2>1. 1 .. v = (1 .. v - 1) \cup {v}
    BY <1>2
  <2>2. PICK l : draft = Unrecorded(v, l) /\ l = draft.leaseless
    BY <1>2
  <2>3. draft' = Release(v, l) /\ draft'.leaseless = l
    BY <1>3, <2>1, <2>2 DEF Release, Unrecorded
  <2> QED BY <1>2, <2>2, <2>3 DEF IsRelease
<1>8. v \in 0 .. Last /\ v + 1 \in 1 .. Last + 1 /\ (v + 1) - 1 <= v
  BY <1>2, MigrationsAssumption
<1>9. DraftFollowsLoop'
  BY <1>4, <1>6, <1>7, <1>8 DEF DraftFollowsLoop, In
<1>10. PastCommit' /\ NeverAppliedTwice' /\ CommittedIsRelease'
  BY <1>1, <1>3, <1>4
     DEF MigrationsInv, PastCommit, NeverAppliedTwice, CommittedIsRelease, IsRelease, In
<1> QED BY <1>5, <1>9, <1>10 DEF MigrationsInv

(* A commit publishes the complete schema and releases the lock.              *)
LEMMA CommitStep ==
  ASSUME MigrationsInv, MigrationsTypeOK', NEW o \in Openers, Commit(o)
  PROVE  MigrationsInv'
<1>1. /\ In(o, "commit") /\ UNCHANGED <<draft, mode>> /\ writer = o
      /\ writer' = Nobody /\ Nobody \notin Openers
  BY MigrationsAssumption DEF Commit, MigrationsInv, OneWriter, InTransaction, In
<1>2. db' = Release(Last, 0)
  BY <1>1 DEF Commit, Sees, MigrationsInv, DraftFollowsLoop
<1>3. /\ opener'[o].pc = "wal" /\ opener'[o].cause = opener[o].cause
      /\ \A p \in Openers : p # o => opener'[p] = opener[p]
  BY EnterMovesOne DEF Commit, Goto
<1>4. OneWriter'
  BY <1>1, <1>3 DEF MigrationsInv, OneWriter, InTransaction
<1>5. DraftFollowsLoop'
  BY <1>1, <1>3 DEF MigrationsInv, DraftFollowsLoop, In, IsRelease
<1>6. CommittedIsRelease'
  <2>1. Last \in 0 .. Last
    BY MigrationsAssumption
  <2> QED BY <1>2, <2>1 DEF CommittedIsRelease, IsRelease, Release
<1>7. PastCommit' /\ NeverAppliedTwice'
  BY <1>1, <1>2, <1>3 DEF MigrationsInv, PastCommit, NeverAppliedTwice, In
<1> QED BY <1>4, <1>5, <1>6, <1>7 DEF MigrationsInv

(* The switch of the journal mode touches no schema.                          *)
LEMMA SwitchStep ==
  ASSUME MigrationsInv, MigrationsTypeOK', NEW o \in Openers, SwitchMode(o)
  PROVE  MigrationsInv'
<1>1. In(o, "wal") /\ UNCHANGED <<db, draft, writer>> /\ mode' = "wal"
  BY DEF SwitchMode
<1>2. /\ opener'[o].pc = "opened" /\ opener'[o].cause = opener[o].cause
      /\ \A p \in Openers : p # o => opener'[p] = opener[p]
  BY EnterMovesOne DEF SwitchMode, Goto
<1>3. OneWriter'
  BY <1>1, <1>2 DEF MigrationsInv, OneWriter, InTransaction, In
<1>4. DraftFollowsLoop' /\ CommittedIsRelease'
  BY <1>1, <1>2 DEF MigrationsInv, DraftFollowsLoop, CommittedIsRelease, In, IsRelease
<1>5. PastCommit' /\ NeverAppliedTwice'
  BY <1>1, <1>2 DEF MigrationsInv, PastCommit, NeverAppliedTwice, In
<1> QED BY <1>3, <1>4, <1>5 DEF MigrationsInv

-----------------------------------------------------------------------------
(* Every step of every opener keeps the invariant.                            *)
LEMMA MigrationsInvStep ==
  MigrationsInv /\ [MigrationsNext]_migrationVars => MigrationsInv'
<1> SUFFICES ASSUME MigrationsInv, [MigrationsNext]_migrationVars
             PROVE  MigrationsInv'
  OBVIOUS
<1>1. MigrationsTypeOK' /\ Nobody \notin Openers
  BY TypeStep, MigrationsAssumption
<1>2. \A o \in Openers : opener[o].cause # "exists"
  BY DEF MigrationsInv, NeverAppliedTwice
<1>3. ASSUME NEW o \in Openers, Open(o) PROVE MigrationsInv'
  <2>1. Enter(o, "begin", opener[o].at, opener[o].cause)
    BY <1>3 DEF Open, Goto
  <2>2. InTransaction(o)' <=> writer' = o
    BY <1>3, <2>1, EnterMovesOne DEF Open, MigrationsInv, OneWriter, InTransaction, In
  <2> QED BY <1>1, <1>2, <1>3, <2>1, <2>2, MoveStep DEF Open
<1>4. ASSUME NEW o \in Openers, Begin(o) PROVE MigrationsInv'
  <2>1. Enter(o, "check", 1, opener[o].cause)
    BY <1>4 DEF Begin, Loop
  <2>2. InTransaction(o)' <=> writer' = o
    <3>1. opener'[o].pc = "check"
      BY <2>1 DEF Enter, MigrationsInv, MigrationsTypeOK
    <3> QED BY <1>4, <3>1 DEF Begin, InTransaction
  <2> QED BY <1>1, <1>2, <1>4, <2>1, <2>2, MoveStep DEF Begin
<1>5. ASSUME NEW o \in Openers, Rollback(o) PROVE MigrationsInv'
  <2>1. Enter(o, "failed", opener[o].at, opener[o].cause)
    BY <1>5 DEF Rollback, Goto
  <2>2. InTransaction(o)' <=> writer' = o
    <3>1. opener'[o].pc = "failed"
      BY <2>1 DEF Enter, MigrationsInv, MigrationsTypeOK
    <3> QED BY <1>1, <1>5, <3>1 DEF Rollback, InTransaction
  <2>3. writer = o
    BY <1>5 DEF Rollback, MigrationsInv, OneWriter, InTransaction, In
  <2> QED BY <1>1, <1>2, <1>5, <2>1, <2>2, <2>3, MoveStep DEF Rollback
<1>6. ASSUME NEW o \in Openers, TimeOut(o) PROVE MigrationsInv'
  <2>1. Enter(o, "failed", opener[o].at, "busy")
    BY <1>6 DEF TimeOut, FailWith
  <2>2. InTransaction(o)' <=> writer' = o
    <3>1. opener'[o].pc = "failed"
      BY <2>1 DEF Enter, MigrationsInv, MigrationsTypeOK
    <3> QED BY <1>6, <3>1 DEF TimeOut, InTransaction
  <2> QED BY <1>1, <1>6, <2>1, <2>2, MoveStep DEF TimeOut
<1>7. ASSUME NEW o \in Openers, Fail(o) PROVE MigrationsInv'
  <2>1. PICK pc \in {"failed", "rollback"} :
          /\ Enter(o, pc, opener[o].at, "fault")
          /\ pc = "rollback" <=> InTransaction(o)
    BY <1>7 DEF Fail, FailWith, InTransaction, In
  <2>2. InTransaction(o) <=> writer = o
    BY DEF MigrationsInv, OneWriter
  <2>3. InTransaction(o)' <=> writer' = o
    <3>1. opener'[o].pc = pc
      BY <2>1 DEF Enter, MigrationsInv, MigrationsTypeOK
    <3> QED BY <1>7, <2>1, <2>2, <3>1 DEF Fail, InTransaction
  <2>4. UNCHANGED <<db, mode, writer>> /\ (draft' = draft \/ writer = o)
    BY <1>7, <2>2 DEF Fail, Statement, InTransaction, In
  <2> QED BY <1>1, <2>1, <2>3, <2>4, MoveStep
<1>8. ASSUME NEW o \in Openers, Crash(o) PROVE MigrationsInv'
  <2>1. Enter(o, "closed", 0, "") /\ UNCHANGED <<db, draft, mode>>
    BY <1>8 DEF Crash
  <2>2. InTransaction(o)' <=> writer' = o
    BY <1>1, <1>8, <2>1, EnterMovesOne DEF Crash, InTransaction
  <2>3. \A p \in Openers \ {o} : writer' = p <=> writer = p
    BY <1>1, <1>8 DEF Crash
  <2> QED BY <1>1, <2>1, <2>2, <2>3, MoveStep
<1>9. CASE UNCHANGED migrationVars
  BY <1>1, <1>9
     DEF migrationVars, MigrationsInv, OneWriter, InTransaction, CommittedIsRelease,
         DraftFollowsLoop, PastCommit, NeverAppliedTwice, In, IsRelease
<1> QED
  BY <1>1, <1>3, <1>4, <1>5, <1>6, <1>7, <1>8, <1>9, CheckStep, ApplyStep,
     RecordStep, CommitStep, SwitchStep DEF MigrationsNext, Proceeds

(* The inductive invariant: the lock makes the transactions disjoint, so that *)
(* the draft of its holder is all that an unfinished upgrade ever is.         *)
THEOREM MigrationsInvariant == MigrationsSpec => []MigrationsInv
BY MigrationsInvInit, MigrationsInvStep, PTL DEF MigrationsSpec

(* Type correctness of the openers and of every schema they write.            *)
THEOREM MigrationsTypeOKHolds == MigrationsSpec => []MigrationsTypeOK
<1>1. MigrationsInv => MigrationsTypeOK
  BY DEF MigrationsInv
<1> QED BY <1>1, MigrationsInvariant, PTL

(* Whoever opened the database works on the complete schema, in WAL mode.     *)
THEOREM OpenedIsUpgradedHolds == MigrationsSpec => []OpenedIsUpgraded
<1>1. MigrationsInv => OpenedIsUpgraded
  BY DEF MigrationsInv, PastCommit, OpenedIsUpgraded, In
<1> QED BY <1>1, MigrationsInvariant, PTL

(* No startup stumbles over what another one applied, or left behind.         *)
THEOREM NeverAppliedTwiceHolds == MigrationsSpec => []NeverAppliedTwice
<1>1. MigrationsInv => NeverAppliedTwice
  BY DEF MigrationsInv
<1> QED BY <1>1, MigrationsInvariant, PTL

(* Only a commit changes what others see, and to the complete schema.         *)
THEOREM UpgradeIsAtomicHolds == MigrationsSpec => UpgradeIsAtomic
<1>1. MigrationsInv /\ [MigrationsNext]_migrationVars =>
        [db' # db => db' = Release(Last, 0)]_migrationVars
  <2> SUFFICES ASSUME MigrationsInv, MigrationsNext, db' # db
               PROVE  db' = Release(Last, 0)
    BY DEF migrationVars
  <2>1. PICK o \in Openers : Open(o) \/ Proceeds(o) \/ TimeOut(o) \/ Fail(o) \/ Crash(o)
    BY DEF MigrationsNext
  <2>2. InTransaction(o) => writer = o
    BY DEF MigrationsInv, OneWriter
  <2>3. Commit(o)
    BY <2>1, <2>2 DEF Open, Proceeds, TimeOut, Fail, Crash, Begin, Check, Apply, Record,
                      Rollback, SwitchMode, Statement, InTransaction, In
  <2>4. draft = Release(Last, 0)
    BY <2>3 DEF Commit, MigrationsInv, DraftFollowsLoop
  <2> QED BY <2>2, <2>3, <2>4 DEF Commit, Sees, InTransaction, In
<1> QED BY <1>1, MigrationsInvariant, PTL DEF MigrationsSpec, UpgradeIsAtomic
=============================================================================
