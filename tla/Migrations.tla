----------------------------- MODULE Migrations -----------------------------
(* internal/store/db.go: every command opens the database, and the ones that  *)
(* start together after an upgrade of the program all find the old schema.    *)
(* Open takes SQLite's write lock, applies and records what is missing in one *)
(* transaction, and then switches the journal mode outside of it. Openers     *)
(* wait for each other, time out, fail at any statement and die anywhere.     *)
(*                                                                            *)
(* A migration is a version; what its statements create is abstracted to      *)
(* whether they ran, all of them (applied) or some (torn). One of them also   *)
(* fills a column: it gives every running row an expired lease.               *)
EXTENDS Naturals, FiniteSets

CONSTANTS
  Openers,       \* processes that open the database
  Nobody,        \* the write lock is free
  Last,          \* len(migrations), the versions being 1 .. Last
  LeaseVersion,  \* the version that adds lease_expires_at
  MaxFaults,     \* bound: crashes and failed statements
  MaxTimeouts    \* bound: waits for a lock that outlast the busy timeout

ASSUME MigrationsAssumption ==
  /\ Nobody \notin Openers
  /\ Last \in Nat /\ LeaseVersion \in 1 .. Last
  /\ MaxFaults \in Nat /\ MaxTimeouts \in Nat

VARIABLES
  db,      \* the committed schema
  draft,   \* the schema as the open transaction sees it
  writer,  \* who holds the write lock
  mode,    \* the journal mode, persistent in the file
  opener,  \* each process: where Open is, the version its loop is at, and why
           \* it failed
  mishaps  \* how many faults and timeouts happened

migrationVars == <<db, draft, writer, mode, opener, mishaps>>

Versions == 1 .. Last

Schema == [recorded : SUBSET Versions, applied : SUBSET Versions,
           torn : SUBSET Versions, leaseless : Nat]

(* The schema of a release that had k migrations. leaseless: how many running *)
(* rows have no lease, as the releases without that column left them.         *)
Release(k, leaseless) ==
  [recorded |-> 1 .. k, applied |-> 1 .. k, torn |-> {}, leaseless |-> leaseless]

Opener ==
  [pc : {"closed", "begin", "check", "apply", "record", "commit", "rollback",
         "wal", "opened", "failed"},
   at : 0 .. Last + 1, cause : {"", "exists", "busy", "fault"}]

MigrationsInit ==
  /\ \E k \in 0 .. Last, leaseless \in {0, 1} :
       /\ leaseless # 0 => 0 < k /\ k < LeaseVersion
       /\ db = Release(k, leaseless)
  /\ draft = db
  /\ writer = Nobody
  /\ mode \in {"delete", "wal"}
  /\ opener = [o \in Openers |-> [pc |-> "closed", at |-> 0, cause |-> ""]]
  /\ mishaps = [faults |-> 0, timeouts |-> 0]

-----------------------------------------------------------------------------
(* SQLite: a statement of the transaction's holder changes its draft, one     *)
(* outside of a transaction commits by itself.                                *)

Sees(o) == IF writer = o THEN draft ELSE db

Statement(o, schema) ==
  IF writer = o THEN draft' = schema /\ UNCHANGED db
                ELSE db' = schema /\ UNCHANGED draft

In(o, pc) == opener[o].pc = pc
Enter(o, pc, at, cause) ==
  opener' = [opener EXCEPT ![o] = [pc |-> pc, at |-> at, cause |-> cause]]
Goto(o, pc) == Enter(o, pc, opener[o].at, opener[o].cause)
Loop(o, at) == Enter(o, "check", at, opener[o].cause)
FailWith(o, pc, cause) == Enter(o, pc, opener[o].at, cause)

-----------------------------------------------------------------------------
(* Open: the directories, the connection, the ping. *)
Open(o) ==
  /\ In(o, "closed")
  /\ Goto(o, "begin")
  /\ UNCHANGED <<db, draft, writer, mode, mishaps>>

(* BEGIN IMMEDIATE: waits for the write lock.                                 *)
Begin(o) ==
  /\ In(o, "begin")
  /\ writer = Nobody
  /\ writer' = o /\ draft' = db
  /\ Loop(o, 1)
  /\ UNCHANGED <<db, mode, mishaps>>

(* Mutants of Check: the loop ends one migration late, or early.              *)
CheckPastLast(o) ==
  /\ In(o, "check")
  /\ IF opener[o].at > Last + 1 THEN Goto(o, "commit")
     ELSE IF opener[o].at \in Sees(o).recorded
       THEN Loop(o, opener[o].at + 1)
       ELSE Goto(o, "apply")
  /\ UNCHANGED <<db, draft, writer, mode, mishaps>>

CheckButLast(o) ==
  /\ In(o, "check")
  /\ IF opener[o].at >= Last THEN Goto(o, "commit")
     ELSE IF opener[o].at \in Sees(o).recorded
       THEN Loop(o, opener[o].at + 1)
       ELSE Goto(o, "apply")
  /\ UNCHANGED <<db, draft, writer, mode, mishaps>>

(* The loop head: is this version recorded?                                   *)
Check(o) ==
  /\ In(o, "check")
  /\ IF opener[o].at > Last THEN Goto(o, "commit")
     ELSE IF opener[o].at \in Sees(o).recorded
       THEN Loop(o, opener[o].at + 1)
       ELSE Goto(o, "apply")
  /\ UNCHANGED <<db, draft, writer, mode, mishaps>>

(* The migration's statements. A table or column that exists is an error.     *)
Apply(o) ==
  LET v == opener[o].at
      seen == Sees(o)
  IN
  /\ In(o, "apply")
  /\ IF v \in seen.applied \cup seen.torn
       THEN FailWith(o, "rollback", "exists") /\ UNCHANGED <<db, draft>>
       ELSE /\ Statement(o, [seen EXCEPT !.applied = @ \cup {v},
                               !.leaseless = IF v = LeaseVersion THEN 0 ELSE @])
            /\ Goto(o, "record")
  /\ UNCHANGED <<writer, mode, mishaps>>

(* Mutant of Record: the version is not recorded.                             *)
RecordNothing(o) ==
  /\ In(o, "record")
  /\ Loop(o, opener[o].at + 1)
  /\ UNCHANGED <<db, draft, writer, mode, mishaps>>

(* INSERT INTO schema_migrations, and on to the next version.                 *)
Record(o) ==
  /\ In(o, "record")
  /\ Statement(o, [Sees(o) EXCEPT !.recorded = @ \cup {opener[o].at}])
  /\ Loop(o, opener[o].at + 1)
  /\ UNCHANGED <<writer, mode, mishaps>>

(* Mutant of Commit: the transaction stays open.                              *)
CommitNothing(o) ==
  /\ In(o, "commit")
  /\ Goto(o, "wal")
  /\ UNCHANGED <<db, draft, writer, mode, mishaps>>

Commit(o) ==
  /\ In(o, "commit")
  /\ db' = Sees(o) /\ writer' = Nobody
  /\ Goto(o, "wal")
  /\ UNCHANGED <<draft, mode, mishaps>>

(* Mutant of Rollback: what was applied so far is kept.                       *)
KeepDraft(o) ==
  /\ In(o, "rollback")
  /\ db' = Sees(o) /\ writer' = Nobody
  /\ Goto(o, "failed")
  /\ UNCHANGED <<draft, mode, mishaps>>

Rollback(o) ==
  /\ In(o, "rollback")
  /\ writer' = Nobody
  /\ Goto(o, "failed")
  /\ UNCHANGED <<db, draft, mode, mishaps>>

(* enableWAL: the switch needs the file for itself, unless it is made.        *)
SwitchMode(o) ==
  /\ In(o, "wal")
  /\ mode = "wal" \/ writer = Nobody
  /\ mode' = "wal"
  /\ Goto(o, "opened")
  /\ UNCHANGED <<db, draft, writer, mishaps>>

-----------------------------------------------------------------------------
(* A wait outlasts the busy timeout of BEGIN, the deadline of enableWAL.      *)
TimeOut(o) ==
  /\ mishaps.timeouts < MaxTimeouts
  /\ writer \notin {Nobody, o}
  /\ In(o, "begin") \/ (In(o, "wal") /\ mode # "wal")
  /\ FailWith(o, "failed", "busy")
  /\ mishaps' = [mishaps EXCEPT !.timeouts = @ + 1]
  /\ UNCHANGED <<db, draft, writer, mode>>

(* Any statement may fail, a migration between two of its own.                *)
Fail(o) ==
  LET seen == Sees(o) IN
  /\ mishaps.faults < MaxFaults
  /\ \/ /\ In(o, "begin") \/ In(o, "wal")
        /\ FailWith(o, "failed", "fault") /\ UNCHANGED <<db, draft>>
     \/ /\ opener[o].pc \in {"check", "record", "commit"}
        /\ FailWith(o, "rollback", "fault") /\ UNCHANGED <<db, draft>>
     \/ /\ In(o, "apply")
        /\ Statement(o, [seen EXCEPT !.torn = @ \cup {opener[o].at}])
        /\ FailWith(o, "rollback", "fault")
  /\ mishaps' = [mishaps EXCEPT !.faults = @ + 1]
  /\ UNCHANGED <<writer, mode>>

(* The process dies; SQLite forgets its transaction. It may be started again. *)
Crash(o) ==
  /\ mishaps.faults < MaxFaults
  /\ ~In(o, "closed")
  /\ Enter(o, "closed", 0, "")
  /\ writer' = IF writer = o THEN Nobody ELSE writer
  /\ mishaps' = [mishaps EXCEPT !.faults = @ + 1]
  /\ UNCHANGED <<db, draft, mode>>

Proceeds(o) ==
  \/ Begin(o) \/ Check(o) \/ Apply(o) \/ Record(o) \/ Commit(o)
  \/ Rollback(o) \/ SwitchMode(o)

MigrationsNext ==
  \E o \in Openers : Open(o) \/ Proceeds(o) \/ TimeOut(o) \/ Fail(o) \/ Crash(o)

MigrationsSpec == MigrationsInit /\ [][MigrationsNext]_migrationVars

(* A process that has begun to open the database gets to run.                 *)
FairMigrations == MigrationsSpec /\ \A o \in Openers : WF_migrationVars(Proceeds(o))

-----------------------------------------------------------------------------
(* Properties. *)

MigrationsTypeOK ==
  /\ db \in Schema /\ draft \in Schema
  /\ writer \in Openers \cup {Nobody}
  /\ mode \in {"delete", "wal"}
  /\ opener \in [Openers -> Opener]
  /\ mishaps \in [faults : Nat, timeouts : Nat]

(* README, Project Layout: "Schema discovery, every pending migration, and    *)
(* their version records run inside one `BEGIN IMMEDIATE` critical section,   *)
(* so failed or concurrent startup cannot expose a partially evolved schema." *)
(* What others see of the schema changes at most once, from the one an older  *)
(* release left to the complete one, whoever fails or dies at which statement.*)
UpgradeIsAtomic == [][db' # db => db' = Release(Last, 0)]_migrationVars

(* A process that got a database works on the complete schema, in WAL mode,   *)
(* and every running row an older release left behind has a lease, so that    *)
(* NextExpired finds it.                                                      *)
OpenedIsUpgraded ==
  \A o \in Openers : In(o, "opened") => db = Release(Last, 0) /\ mode = "wal"

(* No startup fails because another one, finished, failed or dead, has been   *)
(* there before: a migration never meets its own tables or columns.           *)
NeverAppliedTwice == \A o \in Openers : opener[o].cause # "exists"

(* Every startup succeeds unless its own process dies, a statement of its own *)
(* fails or its own wait outlasts the timeout, whatever the others do.        *)
StartupSucceeds ==
  \A o \in Openers :
    In(o, "begin") ~> \/ In(o, "opened") \/ In(o, "closed")
                      \/ opener[o].cause \in {"fault", "busy"}
=============================================================================
