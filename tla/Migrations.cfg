\* Three commands start together on a database of any older release. Twice
\* a process crashes or a statement fails, once a wait times out.
SPECIFICATION FairMigrations
CONSTANTS
  o1 = o1
  o2 = o2
  o3 = o3
  nobody = nobody
  Openers = {o1, o2, o3}
  Nobody = nobody
  Last = 6
  LeaseVersion = 5
  MaxFaults = 2
  MaxTimeouts = 1
INVARIANTS
  MigrationsTypeOK
  OpenedIsUpgraded
  NeverAppliedTwice
PROPERTIES
  UpgradeIsAtomic
  StartupSucceeds
CHECK_DEADLOCK FALSE
