--------------------------------- MODULE Backup ---------------------------------
(***************************************************************************)
(* The farm's backup and its restore (backup.py).  A backup is written     *)
(* while the service goes on writing its store, pinning and deleting       *)
(* bundles; a restore is made with the service stopped, member by member.  *)
(* Either may be killed between any two steps, and neither looks whether   *)
(* the other is under way.  One backup is made at a time, and nobody       *)
(* starts the service before a restore is over.                            *)
(*                                                                         *)
(* A store is told apart by what it says is pinned and by the time of its  *)
(* last write.  The small files beside it are read once and not modelled,  *)
(* nor is the note of the last backup; a bundle is two files.              *)
(***************************************************************************)
EXTENDS Naturals, FiniteSets

CONSTANTS
  Bundles,
  Keep,      \* archives a prune leaves, one at least
  MaxWrites, \* bound: writes of the store
  MaxTime    \* bound: backups made at different times

Files == {"image", "manifest"}
None == [at |-> 0, pinned |-> {}]      \* no store
Stores == [at : 1 .. MaxWrites + 1, pinned : SUBSET Bundles]

VARIABLES
  up,       \* the service runs
  db,       \* the store in place, or None
  disk,     \* [Bundles -> files there]
  now,      \* the clock, as far as names tell it
  step,     \* of the backup: "idle", "copied", "listed", "packed", "named", "pruned"
  work,     \* what it gathered: [stamp, db, members, gone]
  archives, \* those in the directory
  restore   \* the restore under way: [on, from, left]

vars == <<up, db, disk, now, step, work, archives, restore>>

Nothing == [stamp |-> 0, db |-> None, members |-> {}, gone |-> {}]
NotRestoring == [on |-> FALSE, from |-> Nothing, left |-> {}]
FirstStore == [at |-> 1, pinned |-> {}]

Init ==
  /\ up \in BOOLEAN
  /\ db \in {None, FirstStore} /\ (up => db # None)
  /\ disk = [b \in Bundles |-> Files]
  /\ now = 1
  /\ step = "idle" /\ work = Nothing /\ archives = {}
  /\ restore = NotRestoring

-----------------------------------------------------------------------------
\* The service: it makes a store when it finds none, and writes it.
Starts ==
  /\ ~up /\ ~restore.on
  /\ up' = TRUE
  /\ db' = IF db = None THEN FirstStore ELSE db
  /\ UNCHANGED <<disk, now, step, work, archives, restore>>

Stops ==
  /\ up /\ up' = FALSE
  /\ UNCHANGED <<db, disk, now, step, work, archives, restore>>

\* gone, of the bundles the copied store says are pinned: those not whole when the backup
\* began, or unpinned or deleted since; all of them, when the archive is made without bundles
\* or their list is not that store's.
Loses(b) == work' = [work EXCEPT !.gone = @ \cup ({b} \cap work.db.pinned)]

Pins(b) ==
  /\ up /\ disk[b] = Files /\ b \notin db.pinned /\ db.at <= MaxWrites
  /\ db' = [at |-> db.at + 1, pinned |-> db.pinned \cup {b}]
  /\ UNCHANGED <<up, disk, now, step, work, archives, restore>>

Unpins(b) ==
  /\ up /\ b \in db.pinned /\ db.at <= MaxWrites
  /\ db' = [at |-> db.at + 1, pinned |-> db.pinned \ {b}]
  /\ Loses(b)
  /\ UNCHANGED <<up, disk, now, step, archives, restore>>

\* Deleting a bundle that is not pinned, file after file.
Deletes(b) ==
  /\ up /\ b \notin db.pinned
  /\ \E f \in disk[b] : disk' = [disk EXCEPT ![b] = @ \ {f}]
  /\ Loses(b)
  /\ UNCHANGED <<up, db, now, step, archives, restore>>

-----------------------------------------------------------------------------
\* create_backup.  The store is copied consistently while it is written.
Ticks ==
  /\ step = "idle" /\ now < MaxTime
  /\ now' = now + 1
  /\ UNCHANGED <<up, db, disk, step, work, archives, restore>>

CopiesStore ==
  /\ step = "idle"
  /\ step' = "copied"
  /\ work' = [Nothing EXCEPT !.stamp = now, !.db = db,
                           !.gone = {b \in db.pinned : disk[b] # Files}]
  /\ UNCHANGED <<up, db, disk, now, archives, restore>>

\* _pinned_bundles: what the live store says is pinned, of that what is on the disk.  No
\* bundle, when that store cannot be read or is not there (sqlite3.Error, is_file), and
\* none in a portal's backup (include_bundles False).
Members(s) == {m \in Bundles \X Files : m[1] \in s.pinned /\ m[2] \in disk[m[1]]}

ListsBundles ==
  /\ step = "copied"
  /\ step' = "listed"
  /\ \/ work' = [work EXCEPT !.members = Members(db)]
     \/ work' = [work EXCEPT !.gone = work.db.pinned]
  /\ UNCHANGED <<up, db, disk, now, archives, restore>>

\* Checksums, then the tar: every listed file must still be there.
Packs ==
  /\ step = "listed"
  /\ \A m \in work.members : m[2] \in disk[m[1]]
  /\ step' = "packed"
  /\ UNCHANGED <<up, db, disk, now, work, archives, restore>>

Ends == step' = "idle" /\ work' = Nothing

\* A file of it has gone, or there is no room; or the process is killed, at any step.
Fails ==
  /\ step # "idle"
  /\ Ends
  /\ UNCHANGED <<up, db, disk, now, archives, restore>>

\* partial.replace(archive): one of the same second is replaced.
Publishes ==
  /\ step = "packed"
  /\ step' = "named"
  /\ archives' = {a \in archives : a.stamp # work.stamp} \cup {work}
  /\ UNCHANGED <<up, db, disk, now, work, restore>>

Newest(S) == {a \in S : Cardinality({o \in S : o.stamp > a.stamp}) < Keep}

Prunes ==
  /\ step = "named"
  /\ step' = "pruned"
  /\ archives' = Newest(archives)
  /\ UNCHANGED <<up, db, disk, now, work, restore>>

Records ==
  /\ step = "pruned"
  /\ Ends
  /\ UNCHANGED <<up, db, disk, now, archives, restore>>

-----------------------------------------------------------------------------
\* restore_backup, refused while the service runs: the plan, and the store set aside
\* when the archive brings one (under another name, which nothing reads again).  Variant:
\* a bundle with any file left is kept as it is.
WantedDirs(a) == {m \in a.members : disk[m[1]] = {}}

Wanted(a) == {m \in a.members : m[2] \notin disk[m[1]]}

SetAside(a) == db' = IF a.db = None THEN db ELSE None

\* A backup that has copied the store and not yet listed the bundles lists another store's.
OtherStore == work' = IF step = "copied" /\ db' # db THEN [work EXCEPT !.gone = work.db.pinned] ELSE work

RestoreBegins ==
  /\ ~up /\ ~restore.on
  /\ \E a \in archives :
       /\ restore' = [on |-> TRUE, from |-> a, left |-> Wanted(a)]
       /\ SetAside(a) /\ OtherStore
  /\ UNCHANGED <<up, disk, now, step, archives>>

\* The members in the archive's order: the store comes after the bundles.
WritesMember ==
  /\ restore.on
  /\ \E m \in restore.left :
       /\ disk' = [disk EXCEPT ![m[1]] = @ \cup {m[2]}]
       /\ restore' = [restore EXCEPT !.left = @ \ {m}]
  /\ UNCHANGED <<up, db, now, step, work, archives>>

WritesStore ==
  /\ restore.on /\ restore.left = {} /\ db # restore.from.db /\ restore.from.db # None
  /\ db' = restore.from.db /\ OtherStore
  /\ UNCHANGED <<up, disk, now, step, archives, restore>>

RestoreDone ==
  /\ restore.on /\ restore.left = {} /\ restore.from.db \in {None, db}
  /\ restore' = NotRestoring
  /\ UNCHANGED <<up, db, disk, now, step, work, archives>>

RestoreKilled ==
  /\ restore.on
  /\ restore' = NotRestoring
  /\ UNCHANGED <<up, db, disk, now, step, work, archives>>

Next ==
  \/ Starts \/ Stops \/ Ticks
  \/ \E b \in Bundles : Pins(b) \/ Unpins(b) \/ Deletes(b)
  \/ CopiesStore \/ ListsBundles \/ Packs \/ Fails \/ Publishes \/ Prunes \/ Records
  \/ RestoreBegins \/ WritesMember \/ WritesStore \/ RestoreDone \/ RestoreKilled

Spec == Init /\ [][Next]_vars

-----------------------------------------------------------------------------
\* Every variable holds what the rest of the module takes it to hold.
TypeOK ==
  /\ up \in BOOLEAN
  /\ {db, work.db} \subseteq Stores \cup {None}
  /\ disk \in [Bundles -> SUBSET Files]
  /\ now \in 1 .. MaxTime
  /\ step \in {"idle", "copied", "listed", "packed", "named", "pruned"}
  /\ \A a \in archives : a.stamp \in 1 .. MaxTime /\ a.members \subseteq Bundles \X Files

\* Of every step: a restore that is done has brought back the archive's store with every bundle that
\* store says is pinned, whole, but for those not whole at the backup, or unpinned or deleted
\* while it was being made (the store is copied before the pins are listed); and of an archive
\* made without bundles, or whose list of them could not be read or was read of a store a
\* restore had put in place since, nothing is promised.
RestoredWhole ==
  RestoreDone => \A b \in restore.from.db.pinned \ restore.from.gone : disk[b] = Files
=============================================================================
