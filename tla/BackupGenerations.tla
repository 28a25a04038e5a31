-------------------------- MODULE BackupGenerations --------------------------
(***************************************************************************)
(* The encrypted backup pipeline (spec A): do_backup by the daemon's floor *)
(* timer and by backup-now in a process of its own, the bucket with one    *)
(* object per generation and one index.json, restore and                   *)
(* adopt-restored-state, and restarts.  The lock of BackupPipeline is      *)
(* private to a process, so two processes meet only in the table           *)
(* backup_log and in the bucket.  A backup is a copy of the database, so   *)
(* the log that a restore brings back is the one of the moment of the      *)
(* snapshot, and generations after it are handed out again.                *)
(***************************************************************************)
EXTENDS Naturals, FiniteSets

CONSTANTS
    Shell,       \* operator processes running backup-now
    Daemon,      \* the serve process, with its floor timer
    Overlap,     \* may backup-now run while the daemon is in a backup?
    MaxGen,      \* bound: backups that are numbered
    MaxFaults,   \* bound: failed uploads and snapshots, killed processes
    MaxRestores  \* bound: adoptions of a restored database

ASSUME BackupAssumption ==
    /\ Daemon \notin Shell
    /\ Overlap \in BOOLEAN
    /\ MaxGen \in Nat \ {0} /\ MaxFaults \in Nat /\ MaxRestores \in Nat

Process == Shell \cup {Daemon}
Gen     == 1..MaxGen
Life    == 0..MaxRestores
Alarm   == 3 \* do_backup's streak >= 3

(* A row of backup_log.  pushed holds what record_pushed stores, the hash of *)
(* the object; one life of the database numbers a generation once, so the   *)
(* life and the number stand for the hash.                                  *)
NotYet  == MaxRestores + 1
NoRow   == [pushed |-> NotYet, indexed |-> FALSE, there |-> FALSE]
Started == [NoRow EXCEPT !.there = TRUE]
Row     == [pushed : Life \cup {NotYet}, indexed : BOOLEAN, there : BOOLEAN]
Log     == [Gen -> Row]

\* An object gen-<g>.age: the life that wrote it and the log inside it.
Object(l, rows) == [by |-> l, rows |-> rows]
EmptyLog == [g \in Gen |-> NoRow]
Absent   == Object(NotYet, EmptyLog)
AnyObject == [by : Life \cup {NotYet}, rows : Log]

VARIABLES
    log,       \* backup_log of the live database
    bucket,    \* gen-<g>.age
    index,     \* index.json: highest_gen (0: none) and the hash's life
    job,       \* where each process is in do_backup
    serving,   \* the daemon runs
    life,      \* how many restored databases were adopted
    restored,  \* the database a restore command has left on the disk
    alarm,     \* did the last do_backup call write self_alarm_unreachable?
    faults

vars == <<log, bucket, index, job, serving, life, restored, alarm, faults>>
outside  == <<serving, life, restored>>

NoIndex == [gen |-> 0, by |-> NotYet]

JobPc == {"idle", "insert", "snapshot", "upload", "record", "publish", "stamp", "failed"}
AnyJob == [pc : JobPc, gen : Gen, rows : Log]
Job(pc, g, rows) == [pc |-> pc, gen |-> g, rows |-> rows]
Idle == Job("idle", 1, EmptyLog)

Numbered == {g \in Gen : log[g].there}
Resting(p) == job[p] = Idle
Move(p, pc) == job' = [job EXCEPT ![p].pc = pc]

Init ==
    /\ log = EmptyLog
    /\ bucket = [g \in Gen |-> Absent]
    /\ index = NoIndex
    /\ job = [p \in Process |-> Idle]
    /\ serving = FALSE
    /\ life = 0 /\ restored = Absent
    /\ alarm = FALSE
    /\ faults = 0

-----------------------------------------------------------------------------
(* Statements; some follow the slip that a careless edit of them might be. *)

\* next_generation: SELECT COALESCE(MAX(generation), 0) + 1
IsNext(n) == (\A g \in Numbered : g < n) /\ (n = 1 \/ n - 1 \in Numbered)

\* the primary key of backup_log
KeyFree(g) == ~log[g].there

\* what put_index names
NamedBy(g) == g

\* count_consecutive_failures: unpushed rows above the last pushed one
CountStreak ==
    Cardinality({g \in Numbered : \A h \in Numbered : h >= g => log[h].pushed = NotYet})

\* the row record_pushed updates
Pushed(rows, g) == [rows EXCEPT ![g].pushed = life]

\* the end of the block under the lock: it is released, the snapshot deleted
LockKept(p) == job' = [job EXCEPT ![p].pc = "idle"]
Release(p) == job' = [job EXCEPT ![p] = Idle]

-----------------------------------------------------------------------------
(* do_backup, one commit or one request at a time. *)

Quiet == \A p \in Process : Resting(p)

Begin(p) ==
    /\ Resting(p)
    /\ p = Daemon => serving
    /\ Overlap \/ Quiet
    /\ \E n \in Gen : IsNext(n) /\ job' = [job EXCEPT ![p] = Job("insert", n, EmptyLog)]
    /\ UNCHANGED <<log, bucket, index, outside, alarm, faults>>

\* record_started; the INSERT raises when another process took the number.
InsertRow(p) ==
    LET g == job[p].gen IN
    /\ job[p].pc = "insert"
    /\ IF KeyFree(g)
         THEN log' = [log EXCEPT ![g] = Started] /\ Move(p, "snapshot")
         ELSE Move(p, "failed") /\ UNCHANGED log
    /\ UNCHANGED <<bucket, index, outside, alarm, faults>>

Snapshot(p) ==
    /\ job[p].pc = "snapshot"
    /\ job' = [job EXCEPT ![p] = Job("upload", job[p].gen, log)]
    /\ UNCHANGED <<log, bucket, index, outside, alarm, faults>>

\* the object's key is the number of the row, not of the last upload
StoredNext(p) == [bucket EXCEPT ![index.gen + 1] = Object(life, job[p].rows)]
Stored(p) == [bucket EXCEPT ![job[p].gen] = Object(life, job[p].rows)]

PutBlob(p) ==
    /\ job[p].pc = "upload"
    /\ bucket' = Stored(p)
    /\ Move(p, "record")
    /\ UNCHANGED <<log, index, outside, alarm, faults>>

RecordPushed(p) ==
    /\ job[p].pc = "record"
    /\ log' = Pushed(log, job[p].gen)
    /\ Move(p, "publish")
    /\ UNCHANGED <<bucket, index, outside, alarm, faults>>

Named(p) == [gen |-> NamedBy(job[p].gen), by |-> life]

PutIndex(p) ==
    /\ job[p].pc = "publish"
    /\ index' = Named(p)
    /\ Move(p, "stamp")
    /\ UNCHANGED <<log, bucket, outside, alarm, faults>>

RecordIndexUpdated(p) ==
    /\ job[p].pc = "stamp"
    /\ log' = [log EXCEPT ![job[p].gen].indexed = TRUE]
    /\ Release(p)
    /\ alarm' = FALSE
    /\ UNCHANGED <<bucket, index, outside, faults>>

(* The snapshot, the encryption or a request raises; a request that raises, *)
(* say on a timeout, may have reached the bucket all the same.              *)
StepFails(p) ==
    /\ job[p].pc \in {"snapshot", "upload", "publish"}
    /\ faults < MaxFaults /\ faults' = faults + 1
    /\ bucket' \in {bucket} \cup (IF job[p].pc = "upload" THEN {Stored(p)} ELSE {})
    /\ index' \in {index} \cup (IF job[p].pc = "publish" THEN {Named(p)} ELSE {})
    /\ Move(p, "failed")
    /\ UNCHANGED <<log, outside, alarm>>

\* The except clause of do_backup.
CountFailures(p) ==
    /\ job[p].pc = "failed"
    /\ alarm' = (CountStreak >= Alarm)
    /\ Release(p)
    /\ UNCHANGED <<log, bucket, index, outside, faults>>

-----------------------------------------------------------------------------
(* Starting, stopping, restoring. *)

(* run_startup_checks by serve.  Of the log it changes only the trigger's    *)
(* text (abandon_zombie_starts), which count_consecutive_failures does not   *)
(* read, and it passes no destination, without which reconcile_pending is    *)
(* not called.                                                               *)
Serve ==
    /\ ~serving /\ serving' = TRUE
    /\ UNCHANGED <<log, bucket, index, job, life, restored, alarm, faults>>

\* a shell is killed, or the daemon: SIGKILL, power loss, an upgrade
Dies(p) ==
    /\ p = Daemon => serving
    /\ p # Daemon => ~Resting(p)
    /\ faults < MaxFaults /\ faults' = faults + 1
    /\ job' = [job EXCEPT ![p] = Idle]
    /\ serving' = (serving /\ p # Daemon)
    /\ UNCHANGED <<log, bucket, index, life, restored, alarm>>

\* restore: the operator decrypts the newest or an older object of the bucket
Restore(g) ==
    /\ bucket[g] # Absent
    /\ life < MaxRestores
    /\ restored' = bucket[g]
    /\ UNCHANGED <<log, bucket, index, job, serving, life, alarm, faults>>

\* adopt-restored-state, "only when the controller daemon is NOT running"
Adopt ==
    /\ restored # Absent
    /\ ~serving /\ Quiet
    /\ log' = restored.rows
    /\ life' = life + 1 /\ restored' = Absent
    /\ alarm' = FALSE
    /\ UNCHANGED <<bucket, index, job, serving, faults>>

BackupStep(p) ==
    \/ InsertRow(p) \/ Snapshot(p) \/ PutBlob(p) \/ RecordPushed(p)
    \/ PutIndex(p) \/ RecordIndexUpdated(p) \/ CountFailures(p)

Next ==
    \/ \E p \in Process : Begin(p) \/ BackupStep(p) \/ StepFails(p) \/ Dies(p)
    \/ Serve \/ Adopt
    \/ \E g \in Gen : Restore(g)

Spec == Init /\ [][Next]_vars

\* systemd restarts serve, whose scheduler keeps firing the floor timer; a
\* process that has begun a backup goes on, since every request times out.
Fairness ==
    /\ WF_vars(Serve)
    /\ WF_vars(Begin(Daemon))
    /\ \A p \in Process : WF_vars(BackupStep(p))

FairSpec == Spec /\ Fairness

-----------------------------------------------------------------------------
TypeOK ==
    /\ log \in Log
    /\ bucket \in [Gen -> AnyObject]
    /\ index \in [gen : 0..MaxGen, by : Life \cup {NotYet}]
    /\ job \in [Process -> AnyJob]
    /\ \A p \in Process : job[p].pc = "idle" => Resting(p)
    /\ serving \in BOOLEAN /\ life \in Life
    /\ restored \in AnyObject /\ (restored # Absent => life < MaxRestores)
    /\ alarm \in BOOLEAN
    /\ faults \in 0..MaxFaults

Writing(p) == job[p].pc \notin {"idle", "insert", "failed"}

(* OneWriterPerGeneration: two processes that back up at the same time never *)
(* write the same object, since the row with the number is inserted before   *)
(* anything is uploaded.                                                     *)
OneWriterPerGeneration ==
    \A p, q \in Process : p # q /\ Writing(p) /\ Writing(q) => job[p].gen # job[q].gen

(* RowMatchesObject: what backup_log says was pushed is what the bucket       *)
(* holds; the weekly integrity sweep reports the generation as corrupted     *)
(* otherwise.  A database that is restored a second time can disagree (see   *)
(* README), so at most one adoption is considered.                           *)
RowMatchesObject ==
    life <= 1 => \A g \in Gen : log[g].pushed # NotYet => bucket[g].by = log[g].pushed

(* IndexNamesObject: index.json names an object that is in the bucket, with  *)
(* the hash it has, until a restore numbers generations again.               *)
IndexNamesObject ==
    index # NoIndex =>
        /\ bucket[index.gen] # Absent
        /\ life = 0 => bucket[index.gen].by = index.by

(* IndexedMeansNamed: a row stamped as indexed is covered by index.json; it  *)
(* can be lost only when another process's older upload overwrites it.       *)
IndexedMeansNamed ==
    ~Overlap /\ life = 0 => \A g \in Gen : log[g].indexed => index.gen >= g

(* ObjectsInductive: why OneWriterPerGeneration, RowMatchesObject and         *)
(* IndexNamesObject hold.  A process that writes owns a row, which stays     *)
(* unpushed until its object is there; and every log that a restore could    *)
(* bring back agrees with the bucket.                                        *)
OwnsRow(p) ==
    /\ Writing(p) => log[job[p].gen].there
    /\ job[p].pc \in {"snapshot", "upload", "record"} => log[job[p].gen].pushed = NotYet
    /\ job[p].pc \in {"record", "publish", "stamp"} => bucket[job[p].gen].by = life

Agrees(rows) == \A g \in Gen : rows[g].pushed # NotYet => bucket[g].by = rows[g].pushed

AllAgree ==
    /\ Agrees(restored.rows)
    /\ \A g \in Gen : Agrees(bucket[g].rows) /\ bucket[g].by \in {0, NotYet}
    /\ \A p \in Process : Agrees(job[p].rows)
    /\ index.by \in {0, NotYet}

ObjectsInductive ==
    /\ TypeOK
    /\ \A p \in Process : OwnsRow(p)
    /\ OneWriterPerGeneration
    /\ life <= 1 => Agrees(log)
    /\ life = 0 => AllAgree
    /\ index = NoIndex \/ (index.gen \in Gen /\ index.by \in Life /\ bucket[index.gen].by \in Life)

(* AloneInductive: why IndexedMeansNamed holds and index.json never goes     *)
(* back: a backup that begins when no other is under way has the highest     *)
(* number.                                                                   *)
Newest(p) ==
    /\ job[p].pc = "insert" => \A g \in Numbered : g < job[p].gen
    /\ Writing(p) => \A g \in Numbered : g <= job[p].gen
    /\ job[p].pc = "stamp" => index.gen = job[p].gen

AloneInductive ==
    ~Overlap =>
        /\ \A p, q \in Process : p # q => Resting(p) \/ Resting(q)
        /\ life = 0 =>
              /\ \A p \in Process : Newest(p)
              /\ \A g \in Gen : log[g].indexed => log[g].there /\ index.gen >= g
              /\ index.gen # 0 => index.gen \in Numbered

(* IndexCatchesUp: a generation that reached the bucket is covered by        *)
(* index.json some day, by its own upload or by that of a later backup,      *)
(* unless a restore takes the row back.  (The last numbers are left out:     *)
(* each fault may use up one.)                                               *)
IndexCatchesUp ==
    \A g \in Gen : g + MaxFaults < MaxGen =>
        ((log[g].pushed # NotYet) ~> (index.gen >= g \/ log[g].pushed = NotYet))
=============================================================================
