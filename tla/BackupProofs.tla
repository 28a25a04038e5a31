---------------------------- MODULE BackupProofs ----------------------------
(***************************************************************************)
(* What backup_log, the bucket and index.json owe each other, and what the *)
(* monitor and the integrity sweep may say of them, for every number of    *)
(* processes, generations, faults and restores.                            *)
(***************************************************************************)
EXTENDS BackupWatch, TLAPS

-----------------------------------------------------------------------------
(* Types of the pieces. *)

LEMMA IdleType == Idle \in AnyJob /\ EmptyLog \in Log /\ 1 \in Gen
<1>1. 1 \in Gen BY BackupAssumption DEF Gen
<1>2. NoRow \in Row BY DEF NoRow, Row, NotYet
<1>3. EmptyLog \in Log BY <1>2 DEF EmptyLog, Log
<1>4. QED BY <1>1, <1>3 DEF Idle, Job, AnyJob, JobPc

LEMMA StartedType == Started \in Row /\ Started.there /\ Started.pushed = NotYet
                     /\ Started.indexed = FALSE
BY DEF Started, NoRow, Row, NotYet

LEMMA AbsentType ==
    /\ Absent \in AnyObject /\ Absent.by = NotYet /\ Absent.rows = EmptyLog
    /\ NotYet \notin Life
<1>1. Absent \in AnyObject BY IdleType DEF Absent, Object, AnyObject
<1>2. NotYet \notin Life BY BackupAssumption DEF NotYet, Life
<1>3. QED BY <1>1, <1>2 DEF Absent, Object

LEMMA ObjectType ==
    ASSUME NEW l \in Life, NEW rows \in Log
    PROVE  Object(l, rows) \in AnyObject /\ Object(l, rows).by = l
           /\ Object(l, rows).rows = rows
BY DEF Object, AnyObject

(* A step of one process changes its own job only. *)
LEMMA MoveJob ==
    ASSUME job \in [Process -> AnyJob], NEW p \in Process, NEW pc \in JobPc,
           Move(p, pc)
    PROVE  /\ job' \in [Process -> AnyJob]
           /\ job'[p].pc = pc /\ job'[p].gen = job[p].gen /\ job'[p].rows = job[p].rows
           /\ \A q \in Process : q # p => job'[q] = job[q]
BY DEF Move, AnyJob

LEMMA SetJob ==
    ASSUME job \in [Process -> AnyJob], NEW p \in Process, NEW j \in AnyJob,
           job' = [job EXCEPT ![p] = j]
    PROVE  /\ job' \in [Process -> AnyJob]
           /\ job'[p] = j
           /\ \A q \in Process : q # p => job'[q] = job[q]
OBVIOUS

(* A statement changes one row of the log. *)
LEMMA SetRow ==
    ASSUME log \in Log, NEW g \in Gen, NEW r \in Row, log' = [log EXCEPT ![g] = r]
    PROVE  log' \in Log /\ log'[g] = r /\ \A h \in Gen : h # g => log'[h] = log[h]
BY DEF Log

LEMMA PushedRow ==
    ASSUME log \in Log, NEW g \in Gen, life \in Life, log' = Pushed(log, g)
    PROVE  /\ log' \in Log
           /\ log'[g].pushed = life /\ log'[g].there = log[g].there
           /\ log'[g].indexed = log[g].indexed
           /\ \A h \in Gen : h # g => log'[h] = log[h]
BY DEF Log, Row, Pushed

LEMMA IndexedRow ==
    ASSUME log \in Log, NEW g \in Gen, log' = [log EXCEPT ![g].indexed = TRUE]
    PROVE  /\ log' \in Log
           /\ log'[g].pushed = log[g].pushed /\ log'[g].there = log[g].there
           /\ log'[g].indexed = TRUE
           /\ \A h \in Gen : h # g => log'[h] = log[h]
BY DEF Log, Row

(* An upload changes one object of the bucket. *)
LEMMA StoredObject ==
    ASSUME bucket \in [Gen -> AnyObject], job \in [Process -> AnyJob], life \in Life,
           NEW p \in Process, bucket' = Stored(p)
    PROVE  /\ bucket' \in [Gen -> AnyObject]
           /\ bucket'[job[p].gen].by = life /\ bucket'[job[p].gen].rows = job[p].rows
           /\ \A h \in Gen : h # job[p].gen => bucket'[h] = bucket[h]
<1>1. job[p].gen \in Gen /\ job[p].rows \in Log BY DEF AnyJob
<1>2. Object(life, job[p].rows) \in AnyObject
      /\ Object(life, job[p].rows).by = life
      /\ Object(life, job[p].rows).rows = job[p].rows
  BY <1>1 DEF Object, AnyObject
<1>3. QED BY <1>1, <1>2 DEF Stored

-----------------------------------------------------------------------------
(* Types. *)

LEMMA JobFields ==
    ASSUME TypeOK, NEW p \in Process
    PROVE  /\ job[p].pc \in JobPc /\ job[p].gen \in Gen /\ job[p].rows \in Log
           /\ log[job[p].gen] \in Row
BY DEF TypeOK, AnyJob, Log

(* A job that moves to a place other than idle, or to Idle, keeps its type. *)
LEMMA BusyType ==
    ASSUME TypeOK, NEW p \in Process, NEW pc \in JobPc \ {"idle"}, Move(p, pc)
    PROVE  /\ job' \in [Process -> AnyJob]
           /\ \A q \in Process : job'[q].pc = "idle" => job'[q] = Idle
BY MoveJob DEF TypeOK, Resting

LEMMA IdleNow ==
    ASSUME TypeOK, NEW p \in Process, job' = [job EXCEPT ![p] = Idle]
    PROVE  /\ job' \in [Process -> AnyJob]
           /\ \A q \in Process : job'[q].pc = "idle" => job'[q] = Idle
BY SetJob, IdleType DEF TypeOK, Resting

LEMMA NamedType ==
    ASSUME TypeOK, NEW p \in Process
    PROVE  /\ Named(p) \in [gen : 0..MaxGen, by : Life \cup {NotYet}]
           /\ Named(p).gen = job[p].gen /\ Named(p).by = life
           /\ job[p].gen # 0
<1>1. job[p].gen \in Gen BY JobFields
<1>2. QED BY <1>1, BackupAssumption DEF Named, NamedBy, Gen, TypeOK

LEMMA InitType == Init => TypeOK
<1> SUFFICES ASSUME Init PROVE TypeOK
  OBVIOUS
<1>1. log \in Log /\ bucket \in [Gen -> AnyObject] /\ restored \in AnyObject
  BY IdleType, AbsentType DEF Init
<1>2. index \in [gen : 0..MaxGen, by : Life \cup {NotYet}]
  BY BackupAssumption DEF Init, NoIndex
<1>3. job \in [Process -> AnyJob] /\ \A p \in Process : Resting(p)
  BY IdleType DEF Init, Resting
<1>4. life \in Life /\ faults \in 0..MaxFaults
  BY BackupAssumption DEF Init, Life
<1>5. QED BY <1>1, <1>2, <1>3, <1>4 DEF Init, TypeOK

LEMMA TypeStep == TypeOK /\ [Next]_vars => TypeOK'
<1> SUFFICES ASSUME TypeOK, [Next]_vars PROVE TypeOK'
  OBVIOUS
<1>1. ASSUME NEW p \in Process, Begin(p) PROVE TypeOK'
  <2>1. PICK n \in Gen : job' = [job EXCEPT ![p] = Job("insert", n, EmptyLog)]
    BY <1>1 DEF Begin
  <2>2. Job("insert", n, EmptyLog) \in AnyJob /\ Job("insert", n, EmptyLog).pc = "insert"
    BY IdleType DEF Job, AnyJob, JobPc
  <2>3. /\ job' \in [Process -> AnyJob]
        /\ \A q \in Process : job'[q].pc = "idle" => job'[q] = Idle
    BY <2>1, <2>2, SetJob DEF TypeOK, Resting
  <2>4. QED BY <1>1, <2>3 DEF Begin, outside, TypeOK, Resting
<1>2. ASSUME NEW p \in Process, InsertRow(p) PROVE TypeOK'
  <2>1. /\ job' \in [Process -> AnyJob]
        /\ \A q \in Process : job'[q].pc = "idle" => job'[q] = Idle
    BY <1>2, BusyType DEF InsertRow, JobPc
  <2>2. log' \in Log
    <3>1. job[p].gen \in Gen BY JobFields
    <3>2. CASE KeyFree(job[p].gen) BY <1>2, <3>1, <3>2, SetRow, StartedType DEF InsertRow, TypeOK
    <3>3. CASE ~KeyFree(job[p].gen) BY <1>2, <3>3 DEF InsertRow, TypeOK
    <3>4. QED BY <3>2, <3>3
  <2>3. QED BY <1>2, <2>1, <2>2 DEF InsertRow, outside, TypeOK, Resting
<1>3. ASSUME NEW p \in Process, Snapshot(p) PROVE TypeOK'
  <2>1. Job("upload", job[p].gen, log) \in AnyJob
        /\ Job("upload", job[p].gen, log).pc = "upload"
    BY JobFields DEF Job, AnyJob, JobPc, TypeOK
  <2>2. /\ job' \in [Process -> AnyJob]
        /\ \A q \in Process : job'[q].pc = "idle" => job'[q] = Idle
    BY <1>3, <2>1, SetJob DEF TypeOK, Resting, Snapshot
  <2>3. QED BY <1>3, <2>2 DEF Snapshot, outside, TypeOK, Resting
<1>4. ASSUME NEW p \in Process, PutBlob(p) PROVE TypeOK'
  <2>1. /\ job' \in [Process -> AnyJob]
        /\ \A q \in Process : job'[q].pc = "idle" => job'[q] = Idle
    BY <1>4, BusyType DEF PutBlob, JobPc
  <2>2. bucket' \in [Gen -> AnyObject]
    BY <1>4, StoredObject DEF PutBlob, TypeOK
  <2>3. QED BY <1>4, <2>1, <2>2 DEF PutBlob, outside, TypeOK, Resting
<1>5. ASSUME NEW p \in Process, RecordPushed(p) PROVE TypeOK'
  <2>1. /\ job' \in [Process -> AnyJob]
        /\ \A q \in Process : job'[q].pc = "idle" => job'[q] = Idle
    BY <1>5, BusyType DEF RecordPushed, JobPc
  <2>2. log' \in Log
    BY <1>5, PushedRow, JobFields DEF RecordPushed, TypeOK
  <2>3. QED BY <1>5, <2>1, <2>2 DEF RecordPushed, outside, TypeOK, Resting
<1>6. ASSUME NEW p \in Process, PutIndex(p) PROVE TypeOK'
  <2>1. /\ job' \in [Process -> AnyJob]
        /\ \A q \in Process : job'[q].pc = "idle" => job'[q] = Idle
    BY <1>6, BusyType DEF PutIndex, JobPc
  <2>2. index' \in [gen : 0..MaxGen, by : Life \cup {NotYet}]
    BY <1>6, NamedType DEF PutIndex
  <2>3. QED BY <1>6, <2>1, <2>2 DEF PutIndex, outside, TypeOK, Resting
<1>7. ASSUME NEW p \in Process, RecordIndexUpdated(p) PROVE TypeOK'
  <2>1. /\ job' \in [Process -> AnyJob]
        /\ \A q \in Process : job'[q].pc = "idle" => job'[q] = Idle
    BY <1>7, IdleNow DEF RecordIndexUpdated, Release
  <2>2. log' \in Log
    BY <1>7, IndexedRow, JobFields DEF RecordIndexUpdated, TypeOK
  <2>3. alarm' \in BOOLEAN
    BY <1>7 DEF RecordIndexUpdated
  <2>4. QED BY <1>7, <2>1, <2>2, <2>3 DEF RecordIndexUpdated, outside, TypeOK, Resting
<1>8. ASSUME NEW p \in Process, StepFails(p) PROVE TypeOK'
  <2>1. /\ job' \in [Process -> AnyJob]
        /\ \A q \in Process : job'[q].pc = "idle" => job'[q] = Idle
    BY <1>8, BusyType DEF StepFails, JobPc
  <2>2. bucket' \in [Gen -> AnyObject]
    BY <1>8, StoredObject DEF StepFails, TypeOK
  <2>3. index' \in [gen : 0..MaxGen, by : Life \cup {NotYet}]
    BY <1>8, NamedType DEF StepFails, TypeOK
  <2>4. faults' \in 0..MaxFaults
    BY <1>8, BackupAssumption DEF StepFails, TypeOK
  <2>5. QED BY <1>8, <2>1, <2>2, <2>3, <2>4 DEF StepFails, outside, TypeOK, Resting
<1>9. ASSUME NEW p \in Process, CountFailures(p) PROVE TypeOK'
  <2>1. /\ job' \in [Process -> AnyJob]
        /\ \A q \in Process : job'[q].pc = "idle" => job'[q] = Idle
    BY <1>9, IdleNow DEF CountFailures, Release
  <2>2. alarm' \in BOOLEAN
    BY <1>9 DEF CountFailures
  <2>3. QED BY <1>9, <2>1, <2>2 DEF CountFailures, outside, TypeOK, Resting
<1>10. CASE Serve
  BY <1>10 DEF Serve, TypeOK, Resting
<1>11. ASSUME NEW p \in Process, Dies(p) PROVE TypeOK'
  <2>1. /\ job' \in [Process -> AnyJob]
        /\ \A q \in Process : job'[q].pc = "idle" => job'[q] = Idle
    BY <1>11, IdleNow DEF Dies
  <2>2. faults' \in 0..MaxFaults
    BY <1>11, BackupAssumption DEF Dies, TypeOK
  <2>3. serving' \in BOOLEAN
    BY <1>11 DEF Dies
  <2>4. QED BY <1>11, <2>1, <2>2, <2>3 DEF Dies, TypeOK, Resting
<1>12. ASSUME NEW g \in Gen, Restore(g) PROVE TypeOK'
  BY <1>12 DEF Restore, TypeOK, Resting
<1>13. CASE Adopt
  <2>1. log' \in Log /\ restored' \in AnyObject
    BY <1>13, AbsentType DEF Adopt, TypeOK, AnyObject
  <2>2. life' \in Life
    <3>1. life < MaxRestores BY <1>13 DEF Adopt, TypeOK
    <3>2. QED BY <1>13, <3>1, BackupAssumption DEF Adopt, TypeOK, Life
  <2>3. alarm' \in BOOLEAN
    BY <1>13 DEF Adopt
  <2>4. QED BY <1>13, <2>1, <2>2, <2>3 DEF Adopt, TypeOK, Resting
<1>14. CASE UNCHANGED vars
  BY <1>14 DEF vars, TypeOK, Resting
<1>15. ASSUME NEW p \in Process, BackupStep(p) PROVE TypeOK'
  BY <1>15, <1>2, <1>3, <1>4, <1>5, <1>6, <1>7, <1>9 DEF BackupStep
<1>16. QED
  BY <1>1, <1>8, <1>10, <1>11, <1>12, <1>13, <1>14, <1>15, Zenon DEF Next

-----------------------------------------------------------------------------
(* The log, the objects and index.json. *)

\* what ObjectsInductive says besides the types
Objects ==
    /\ \A p \in Process : OwnsRow(p)
    /\ OneWriterPerGeneration
    /\ life <= 1 => Agrees(log)
    /\ life = 0 => AllAgree
    /\ index = NoIndex \/ (index.gen \in Gen /\ index.by \in Life /\ bucket[index.gen].by \in Life)

LEMMA ObjectsSplit == ObjectsInductive <=> TypeOK /\ Objects
BY DEF ObjectsInductive, Objects

LEMMA RestOfObjects ==
    \* A step that only moves a job, to a place where the row it owns is not
    \* at issue, or on from such a place.
    ASSUME TypeOK, Objects, NEW p \in Process,
           UNCHANGED <<log, bucket, index, life>>,
           \A q \in Process : q # p => job'[q] = job[q],
           job'[p].pc \in {"idle", "insert", "failed"} \/
              (/\ job[p].pc = "snapshot" /\ job'[p].pc = "upload"
               /\ job'[p].gen = job[p].gen),
           life = 0 => Agrees(job'[p].rows) /\ Agrees(restored'.rows)
    PROVE  Objects'
<1>1. \A q \in Process : OwnsRow(q)'
  <2> SUFFICES ASSUME NEW q \in Process PROVE OwnsRow(q)'
    OBVIOUS
  <2>1. CASE q = p BY <2>1 DEF Objects, OwnsRow, Writing
  <2>2. CASE q # p BY <2>2 DEF Objects, OwnsRow, Writing
  <2>3. QED BY <2>1, <2>2
<1>2. OneWriterPerGeneration'
  BY DEF Objects, OneWriterPerGeneration, Writing
<1>3. life' <= 1 => Agrees(log)'
  BY DEF Objects, Agrees
<1>4. life' = 0 => AllAgree'
  <2> SUFFICES ASSUME life = 0 PROVE AllAgree'
    OBVIOUS
  <2>1. AllAgree BY DEF Objects
  <2>2. \A rows : Agrees(rows) => \A g \in Gen : rows[g].pushed # NotYet => bucket'[g].by = rows[g].pushed
    BY DEF Agrees
  <2>3. \A q \in Process : \A g \in Gen :
           job'[q].rows[g].pushed # NotYet => bucket'[g].by = job'[q].rows[g].pushed
    BY <2>1, <2>2 DEF AllAgree
  <2>4. \A g \in Gen : restored'.rows[g].pushed # NotYet => bucket'[g].by = restored'.rows[g].pushed
    BY <2>2
  <2>5. QED BY <2>1, <2>2, <2>3, <2>4 DEF AllAgree, Agrees
<1>5. (index = NoIndex \/ (index.gen \in Gen /\ index.by \in Life /\ bucket[index.gen].by \in Life))'
  BY DEF Objects, NoIndex
<1>6. QED BY <1>1, <1>2, <1>3, <1>4, <1>5 DEF Objects
(* An upload, whether or not the process gets to know that it succeeded. *)
LEMMA UploadObjects ==
    ASSUME TypeOK, Objects, NEW p \in Process,
           job[p].pc = "upload", bucket' = Stored(p),
           UNCHANGED <<log, index, life, restored>>,
           Move(p, "record") \/ Move(p, "failed")
    PROVE  Objects'
<1> DEFINE g == job[p].gen
<1>1. /\ job'[p].pc \in {"record", "failed"} /\ job'[p].gen = g /\ job'[p].rows = job[p].rows
      /\ \A q \in Process : q # p => job'[q] = job[q]
  BY MoveJob DEF TypeOK, JobPc
<1>2. /\ g \in Gen /\ bucket'[g].by = life /\ bucket'[g].rows = job[p].rows
      /\ \A h \in Gen : h # g => bucket'[h] = bucket[h]
  BY StoredObject, JobFields DEF TypeOK
<1>3. /\ Writing(p) /\ log[g].there /\ log[g].pushed = NotYet
      /\ \A q \in Process : q # p /\ Writing(q) => job[q].gen # g
  BY DEF Objects, OwnsRow, OneWriterPerGeneration, Writing
<1>4. \A q \in Process : job[q].gen \in Gen
  BY JobFields
<1>5. life # NotYet /\ life \in Life
  BY AbsentType DEF TypeOK
<1> HIDE DEF g
<1>6. \A q \in Process : OwnsRow(q)'
  <2> SUFFICES ASSUME NEW q \in Process PROVE OwnsRow(q)'
    OBVIOUS
  <2>1. CASE q = p BY <2>1, <1>1, <1>2, <1>3 DEF OwnsRow, Writing
  <2>2. CASE q # p
    <3>1. job'[q] = job[q] /\ OwnsRow(q) BY <2>2, <1>1 DEF Objects
    <3>2. Writing(q) => bucket'[job[q].gen] = bucket[job[q].gen]
      BY <2>2, <1>2, <1>3, <1>4
    <3>3. QED BY <3>1, <3>2 DEF OwnsRow, Writing
  <2>3. QED BY <2>1, <2>2
<1>7. OneWriterPerGeneration'
  BY <1>1, <1>3 DEF g, Objects, OneWriterPerGeneration, Writing
<1>8. life' <= 1 => Agrees(log)'
  BY <1>2, <1>3 DEF Objects, Agrees
<1>9. life' = 0 => AllAgree'
  <2> SUFFICES ASSUME life = 0 PROVE AllAgree'
    OBVIOUS
  <2>1. AllAgree BY DEF Objects
  <2>2. bucket[g].by \in {0, NotYet} /\ bucket'[g].by = 0 /\ NotYet # 0
    BY <2>1, <1>2, <1>5 DEF AllAgree
  <2>3. \A rows : Agrees(rows) => \A h \in Gen : rows[h].pushed # NotYet => bucket'[h].by = rows[h].pushed
    BY <1>2, <2>2 DEF Agrees
  <2>4. Agrees(job[p].rows) BY <2>1 DEF AllAgree
  <2>5. \A h \in Gen : Agrees(bucket'[h].rows)
    BY <1>2, <2>1, <2>4 DEF AllAgree
  <2>6. \A q \in Process : Agrees(job'[q].rows)
    BY <1>1, <2>1, <2>4 DEF AllAgree
  <2>7. \A h \in Gen : \A k \in Gen :
           bucket'[h].rows[k].pushed # NotYet => bucket'[k].by = bucket'[h].rows[k].pushed
    BY <2>3, <2>5
  <2>8. \A q \in Process : \A k \in Gen :
           job'[q].rows[k].pushed # NotYet => bucket'[k].by = job'[q].rows[k].pushed
    BY <2>3, <2>6
  <2>9. \A k \in Gen : restored'.rows[k].pushed # NotYet => bucket'[k].by = restored'.rows[k].pushed
    BY <2>1, <2>3 DEF AllAgree
  <2>10. \A h \in Gen : bucket'[h].by \in {0, NotYet}
    BY <1>2, <2>1, <2>2 DEF AllAgree
  <2>11. index'.by \in {0, NotYet}
    BY <2>1 DEF AllAgree
  <2>12. QED BY <2>7, <2>8, <2>9, <2>10, <2>11 DEF AllAgree, Agrees
<1>10. (index = NoIndex \/ (index.gen \in Gen /\ index.by \in Life /\ bucket[index.gen].by \in Life))'
  BY <1>2, <1>5 DEF Objects, NoIndex
<1>11. QED BY <1>6, <1>7, <1>8, <1>9, <1>10 DEF Objects

(* The same of an upload of index.json. *)
LEMMA PublishObjects ==
    ASSUME TypeOK, Objects, NEW p \in Process,
           job[p].pc = "publish", index' = Named(p),
           UNCHANGED <<log, bucket, life, restored>>,
           Move(p, "stamp") \/ Move(p, "failed")
    PROVE  Objects'
<1>1. /\ job'[p].pc \in {"stamp", "failed"} /\ job'[p].gen = job[p].gen /\ job'[p].rows = job[p].rows
      /\ \A q \in Process : q # p => job'[q] = job[q]
  BY MoveJob DEF TypeOK, JobPc
<1>2. Writing(p) /\ log[job[p].gen].there /\ bucket[job[p].gen].by = life
  BY DEF Objects, OwnsRow, Writing
<1>3. \A q \in Process : OwnsRow(q)'
  <2> SUFFICES ASSUME NEW q \in Process PROVE OwnsRow(q)'
    OBVIOUS
  <2>1. CASE q = p BY <2>1, <1>1, <1>2 DEF OwnsRow, Writing
  <2>2. CASE q # p BY <2>2, <1>1 DEF Objects, OwnsRow, Writing
  <2>3. QED BY <2>1, <2>2
<1>4. OneWriterPerGeneration'
  BY <1>1, <1>2 DEF Objects, OneWriterPerGeneration, Writing
<1>5. life' <= 1 => Agrees(log)'
  BY DEF Objects, Agrees
<1>6. index'.gen = job[p].gen /\ index'.by = life /\ job[p].gen \in Gen /\ life \in Life
  BY NamedType, JobFields DEF TypeOK
<1>7. life' = 0 => AllAgree'
  <2> SUFFICES ASSUME life = 0 PROVE AllAgree'
    OBVIOUS
  <2>1. AllAgree BY DEF Objects
  <2>2. \A q \in Process : job'[q].rows = job[q].rows
    BY <1>1
  <2>3. QED BY <2>1, <2>2, <1>6 DEF AllAgree, Agrees
<1>8. (index = NoIndex \/ (index.gen \in Gen /\ index.by \in Life /\ bucket[index.gen].by \in Life))'
  BY <1>2, <1>6
<1>9. QED BY <1>3, <1>4, <1>5, <1>7, <1>8 DEF Objects

LEMMA InsertObjects ==
    ASSUME TypeOK, Objects, NEW p \in Process, InsertRow(p)
    PROVE  Objects'
<1> DEFINE g == job[p].gen
<1>1. CASE ~KeyFree(g)
  <2>1. job'[p].pc = "failed" /\ job'[p].rows = job[p].rows
        /\ \A q \in Process : q # p => job'[q] = job[q]
    BY <1>1, MoveJob DEF InsertRow, TypeOK, JobPc
  <2>2. life = 0 => Agrees(job'[p].rows) /\ Agrees(restored'.rows)
    BY <2>1 DEF Objects, AllAgree, InsertRow, outside
  <2>3. UNCHANGED <<log, bucket, index, life>>
    BY <1>1 DEF InsertRow, outside
  <2>4. QED BY <2>1, <2>2, <2>3, RestOfObjects
<1>2. CASE KeyFree(g)
  <2>1. /\ job'[p].pc = "snapshot" /\ job'[p].gen = g /\ job'[p].rows = job[p].rows
        /\ \A q \in Process : q # p => job'[q] = job[q]
    BY <1>2, MoveJob DEF InsertRow, TypeOK, JobPc
  <2>2. /\ g \in Gen /\ log'[g].there /\ log'[g].pushed = NotYet
        /\ \A h \in Gen : h # g => log'[h] = log[h]
    <3>1. log' = [log EXCEPT ![g] = Started] BY <1>2 DEF InsertRow
    <3>2. g \in Gen BY JobFields
    <3>3. QED BY <3>1, <3>2, SetRow, StartedType DEF TypeOK
  <2>3. ~log[g].there BY <1>2 DEF KeyFree
  <2>4. \A q \in Process : job[q].gen \in Gen BY JobFields
  <2>5. UNCHANGED <<bucket, index, life, restored>> BY <1>2 DEF InsertRow, outside
  <2> HIDE DEF g
  <2>6. \A q \in Process : Writing(q) => job[q].gen # g
    BY <2>3 DEF Objects, OwnsRow
  <2>7. \A q \in Process : OwnsRow(q)'
    <3> SUFFICES ASSUME NEW q \in Process PROVE OwnsRow(q)'
      OBVIOUS
    <3>1. CASE q = p BY <3>1, <2>1, <2>2 DEF OwnsRow, Writing
    <3>2. CASE q # p
      <4>1. job'[q] = job[q] /\ OwnsRow(q) BY <3>2, <2>1 DEF Objects
      <4>2. Writing(q) => log'[job[q].gen] = log[job[q].gen]
        BY <2>2, <2>4, <2>6
      <4>3. QED BY <4>1, <4>2, <2>5 DEF OwnsRow, Writing
    <3>3. QED BY <3>1, <3>2
  <2>8. OneWriterPerGeneration'
    BY <2>1, <2>6 DEF Objects, OneWriterPerGeneration, Writing
  <2>9. life' <= 1 => Agrees(log)'
    BY <2>2, <2>5 DEF Objects, Agrees
  <2>10. life' = 0 => AllAgree'
    <3> SUFFICES ASSUME life = 0 PROVE AllAgree'
      BY <2>5
    <3>1. AllAgree BY DEF Objects
    <3>2. \A q \in Process : job'[q].rows = job[q].rows
      BY <2>1
    <3>3. QED BY <3>1, <3>2, <2>5 DEF AllAgree, Agrees
  <2>11. (index = NoIndex \/ (index.gen \in Gen /\ index.by \in Life /\ bucket[index.gen].by \in Life))'
    BY <2>5 DEF Objects, NoIndex
  <2>12. QED BY <2>7, <2>8, <2>9, <2>10, <2>11 DEF Objects
<1>3. QED BY <1>1, <1>2
LEMMA RecordObjects ==
    ASSUME TypeOK, Objects, NEW p \in Process, RecordPushed(p)
    PROVE  Objects'
<1> DEFINE g == job[p].gen
<1>1. /\ job'[p].pc = "publish" /\ job'[p].gen = g /\ job'[p].rows = job[p].rows
      /\ \A q \in Process : q # p => job'[q] = job[q]
  BY MoveJob DEF RecordPushed, TypeOK, JobPc
<1>2. /\ g \in Gen /\ log'[g].pushed = life /\ log'[g].there = log[g].there
      /\ \A h \in Gen : h # g => log'[h] = log[h]
  BY PushedRow, JobFields DEF RecordPushed, TypeOK
<1>3. UNCHANGED <<bucket, index, life, restored>>
  BY DEF RecordPushed, outside
<1>4. /\ log[g].there /\ bucket[g].by = life
      /\ \A q \in Process : q # p /\ Writing(q) => job[q].gen # g
  BY DEF RecordPushed, Objects, OwnsRow, OneWriterPerGeneration, Writing
<1>5. \A q \in Process : job[q].gen \in Gen
  BY JobFields
<1> HIDE DEF g
<1>6. \A q \in Process : OwnsRow(q)'
  <2> SUFFICES ASSUME NEW q \in Process PROVE OwnsRow(q)'
    OBVIOUS
  <2>1. CASE q = p BY <2>1, <1>1, <1>2, <1>3, <1>4 DEF OwnsRow, Writing
  <2>2. CASE q # p
    <3>1. job'[q] = job[q] /\ OwnsRow(q) BY <2>2, <1>1 DEF Objects
    <3>2. Writing(q) => log'[job[q].gen] = log[job[q].gen]
      BY <2>2, <1>2, <1>4, <1>5
    <3>3. QED BY <3>1, <3>2, <1>3 DEF OwnsRow, Writing
  <2>3. QED BY <2>1, <2>2
<1>7. OneWriterPerGeneration'
  BY <1>1, <1>4 DEF g, Objects, OneWriterPerGeneration, Writing
<1>8. life' <= 1 => Agrees(log)'
  BY <1>2, <1>3, <1>4 DEF Objects, Agrees
<1>9. life' = 0 => AllAgree'
  <2> SUFFICES ASSUME life = 0 PROVE AllAgree'
    BY <1>3
  <2>1. AllAgree BY DEF Objects
  <2>2. \A q \in Process : job'[q].rows = job[q].rows
    BY <1>1
  <2>3. QED BY <2>1, <2>2, <1>3 DEF AllAgree, Agrees
<1>10. (index = NoIndex \/ (index.gen \in Gen /\ index.by \in Life /\ bucket[index.gen].by \in Life))'
  BY <1>3 DEF Objects, NoIndex
<1>11. QED BY <1>6, <1>7, <1>8, <1>9, <1>10 DEF Objects

\* No log is ever restored that holds a pushed row while its job rests.
LEMMA EmptyAgrees == Agrees(EmptyLog) /\ Agrees(Idle.rows)
BY DEF Agrees, EmptyLog, NoRow, Idle, Job

LEMMA StampObjects ==
    ASSUME TypeOK, Objects, NEW p \in Process, RecordIndexUpdated(p)
    PROVE  Objects'
<1> DEFINE g == job[p].gen
<1>1. /\ job'[p] = Idle /\ job'[p].pc = "idle"
      /\ \A q \in Process : q # p => job'[q] = job[q]
  BY SetJob, IdleType DEF RecordIndexUpdated, Release, TypeOK, Idle, Job
<1>2. /\ g \in Gen /\ log'[g].pushed = log[g].pushed /\ log'[g].there = log[g].there
      /\ \A h \in Gen : h # g => log'[h] = log[h]
  BY IndexedRow, JobFields DEF RecordIndexUpdated, TypeOK
<1>3. UNCHANGED <<bucket, index, life, restored>>
  BY DEF RecordIndexUpdated, outside
<1>4. \A q \in Process : job[q].gen \in Gen
  BY JobFields
<1> HIDE DEF g
<1>5. \A h \in Gen : log'[h].pushed = log[h].pushed /\ log'[h].there = log[h].there
  BY <1>2
<1>6. \A q \in Process : OwnsRow(q)'
  BY <1>1, <1>3, <1>4, <1>5 DEF Objects, OwnsRow, Writing
<1>7. OneWriterPerGeneration'
  BY <1>1 DEF Objects, OneWriterPerGeneration, Writing
<1>8. life' <= 1 => Agrees(log)'
  BY <1>3, <1>5 DEF Objects, Agrees
<1>9. life' = 0 => AllAgree'
  <2> SUFFICES ASSUME life = 0 PROVE AllAgree'
    BY <1>3
  <2>1. AllAgree BY DEF Objects
  <2>2. \A q \in Process : Agrees(job'[q].rows)
    BY <1>1, <2>1, EmptyAgrees DEF AllAgree
  <2>3. \A q \in Process : \A k \in Gen :
           job'[q].rows[k].pushed # NotYet => bucket'[k].by = job'[q].rows[k].pushed
    BY <2>2, <1>3 DEF Agrees
  <2>4. QED BY <2>1, <2>3, <1>3 DEF AllAgree, Agrees
<1>10. (index = NoIndex \/ (index.gen \in Gen /\ index.by \in Life /\ bucket[index.gen].by \in Life))'
  BY <1>3 DEF Objects, NoIndex
<1>11. QED BY <1>6, <1>7, <1>8, <1>9, <1>10 DEF Objects

LEMMA AdoptObjects ==
    ASSUME TypeOK, Objects, Adopt
    PROVE  Objects'
<1>1. \A q \in Process : job'[q] = Idle /\ job'[q].pc = "idle"
  BY DEF Adopt, Quiet, Resting, Idle, Job
<1>2. UNCHANGED <<bucket, index>> /\ life' = life + 1 /\ life \in Nat /\ log' = restored.rows
  BY DEF Adopt, TypeOK, Life
<1>3. \A q \in Process : OwnsRow(q)'
  BY <1>1 DEF OwnsRow, Writing
<1>4. OneWriterPerGeneration'
  BY <1>1 DEF OneWriterPerGeneration, Writing
<1>5. life' <= 1 => Agrees(log)'
  <2> SUFFICES ASSUME life' <= 1 PROVE Agrees(log)'
    OBVIOUS
  <2>1. life = 0 BY <1>2
  <2>2. Agrees(restored.rows) BY <2>1 DEF Objects, AllAgree
  <2>3. QED BY <2>2, <1>2 DEF Agrees
<1>6. life' = 0 => AllAgree'
  BY <1>2
<1>7. (index = NoIndex \/ (index.gen \in Gen /\ index.by \in Life /\ bucket[index.gen].by \in Life))'
  BY <1>2 DEF Objects, NoIndex
<1>8. QED BY <1>3, <1>4, <1>5, <1>6, <1>7 DEF Objects

LEMMA ObjectsInit == Init => ObjectsInductive
<1> SUFFICES ASSUME Init PROVE ObjectsInductive
  OBVIOUS
<1>1. TypeOK BY InitType
<1>2. \A p \in Process : job[p] = Idle /\ job[p].pc = "idle" BY DEF Init, Idle, Job
<1>3. \A g \in Gen : bucket[g] = Absent BY DEF Init
<1>4. \A p \in Process : OwnsRow(p) BY <1>2 DEF OwnsRow, Writing
<1>5. OneWriterPerGeneration BY <1>2 DEF OneWriterPerGeneration, Writing
<1>6. Agrees(log) BY EmptyAgrees DEF Init
<1>7. AllAgree BY <1>2, <1>3, EmptyAgrees, AbsentType DEF Init, AllAgree, NoIndex
<1>8. index = NoIndex BY DEF Init
<1>9. QED BY <1>1, <1>4, <1>5, <1>6, <1>7, <1>8 DEF ObjectsInductive

LEMMA ObjectsStep == ObjectsInductive /\ [Next]_vars => ObjectsInductive'
<1> SUFFICES ASSUME TypeOK, Objects, [Next]_vars PROVE Objects'
  BY ObjectsSplit, TypeStep DEF ObjectsInductive, Objects
<1>1. ASSUME NEW p \in Process, Begin(p) PROVE Objects'
  <2>1. PICK n \in Gen : job' = [job EXCEPT ![p] = Job("insert", n, EmptyLog)]
    BY <1>1 DEF Begin
  <2>2. /\ Job("insert", n, EmptyLog) \in AnyJob
        /\ Job("insert", n, EmptyLog).pc = "insert" /\ Job("insert", n, EmptyLog).rows = EmptyLog
    BY IdleType DEF Job, AnyJob, JobPc
  <2>3. /\ job'[p].pc = "insert" /\ job'[p].rows = EmptyLog
        /\ \A q \in Process : q # p => job'[q] = job[q]
    BY <2>1, <2>2, SetJob DEF TypeOK
  <2>4. UNCHANGED <<log, bucket, index, life, restored>>
    BY <1>1 DEF Begin, outside
  <2>5. life = 0 => Agrees(job'[p].rows) /\ Agrees(restored'.rows)
    BY <2>3, <2>4, EmptyAgrees DEF Objects, AllAgree
  <2>6. QED BY <2>3, <2>4, <2>5, RestOfObjects
<1>2. ASSUME NEW p \in Process, InsertRow(p) PROVE Objects'
  BY <1>2, InsertObjects
<1>3. ASSUME NEW p \in Process, Snapshot(p) PROVE Objects'
  <2>1. /\ Job("upload", job[p].gen, log) \in AnyJob
        /\ Job("upload", job[p].gen, log).pc = "upload"
        /\ Job("upload", job[p].gen, log).gen = job[p].gen
        /\ Job("upload", job[p].gen, log).rows = log
    BY JobFields DEF Job, AnyJob, JobPc, TypeOK
  <2>2. /\ job[p].pc = "snapshot" /\ job'[p].pc = "upload"
        /\ job'[p].gen = job[p].gen /\ job'[p].rows = log
        /\ \A q \in Process : q # p => job'[q] = job[q]
    BY <1>3, <2>1, SetJob DEF TypeOK, Snapshot
  <2>3. UNCHANGED <<log, bucket, index, life, restored>>
    BY <1>3 DEF Snapshot, outside
  <2>4. life = 0 => Agrees(job'[p].rows) /\ Agrees(restored'.rows)
    BY <2>2, <2>3 DEF Objects, AllAgree
  <2>5. QED BY <2>2, <2>3, <2>4, RestOfObjects
<1>4. ASSUME NEW p \in Process, PutBlob(p) PROVE Objects'
  BY <1>4, UploadObjects DEF PutBlob, outside
<1>5. ASSUME NEW p \in Process, RecordPushed(p) PROVE Objects'
  BY <1>5, RecordObjects
<1>6. ASSUME NEW p \in Process, PutIndex(p) PROVE Objects'
  BY <1>6, PublishObjects DEF PutIndex, outside
<1>7. ASSUME NEW p \in Process, RecordIndexUpdated(p) PROVE Objects'
  BY <1>7, StampObjects
<1>8. ASSUME NEW p \in Process, StepFails(p) PROVE Objects'
  <2>1. CASE bucket' = bucket /\ index' = index
    <3>1. /\ job'[p].pc = "failed" /\ job'[p].rows = job[p].rows
          /\ \A q \in Process : q # p => job'[q] = job[q]
      BY <1>8, MoveJob DEF StepFails, TypeOK, JobPc
    <3>2. UNCHANGED <<log, bucket, index, life, restored>>
      BY <1>8, <2>1 DEF StepFails, outside
    <3>3. life = 0 => Agrees(job'[p].rows) /\ Agrees(restored'.rows)
      BY <3>1, <3>2 DEF Objects, AllAgree
    <3>4. QED BY <3>1, <3>2, <3>3, RestOfObjects
  <2>2. CASE bucket' # bucket
    <3>1. job[p].pc = "upload" /\ bucket' = Stored(p) /\ index' = index
      BY <1>8, <2>2 DEF StepFails
    <3>2. QED BY <1>8, <3>1, UploadObjects DEF StepFails, outside
  <2>3. CASE index' # index
    <3>1. job[p].pc = "publish" /\ index' = Named(p) /\ bucket' = bucket
      BY <1>8, <2>3 DEF StepFails
    <3>2. QED BY <1>8, <3>1, PublishObjects DEF StepFails, outside
  <2>4. QED BY <2>1, <2>2, <2>3
<1>9. ASSUME NEW p \in Process, job' = [job EXCEPT ![p] = Idle],
             UNCHANGED <<log, bucket, index, life, restored>>
      PROVE  Objects'
  <2>1. /\ job'[p] = Idle /\ job'[p].pc = "idle"
        /\ \A q \in Process : q # p => job'[q] = job[q]
    BY <1>9, SetJob, IdleType DEF TypeOK, Idle, Job
  <2>2. life = 0 => Agrees(job'[p].rows) /\ Agrees(restored'.rows)
    BY <1>9, <2>1, EmptyAgrees DEF Objects, AllAgree
  <2>3. QED BY <1>9, <2>1, <2>2, RestOfObjects
<1>10. ASSUME NEW p \in Process, CountFailures(p) PROVE Objects'
  BY <1>10, <1>9 DEF CountFailures, Release, outside
<1>11. ASSUME NEW p \in Process, Dies(p) PROVE Objects'
  BY <1>11, <1>9 DEF Dies
<1>12. CASE Serve \/ UNCHANGED vars
  <2>1. UNCHANGED <<log, bucket, index, life, restored, job>>
    BY <1>12 DEF Serve, vars
  <2>2. QED BY <2>1 DEF Objects, OwnsRow, OneWriterPerGeneration, Writing, AllAgree, Agrees, NoIndex
<1>13. ASSUME NEW g \in Gen, Restore(g) PROVE Objects'
  <2>1. UNCHANGED <<log, bucket, index, life, job>> /\ restored' = bucket[g]
    BY <1>13 DEF Restore
  <2>2. life = 0 => AllAgree'
    BY <2>1 DEF Objects, AllAgree, Agrees
  <2>3. QED BY <2>1, <2>2 DEF Objects, OwnsRow, OneWriterPerGeneration, Writing, Agrees, NoIndex
<1>14. CASE Adopt
  BY <1>14, AdoptObjects
<1>15. ASSUME NEW p \in Process, BackupStep(p) PROVE Objects'
  BY <1>15, <1>2, <1>3, <1>4, <1>5, <1>6, <1>7, <1>10 DEF BackupStep
<1>16. QED
  BY <1>1, <1>8, <1>11, <1>12, <1>13, <1>14, <1>15, Zenon DEF Next

(* For every number of processes, generations, faults and restores, whatever *)
(* overlaps: a generation has one writer, a row that says pushed names the   *)
(* object in the bucket, and so does index.json.                             *)
THEOREM BackupObjects == Spec => []ObjectsInductive
<1>1. QED BY ObjectsInit, ObjectsStep, PTL DEF Spec

(* The three promises of a backup that follow: no object has two writers at  *)
(* the same time, and the log and index.json tell the truth.                 *)
THEOREM BackupTruth == Spec => [](OneWriterPerGeneration /\ RowMatchesObject /\ IndexNamesObject)
<1>1. ObjectsInductive => OneWriterPerGeneration
  BY DEF ObjectsInductive
<1>2. ObjectsInductive => RowMatchesObject
  BY DEF ObjectsInductive, RowMatchesObject, Agrees
<1>3. ObjectsInductive => IndexNamesObject
  <2> SUFFICES ASSUME ObjectsInductive, index # NoIndex
               PROVE  /\ bucket[index.gen] # Absent
                      /\ life = 0 => bucket[index.gen].by = index.by
    BY DEF IndexNamesObject
  <2>1. index.gen \in Gen /\ bucket[index.gen].by \in Life
    BY DEF ObjectsInductive
  <2>2. bucket[index.gen] # Absent BY <2>1, AbsentType
  <2>3. ASSUME life = 0 PROVE bucket[index.gen].by = index.by
    <3>1. AllAgree BY <2>3 DEF ObjectsInductive
    <3>2. index.by \in Life BY DEF ObjectsInductive
    <3>3. QED BY <2>1, <3>1, <3>2, AbsentType DEF AllAgree
  <2>4. QED BY <2>2, <2>3
<1>4. QED BY <1>1, <1>2, <1>3, BackupObjects, PTL

-----------------------------------------------------------------------------
(* One backup at a time: index.json only advances. *)

Single == \A p, q \in Process : p # q => Resting(p) \/ Resting(q)

Ordered ==
    /\ \A p \in Process : Newest(p)
    /\ \A g \in Gen : log[g].indexed => log[g].there /\ index.gen >= g
    /\ index.gen # 0 => index.gen \in Numbered

LEMMA AloneSplit == AloneInductive <=> (~Overlap => Single /\ (life = 0 => Ordered))
BY DEF AloneInductive, Single, Ordered

LEMMA SingleStep ==
    ASSUME TypeOK, Single, ~Overlap, [Next]_vars
    PROVE  Single'
<1>1. ASSUME NEW p \in Process, ~Resting(p) \/ Quiet,
             \A q \in Process : q # p => job'[q] = job[q]
      PROVE  Single'
  BY <1>1 DEF Single, Resting, Quiet
<1>2. ASSUME NEW p \in Process, Begin(p) PROVE Single'
  <2>1. PICK n \in Gen : job' = [job EXCEPT ![p] = Job("insert", n, EmptyLog)]
    BY <1>2 DEF Begin
  <2>2. Job("insert", n, EmptyLog) \in AnyJob
    BY IdleType DEF Job, AnyJob, JobPc
  <2>3. Quiet BY <1>2 DEF Begin
  <2>4. QED BY <1>1, <2>1, <2>2, <2>3, SetJob DEF TypeOK
<1>3. ASSUME NEW p \in Process, job[p].pc # "idle",
             \/ \E pc \in JobPc : Move(p, pc)
             \/ \E j \in AnyJob : job' = [job EXCEPT ![p] = j]
      PROVE  Single'
  <2>1. ~Resting(p) BY <1>3 DEF Resting, Idle, Job
  <2>2. \A q \in Process : q # p => job'[q] = job[q]
    BY <1>3, MoveJob, SetJob DEF TypeOK
  <2>3. QED BY <1>1, <2>1, <2>2
<1>4. ASSUME NEW p \in Process, BackupStep(p) PROVE Single'
  <2>1. job[p].pc # "idle"
    BY <1>4 DEF BackupStep, InsertRow, Snapshot, PutBlob, RecordPushed, PutIndex,
               RecordIndexUpdated, CountFailures
  <2>2. Job("upload", job[p].gen, log) \in AnyJob
    BY JobFields DEF Job, AnyJob, JobPc, TypeOK
  <2>3. \/ \E pc \in JobPc : Move(p, pc)
        \/ \E j \in AnyJob : job' = [job EXCEPT ![p] = j]
    <3>1. CASE InsertRow(p) BY <3>1 DEF InsertRow, JobPc
    <3>2. CASE Snapshot(p) BY <3>2, <2>2 DEF Snapshot
    <3>3. CASE PutBlob(p) BY <3>3 DEF PutBlob, JobPc
    <3>4. CASE RecordPushed(p) BY <3>4 DEF RecordPushed, JobPc
    <3>5. CASE PutIndex(p) BY <3>5 DEF PutIndex, JobPc
    <3>6. CASE RecordIndexUpdated(p) BY <3>6, IdleType DEF RecordIndexUpdated, Release
    <3>7. CASE CountFailures(p) BY <3>7, IdleType DEF CountFailures, Release
    <3>8. QED BY <1>4, <3>1, <3>2, <3>3, <3>4, <3>5, <3>6, <3>7 DEF BackupStep
  <2>4. QED BY <1>3, <2>1, <2>3
<1>5. ASSUME NEW p \in Process, StepFails(p) PROVE Single'
  BY <1>5, <1>3 DEF StepFails, JobPc
<1>6. ASSUME NEW p \in Process, Dies(p) PROVE Single'
  <2>1. job'[p] = Idle /\ \A q \in Process : q # p => job'[q] = job[q]
    BY <1>6, SetJob, IdleType DEF Dies, TypeOK
  <2>2. QED BY <2>1 DEF Single, Resting
<1>7. CASE Serve \/ Adopt \/ (\E g \in Gen : Restore(g)) \/ UNCHANGED vars
  <2>1. job' = job BY <1>7 DEF Serve, Adopt, Restore, vars
  <2>2. QED BY <2>1 DEF Single, Resting
<1>8. QED BY <1>2, <1>4, <1>5, <1>6, <1>7, Zenon DEF Next

LEMMA Others ==
    ASSUME TypeOK, Single, NEW p \in Process, job[p].pc # "idle",
           \A q \in Process : q # p => job'[q] = job[q]
    PROVE  \A q \in Process : q # p => job'[q].pc = "idle"
BY DEF Single, Resting, Idle, Job

(* What keeps the order: a step after which the other processes rest, the    *)
(* rows that exist are the same, and the index is the same or names this     *)
(* backup.                                                                   *)
LEMMA OrderedKept ==
    ASSUME TypeOK, Ordered, NEW p \in Process, OwnsRow(p),
           \A q \in Process : q # p => job'[q].pc = "idle",
           \A g \in Gen : log'[g].there = log[g].there,
           \A g \in Gen : log'[g].indexed =>
                log[g].indexed \/ (job[p].pc = "stamp" /\ g = job[p].gen),
           \/ index' = index
           \/ index'.gen = job[p].gen /\ job[p].pc = "publish",
           \/ job'[p].pc \in {"idle", "failed"}
           \/ Writing(p) /\ job'[p].gen = job[p].gen /\ job'[p].pc \in JobPc \ {"insert", "stamp"}
           \/ /\ job[p].pc = "publish" /\ job'[p].pc = "stamp"
              /\ job'[p].gen = job[p].gen /\ index'.gen = job[p].gen
    PROVE  Ordered'
<1>1. Numbered' = Numbered BY DEF Numbered
<1>2. job[p].gen \in Gen /\ Newest(p) BY JobFields DEF Ordered
<1>3. job[p].pc \in {"publish", "stamp"} => Writing(p) BY DEF Writing
<1>4. Writing(p) => \A g \in Numbered : g <= job[p].gen
  BY <1>2 DEF Newest
<1>5. Writing(p) => job[p].gen \in Numbered
  BY <1>2 DEF OwnsRow, Numbered
<1>6. \A q \in Process : Newest(q)'
  <2> SUFFICES ASSUME NEW q \in Process PROVE Newest(q)'
    OBVIOUS
  <2>1. CASE q # p BY <2>1 DEF Newest, Writing
  <2>2. CASE q = p
    <3>1. job'[p].pc # "insert" OBVIOUS
    <3>2. Writing(p)' => \A g \in Numbered' : g <= job'[p].gen
      BY <1>1, <1>3, <1>4 DEF Writing
    <3>3. job'[p].pc = "stamp" => index'.gen = job'[p].gen OBVIOUS
    <3>4. QED BY <2>2, <3>1, <3>2, <3>3 DEF Newest
  <2>3. QED BY <2>1, <2>2
<1>7. \A g \in Gen : log'[g].indexed => log'[g].there /\ index'.gen >= g
  <2> SUFFICES ASSUME NEW g \in Gen, log'[g].indexed
               PROVE  log[g].there /\ index'.gen >= g
    OBVIOUS
  <2>1. CASE log[g].indexed
    <3>1. g \in Numbered /\ index.gen >= g BY <2>1 DEF Ordered, Numbered
    <3>2. index' = index \/ index'.gen >= g
      BY <1>2, <1>3, <1>4, <3>1 DEF Gen
    <3>3. QED BY <3>1, <3>2 DEF Numbered
  <2>2. CASE job[p].pc = "stamp" /\ g = job[p].gen
    <3>1. index'.gen = g BY <1>2, <2>2 DEF Newest
    <3>2. QED BY <1>3, <1>5, <2>2, <3>1 DEF Numbered, Gen
  <2>3. QED BY <2>1, <2>2
<1>8. index'.gen # 0 => index'.gen \in Numbered'
  BY <1>1, <1>3, <1>5 DEF Ordered
<1>9. QED BY <1>6, <1>7, <1>8 DEF Ordered

(* A backup begins with a number above all others. *)
LEMMA BeginOrdered ==
    ASSUME TypeOK, Single, Ordered, ~Overlap, NEW p \in Process, Begin(p)
    PROVE  Ordered'
<1>1. PICK n \in Gen : IsNext(n) /\ job' = [job EXCEPT ![p] = Job("insert", n, EmptyLog)]
  BY DEF Begin
<1>2. Job("insert", n, EmptyLog) \in AnyJob
  BY IdleType DEF Job, AnyJob, JobPc
<1>3. /\ job'[p].pc = "insert" /\ job'[p].gen = n
      /\ \A q \in Process : q # p => job'[q] = job[q]
  BY <1>1, <1>2, SetJob DEF TypeOK, Job
<1>4. \A q \in Process : job[q].pc = "idle"
  BY DEF Begin, Quiet, Resting, Idle, Job
<1>5. UNCHANGED <<log, index>> /\ Numbered' = Numbered BY DEF Begin, Numbered
<1>6. \A q \in Process : Newest(q)'
  <2> SUFFICES ASSUME NEW q \in Process PROVE Newest(q)'
    OBVIOUS
  <2>1. CASE q = p BY <1>1, <1>3, <1>5, <2>1 DEF Newest, Writing, IsNext
  <2>2. CASE q # p BY <1>3, <1>4, <2>2 DEF Newest, Writing
  <2>3. QED BY <2>1, <2>2
<1>7. QED BY <1>5, <1>6 DEF Ordered

(* The row joins the log, or its number was taken. *)
LEMMA InsertOrdered ==
    ASSUME TypeOK, Single, Ordered, NEW p \in Process, InsertRow(p)
    PROVE  Ordered'
<1> DEFINE g == job[p].gen
<1>1. g \in Gen /\ Newest(p) /\ job[p].pc = "insert"
  BY JobFields DEF Ordered, InsertRow
<1>2. \A h \in Numbered : h < g BY <1>1 DEF Newest
<1>3. /\ job'[p].pc \in {"snapshot", "failed"} /\ job'[p].gen = g
      /\ \A q \in Process : q # p => job'[q] = job[q]
  BY MoveJob DEF InsertRow, TypeOK, JobPc
<1>4. \A q \in Process : q # p => job'[q].pc = "idle"
  BY <1>1, <1>3, Others
<1>5. index' = index BY DEF InsertRow
<1>6. CASE KeyFree(g)
  <2>1. log' = [log EXCEPT ![g] = Started] BY <1>6 DEF InsertRow
  <2>2. /\ log'[g] = Started
        /\ \A h \in Gen : h # g => log'[h] = log[h]
    BY <1>1, <2>1, SetRow, StartedType DEF TypeOK
  <2>3. Numbered' = Numbered \cup {g}
    BY <1>1, <2>2, StartedType DEF Numbered
  <2>4. \A q \in Process : Newest(q)'
    <3> SUFFICES ASSUME NEW q \in Process PROVE Newest(q)'
      OBVIOUS
    <3>1. CASE q # p BY <1>4, <3>1 DEF Newest, Writing
    <3>2. CASE q = p
      <4>1. \A h \in Numbered' : h <= job'[p].gen
        BY <1>1, <1>2, <1>3, <2>3 DEF Gen, Numbered
      <4>2. QED BY <1>3, <3>2, <4>1 DEF Newest
    <3>3. QED BY <3>1, <3>2
  <2>5. \A h \in Gen : log'[h].indexed => log'[h].there /\ index'.gen >= h
    BY <1>5, <2>2, StartedType DEF Ordered
  <2>6. index'.gen # 0 => index'.gen \in Numbered'
    BY <1>5, <2>3 DEF Ordered
  <2>7. QED BY <2>4, <2>5, <2>6 DEF Ordered
<1>7. CASE ~KeyFree(g)
  <2>1. log' = log /\ job'[p].pc = "failed"
    BY <1>7, MoveJob DEF InsertRow, TypeOK, JobPc
  <2>2. Numbered' = Numbered BY <2>1 DEF Numbered
  <2>3. \A q \in Process : Newest(q)'
    BY <1>4, <2>1 DEF Newest, Writing
  <2>4. QED BY <1>5, <2>1, <2>2, <2>3 DEF Ordered
<1>8. QED BY <1>6, <1>7

LEMMA OrderedStep ==
    ASSUME ObjectsInductive, Single, Ordered, ~Overlap, [Next]_vars, life' = 0
    PROVE  Ordered'
<1> USE ObjectsSplit
<1>0. TypeOK /\ life \in Nat /\ \A p \in Process : OwnsRow(p)
  BY BackupAssumption DEF ObjectsInductive, TypeOK, Life
<1>1. ASSUME NEW p \in Process, InsertRow(p) PROVE Ordered'
  BY <1>0, <1>1, InsertOrdered
<1>2. ASSUME NEW p \in Process, Begin(p) PROVE Ordered'
  BY <1>0, <1>2, BeginOrdered
<1>3. ASSUME NEW p \in Process, Snapshot(p) PROVE Ordered'
  <2>1. Job("upload", job[p].gen, log) \in AnyJob
    BY <1>0, JobFields DEF Job, AnyJob, JobPc, TypeOK
  <2>2. /\ job'[p].pc = "upload" /\ job'[p].gen = job[p].gen
        /\ \A q \in Process : q # p => job'[q] = job[q]
    BY <1>0, <1>3, <2>1, SetJob DEF Snapshot, TypeOK, Job
  <2>3. Writing(p) /\ UNCHANGED <<log, index>> BY <1>3 DEF Snapshot, Writing
  <2>4. \A q \in Process : q # p => job'[q].pc = "idle"
    BY <1>0, <1>3, <2>2, Others DEF Snapshot
  <2>5. QED BY <1>0, <2>2, <2>3, <2>4, OrderedKept DEF JobPc
<1>4. ASSUME NEW p \in Process, PutBlob(p) PROVE Ordered'
  <2>1. /\ job'[p].pc = "record" /\ job'[p].gen = job[p].gen
        /\ \A q \in Process : q # p => job'[q] = job[q]
    BY <1>0, <1>4, MoveJob DEF PutBlob, TypeOK, JobPc
  <2>2. Writing(p) /\ UNCHANGED <<log, index>> BY <1>4 DEF PutBlob, Writing
  <2>3. \A q \in Process : q # p => job'[q].pc = "idle"
    BY <1>0, <1>4, <2>1, Others DEF PutBlob
  <2>4. QED BY <1>0, <2>1, <2>2, <2>3, OrderedKept DEF JobPc
<1>5. ASSUME NEW p \in Process, RecordPushed(p) PROVE Ordered'
  <2>1. /\ job'[p].pc = "publish" /\ job'[p].gen = job[p].gen
        /\ \A q \in Process : q # p => job'[q] = job[q]
    BY <1>0, <1>5, MoveJob DEF RecordPushed, TypeOK, JobPc
  <2>2. Writing(p) /\ index' = index BY <1>5 DEF RecordPushed, Writing
  <2>3. \A q \in Process : q # p => job'[q].pc = "idle"
    BY <1>0, <1>5, <2>1, Others DEF RecordPushed
  <2>4. \A g \in Gen : log'[g].there = log[g].there /\ log'[g].indexed = log[g].indexed
    BY <1>0, <1>5, PushedRow, JobFields DEF RecordPushed, TypeOK
  <2>5. QED BY <1>0, <2>1, <2>2, <2>3, <2>4, OrderedKept DEF JobPc
<1>6. ASSUME NEW p \in Process, PutIndex(p) PROVE Ordered'
  <2>1. /\ job'[p].pc = "stamp" /\ job'[p].gen = job[p].gen
        /\ \A q \in Process : q # p => job'[q] = job[q]
    BY <1>0, <1>6, MoveJob DEF PutIndex, TypeOK, JobPc
  <2>2. job[p].pc = "publish" /\ log' = log /\ index'.gen = job[p].gen
    BY <1>0, <1>6, NamedType DEF PutIndex
  <2>3. \A q \in Process : q # p => job'[q].pc = "idle"
    BY <1>0, <2>1, <2>2, Others
  <2>4. QED BY <1>0, <2>1, <2>2, <2>3, OrderedKept
<1>7. ASSUME NEW p \in Process, job[p].pc # "idle", job' = [job EXCEPT ![p] = Idle],
             index' = index, \A g \in Gen : log'[g].there = log[g].there,
             \A g \in Gen : log'[g].indexed =>
                log[g].indexed \/ (job[p].pc = "stamp" /\ g = job[p].gen)
      PROVE Ordered'
  <2>1. job'[p].pc = "idle" /\ \A q \in Process : q # p => job'[q] = job[q]
    BY <1>0, <1>7, SetJob, IdleType DEF TypeOK, Idle, Job
  <2>2. \A q \in Process : q # p => job'[q].pc = "idle"
    BY <1>0, <1>7, <2>1, Others
  <2>3. QED BY <1>0, <1>7, <2>1, <2>2, OrderedKept
<1>8. ASSUME NEW p \in Process, RecordIndexUpdated(p) PROVE Ordered'
  <2>1. job[p].pc = "stamp" /\ job' = [job EXCEPT ![p] = Idle] /\ index' = index
    BY <1>8 DEF RecordIndexUpdated, Release
  <2>2. /\ \A g \in Gen : log'[g].there = log[g].there
        /\ \A g \in Gen : g # job[p].gen => log'[g] = log[g]
    BY <1>0, <1>8, IndexedRow, JobFields DEF RecordIndexUpdated, TypeOK
  <2>3. QED BY <1>7, <2>1, <2>2
<1>9. ASSUME NEW p \in Process, CountFailures(p) PROVE Ordered'
  BY <1>7, <1>9 DEF CountFailures, Release
<1>10. ASSUME NEW p \in Process, StepFails(p) PROVE Ordered'
  <2>1. /\ job'[p].pc = "failed"
        /\ \A q \in Process : q # p => job'[q] = job[q]
    BY <1>0, <1>10, MoveJob DEF StepFails, TypeOK, JobPc
  <2>2. log' = log /\ job[p].pc # "idle" BY <1>10 DEF StepFails
  <2>3. index' = index \/ (job[p].pc = "publish" /\ index'.gen = job[p].gen)
    BY <1>0, <1>10, NamedType DEF StepFails
  <2>4. \A q \in Process : q # p => job'[q].pc = "idle"
    BY <1>0, <2>1, <2>2, Others
  <2>5. QED BY <1>0, <2>1, <2>2, <2>3, <2>4, OrderedKept
<1>11. ASSUME NEW p \in Process, Dies(p) PROVE Ordered'
  <2>1. UNCHANGED <<log, index>> /\ job' = [job EXCEPT ![p] = Idle]
    BY <1>11 DEF Dies
  <2>2. CASE job[p].pc # "idle" BY <1>7, <2>1, <2>2
  <2>3. CASE job[p].pc = "idle"
    <3>1. job[p] = Idle BY <1>0, <2>3 DEF TypeOK, Resting
    <3>2. \A q \in Process : job'[q] = job[q]
      BY <1>0, <2>1, <3>1, SetJob, IdleType DEF TypeOK
    <3>3. QED BY <2>1, <3>2 DEF Ordered, Newest, Numbered, Writing
  <2>4. QED BY <2>2, <2>3
<1>12. CASE Serve \/ (\E g \in Gen : Restore(g)) \/ UNCHANGED vars
  <2>1. UNCHANGED <<log, index, job>> BY <1>12 DEF Serve, Restore, vars
  <2>2. QED BY <2>1 DEF Ordered, Newest, Numbered, Writing
<1>13. CASE Adopt
  BY <1>0, <1>13 DEF Adopt
<1>14. ASSUME NEW p \in Process, BackupStep(p) PROVE Ordered'
  BY <1>14, <1>1, <1>3, <1>4, <1>5, <1>6, <1>8, <1>9 DEF BackupStep
<1>15. QED
  BY <1>2, <1>10, <1>11, <1>12, <1>13, <1>14, Zenon DEF Next

LEMMA AloneInit == Init => AloneInductive
<1> SUFFICES ASSUME Init PROVE Single /\ Ordered
  BY AloneSplit
<1>1. \A p \in Process : job[p] = Idle BY DEF Init
<1>2. Numbered = {} /\ \A g \in Gen : ~log[g].indexed
  BY DEF Init, Numbered, EmptyLog, NoRow
<1>3. index.gen = 0 BY DEF Init, NoIndex
<1>4. QED BY <1>1, <1>2, <1>3 DEF Single, Ordered, Newest, Resting, Writing, Idle, Job

LEMMA AloneStep ==
    ObjectsInductive /\ AloneInductive /\ [Next]_vars => AloneInductive'
<1> SUFFICES ASSUME ObjectsInductive, AloneInductive, [Next]_vars, ~Overlap
             PROVE  Single' /\ (life' = 0 => Ordered')
  BY AloneSplit DEF AloneInductive, Single, Ordered
<1>1. TypeOK /\ Single /\ (life = 0 => Ordered)
  BY AloneSplit DEF ObjectsInductive
<1>2. life' = 0 => life = 0
  <2>1. CASE Adopt BY <1>1, <2>1, BackupAssumption DEF Adopt, TypeOK, Life
  <2>2. ASSUME NEW p \in Process, BackupStep(p) PROVE life' = life
    BY <2>2 DEF BackupStep, InsertRow, Snapshot, PutBlob, RecordPushed, PutIndex,
               RecordIndexUpdated, CountFailures, outside
  <2>3. ASSUME NEW p \in Process, Begin(p) \/ StepFails(p) \/ Dies(p) PROVE life' = life
    BY <2>3 DEF Begin, StepFails, Dies, outside
  <2>4. CASE Serve \/ (\E g \in Gen : Restore(g)) \/ UNCHANGED vars
    BY <2>4 DEF Serve, Restore, vars
  <2>5. QED BY <2>1, <2>2, <2>3, <2>4, Zenon DEF Next
<1>3. QED BY <1>1, <1>2, SingleStep, OrderedStep

(* When backup-now and the daemon take turns, whatever fails or is killed in *)
(* between: the backup under way has the highest number, and index.json      *)
(* covers every row that says so.                                            *)
THEOREM BackupAlone == Spec => [](AloneInductive /\ IndexedMeansNamed)
<1>1. AloneInductive => IndexedMeansNamed
  BY DEF AloneInductive, IndexedMeansNamed
<1>2. Spec => []AloneInductive
  BY AloneInit, AloneStep, BackupObjects, PTL DEF Spec
<1>3. QED BY <1>1, <1>2, PTL
-----------------------------------------------------------------------------
(* BackupWatch: a number that was pushed has a row in every copy of the log. *)

LEMMA FilledInit == Init => LogsFilled
<1> SUFFICES ASSUME Init PROVE LogsFilled
  OBVIOUS
<1>1. Filled(EmptyLog)
  BY DEF Filled, EmptyLog, NoRow
<1>2. Idle.rows = EmptyLog /\ Absent.rows = EmptyLog
  BY AbsentType DEF Idle, Job
<1>3. QED BY <1>1, <1>2 DEF Init, LogsFilled

LEMMA FilledStep ==
    ASSUME TypeOK, Objects, LogsFilled, [Next]_vars
    PROVE  LogsFilled'
<1>0. Filled(EmptyLog) /\ Idle.rows = EmptyLog
  BY DEF Filled, EmptyLog, NoRow, Idle, Job
<1>1. ASSUME NEW p \in Process,
             \A q \in Process : q # p => job'[q] = job[q],
             Filled(job'[p].rows), Filled(log'), restored' = restored,
             \A g \in Gen : bucket'[g].rows = bucket[g].rows \/ bucket'[g].rows = job[p].rows
      PROVE  LogsFilled'
  <2>1. \A q \in Process : Filled(job'[q].rows)
    BY <1>1 DEF LogsFilled
  <2>2. \A g \in Gen : Filled(bucket'[g].rows)
    BY <1>1 DEF LogsFilled
  <2>3. QED BY <1>1, <2>1, <2>2 DEF LogsFilled, Filled
<1>2. ASSUME NEW p \in Process, NEW pc \in JobPc, Move(p, pc),
             restored' = restored, Filled(log'),
             bucket' = bucket \/ bucket' = Stored(p)
      PROVE  LogsFilled'
  <2>1. job'[p].rows = job[p].rows /\ \A q \in Process : q # p => job'[q] = job[q]
    BY <1>2, MoveJob DEF TypeOK
  <2>2. Filled(job[p].rows)
    BY DEF LogsFilled
  <2>3. \A g \in Gen : bucket'[g].rows = bucket[g].rows \/ bucket'[g].rows = job[p].rows
    BY <1>2, StoredObject DEF TypeOK
  <2>4. QED BY <1>1, <1>2, <2>1, <2>2, <2>3
<1>3. ASSUME NEW p \in Process, NEW j \in AnyJob, job' = [job EXCEPT ![p] = j],
             Filled(j.rows), Filled(log'), UNCHANGED <<restored, bucket>>
      PROVE  LogsFilled'
  <2>1. job'[p] = j /\ \A q \in Process : q # p => job'[q] = job[q]
    BY <1>3, SetJob DEF TypeOK
  <2>2. QED BY <1>1, <1>3, <2>1
<1>4. Filled(log)
  BY DEF LogsFilled
<1>5. ASSUME NEW p \in Process, Begin(p) PROVE LogsFilled'
  <2>1. PICK n \in Gen : job' = [job EXCEPT ![p] = Job("insert", n, EmptyLog)]
    BY <1>5 DEF Begin
  <2>2. Job("insert", n, EmptyLog) \in AnyJob /\ Job("insert", n, EmptyLog).rows = EmptyLog
    BY IdleType DEF Job, AnyJob, JobPc
  <2>3. log' = log /\ UNCHANGED <<restored, bucket>>
    BY <1>5 DEF Begin, outside
  <2>4. QED BY <1>0, <1>3, <1>4, <2>1, <2>2, <2>3
<1>6. ASSUME NEW p \in Process, InsertRow(p) PROVE LogsFilled'
  <2>1. Filled(log')
    <3>1. CASE log' = [log EXCEPT ![job[p].gen] = Started]
      <4>1. /\ log'[job[p].gen] = Started
            /\ \A h \in Gen : h # job[p].gen => log'[h] = log[h]
        <5>1. log \in Log /\ job[p].gen \in Gen BY JobFields DEF TypeOK
        <5>2. Started \in Row BY StartedType
        <5>3. QED BY <3>1, <5>1, <5>2, SetRow
      <4>2. ASSUME NEW h \in Gen, log'[h].pushed # NotYet PROVE log'[h].there
        <5>1. CASE h = job[p].gen BY <4>1, <4>2, <5>1, StartedType
        <5>2. CASE h # job[p].gen BY <1>4, <4>1, <4>2, <5>2 DEF Filled
        <5>3. QED BY <5>1, <5>2
      <4>3. (\A h \in Gen : log'[h].pushed # NotYet => log'[h].there) <=> Filled(log')
        BY DEF Filled
      <4>4. QED BY <4>2, <4>3
    <3>2. CASE log' = log BY <1>4, <3>2 DEF Filled
    <3>3. QED BY <1>6, <3>1, <3>2 DEF InsertRow
  <2>2. restored' = restored /\ bucket' = bucket
    BY <1>6 DEF InsertRow, outside
  <2>3. Move(p, "snapshot") \/ Move(p, "failed")
    BY <1>6 DEF InsertRow
  <2>4. "snapshot" \in JobPc /\ "failed" \in JobPc
    BY DEF JobPc
  <2>5. QED BY <2>4, <1>2, <2>1, <2>2, <2>3
<1>7. ASSUME NEW p \in Process, Snapshot(p) PROVE LogsFilled'
  <2>1. /\ Job("upload", job[p].gen, log) \in AnyJob
        /\ Job("upload", job[p].gen, log).rows = log
    BY JobFields DEF Job, AnyJob, JobPc, TypeOK
  <2>2. /\ job' = [job EXCEPT ![p] = Job("upload", job[p].gen, log)]
        /\ log' = log /\ UNCHANGED <<restored, bucket>>
    BY <1>7 DEF Snapshot, outside
  <2>3. QED BY <1>3, <1>4, <2>1, <2>2
<1>8. ASSUME NEW p \in Process, PutBlob(p) PROVE LogsFilled'
  BY <1>2, <1>4, <1>8 DEF PutBlob, outside, JobPc
<1>9. ASSUME NEW p \in Process, RecordPushed(p) PROVE LogsFilled'
  <2>1. /\ log'[job[p].gen].there = log[job[p].gen].there
        /\ \A h \in Gen : h # job[p].gen => log'[h] = log[h]
    BY <1>9, PushedRow, JobFields DEF RecordPushed, TypeOK
  <2>2. log[job[p].gen].there
    BY <1>9 DEF RecordPushed, Objects, OwnsRow, Writing
  <2>3. Filled(log')
    BY <1>4, <2>1, <2>2 DEF Filled
  <2>4. QED BY <1>2, <1>9, <2>3 DEF RecordPushed, outside, JobPc
<1>10. ASSUME NEW p \in Process, PutIndex(p) PROVE LogsFilled'
  BY <1>2, <1>4, <1>10 DEF PutIndex, outside, JobPc
<1>11. ASSUME NEW p \in Process, RecordIndexUpdated(p) PROVE LogsFilled'
  <2>1. /\ log'[job[p].gen].there = log[job[p].gen].there
        /\ log'[job[p].gen].pushed = log[job[p].gen].pushed
        /\ \A h \in Gen : h # job[p].gen => log'[h] = log[h]
    BY <1>11, IndexedRow, JobFields DEF RecordIndexUpdated, TypeOK
  <2>2. Filled(log')
    BY <1>4, <2>1 DEF Filled
  <2>3. QED BY <1>0, <1>3, <1>11, <2>2, IdleType DEF RecordIndexUpdated, Release, outside
<1>12. ASSUME NEW p \in Process, CountFailures(p) \/ Dies(p) PROVE LogsFilled'
  <2>1. job' = [job EXCEPT ![p] = Idle] /\ log' = log /\ UNCHANGED <<restored, bucket>>
    BY <1>12 DEF CountFailures, Dies, Release, outside
  <2>2. QED BY <1>0, <1>3, <1>4, <2>1, IdleType
<1>13. ASSUME NEW p \in Process, StepFails(p) PROVE LogsFilled'
  <2>1. Move(p, "failed") /\ log' = log /\ restored' = restored
        /\ (bucket' = bucket \/ bucket' = Stored(p))
    BY <1>13 DEF StepFails, outside
  <2>2. QED BY <1>2, <1>4, <2>1 DEF JobPc
<1>14. CASE Serve \/ UNCHANGED vars
  <2>1. UNCHANGED <<log, bucket, restored, job>>
    BY <1>14 DEF Serve, vars
  <2>2. QED BY <2>1 DEF LogsFilled, Filled
<1>15. ASSUME NEW g \in Gen, Restore(g) PROVE LogsFilled'
  <2>1. UNCHANGED <<log, bucket, job>> /\ restored' = bucket[g]
    BY <1>15 DEF Restore
  <2>2. QED BY <2>1 DEF LogsFilled, Filled
<1>16. CASE Adopt
  <2>1. log' = restored.rows /\ restored' = Absent /\ UNCHANGED <<bucket, job>>
    BY <1>16 DEF Adopt
  <2>2. Absent.rows = EmptyLog
    BY AbsentType
  <2>3. QED BY <1>0, <2>1, <2>2 DEF LogsFilled, Filled
<1>17. ASSUME NEW p \in Process, BackupStep(p) PROVE LogsFilled'
  BY <1>17, <1>6, <1>7, <1>8, <1>9, <1>10, <1>11, <1>12 DEF BackupStep
<1>18. QED
  BY <1>5, <1>12, <1>13, <1>14, <1>15, <1>16, <1>17, Zenon DEF Next

(* The hash in a row that was pushed stays until a restore: the row's number *)
(* is taken, and the process that owned it was done before it was pushed.    *)
LEMMA HashStays ==
    ASSUME TypeOK, Objects, LogsFilled, [Next]_vars, life' = life,
           NEW g \in Gen, log[g].pushed # NotYet
    PROVE  log'[g].pushed = log[g].pushed
<1>1. log[g].there
  BY DEF LogsFilled, Filled
<1>2. ASSUME NEW p \in Process, InsertRow(p) PROVE log'[g].pushed = log[g].pushed
  <2>1. CASE log' = [log EXCEPT ![job[p].gen] = Started] /\ KeyFree(job[p].gen)
    <3>1. job[p].gen # g
      BY <1>1, <2>1 DEF KeyFree
    <3>2. \A h \in Gen : h # job[p].gen => log'[h] = log[h]
      BY <2>1, SetRow, StartedType, JobFields DEF TypeOK
    <3>3. QED BY <3>1, <3>2
  <2>2. CASE log' = log BY <2>2
  <2>3. QED BY <1>2, <2>1, <2>2 DEF InsertRow
<1>3. ASSUME NEW p \in Process, RecordPushed(p) PROVE log'[g].pushed = log[g].pushed
  <2>1. log[job[p].gen].pushed = NotYet
    BY <1>3 DEF RecordPushed, Objects, OwnsRow
  <2>2. \A h \in Gen : h # job[p].gen => log'[h] = log[h]
    BY <1>3, PushedRow, JobFields DEF RecordPushed, TypeOK
  <2>3. QED BY <2>1, <2>2
<1>4. ASSUME NEW p \in Process, RecordIndexUpdated(p) PROVE log'[g].pushed = log[g].pushed
  BY <1>4, IndexedRow, JobFields DEF RecordIndexUpdated, TypeOK
<1>5. CASE log' = log
  BY <1>5
<1>6. ~Adopt
  <2>1. life \in Nat BY DEF TypeOK, Life
  <2>2. QED BY <2>1 DEF Adopt
<1>7. QED
  BY <1>2, <1>3, <1>4, <1>5, <1>6 DEF Next, BackupStep, vars, Begin, Snapshot, PutBlob,
     PutIndex, CountFailures, StepFails, Dies, Serve, Restore

(* While backups take turns, index.json only advances. *)
LEMMA IndexAdvances ==
    ASSUME TypeOK, Objects, AloneInductive, ~Overlap, life = 0, [Next]_vars
    PROVE  index' = index \/ index'.gen > index.gen
<1>1. Ordered /\ AllAgree
  BY AloneSplit DEF Objects
<1>2. ASSUME NEW p \in Process, job[p].pc = "publish", index' = Named(p), index # NoIndex
      PROVE  index' = index \/ index'.gen > index.gen
  <2>1. job[p].gen \in Nat /\ index.gen \in Nat /\ index.gen # 0
    BY <1>2, JobFields DEF TypeOK, Gen, Objects
  <2>2. index.gen <= job[p].gen
    BY <1>1, <1>2, <2>1 DEF Ordered, Newest, Writing
  <2>3. index.by = 0
    BY <1>1, <1>2, AbsentType DEF Objects, AllAgree
  <2>4. index = [gen |-> index.gen, by |-> index.by]
    BY DEF TypeOK
  <2>5. index' = [gen |-> job[p].gen, by |-> 0]
    BY <1>2 DEF Named, NamedBy
  <2>6. QED BY <2>1, <2>2, <2>3, <2>4, <2>5
<1>3. ASSUME NEW p \in Process, job[p].pc = "publish", index' = Named(p), index = NoIndex
      PROVE  index'.gen > index.gen
  <2>1. job[p].gen \in Nat /\ job[p].gen > 0
    BY JobFields DEF Gen
  <2>2. index.gen = 0 /\ index'.gen = job[p].gen
    BY <1>3 DEF NoIndex, Named, NamedBy
  <2>3. QED BY <2>1, <2>2
<1>4. CASE index' = index
  BY <1>4
<1>5. ASSUME NEW p \in Process, PutIndex(p) \/ StepFails(p)
      PROVE  index' = index \/ (job[p].pc = "publish" /\ index' = Named(p))
  BY <1>5 DEF PutIndex, StepFails
<1>6. QED
  BY <1>2, <1>3, <1>4, <1>5 DEF Next, BackupStep, vars, Begin, InsertRow, Snapshot, PutBlob,
     RecordPushed, RecordIndexUpdated, CountFailures, Dies, Serve, Restore, Adopt

LEMMA LifeGrows ==
    ASSUME TypeOK, [Next]_vars
    PROVE  life \in Nat /\ (life' = life \/ life' = life + 1)
<1>1. life \in Nat BY DEF TypeOK, Life
<1>2. QED
  BY <1>1 DEF Next, BackupStep, vars, outside, Begin, InsertRow, Snapshot, PutBlob, PutIndex,
     RecordPushed, RecordIndexUpdated, CountFailures, StepFails, Dies, Serve, Restore, Adopt
LEMMA WatchInitially == WatchInit => WatchInductive
<1> SUFFICES ASSUME WatchInit PROVE WatchInductive
  OBVIOUS
<1>1. ObjectsInductive /\ AloneInductive /\ LogsFilled
  BY ObjectsInit, AloneInit, FilledInit DEF WatchInit
<1>2. NotYet \in Life \cup {NotYet} /\ 0 \in 0..MaxGen /\ 0 \in 0..MaxMailFaults
  BY BackupAssumption, WatchAssumption
<1>3. WatchTypeOK
  BY <1>2 DEF WatchInit, WatchTypeOK, Nothing
<1>4. SweepIsCurrent
  BY DEF WatchInit, SweepIsCurrent
<1>5. MonitorIsBehind
  BY DEF WatchInit, Init, NoIndex, MonitorIsBehind
<1>6. QED BY <1>1, <1>3, <1>4, <1>5 DEF WatchInductive

(* A step of the pipeline, as the monitor and the sweep see it. *)
LEMMA ControllerStep ==
    ASSUME WatchInductive, Controller
    PROVE  WatchTypeOK' /\ SweepIsCurrent' /\ MonitorIsBehind'
<1> USE DEF WatchInductive
<1>0. TypeOK /\ Objects /\ [Next]_vars
  BY ObjectsSplit DEF Controller
<1>1. /\ seen' = seen /\ overdue' = overdue /\ alarmed' = alarmed /\ mailing' = mailing
      /\ mailFaults' = mailFaults
  BY DEF Controller
<1>2. life \in Nat /\ (life' = life \/ life' = life + 1)
  BY <1>0, LifeGrows
<1>3. WatchTypeOK' /\ SweepIsCurrent'
  <2>1. CASE life' = life
    <3>1. hashing' = hashing /\ corrupt' = corrupt
      BY <2>1 DEF Controller, smokevars
    <3>2. SweepIsCurrent'
      BY <1>0, <2>1, <3>1, HashStays DEF SweepIsCurrent
    <3>3. QED BY <1>1, <3>1, <3>2 DEF WatchTypeOK
  <2>2. CASE life' # life
    <3>1. hashing' = Nothing /\ corrupt' \in SUBSET Gen
      BY <2>2 DEF Controller, Readopted
    <3>2. Nothing \in [gen : 0..MaxGen, hash : Life \cup {NotYet}]
      BY BackupAssumption DEF Nothing
    <3>3. QED BY <1>1, <3>1, <3>2 DEF WatchTypeOK, SweepIsCurrent
  <2>3. QED BY <2>1, <2>2
<1>4. MonitorIsBehind'
  <2> SUFFICES ASSUME ~Overlap, life' = 0
               PROVE  seen <= index'.gen /\ (moved' => seen < index'.gen)
    BY <1>1 DEF MonitorIsBehind
  <2>1. life = 0 BY <1>2
  <2>2. seen <= index.gen /\ (moved => seen < index.gen)
    BY <2>1 DEF MonitorIsBehind
  <2>3. seen \in Nat /\ index.gen \in Nat /\ index'.gen \in Nat
    BY <1>0, TypeStep DEF TypeOK, WatchTypeOK
  <2>4. CASE index' = index
    BY <2>2, <2>4 DEF Controller
  <2>5. CASE index' # index
    <3>1. index'.gen > index.gen
      BY <1>0, <2>1, <2>5, IndexAdvances
    <3>2. QED BY <2>2, <2>3, <3>1
  <2>6. QED BY <2>4, <2>5
<1>5. QED BY <1>3, <1>4

LEMMA MonitorStep ==
    ASSUME WatchInductive, Poll \/ Mail \/ MailFails \/ ThresholdPasses \/ RepeatPasses
    PROVE  WatchTypeOK' /\ SweepIsCurrent' /\ MonitorIsBehind'
<1> USE DEF WatchInductive
<1>1. UNCHANGED <<log, index, life, hashing, corrupt>>
  BY DEF Poll, Mail, MailFails, ThresholdPasses, RepeatPasses, vars, outside, smokevars
<1>2. index.gen \in 0..MaxGen /\ seen \in 0..MaxGen
  BY DEF ObjectsInductive, TypeOK, WatchTypeOK
<1>3. \/ seen' = seen /\ moved' = moved
      \/ seen' = index.gen /\ moved' = FALSE
  BY DEF Poll, Mail, MailFails, ThresholdPasses, RepeatPasses
<1>4. mailFaults' \in 0..MaxMailFaults
  BY WatchAssumption DEF Poll, Mail, MailFails, ThresholdPasses, RepeatPasses, WatchTypeOK
<1>5. WatchTypeOK'
  BY <1>1, <1>2, <1>3, <1>4 DEF WatchTypeOK
<1>6. SweepIsCurrent'
  BY <1>1 DEF SweepIsCurrent
<1>7. MonitorIsBehind'
  BY <1>1, <1>2, <1>3 DEF MonitorIsBehind
<1>8. QED BY <1>5, <1>6, <1>7

LEMMA SmokeStep ==
    ASSUME WatchInductive, Smoke
    PROVE  WatchTypeOK' /\ SweepIsCurrent' /\ MonitorIsBehind'
<1> USE DEF WatchInductive
<1>1. UNCHANGED <<log, index, life, seen, moved>>
  BY DEF Smoke, HashVerdict, DownloadFails, HashKilled, HashRead, vars, outside, monvars
<1>2. \/ hashing' = Nothing
      \/ \E g \in Gen : log[g].pushed # NotYet
                        /\ hashing' = [gen |-> g, hash |-> log[g].pushed]
  BY DEF Smoke, HashVerdict, DownloadFails, HashKilled, HashRead, Recent
<1>3. hashing' \in [gen : 0..MaxGen, hash : Life \cup {NotYet}] /\ SweepIsCurrent'
  <2>1. CASE hashing' = Nothing
    <3>1. Nothing \in [gen : 0..MaxGen, hash : Life \cup {NotYet}]
      BY BackupAssumption DEF Nothing
    <3>2. QED BY <2>1, <3>1 DEF SweepIsCurrent
  <2>2. ASSUME NEW g \in Gen, log[g].pushed # NotYet,
               hashing' = [gen |-> g, hash |-> log[g].pushed]
        PROVE  /\ hashing' \in [gen : 0..MaxGen, hash : Life \cup {NotYet}]
               /\ SweepIsCurrent'
    <3>1. log[g].pushed \in Life \cup {NotYet}
      BY DEF ObjectsInductive, TypeOK, Log, Row
    <3>2. g \in 0..MaxGen
      BY BackupAssumption DEF Gen
    <3>3. QED BY <1>1, <2>2, <3>1, <3>2 DEF SweepIsCurrent
  <2>3. QED BY <1>2, <2>1, <2>2
<1>4. corrupt' \subseteq corrupt \cup {hashing.gen} /\ mailFaults' \in 0..MaxMailFaults
  BY WatchAssumption DEF Smoke, HashVerdict, DownloadFails, HashKilled, HashRead, WatchTypeOK
<1>5. corrupt' = corrupt \/ hashing.gen \in Gen
  BY DEF Smoke, HashVerdict, DownloadFails, HashKilled, HashRead, SweepIsCurrent
<1>6. WatchTypeOK'
  BY <1>1, <1>3, <1>4, <1>5 DEF WatchTypeOK
<1>7. MonitorIsBehind'
  BY <1>1 DEF MonitorIsBehind
<1>8. QED BY <1>3, <1>6, <1>7

LEMMA WatchStep == WatchInductive /\ [Controller \/ Watch]_allvars => WatchInductive'
<1> SUFFICES ASSUME WatchInductive, [Controller \/ Watch]_allvars PROVE WatchInductive'
  OBVIOUS
<1>1. [Next]_vars
  BY DEF Controller, Watch, Smoke, Poll, Mail, MailFails, ThresholdPasses, RepeatPasses,
         HashVerdict, DownloadFails, HashKilled, HashRead, allvars
<1>2. ObjectsInductive' /\ AloneInductive' /\ LogsFilled'
  BY <1>1, ObjectsStep, AloneStep, FilledStep, ObjectsSplit DEF WatchInductive
<1>3. WatchTypeOK' /\ SweepIsCurrent' /\ MonitorIsBehind'
  <2>1. CASE UNCHANGED allvars
    BY <2>1 DEF WatchInductive, WatchTypeOK, SweepIsCurrent, MonitorIsBehind, allvars,
       vars, outside, watchvars, monvars, smokevars
  <2>2. QED BY <2>1, ControllerStep, MonitorStep, SmokeStep DEF Watch
<1>4. QED BY <1>2, <1>3 DEF WatchInductive

(* What the pipeline, its monitor and its integrity sweep owe each other, for *)
(* any number of processes, generations, faults and restores.                *)
THEOREM WatchAlways == WatchSpec => []WatchInductive
<1>1. QED BY WatchInitially, WatchStep, PTL DEF WatchSpec

(* evaluate_gap raises no false alarm: while backups take turns and until a   *)
(* restore, the monitor decides to alarm only if index.json was not written   *)
(* since it first saw the generation that it reports.                         *)
THEOREM WatchAlarmIsTrue == WatchSpec => AlarmIsTrue
<1>1. WatchInductive /\ [Controller \/ Watch]_allvars
          => [~mailing /\ mailing' /\ ~Overlap /\ life = 0 => ~moved]_allvars
  <2> SUFFICES ASSUME WatchInductive, Controller \/ Watch,
                      ~mailing, mailing', ~Overlap, life = 0
               PROVE  ~moved
    OBVIOUS
  <2>1. Poll /\ ~Advanced
    BY DEF Controller, Watch, Smoke, Poll, Mail, MailFails, ThresholdPasses, RepeatPasses,
       HashVerdict, DownloadFails, HashKilled, HashRead, monvars
  <2>2. seen \in Nat /\ index.gen \in Nat /\ ~(index.gen > seen)
    BY <2>1 DEF Advanced, WatchInductive, WatchTypeOK, ObjectsInductive, TypeOK
  <2>3. QED BY <2>2 DEF WatchInductive, MonitorIsBehind
<1>2. QED BY <1>1, WatchAlways, PTL DEF WatchSpec, AlarmIsTrue

(* The integrity sweep reads the row, downloads, and compares while backups   *)
(* go on: it flags a generation only if the bucket does not hold what the row *)
(* says at that moment, or the download failed.                               *)
THEOREM WatchCorruptionIsReal == WatchSpec => CorruptionIsReal
<1>1. WatchInductive /\ [Controller \/ Watch]_allvars
          => [\A g \in corrupt' \ corrupt :
                 \/ bucket[g].by # log[g].pushed
                 \/ mailFaults' > mailFaults \/ life' > life]_allvars
  <2> SUFFICES ASSUME WatchInductive, Controller \/ Watch, NEW g \in corrupt' \ corrupt
               PROVE  \/ bucket[g].by # log[g].pushed
                      \/ mailFaults' > mailFaults \/ life' > life
    OBVIOUS
  <2>1. CASE Controller
    <3>1. life' # life
      BY <2>1 DEF Controller, smokevars
    <3>2. life \in Nat /\ (life' = life \/ life' = life + 1)
      BY <2>1, LifeGrows DEF WatchInductive, ObjectsInductive, Controller
    <3>3. QED BY <3>1, <3>2
  <2>2. CASE HashVerdict
    <3>1. /\ g = hashing.gen
          /\ ~(bucket[hashing.gen].by = hashing.hash /\ hashing.hash # NotYet)
      BY <2>2 DEF HashVerdict
    <3>2. hashing.hash # NotYet /\ log[hashing.gen].pushed = hashing.hash
      BY <2>2 DEF HashVerdict, WatchInductive, SweepIsCurrent
    <3>3. QED BY <3>1, <3>2
  <2>3. CASE DownloadFails
    <3>1. mailFaults \in Nat /\ mailFaults' = mailFaults + 1
      BY <2>3 DEF DownloadFails, WatchInductive, WatchTypeOK
    <3>2. QED BY <3>1
  <2>4. QED
    BY <2>1, <2>2, <2>3 DEF Watch, Smoke, Poll, Mail, MailFails, ThresholdPasses,
       RepeatPasses, HashKilled, HashRead, smokevars
<1>2. QED BY <1>1, WatchAlways, PTL DEF WatchSpec, CorruptionIsReal
=============================================================================
