---------------------------- MODULE ImagesProofs ----------------------------
(***************************************************************************)
(* The catalogue of images, for any number of images, releases and boxes.  *)
(***************************************************************************)
EXTENDS Images, TLAPS

LEMMA CurrentImage ==
    /\ PromotedImages = {} => Current = None
    /\ PromotedImages # {} => Current \in PromotedImages
    /\ None \notin Image /\ None \notin Release
BY ImagesAssumption DEF Current, PromotedImages

LEMMA CommandType ==
    ASSUME NEW cmd \in {"idle", "insert", "pin", "commit", "clear", "restore", "flag"},
           NEW v \in Image \cup {None}, NEW w \in Image \cup {None}, NEW todo \in SUBSET Box
    PROVE  /\ Command(cmd, v, w, todo) \in Job
           /\ Command(cmd, v, w, todo).cmd = cmd /\ Command(cmd, v, w, todo).image = v
           /\ Command(cmd, v, w, todo).other = w
BY DEF Command, Job

LEMMA IdleType == Idle \in Job /\ Idle.cmd = "idle"
BY CommandType DEF Idle

LEMMA SpendType == ASSUME ops \in 0..MaxOps, Spend PROVE ops' \in 0..MaxOps
BY ImagesAssumption DEF Spend

(* A step that leaves the catalogue and the boxes alone and ends its command. *)
LEMMA RestsSound ==
    ASSUME ImagesInductive, TypeOK', UNCHANGED <<catalogue, box>>, pick' \in {pick, None},
           job' = Idle \/ UNCHANGED job
    PROVE  ImagesInductive'
<1>1. OnePromoted' /\ CatalogueSound' /\ BoxesSound'
    BY DEF ImagesInductive, OnePromoted, CatalogueSound, BoxesSound, PromotedImages, catalogue
<1>2. JobSound'
    <2>1. CASE job' = Idle BY <2>1, IdleType DEF JobSound
    <2>2. CASE UNCHANGED job
        BY <2>2 DEF ImagesInductive, JobSound, PromotedImages, Current, catalogue
    <2>3. QED BY <2>1, <2>2
<1>3. QED BY <1>1, <1>2 DEF ImagesInductive

(* The empty catalogue is sound. *)
THEOREM CatalogueInit == Init => ImagesInductive
<1> SUFFICES ASSUME Init PROVE ImagesInductive
    OBVIOUS
<1>1. job \in Job /\ job.cmd = "idle"
    BY IdleType DEF Init
<1>2. TypeOK
    <2>1. NoBox \in BoxRow BY DEF NoBox, BoxRow
    <2>2. box \in [Box -> BoxRow] BY <2>1 DEF Init
    <2>3. state \in [Image -> {"none", "candidate", "promoted", "retired"}] BY DEF Init
    <2>4. kills \in 0..MaxKills /\ ops \in 0..MaxOps BY ImagesAssumption DEF Init
    <2>5. QED BY <1>1, <2>2, <2>3, <2>4 DEF Init, TypeOK
<1>3. PromotedImages = {} BY DEF Init, PromotedImages
<1>4. OnePromoted BY <1>3 DEF OnePromoted
<1>5. CatalogueSound BY DEF Init, CatalogueSound
<1>6. BoxesSound BY DEF Init, BoxesSound, NoBox
<1>7. JobSound BY <1>1 DEF JobSound
<1>8. QED BY <1>2, <1>4, <1>5, <1>6, <1>7 DEF ImagesInductive

-----------------------------------------------------------------------------
(* image-build *)

LEMMA BuildKnownStep ==
    ASSUME ImagesInductive, NEW v \in Image, BuildKnown(v) PROVE ImagesInductive'
<1>1. job' \in Job /\ job'.cmd = "pin" /\ job'.image = v
    BY CommandType DEF BuildKnown
<1>2. TypeOK' BY <1>1, SpendType DEF BuildKnown, Operator, ImagesInductive, TypeOK, catalogue, fleet, tracker
<1>3. OnePromoted' /\ CatalogueSound' /\ BoxesSound'
    BY DEF BuildKnown, ImagesInductive, OnePromoted, CatalogueSound, BoxesSound, PromotedImages, catalogue, fleet
<1>4. JobSound' BY <1>1 DEF BuildKnown, JobSound, catalogue
<1>5. QED BY <1>2, <1>3, <1>4 DEF ImagesInductive

LEMMA BuildUploadStep ==
    ASSUME ImagesInductive, NEW v \in Image, BuildUpload(v) PROVE ImagesInductive'
<1>1. CASE Uploaded(v) /\ job' = Command("insert", v, None, {})
    <2>1. job' \in Job /\ job'.cmd = "insert" /\ job'.image = v
        BY <1>1, CommandType
    <2>2. TypeOK'
        BY <1>1, <2>1, SpendType DEF BuildUpload, Uploaded, Operator, ImagesInductive, TypeOK, fleet, tracker
    <2>3. OnePromoted' /\ CatalogueSound' /\ BoxesSound'
        BY <1>1 DEF BuildUpload, Uploaded, ImagesInductive, OnePromoted, CatalogueSound, BoxesSound,
                    PromotedImages, fleet
    <2>4. JobSound' BY <1>1, <2>1 DEF BuildUpload, Uploaded, JobSound
    <2>5. QED BY <2>2, <2>3, <2>4 DEF ImagesInductive
<1>2. CASE UNCHANGED <<object, job>>
    <2>1. TypeOK'
        BY <1>2, SpendType DEF BuildUpload, Operator, ImagesInductive, TypeOK, fleet, tracker
    <2>2. QED BY <1>2, <2>1, RestsSound DEF BuildUpload, catalogue, fleet
<1>3. QED BY <1>1, <1>2 DEF BuildUpload

LEMMA GoesTo ==
    ASSUME job \in Job, NEW cmd \in {"pin", "clear"}, Goes(cmd)
    PROVE  /\ job' \in Job /\ job'.cmd = cmd /\ job'.image = job.image /\ job'.other = job.other
BY DEF Goes, Job

LEMMA BuildInsertStep == ASSUME ImagesInductive, BuildInsert PROVE ImagesInductive'
<1> DEFINE v == job.image
<1>1. v \in Image /\ v \in object /\ state[v] = "none"
    BY DEF ImagesInductive, JobSound, BuildInsert
<1>2. state' = [state EXCEPT ![v] = "candidate"] /\ UNCHANGED <<ever, profile, object, fleet>>
    BY DEF BuildInsert
<1>3. job' \in Job /\ job'.cmd = "pin" /\ job'.image = v
    BY GoesTo DEF BuildInsert, ImagesInductive, TypeOK
<1>4. TypeOK' BY <1>1, <1>2, <1>3 DEF BuildInsert, ImagesInductive, TypeOK, fleet, tracker
<1>5. OnePromoted' /\ CatalogueSound' /\ BoxesSound'
    BY <1>1, <1>2 DEF ImagesInductive, TypeOK, OnePromoted, CatalogueSound, BoxesSound, PromotedImages, fleet
<1>6. JobSound' BY <1>1, <1>2, <1>3 DEF JobSound, ImagesInductive, TypeOK
<1>7. QED BY <1>4, <1>5, <1>6 DEF ImagesInductive

LEMMA PinStep ==
    ASSUME ImagesInductive, NEW v \in Image, state[v] # "none" \/ ~CanPin(v),
           profile' = IF CanPin(v) THEN profile \cup {v} ELSE profile,
           UNCHANGED <<state, ever, object, fleet, rollRow, tracker, kills>>, ops' \in 0..MaxOps,
           job' = Idle \/ UNCHANGED job
    PROVE  ImagesInductive'
<1>1. TypeOK' BY IdleType DEF ImagesInductive, TypeOK, fleet, tracker
<1>2. OnePromoted' /\ CatalogueSound' /\ BoxesSound'
    BY DEF ImagesInductive, OnePromoted, CatalogueSound, BoxesSound, PromotedImages, fleet, CanPin
<1>3. JobSound'
    <2>1. CASE job' = Idle BY <2>1, IdleType DEF JobSound
    <2>2. CASE UNCHANGED job
        BY <2>2 DEF ImagesInductive, JobSound, PromotedImages, Current
    <2>3. QED BY <2>1, <2>2
<1>4. QED BY <1>1, <1>2, <1>3 DEF ImagesInductive

LEMMA BuildPinStep == ASSUME ImagesInductive, BuildPin PROVE ImagesInductive'
BY PinStep DEF BuildPin, ImagesInductive, JobSound, TypeOK

LEMMA ProfilePinStep ==
    ASSUME ImagesInductive, NEW v \in Image, ProfilePin(v) PROVE ImagesInductive'
BY PinStep, SpendType DEF ProfilePin, CanPin, Operator, ImagesInductive, TypeOK
-----------------------------------------------------------------------------
(* image-promote, image-retire and image-rollback *)

LEMMA PromoteGateStep ==
    ASSUME ImagesInductive, NEW v \in Image, PromoteGate(v) PROVE ImagesInductive'
<1>1. Current \in Image \cup {None}
    BY CurrentImage DEF PromotedImages
<1>2. job' \in Job /\ job'.cmd = "commit" /\ job'.image = v /\ job'.other = Current
    BY <1>1, CommandType DEF PromoteGate
<1>3. TypeOK'
    BY <1>2, SpendType DEF PromoteGate, Operator, ImagesInductive, TypeOK, catalogue, fleet, tracker
<1>4. OnePromoted' /\ CatalogueSound' /\ BoxesSound'
    BY DEF PromoteGate, ImagesInductive, OnePromoted, CatalogueSound, BoxesSound, PromotedImages,
           catalogue, fleet
<1>5. Current' = Current
    BY DEF PromoteGate, catalogue, Current, PromotedImages
<1>6. JobSound' BY <1>2, <1>5 DEF PromoteGate, JobSound, catalogue
<1>7. QED BY <1>3, <1>4, <1>6 DEF ImagesInductive

LEMMA PromoteCommitStep == ASSUME ImagesInductive, PromoteCommit PROVE ImagesInductive'
<1> DEFINE v == job.image  w == job.other
<1>1. v \in Image /\ state[v] = "candidate" /\ w = Current
    BY DEF ImagesInductive, JobSound, PromoteCommit
<1>2. /\ state' = Swapped(v, w) /\ ever' = ever \cup {v}
      /\ UNCHANGED <<profile, object, fleet, rollRow, tracker, kills, ops>>
    BY DEF PromoteCommit
<1>3. job' \in Job /\ job'.cmd = "clear" /\ job'.image = v
    BY GoesTo DEF PromoteCommit, ImagesInductive, TypeOK
<1>4. \A u \in Image : state[u] = "promoted" => u = w
    BY <1>1, CurrentImage DEF ImagesInductive, OnePromoted, PromotedImages
<1>5. \A u \in Image : state'[u] = IF u = v THEN "promoted" ELSE IF u = w THEN "retired" ELSE state[u]
    BY <1>2 DEF Swapped
<1>6. state' \in [Image -> {"none", "candidate", "promoted", "retired"}]
    BY <1>2 DEF Swapped, ImagesInductive, TypeOK
<1>7. TypeOK'
    BY <1>1, <1>2, <1>3, <1>6 DEF ImagesInductive, TypeOK, fleet, tracker
<1>8. OnePromoted'
    BY <1>4, <1>5 DEF OnePromoted, PromotedImages
<1>9. w \in Image => state[w] = "promoted"
    BY <1>1, CurrentImage DEF PromotedImages
<1>10. CatalogueSound'
    BY <1>1, <1>2, <1>5, <1>9 DEF ImagesInductive, CatalogueSound
<1>11. BoxesSound' BY <1>2 DEF ImagesInductive, BoxesSound, fleet
<1>12. JobSound' BY <1>1, <1>3, <1>5 DEF JobSound
<1>13. QED BY <1>7, <1>8, <1>10, <1>11, <1>12 DEF ImagesInductive

LEMMA PromoteClearStep == ASSUME ImagesInductive, PromoteClear PROVE ImagesInductive'
<1>1. TypeOK'
    BY IdleType DEF PromoteClear, ImagesInductive, TypeOK, catalogue, fleet
<1>2. QED BY <1>1, RestsSound DEF PromoteClear, fleet

LEMMA RetireStep ==
    ASSUME ImagesInductive, NEW v \in Image, Retire(v) PROVE ImagesInductive'
<1>1. state' = [state EXCEPT ![v] = "retired"]
    BY DEF Retire, Retired
<1>2. \A u \in Image : state'[u] = IF u = v THEN "retired" ELSE state[u]
    BY <1>1 DEF ImagesInductive, TypeOK
<1>3. TypeOK'
    BY <1>1, SpendType DEF Retire, Operator, ImagesInductive, TypeOK, fleet, tracker
<1>4. OnePromoted' BY <1>2 DEF ImagesInductive, OnePromoted, PromotedImages
<1>5. state[v] = "candidate" => v \notin ever
    BY DEF ImagesInductive, CatalogueSound
<1>6. CatalogueSound' /\ BoxesSound'
    BY <1>2, <1>5 DEF Retire, ImagesInductive, CatalogueSound, BoxesSound, fleet
<1>7. job' = Idle BY DEF Retire, Operator
<1>8. JobSound' BY <1>7, IdleType DEF JobSound
<1>9. QED BY <1>3, <1>4, <1>6, <1>8 DEF ImagesInductive

LEMMA RollbackRetireStep ==
    ASSUME ImagesInductive, NEW v \in Image, NEW w \in Image, RollbackRetire(v, w)
    PROVE  ImagesInductive'
<1>1. \A u \in Image : state'[u] = IF u = v THEN "retired" ELSE state[u]
    BY DEF RollbackRetire, ImagesInductive, TypeOK
<1>2. job' \in Job /\ job'.cmd = "restore" /\ job'.image = v /\ job'.other = w
    BY CommandType DEF RollbackRetire
<1>3. TypeOK'
    BY <1>2, SpendType DEF RollbackRetire, Operator, ImagesInductive, TypeOK, fleet, tracker
<1>4. PromotedImages' = {}
    BY <1>1 DEF RollbackRetire, ImagesInductive, OnePromoted, PromotedImages
<1>5. OnePromoted' BY <1>4 DEF OnePromoted
<1>6. CatalogueSound' /\ BoxesSound'
    BY <1>1 DEF RollbackRetire, ImagesInductive, CatalogueSound, BoxesSound, fleet
<1>7. state'[w] = "retired"
    <2>1. state[w] \in {"promoted", "retired"}
        BY DEF RollbackRetire, ImagesInductive, CatalogueSound
    <2>2. state[w] # "promoted"
        BY DEF RollbackRetire, ImagesInductive, OnePromoted, PromotedImages
    <2>3. QED BY <1>1, <2>1, <2>2
<1>8. JobSound' BY <1>2, <1>4, <1>7 DEF RollbackRetire, JobSound
<1>9. QED BY <1>3, <1>5, <1>6, <1>8 DEF ImagesInductive

LEMMA RollbackRestoreStep == ASSUME ImagesInductive, RollbackRestore PROVE ImagesInductive'
<1> DEFINE w == job.other
<1>1. w \in Image /\ state[w] = "retired" /\ w \in ever /\ PromotedImages = {} /\ job.image \in Image
    BY DEF ImagesInductive, JobSound, RollbackRestore
<1>2. state' = [state EXCEPT ![w] = "promoted"] /\ UNCHANGED <<ever, profile, object, fleet, tracker, kills, ops>>
    BY <1>1 DEF RollbackRestore
<1>3. \A u \in Image : state'[u] = IF u = w THEN "promoted" ELSE state[u]
    BY <1>2 DEF ImagesInductive, TypeOK
<1>4. Flagged \subseteq Box BY DEF Flagged, BoxesOn
<1>5. /\ job' \in Job /\ job'.cmd \in {"idle", "flag"} /\ (job'.cmd = "idle" \/ job'.image = job.image)
      /\ rollRow' \subseteq Box
    <2>1. CASE Flagged = {} BY <1>1, <2>1, IdleType DEF RollbackRestore, ImagesInductive, TypeOK
    <2>2. CASE Flagged # {}
        <3>1. PICK b \in Flagged : /\ rollRow' = rollRow \cup {b}
                                   /\ job' = [job EXCEPT !.cmd = "flag", !.todo = Flagged \ {b}]
            BY <1>1, <2>2 DEF RollbackRestore
        <3>2. job \in Job BY DEF ImagesInductive, TypeOK
        <3>3. job' \in Job /\ job'.cmd = "flag" /\ job'.image = job.image
            BY <1>4, <3>1, <3>2 DEF Job
        <3>4. rollRow' \subseteq Box
            BY <1>4, <3>1 DEF ImagesInductive, TypeOK
        <3>5. QED BY <3>3, <3>4
    <2>3. QED BY <2>1, <2>2
<1>6. TypeOK' BY <1>2, <1>5 DEF ImagesInductive, TypeOK, fleet, tracker
<1>7. OnePromoted' BY <1>1, <1>3 DEF OnePromoted, PromotedImages
<1>8. CatalogueSound' /\ BoxesSound'
    BY <1>1, <1>2, <1>3 DEF ImagesInductive, CatalogueSound, BoxesSound, fleet
<1>9. JobSound' BY <1>1, <1>5 DEF JobSound
<1>10. QED BY <1>6, <1>7, <1>8, <1>9 DEF ImagesInductive

LEMMA RollbackFlagStep == ASSUME ImagesInductive, RollbackFlag PROVE ImagesInductive'
<1>1. job \in Job /\ job.image \in Image
    BY DEF ImagesInductive, TypeOK, JobSound, RollbackFlag
<1>2. CASE job.todo = {}
    <2>1. TypeOK' BY <1>2, IdleType DEF RollbackFlag, ImagesInductive, TypeOK, catalogue, fleet, tracker
    <2>2. QED BY <1>2, <2>1, RestsSound DEF RollbackFlag, fleet
<1>3. CASE job.todo # {}
    <2>1. PICK b \in job.todo : rollRow' = rollRow \cup {b} /\ job' = [job EXCEPT !.todo = @ \ {b}]
        BY <1>3 DEF RollbackFlag
    <2>2. job' \in Job /\ job'.cmd = "flag" /\ job'.image = job.image /\ b \in Box
        BY <1>1, <2>1 DEF Job, RollbackFlag
    <2>3. TypeOK'
        BY <2>1, <2>2 DEF RollbackFlag, ImagesInductive, TypeOK, catalogue, fleet, tracker
    <2>4. OnePromoted' /\ CatalogueSound' /\ BoxesSound'
        BY DEF RollbackFlag, ImagesInductive, OnePromoted, CatalogueSound, BoxesSound, PromotedImages,
               catalogue, fleet
    <2>5. JobSound' BY <1>1, <2>2 DEF JobSound
    <2>6. QED BY <2>3, <2>4, <2>5 DEF ImagesInductive
<1>4. QED BY <1>2, <1>3

LEMMA KillStep == ASSUME ImagesInductive, Kill PROVE ImagesInductive'
<1>1. kills' \in 0..MaxKills BY ImagesAssumption DEF Kill, ImagesInductive, TypeOK
<1>2. TypeOK' BY <1>1, IdleType DEF Kill, ImagesInductive, TypeOK, catalogue, fleet, tracker
<1>3. QED BY <1>2, RestsSound DEF Kill, fleet

-----------------------------------------------------------------------------
(* Boxes and the tracker *)

(* A step of a box that leaves the catalogue alone and no box on an image never promoted. *)
LEMMA FleetSound ==
    ASSUME ImagesInductive, NEW b \in Box, NEW row \in BoxRow, row.image \in ever,
           box' = [box EXCEPT ![b] = row], pick' \in {pick, None}, late' \subseteq Box,
           UNCHANGED <<catalogue, soaked, killRow, rollRow, tracker, job, kills>>, ops' \in 0..MaxOps
    PROVE  ImagesInductive'
<1>1. \A c \in Box : box'[c] = IF c = b THEN row ELSE box[c]
    BY DEF ImagesInductive, TypeOK
<1>2. TypeOK' BY DEF ImagesInductive, TypeOK, catalogue, tracker
<1>3. OnePromoted' /\ CatalogueSound'
    BY DEF ImagesInductive, OnePromoted, CatalogueSound, PromotedImages, catalogue
<1>4. BoxesSound' BY <1>1 DEF ImagesInductive, BoxesSound, catalogue
<1>5. JobSound' BY DEF ImagesInductive, JobSound, PromotedImages, Current, catalogue
<1>6. QED BY <1>2, <1>3, <1>4, <1>5 DEF ImagesInductive

LEMMA ProvisionPickStep == ASSUME ImagesInductive, ProvisionPick PROVE ImagesInductive'
<1>1. Current \in PromotedImages
    BY CurrentImage DEF ProvisionPick, ImageForBox
<1>2. pick' \in ever /\ pick' \in Image
    BY <1>1 DEF ProvisionPick, ImageForBox, ImagesInductive, CatalogueSound, PromotedImages
<1>3. TypeOK'
    BY <1>2, SpendType DEF ProvisionPick, ImagesInductive, TypeOK, catalogue, tracker
<1>4. OnePromoted' /\ CatalogueSound' /\ BoxesSound'
    BY <1>2 DEF ProvisionPick, ImagesInductive, OnePromoted, CatalogueSound, BoxesSound, PromotedImages, catalogue
<1>5. JobSound'
    BY DEF ProvisionPick, ImagesInductive, JobSound, PromotedImages, Current, catalogue
<1>6. QED BY <1>3, <1>4, <1>5 DEF ImagesInductive

LEMMA ProvisionFailsStep == ASSUME ImagesInductive, ProvisionFails PROVE ImagesInductive'
<1>1. TypeOK' BY DEF ProvisionFails, ImagesInductive, TypeOK, catalogue, tracker
<1>2. QED BY <1>1, RestsSound DEF ProvisionFails

LEMMA ProvisionInsertStep ==
    ASSUME ImagesInductive, NEW b \in Box, NEW canary \in BOOLEAN, ProvisionInsert(b, canary)
    PROVE  ImagesInductive'
<1> DEFINE row == [st |-> "provisioning", image |-> pick, canary |-> canary]
<1>1. pick \in ever /\ pick \in Image
    BY DEF ProvisionInsert, ImagesInductive, BoxesSound, TypeOK
<1>2. row \in BoxRow /\ row.image \in ever BY <1>1 DEF BoxRow
<1>3. box' = [box EXCEPT ![b] = row] /\ late' \subseteq Box /\ pick' = None
    BY DEF ProvisionInsert, ImagesInductive, TypeOK
<1>4. UNCHANGED <<catalogue, soaked, killRow, rollRow, tracker, job, kills, ops>>
    BY DEF ProvisionInsert
<1> HIDE DEF row
<1>5. QED BY <1>2, <1>3, <1>4, FleetSound DEF ImagesInductive, TypeOK

LEMMA BoxCommandStep ==
    ASSUME ImagesInductive, NEW b \in Box, NEW row \in BoxRow, row.image \in ever, BoxCommand(b, row)
    PROVE  ImagesInductive'
<1>1. ops' \in 0..MaxOps BY SpendType DEF BoxCommand, ImagesInductive, TypeOK
<1>2. QED BY <1>1, FleetSound DEF BoxCommand, ImagesInductive, TypeOK

LEMMA BoxEditStep ==
    ASSUME ImagesInductive, NEW b \in Box, MarkLive(b) \/ Terminate(b) \/ CanaryClear(b)
    PROVE  ImagesInductive'
<1>1. box[b] \in BoxRow /\ box[b].image \in ever
    BY DEF MarkLive, Terminate, CanaryClear, ImagesInductive, TypeOK, BoxesSound
<1>2. /\ [box[b] EXCEPT !.st = "live"] \in BoxRow /\ [box[b] EXCEPT !.st = "live"].image = box[b].image
      /\ [box[b] EXCEPT !.st = "terminated"] \in BoxRow
      /\ [box[b] EXCEPT !.st = "terminated"].image = box[b].image
      /\ [box[b] EXCEPT !.canary = FALSE] \in BoxRow /\ [box[b] EXCEPT !.canary = FALSE].image = box[b].image
    BY <1>1 DEF BoxRow
<1>3. CASE MarkLive(b)
    <2>1. BoxCommand(b, [box[b] EXCEPT !.st = "live"]) BY <1>3 DEF MarkLive
    <2>2. QED BY <1>1, <1>2, <2>1, BoxCommandStep
<1>4. CASE Terminate(b)
    <2>1. BoxCommand(b, [box[b] EXCEPT !.st = "terminated"]) BY <1>4 DEF Terminate
    <2>2. QED BY <1>1, <1>2, <2>1, BoxCommandStep
<1>5. CASE CanaryClear(b)
    <2>1. BoxCommand(b, [box[b] EXCEPT !.canary = FALSE]) BY <1>5 DEF CanaryClear
    <2>2. QED BY <1>1, <1>2, <2>1, BoxCommandStep
<1>6. QED BY <1>3, <1>4, <1>5

(* A step that leaves the catalogue, the boxes and the command alone. *)
LEMMA NoticesSound ==
    ASSUME ImagesInductive, UNCHANGED <<catalogue, box, pick, late, job, rollRow, kills>>,
           soaked' \subseteq Box, killRow' \subseteq Box, relRow' \subseteq Release,
           latest' \in Release, seen' \in Release \cup {None}, ops' \in 0..MaxOps
    PROVE  ImagesInductive'
<1>1. TypeOK' BY DEF ImagesInductive, TypeOK, catalogue
<1>2. QED BY <1>1, RestsSound

LEMMA ProbedStep ==
    ASSUME ImagesInductive, NEW b \in Box, Soak(b) \/ KillVerdict(b) PROVE ImagesInductive'
<1>1. ops' \in 0..MaxOps
    BY SpendType DEF Soak, KillVerdict, ImagesInductive, TypeOK
<1>2. QED BY <1>1, NoticesSound DEF Soak, KillVerdict, ImagesInductive, TypeOK, tracker

LEMMA TrackerStep ==
    ASSUME ImagesInductive,
           TrackerCheck \/ TrackerAnnounce \/ \E r \in Release : UpstreamRelease(r)
    PROVE  ImagesInductive'
<1>1. CASE TrackerCheck
    BY <1>1, NoticesSound DEF TrackerCheck, ImagesInductive, TypeOK, fleet
<1>2. CASE TrackerAnnounce
    BY <1>2, NoticesSound DEF TrackerAnnounce, ImagesInductive, TypeOK, fleet
<1>3. ASSUME NEW r \in Release, UpstreamRelease(r) PROVE ImagesInductive'
    <2>1. ops' \in 0..MaxOps BY <1>3, SpendType DEF UpstreamRelease, ImagesInductive, TypeOK
    <2>2. QED BY <1>3, <2>1, NoticesSound DEF UpstreamRelease, ImagesInductive, TypeOK, fleet
<1>4. QED BY <1>1, <1>2, <1>3

-----------------------------------------------------------------------------
LEMMA CatalogueStep == ImagesInductive /\ [Next]_vars => ImagesInductive'
<1> SUFFICES ASSUME ImagesInductive, [Next]_vars PROVE ImagesInductive'
    OBVIOUS
<1>1. CASE Build
    BY <1>1, BuildKnownStep, BuildUploadStep, ProfilePinStep, BuildInsertStep, BuildPinStep DEF Build
<1>2. CASE Promote
    BY <1>2, PromoteGateStep, PromoteCommitStep, PromoteClearStep DEF Promote
<1>3. CASE \E v \in Image : Retire(v) BY <1>3, RetireStep
<1>4. CASE Rollback
    BY <1>4, RollbackRetireStep, RollbackRestoreStep, RollbackFlagStep DEF Rollback
<1>5. CASE BoxStep
    BY <1>5, BoxEditStep, ProbedStep, ProvisionPickStep, ProvisionInsertStep, ProvisionFailsStep DEF BoxStep
<1>6. CASE Kill BY <1>6, KillStep
<1>7. CASE TrackerCheck \/ TrackerAnnounce \/ \E r \in Release : UpstreamRelease(r)
    BY <1>7, TrackerStep
<1>8. CASE UNCHANGED vars
    <2>1. TypeOK' BY <1>8 DEF vars, ImagesInductive, TypeOK, catalogue, fleet, tracker
    <2>2. QED BY <1>8, <2>1, RestsSound DEF vars, fleet
<1>9. QED BY <1>1, <1>2, <1>3, <1>4, <1>5, <1>6, <1>7, <1>8 DEF Next

(* At most one image is promoted, each image of the catalogue and of a box is in the bucket,
   and every image once promoted stays a target of image-rollback, whichever step a command
   is killed before. *)
THEOREM CatalogueAlways == Spec => []ImagesInductive
<1>1. QED BY CatalogueInit, CatalogueStep, PTL DEF Spec
-----------------------------------------------------------------------------
(* What image-rollback has still to flag while it is at it. *)
FlagSound ==
    job.cmd = "flag" => /\ job.other \in Image /\ state[job.other] = "promoted"
                        /\ state[job.image] # "promoted"
                        /\ Flagged \subseteq rollRow \cup job.todo \cup late

(* What the commands about boxes may do to a box meanwhile: it keeps its image, is terminated
   for good, or is a new one, on a promoted image or late. *)
BoxKept(b) ==
    \/ box'[b].image = box[b].image /\ (box'[b].st \in {"provisioning", "live"} => box[b].st \in {"provisioning", "live"})
    \/ state[box'[b].image] = "promoted"
    \/ b \in late'

LEMMA BoxCommandKeeps ==
    ASSUME ImagesInductive, NEW b \in Box, MarkLive(b) \/ Terminate(b) \/ CanaryClear(b)
    PROVE  (\A c \in Box : BoxKept(c)) /\ UNCHANGED <<state, late, rollRow, job, kills>>
<1>1. box \in [Box -> BoxRow] /\ box[b] \in BoxRow BY DEF ImagesInductive, TypeOK
<1>2. CASE MarkLive(b)
    <2>1. box' = [box EXCEPT ![b] = [box[b] EXCEPT !.st = "live"]] BY <1>2 DEF MarkLive, BoxCommand
    <2>2. QED BY <1>1, <1>2, <2>1 DEF MarkLive, BoxCommand, BoxKept, BoxRow, catalogue
<1>3. CASE Terminate(b)
    <2>1. box' = [box EXCEPT ![b] = [box[b] EXCEPT !.st = "terminated"]] BY <1>3 DEF Terminate, BoxCommand
    <2>2. QED BY <1>1, <1>3, <2>1 DEF Terminate, BoxCommand, BoxKept, BoxRow, catalogue
<1>4. CASE CanaryClear(b)
    <2>1. box' = [box EXCEPT ![b] = [box[b] EXCEPT !.canary = FALSE]] BY <1>4 DEF CanaryClear, BoxCommand
    <2>2. QED BY <1>1, <1>4, <2>1 DEF CanaryClear, BoxCommand, BoxKept, BoxRow, catalogue
<1>5. QED BY <1>2, <1>3, <1>4

LEMMA BoxStepKeeps ==
    ASSUME ImagesInductive, BoxStep
    PROVE  (\A c \in Box : BoxKept(c)) /\ late \subseteq late' /\ UNCHANGED <<state, rollRow, job, kills>>
<1>1. CASE ProvisionPick BY <1>1 DEF ProvisionPick, BoxKept, catalogue
<1>2. CASE ProvisionFails BY <1>2 DEF ProvisionFails, BoxKept, catalogue
<1>3. ASSUME NEW b \in Box, NEW canary \in BOOLEAN, ProvisionInsert(b, canary)
      PROVE  (\A c \in Box : BoxKept(c)) /\ late \subseteq late' /\ UNCHANGED <<state, rollRow, job, kills>>
    <2>1. box \in [Box -> BoxRow] BY DEF ImagesInductive, TypeOK
    <2>2. \A c \in Box : c # b => box'[c] = box[c] BY <1>3, <2>1 DEF ProvisionInsert
    <2>3. box'[b].image = pick BY <1>3, <2>1 DEF ProvisionInsert
    <2>4. late' = IF state[pick] = "promoted" THEN late ELSE late \cup {b} BY <1>3 DEF ProvisionInsert
    <2>5. BoxKept(b) BY <2>3, <2>4 DEF BoxKept
    <2>6. QED BY <1>3, <2>2, <2>4, <2>5 DEF ProvisionInsert, BoxKept, catalogue
<1>4. ASSUME NEW b \in Box, Soak(b) \/ KillVerdict(b)
      PROVE  (\A c \in Box : BoxKept(c)) /\ late \subseteq late' /\ UNCHANGED <<state, rollRow, job, kills>>
    BY <1>4 DEF Soak, KillVerdict, BoxKept, catalogue
<1>5. QED BY <1>1, <1>2, <1>3, <1>4, BoxCommandKeeps DEF BoxStep

(* While a rollback is between two of its steps, only its own next step and a kill write the
   catalogue or the command. *)
LEMMA RollbackAlone ==
    ASSUME ImagesInductive, Next, job.cmd \in {"restore", "flag"}
    PROVE  RollbackRestore \/ RollbackFlag \/ Kill \/ BoxStep \/ UNCHANGED <<state, box, late, rollRow, job, kills>>
<1>1. job # Idle BY IdleType
<1>2. ~Build
    BY <1>1 DEF Build, BuildKnown, BuildUpload, ProfilePin, BuildInsert, BuildPin, Operator
<1>3. ~Promote
    BY <1>1 DEF Promote, PromoteGate, PromoteCommit, PromoteClear, Operator
<1>4. CASE TrackerCheck \/ TrackerAnnounce \/ \E r \in Release : UpstreamRelease(r)
    BY <1>4 DEF TrackerCheck, TrackerAnnounce, UpstreamRelease, catalogue, fleet
<1>5. CASE Rollback
    BY <1>1, <1>5 DEF Rollback, RollbackRetire, Operator
<1>6. ~ \E v \in Image : Retire(v) BY <1>1 DEF Retire, Operator
<1>7. QED BY <1>2, <1>3, <1>4, <1>5, <1>6 DEF Next

(* Neither a row nor a termination is undone, and a new box is on another image or late. *)
LEMMA FlagsLast ==
    ASSUME job.cmd = "flag", FlagSound, \A c \in Box : BoxKept(c), late \subseteq late',
           UNCHANGED <<state, rollRow, job, kills>>
    PROVE  FlagSound'
<1>1. Flagged \subseteq rollRow \cup job.todo \cup late /\ state[job.image] # "promoted"
    BY DEF FlagSound
<1>2. ASSUME NEW b \in Flagged' PROVE b \in Flagged \cup late'
    BY <1>1, <1>2 DEF BoxKept, Flagged, BoxesOn
<1>3. Flagged' \subseteq rollRow' \cup job'.todo \cup late' BY <1>1, <1>2
<1>4. QED BY <1>3 DEF FlagSound

(* The step that restores the target: it flags one box and remembers the others. *)
LEMMA RestoreFlags ==
    ASSUME ImagesInductive, RollbackRestore
    PROVE  /\ job.other \in Image /\ state'[job.other] = "promoted" /\ UNCHANGED <<box, late, kills>>
           /\ state'[job.image] # "promoted"
           /\ \/ job' = Idle /\ Flagged = {}
              \/ /\ job'.cmd = "flag" /\ job'.image = job.image /\ job'.other = job.other
                 /\ Flagged \subseteq rollRow' \cup job'.todo
<1>1. /\ job.other \in Image /\ state[job.other] = "retired" /\ job \in Job
      /\ job.image \in Image /\ job.image # job.other /\ PromotedImages = {}
      /\ state \in [Image -> {"none", "candidate", "promoted", "retired"}]
    BY DEF ImagesInductive, TypeOK, JobSound, RollbackRestore
<1>2. state' = [state EXCEPT ![job.other] = "promoted"] /\ UNCHANGED <<box, late, kills>>
    BY <1>1 DEF RollbackRestore, fleet
<1>3. state'[job.other] = "promoted" /\ state'[job.image] # "promoted"
    BY <1>1, <1>2 DEF PromotedImages
<1>4. CASE Flagged = {} BY <1>1, <1>2, <1>3, <1>4 DEF RollbackRestore
<1>5. CASE Flagged # {}
    <2>1. PICK b \in Flagged : /\ rollRow' = rollRow \cup {b}
                               /\ job' = [job EXCEPT !.cmd = "flag", !.todo = Flagged \ {b}]
        BY <1>1, <1>5 DEF RollbackRestore
    <2>2. /\ job'.cmd = "flag" /\ job'.image = job.image /\ job'.other = job.other
          /\ job'.todo = Flagged \ {b}
        BY <1>1, <2>1 DEF Job
    <2>3. QED BY <1>1, <1>2, <1>3, <2>1, <2>2
<1>6. QED BY <1>4, <1>5

LEMMA FlagsOne ==
    ASSUME ImagesInductive, FlagSound, RollbackFlag
    PROVE  /\ job.other \in Image /\ state'[job.other] = "promoted" /\ UNCHANGED <<box, late, kills>>
           /\ state'[job.image] # "promoted"
           /\ \/ job' = Idle /\ Flagged \subseteq rollRow' \cup late
              \/ /\ job'.cmd = "flag" /\ job'.image = job.image /\ job'.other = job.other
                 /\ Flagged \subseteq rollRow' \cup job'.todo \cup late
<1>1. /\ job.other \in Image /\ state[job.other] = "promoted" /\ job \in Job
      /\ state[job.image] # "promoted" /\ Flagged \subseteq rollRow \cup job.todo \cup late
    BY DEF ImagesInductive, TypeOK, FlagSound, RollbackFlag
<1>2. UNCHANGED <<state, box, late, kills>> BY DEF RollbackFlag, catalogue, fleet
<1>3. CASE job.todo = {} BY <1>1, <1>2, <1>3 DEF RollbackFlag
<1>4. CASE job.todo # {}
    <2>1. PICK b \in job.todo : rollRow' = rollRow \cup {b} /\ job' = [job EXCEPT !.todo = @ \ {b}]
        BY <1>4 DEF RollbackFlag
    <2>2. /\ job'.cmd = "flag" /\ job'.image = job.image /\ job'.other = job.other
          /\ job'.todo = job.todo \ {b}
        BY <1>1, <2>1 DEF Job, RollbackFlag
    <2>3. QED BY <1>1, <1>2, <2>1, <2>2
<1>5. QED BY <1>3, <1>4

LEMMA FlagStep == ImagesInductive /\ FlagSound /\ [Next]_vars => FlagSound'
<1> SUFFICES ASSUME ImagesInductive, FlagSound, [Next]_vars, job'.cmd = "flag" PROVE FlagSound'
    BY DEF FlagSound
<1>1. ASSUME UNCHANGED box, job'.image = job.image PROVE Flagged' = Flagged
    BY <1>1 DEF Flagged, BoxesOn
<1>2. CASE UNCHANGED <<state, box, late, rollRow, job>> BY <1>1, <1>2 DEF FlagSound
<1>3. CASE RollbackRestore BY <1>1, <1>3, RestoreFlags, IdleType DEF FlagSound
<1>4. CASE RollbackFlag BY <1>1, <1>4, FlagsOne, IdleType DEF FlagSound
<1>5. ~Kill BY IdleType DEF Kill
<1>6. CASE job.cmd \notin {"restore", "flag"} /\ Next
    <2>1. job \in Job BY DEF ImagesInductive, TypeOK
    <2>2. ~Rollback
        <3>1. ASSUME NEW v \in Image, NEW w \in Image PROVE ~RollbackRetire(v, w)
            <4>1. Command("restore", v, w, {}).cmd = "restore" BY CommandType
            <4>2. QED BY <4>1 DEF RollbackRetire
        <3>2. QED BY <1>6, <3>1 DEF Rollback, RollbackRestore, RollbackFlag
    <2>3. ~Build
        <3>1. \A v \in Image : ~BuildKnown(v)
            BY CommandType DEF BuildKnown
        <3>2. \A v \in Image : ~BuildUpload(v) /\ ~ProfilePin(v)
            BY <1>6, CommandType DEF BuildUpload, ProfilePin
        <3>3. ~BuildInsert /\ ~BuildPin BY <2>1, IdleType DEF BuildInsert, BuildPin, Goes, Job
        <3>4. QED BY <3>1, <3>2, <3>3 DEF Build
    <2>4. ~Promote
        <3>1. \A v \in Image : ~PromoteGate(v) BY CurrentImage, CommandType DEF PromoteGate, PromotedImages
        <3>2. ~PromoteCommit /\ ~PromoteClear
            BY <2>1, IdleType DEF PromoteCommit, PromoteClear, Goes, Job
        <3>3. QED BY <3>1, <3>2 DEF Promote
    <2>5. job' # job BY <1>6
    <2>6. ~BoxStep BY <2>5, BoxStepKeeps
    <2>7. ~(TrackerCheck \/ TrackerAnnounce \/ \E r \in Release : UpstreamRelease(r))
        BY <2>5 DEF TrackerCheck, TrackerAnnounce, UpstreamRelease
    <2>8. ~ \E v \in Image : Retire(v) BY <2>5 DEF Retire
    <2>9. QED BY <1>5, <1>6, <2>2, <2>3, <2>4, <2>6, <2>7, <2>8 DEF Next
<1>7. CASE UNCHANGED vars BY <1>2, <1>7 DEF vars, catalogue, fleet
<1>8. CASE BoxStep
    <2>1. job' = job BY <1>8, BoxStepKeeps
    <2>2. QED BY <1>8, <2>1, BoxStepKeeps, FlagsLast
<1>9. QED BY <1>2, <1>3, <1>4, <1>5, <1>6, <1>7, <1>8, RollbackAlone

LEMMA FlagInit == Init => FlagSound
BY IdleType DEF Init, FlagSound

(* A rollback that nothing kills ends with its target promoted and a row for every box that
   is to be replaced, however many there are and whatever commands about boxes run beside it,
   but for a box inserted after its image was retired. *)
THEOREM RollbackFlagsAll == Spec => RollbackFlagsItsBoxes
<1> DEFINE Flags ==
        job.cmd \in {"restore", "flag"} /\ job' = Idle /\ kills' = kills =>
          /\ state'[job.other] = "promoted"
          /\ \A b \in Box : box'[b].image = job.image /\ box'[b].st \in {"provisioning", "live"}
                            => b \in rollRow' \cup late'
<1>1. ImagesInductive /\ FlagSound /\ [Next]_vars => [Flags]_vars
    <2>1. SUFFICES ASSUME ImagesInductive, FlagSound, Next,
                          job.cmd \in {"restore", "flag"}, job' = Idle, kills' = kills
                   PROVE  /\ state'[job.other] = "promoted"
                          /\ \A b \in Box : box'[b].image = job.image
                                /\ box'[b].st \in {"provisioning", "live"} => b \in rollRow' \cup late'
        BY DEF vars
    <2> HIDE DEF Flags
    <2>2. job # Idle /\ job'.cmd = "idle" BY <2>1, IdleType
    <2>3. ~Kill /\ ~BoxStep BY <2>1, <2>2, BoxStepKeeps DEF Kill, ImagesInductive, TypeOK
    <2>4. RollbackRestore \/ RollbackFlag BY <2>1, <2>2, <2>3, RollbackAlone
    <2>5. /\ state'[job.other] = "promoted" /\ UNCHANGED <<box, late>>
          /\ Flagged = {} \/ Flagged \subseteq rollRow' \cup late
        BY <2>1, <2>2, <2>4, RestoreFlags, FlagsOne
    <2>6. QED BY <2>5 DEF Flagged, BoxesOn
<1>2. ImagesInductive /\ FlagSound /\ [Next]_vars => (ImagesInductive /\ FlagSound)'
    BY CatalogueStep, FlagStep
<1>3. Init => ImagesInductive /\ FlagSound BY CatalogueInit, FlagInit
<1>4. QED BY <1>1, <1>2, <1>3, PTL DEF Spec, RollbackFlagsItsBoxes
=============================================================================
