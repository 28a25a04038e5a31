------------------------------- MODULE Images -------------------------------
(***************************************************************************)
(* The catalogue of RU images: image-build, image-promote behind its gate, *)
(* image-retire, image-rollback, the upstream release tracker, and the     *)
(* boxes whose image_version and canary flag they read.  A command is a    *)
(* sequence of commits and requests, killed between any two of them; the   *)
(* commands about boxes run beside those about images.                     *)
(***************************************************************************)
EXTENDS Naturals, FiniteSets

CONSTANTS
    Image,      \* image_version, the digest of a binary
    Release,    \* tags of the upstream repository
    ReleaseOf,  \* the tag a binary was released under
    Box,
    None,       \* no image, no release
    MinBoxes,   \* image.canary.min_boxes
    MaxKills,   \* bound: commands killed between two steps
    MaxOps      \* bound: operators' commands, releases and verdicts

ASSUME ImagesAssumption ==
    /\ ReleaseOf \in [Image -> Release] /\ None \notin Image \cup Release
    /\ MinBoxes \in Nat \ {0} /\ MaxKills \in Nat /\ MaxOps \in Nat

VARIABLES
    state,      \* ru_images.state by image_version, "none" without a row
    ever,       \* images with a promoted_at
    profile,    \* images with an image_profiles row
    object,     \* images in the bucket
    box,        \* ru_boxes
    pick,       \* the image a provision-seed has read, its box not yet inserted
    late,       \* boxes inserted when their image was promoted no more
    soaked,     \* boxes with probe rows enough for the gate
    killRow,    \* probe_kill_pending::<box>
    rollRow,    \* image_rollback_pending::<box>
    relRow,     \* t4_upstream_release_available::<tag>
    latest,     \* what GitHub calls the latest release
    seen,       \* the tag the tracker is about to announce
    job,        \* the command between two of its steps
    kills, ops

catalogue == <<state, ever, profile, object>>
fleet     == <<box, pick, late, soaked, killRow>>
tracker   == <<relRow, latest, seen>>
vars      == <<catalogue, fleet, rollRow, tracker, job, kills, ops>>

BoxRow == [st : {"none", "provisioning", "live", "terminated"}, image : Image \cup {None}, canary : BOOLEAN]
NoBox  == [st |-> "none", image |-> None, canary |-> FALSE]
Command(cmd, v, w, todo) == [cmd |-> cmd, image |-> v, other |-> w, todo |-> todo]
Idle == Command("idle", None, None, {})
Job  == [cmd : {"idle", "insert", "pin", "commit", "clear", "restore", "flag"},
         image : Image \cup {None}, other : Image \cup {None}, todo : SUBSET Box]

TypeOK ==
    /\ state \in [Image -> {"none", "candidate", "promoted", "retired"}]
    /\ ever \subseteq Image /\ profile \subseteq Image /\ object \subseteq Image
    /\ box \in [Box -> BoxRow] /\ soaked \subseteq Box
    /\ pick \in Image \cup {None} /\ late \subseteq Box
    /\ killRow \subseteq Box /\ rollRow \subseteq Box /\ relRow \subseteq Release
    /\ latest \in Release /\ seen \in Release \cup {None}
    /\ job \in Job /\ kills \in 0..MaxKills /\ ops \in 0..MaxOps

Spend == ops < MaxOps /\ ops' = ops + 1
\* the commands about images run one after the other
Operator == job = Idle /\ Spend
Goes(cmd) == job' = [job EXCEPT !.cmd = cmd]

PromotedImages == {v \in Image : state[v] = "promoted"}
\* current_promoted
Current == IF PromotedImages = {} THEN None ELSE CHOOSE v \in PromotedImages : TRUE
BoxesOn(v, states) == {b \in Box : box[b].image = v /\ box[b].st \in states}

-----------------------------------------------------------------------------
(* image-build: the bucket first, then the row, then the profile.            *)

Built(r) == {v \in Image : ReleaseOf[v] = r /\ state[v] # "none"}

\* a release that is there already is not fetched again, unless forced; the same
\* binary is not uploaded again
BuildKnown(v) ==
    /\ state[v] # "none"
    /\ job' = Command("pin", v, None, {}) /\ Operator
    /\ UNCHANGED <<catalogue, fleet, rollRow, tracker, kills>>

UploadLater(v) == UNCHANGED object
Uploaded(v) == object' = object \cup {v}

BuildUpload(v) ==
    /\ state[v] = "none"
    /\ \E force \in BOOLEAN : force \/ Built(ReleaseOf[v]) = {}
    /\ \/ Uploaded(v) /\ job' = Command("insert", v, None, {})
       \/ \* the upload fails
          UNCHANGED <<object, job>>
    /\ Operator
    /\ UNCHANGED <<state, ever, profile, fleet, rollRow, tracker, kills>>

BuildInsert ==
    /\ job.cmd = "insert"
    /\ state' = [state EXCEPT ![job.image] = "candidate"]
    /\ Goes("pin")
    /\ UNCHANGED <<ever, profile, object, fleet, rollRow, tracker, kills, ops>>

\* the row of a retired image is immutable: an update of it raises
CanPin(v) == state[v] # "none" /\ ~(state[v] = "retired" /\ v \in profile)

BuildPin ==
    /\ job.cmd = "pin"
    /\ profile' = IF CanPin(job.image) THEN profile \cup {job.image} ELSE profile
    /\ job' = Idle
    /\ UNCHANGED <<state, ever, object, fleet, rollRow, tracker, kills, ops>>

ProfilePin(v) ==
    /\ CanPin(v) /\ v \notin profile
    /\ profile' = profile \cup {v}
    /\ Operator
    /\ UNCHANGED <<state, ever, object, fleet, rollRow, tracker, job, kills>>

-----------------------------------------------------------------------------
(* image-promote.                                                            *)

\* a canary that died in its soak still counts
Cohort(v) == {b \in BoxesOn(v, {"live", "terminated"}) : box[b].canary}

GatePasses(v) ==
    \/ \* the "first-ever promotion": nothing is promoted at this moment
       Current = None
    \/ /\ v \in profile
       /\ Cardinality(Cohort(v)) >= MinBoxes
       /\ Cohort(v) \subseteq soaked
       /\ ~ \E b \in Cohort(v) : box[b].st = "live" /\ b \in killRow

\* the gate, then the state and the predecessor that promote() reads
PromoteGate(v) ==
    /\ GatePasses(v) /\ state[v] = "candidate"
    /\ job' = Command("commit", v, Current, {}) /\ Operator
    /\ UNCHANGED <<catalogue, fleet, rollRow, tracker, kills>>

Swapped(v, prior) ==
    [w \in Image |-> IF w = v THEN "promoted" ELSE IF w = prior THEN "retired" ELSE state[w]]

\* log_event commits the two updates
PromoteCommit ==
    /\ job.cmd = "commit"
    /\ state' = Swapped(job.image, job.other) /\ ever' = ever \cup {job.image}
    /\ Goes("clear")
    /\ UNCHANGED <<profile, object, fleet, rollRow, tracker, kills, ops>>

\* the row of its release goes in a transaction of its own
PromoteClear ==
    /\ job.cmd = "clear"
    /\ relRow' = relRow \ {ReleaseOf[job.image]}
    /\ job' = Idle
    /\ UNCHANGED <<catalogue, fleet, rollRow, latest, seen, kills, ops>>

\* of the catalogue only the state of the row changes
Retired(v) == [state EXCEPT ![v] = "retired"]

\* image-retire
Retire(v) ==
    /\ state[v] \in {"candidate", "promoted"}
    /\ state' = Retired(v)
    /\ Operator
    /\ UNCHANGED <<ever, profile, object, fleet, rollRow, tracker, job, kills>>

-----------------------------------------------------------------------------
(* image-rollback <v> --to <w>.                                              *)

RollbackRetire(v, w) ==
    /\ v # w /\ w \in ever /\ state[v] = "promoted"
    /\ state' = [state EXCEPT ![v] = "retired"]
    /\ job' = Command("restore", v, w, {}) /\ Operator
    /\ UNCHANGED <<ever, profile, object, fleet, rollRow, tracker, kills>>

FlaggedLive == BoxesOn(job.image, {"live"})
Flagged == BoxesOn(job.image, {"provisioning", "live"})

\* the update waits for the commit of the first row, or of the audit row without any
RollbackRestore ==
    /\ job.cmd = "restore"
    /\ IF state[job.other] # "retired"
       THEN job' = Idle /\ UNCHANGED <<state, rollRow>>
       ELSE /\ state' = [state EXCEPT ![job.other] = "promoted"]
            /\ IF Flagged = {} THEN job' = Idle /\ UNCHANGED rollRow
               ELSE \E b \in Flagged :
                    /\ rollRow' = rollRow \cup {b}
                    /\ job' = [job EXCEPT !.cmd = "flag", !.todo = Flagged \ {b}]
    /\ UNCHANGED <<ever, profile, object, fleet, tracker, kills, ops>>

RollbackFlag ==
    /\ job.cmd = "flag"
    /\ IF job.todo = {} THEN job' = Idle /\ UNCHANGED rollRow
       ELSE \E b \in job.todo :
            /\ rollRow' = rollRow \cup {b} /\ job' = [job EXCEPT !.todo = @ \ {b}]
    /\ UNCHANGED <<catalogue, fleet, tracker, kills, ops>>

\* the command is killed, or an exception ends it, before its next step
Kill ==
    /\ job # Idle /\ kills < MaxKills
    /\ job' = Idle /\ kills' = kills + 1
    /\ UNCHANGED <<catalogue, fleet, rollRow, tracker, ops>>

-----------------------------------------------------------------------------
(* Boxes.                                                                    *)

ImageForBox == Current

\* provision-seed [--canary] reads the promoted image, for canaries too
ProvisionPick ==
    /\ pick = None /\ ImageForBox # None
    /\ pick' = ImageForBox
    /\ Spend
    /\ UNCHANGED <<catalogue, box, late, soaked, killRow, rollRow, tracker, job, kills>>

\* and inserts the box in a later transaction, whatever became of the image
ProvisionInsert(b, canary) ==
    /\ pick # None /\ box[b].st = "none"
    /\ box' = [box EXCEPT ![b] = [st |-> "provisioning", image |-> pick, canary |-> canary]]
    /\ late' = IF state[pick] = "promoted" THEN late ELSE late \cup {b}
    /\ pick' = None
    /\ UNCHANGED <<catalogue, soaked, killRow, rollRow, tracker, job, kills, ops>>

\* no cover domain, no descriptor, no shard: the insert never comes
ProvisionFails ==
    /\ pick # None /\ pick' = None
    /\ UNCHANGED <<catalogue, box, late, soaked, killRow, rollRow, tracker, job, kills, ops>>

\* a command about a box is one commit, between any two steps of the others
BoxCommand(b, row) ==
    /\ box' = [box EXCEPT ![b] = row]
    /\ Spend
    /\ UNCHANGED <<catalogue, pick, late, soaked, killRow, rollRow, tracker, job, kills>>

MarkLive(b) == box[b].st = "provisioning" /\ BoxCommand(b, [box[b] EXCEPT !.st = "live"])

Terminate(b) ==
    box[b].st \in {"provisioning", "live"} /\ BoxCommand(b, [box[b] EXCEPT !.st = "terminated"])

\* ru-box-canary-clear
CanaryClear(b) == box[b].canary /\ BoxCommand(b, [box[b] EXCEPT !.canary = FALSE])

\* probe rows: enough of them, from vantages enough
Soak(b) ==
    /\ box[b].st = "live" /\ box[b].canary /\ b \notin soaked
    /\ soaked' = soaked \cup {b}
    /\ Spend
    /\ UNCHANGED <<catalogue, box, pick, late, killRow, rollRow, tracker, job, kills>>

\* the audit sweep
KillVerdict(b) ==
    /\ \/ box[b].st = "live" /\ killRow' = killRow \cup {b} /\ Spend
       \/ box[b].st # "live" /\ b \in killRow /\ killRow' = killRow \ {b} /\ UNCHANGED ops
    /\ UNCHANGED <<catalogue, box, pick, late, soaked, rollRow, tracker, job, kills>>

-----------------------------------------------------------------------------
(* UpstreamReleaseTracker, in the daemon or as upstream-check.               *)

UpstreamRelease(r) ==
    /\ r # latest /\ latest' = r
    /\ Spend
    /\ UNCHANGED <<catalogue, fleet, rollRow, relRow, seen, job, kills>>

AnnouncesNone(r) == {v \in Image : state[v] # "none"} = {}
Announces(r) == Built(r) = {}

\* the tag is fetched and looked up in the catalogue; a failed request changes nothing
TrackerCheck ==
    /\ seen = None /\ Announces(latest) /\ latest \notin relRow
    /\ seen' = latest
    /\ UNCHANGED <<catalogue, fleet, rollRow, relRow, latest, job, kills, ops>>

TrackerAnnounce ==
    /\ seen # None
    /\ relRow' = relRow \cup {seen} /\ seen' = None
    /\ UNCHANGED <<catalogue, fleet, rollRow, latest, job, kills, ops>>

-----------------------------------------------------------------------------
Init ==
    /\ state = [v \in Image |-> "none"] /\ ever = {} /\ profile = {} /\ object = {}
    /\ box = [b \in Box |-> NoBox] /\ pick = None /\ late = {} /\ soaked = {} /\ killRow = {} /\ rollRow = {}
    /\ relRow = {} /\ latest \in Release /\ seen = None
    /\ job = Idle /\ kills = 0 /\ ops = 0

Build == \/ \E v \in Image : BuildKnown(v) \/ BuildUpload(v) \/ ProfilePin(v)
         \/ BuildInsert \/ BuildPin
Promote == (\E v \in Image : PromoteGate(v)) \/ PromoteCommit \/ PromoteClear
Rollback == (\E v, w \in Image : RollbackRetire(v, w)) \/ RollbackRestore \/ RollbackFlag
BoxStep == \/ ProvisionPick \/ ProvisionFails
           \/ \E b \in Box : \/ MarkLive(b) \/ Terminate(b) \/ CanaryClear(b) \/ Soak(b) \/ KillVerdict(b)
                            \/ \E canary \in BOOLEAN : ProvisionInsert(b, canary)

Next == \/ Build \/ Promote \/ (\E v \in Image : Retire(v)) \/ Rollback \/ BoxStep \/ Kill
        \/ (\E r \in Release : UpstreamRelease(r)) \/ TrackerCheck \/ TrackerAnnounce

Spec == Init /\ [][Next]_vars
FairSpec == Spec /\ WF_vars(TrackerCheck) /\ WF_vars(TrackerAnnounce)

-----------------------------------------------------------------------------
OnePromoted == \A v, w \in PromotedImages : v = w

CatalogueSound ==
    \A v \in Image : /\ state[v] # "none" => v \in object
                     /\ state[v] = "promoted" => v \in ever
                     /\ v \in ever => state[v] \in {"promoted", "retired"}
                     /\ v \in profile => state[v] # "none"

BoxesSound ==
    /\ \A b \in Box : box[b].st # "none" \/ box[b].canary => box[b].image \in ever
    /\ pick # None => pick \in ever

\* what a command between two of its steps still knows
JobSound ==
    /\ job.cmd # "idle" => job.image \in Image
    /\ job.cmd = "insert" => job.image \in object /\ state[job.image] = "none"
    /\ job.cmd \in {"pin", "commit", "clear"} => state[job.image] # "none"
    /\ job.cmd = "commit" => job.other = Current /\ state[job.image] = "candidate"
    /\ job.cmd = "restore" =>
        /\ job.other \in Image \ {job.image} /\ job.other \in ever
        /\ state[job.other] = "retired" /\ PromotedImages = {}

\* There is at most one promoted image (check 24), every image of the catalogue and of a box
\* can be fetched from the bucket, whatever step a command was killed before, and what is
\* promoted or has ever been stays a possible target of a rollback.
ImagesInductive == TypeOK /\ OnePromoted /\ CatalogueSound /\ BoxesSound /\ JobSound

\* A rollback that is not killed leaves its target promoted and every box that still runs
\* the image rolled back, provisioned or live, flagged for replacement (_cmd_image_rollback),
\* whatever commands about boxes came between its commits; but a box whose provisioning had
\* read the image before it was retired may be inserted after it, and stays without a row.
RollbackFlagsItsBoxes ==
    [][job.cmd \in {"restore", "flag"} /\ job' = Idle /\ kills' = kills =>
          /\ state'[job.other] = "promoted"
          /\ \A b \in Box : box'[b].image = job.image /\ box'[b].st \in {"provisioning", "live"}
                            => b \in rollRow' \cup late']_vars

\* A latest release that nobody builds is announced in the end, and stays so (run_once).
UnbuiltIsAnnounced ==
    \A r \in Release : <>[](latest = r /\ Built(r) = {}) => <>[](r \in relRow)

=============================================================================
