----------------------------- MODULE BackupWatch -----------------------------
(***************************************************************************)
(* The backup pipeline and the two that watch it.  mthydra-backup-monitor, *)
(* a program on another host, reads index.json alone and mails the operator *)
(* when highest_gen has not advanced for alarm_threshold_hours; it saves its *)
(* state before it mails, so an alarm that cannot be sent counts as sent   *)
(* until alarm_repeat_hours have passed.  The integrity sweep downloads a  *)
(* pushed generation and compares its hash with the one in backup_log.     *)
(***************************************************************************)
EXTENDS BackupGenerations

CONSTANT MaxMailFaults \* bound: mails not sent, monitors killed, downloads that fail

ASSUME WatchAssumption == MaxMailFaults \in Nat

VARIABLES
    seen,       \* last_seen_gen, 0 before the first index
    overdue,    \* alarm_threshold_hours have passed since first_observed_at
    alarmed,    \* last_alarm_at: "no", "recent", or "old" after repeat_hours
    mailing,    \* an alarm is decided and saved, not mailed yet
    moved,      \* index.json was written since first_observed_at
    told,       \* the operator was mailed since index.json was last written
    mailFaults,
    hashing,    \* what the integrity sweep has read: a generation and its hash
    corrupt     \* generations with a row backup_integrity_failed::<generation>

monvars   == <<seen, overdue, alarmed, mailing, moved, told>>
smokevars == <<hashing, corrupt>>
watchvars == <<monvars, mailFaults, smokevars>>
allvars   == <<vars, watchvars>>

Nothing == [gen |-> 0, hash |-> NotYet]

WatchInit ==
    /\ Init
    /\ seen = 0 /\ overdue = FALSE /\ alarmed = "no" /\ mailing = FALSE
    /\ moved = FALSE /\ told = FALSE /\ mailFaults = 0
    /\ hashing = Nothing /\ corrupt = {}

-----------------------------------------------------------------------------
(* evaluate_gap; its tests follow the slip an edit of them might be. *)

AdvancedOnce == seen = 0
Advanced == seen = 0 \/ index.gen > seen

FiresOnce == alarmed = "no"
Fires == alarmed \in {"no", "old"}

\* One poll: read index.json, evaluate_gap, _save_state.
Poll ==
    /\ ~mailing
    /\ index # NoIndex
    /\ \/ /\ Advanced
          /\ seen' = index.gen /\ overdue' = FALSE /\ alarmed' = "no" /\ moved' = FALSE
          /\ UNCHANGED mailing
       \/ /\ ~Advanced /\ overdue /\ Fires
          /\ alarmed' = "recent" /\ mailing' = TRUE
          /\ UNCHANGED <<seen, overdue, moved>>
    /\ UNCHANGED <<vars, told, mailFaults, smokevars>>

Mail ==
    /\ mailing /\ mailing' = FALSE
    /\ told' = TRUE
    /\ UNCHANGED <<vars, seen, overdue, alarmed, moved, mailFaults, smokevars>>

\* send_gap_alarm raises, or the monitor is killed before it mails
MailFails ==
    /\ mailing /\ mailing' = FALSE
    /\ mailFaults < MaxMailFaults /\ mailFaults' = mailFaults + 1
    /\ UNCHANGED <<vars, seen, overdue, alarmed, moved, told, smokevars>>

ThresholdPasses ==
    /\ seen # 0 /\ ~overdue /\ overdue' = TRUE
    /\ UNCHANGED <<vars, seen, alarmed, mailing, moved, told, mailFaults, smokevars>>

RepeatPasses ==
    /\ alarmed = "recent" /\ ~mailing /\ alarmed' = "old"
    /\ UNCHANGED <<vars, seen, overdue, mailing, moved, told, mailFaults, smokevars>>

-----------------------------------------------------------------------------
(* BackupIntegritySweep.run_once: by its timer in the daemon or in a process  *)
(* of its own, beside the backups.                                           *)

\* list_recent_pushed; of the last ten the sweep picks one at random
RecentStarted == Numbered
Recent == {g \in Gen : log[g].pushed # NotYet}

HashRead(g) ==
    /\ hashing = Nothing
    /\ g \in Recent
    /\ hashing' = [gen |-> g, hash |-> log[g].pushed]
    /\ UNCHANGED <<vars, monvars, mailFaults, corrupt>>

\* The download has the hash of the row, or it has not, or there is none.
HashVerdict ==
    /\ hashing # Nothing /\ hashing' = Nothing
    /\ corrupt' = IF bucket[hashing.gen].by = hashing.hash /\ hashing.hash # NotYet
                    THEN corrupt \ {hashing.gen} ELSE corrupt \cup {hashing.gen}
    /\ UNCHANGED <<vars, monvars, mailFaults>>

DownloadFails ==
    /\ hashing # Nothing /\ hashing' = Nothing
    /\ mailFaults < MaxMailFaults /\ mailFaults' = mailFaults + 1
    /\ corrupt' = corrupt \cup {hashing.gen}
    /\ UNCHANGED <<vars, monvars>>

HashKilled ==
    /\ hashing # Nothing /\ hashing' = Nothing
    /\ UNCHANGED <<vars, monvars, mailFaults, corrupt>>

Smoke == HashVerdict \/ DownloadFails \/ HashKilled \/ \E g \in Gen : HashRead(g)

Watch ==
    \/ Poll \/ Mail \/ MailFails \/ ThresholdPasses \/ RepeatPasses
    \/ Smoke

\* An adoption replaces the database under the sweep, and brings back the rows
\* of an earlier moment.
Readopted == {g \in Gen : restored.rows[g].pushed # NotYet}

Controller ==
    /\ Next
    /\ IF index' = index
         THEN UNCHANGED <<moved, told>>
         ELSE moved' = TRUE /\ told' = FALSE
    /\ IF life' = life
         THEN UNCHANGED smokevars
         ELSE hashing' = Nothing /\ corrupt' \in SUBSET Readopted
    /\ UNCHANGED <<seen, overdue, alarmed, mailing, mailFaults>>

WatchSpec == WatchInit /\ [][Controller \/ Watch]_allvars

\* Time passes, and the loop of the monitor polls every poll_interval_minutes.
WatchFairness ==
    /\ WF_allvars(Poll)
    /\ WF_allvars(Mail \/ MailFails)
    /\ WF_allvars(ThresholdPasses)
    /\ WF_allvars(RepeatPasses)

FairWatchSpec == WatchSpec /\ Fairness /\ WatchFairness

-----------------------------------------------------------------------------

(* AlarmIsTrue: the monitor decides to alarm only if no backup has written   *)
(* index.json since it saw the generation it reports as stuck.  Two          *)
(* processes backing up at the same time, or a restore, can make it lie: an  *)
(* older upload then takes highest_gen back.                                 *)
AlarmIsTrue ==
    [][~mailing /\ mailing' /\ ~Overlap /\ life = 0 => ~moved]_allvars

(* CorruptionIsReal: the integrity sweep calls a generation corrupt only if    *)
(* the bucket does not hold what backup_log says it does, or the download    *)
(* failed, although the row was read before the download and backups go on.  *)
CorruptionIsReal ==
    [][\A g \in corrupt' \ corrupt :
          \/ bucket[g].by # log[g].pushed
          \/ mailFaults' > mailFaults \/ life' > life]_allvars

(* SilenceIsReported: if index.json stops being written, for whatever reason, *)
(* the operator is mailed, although mails fail and the monitor forgets to    *)
(* mail what it has saved.                                                   *)
SilenceIsReported ==
    \A g \in Gen : (index.gen = g /\ ~told) ~> (index.gen # g \/ told)
-----------------------------------------------------------------------------
(* WatchInductive: why AlarmIsTrue and CorruptionIsReal hold.  A number that  *)
(* was pushed has a row, in the live log and in every copy of it, so the      *)
(* primary key keeps its hash from being replaced; and index.json only        *)
(* advances, so that it was written since the last poll shows in its number.  *)
WatchTypeOK ==
    /\ seen \in 0..MaxGen
    /\ hashing \in [gen : 0..MaxGen, hash : Life \cup {NotYet}]
    /\ corrupt \subseteq Gen
    /\ mailFaults \in 0..MaxMailFaults

Filled(rows) == \A g \in Gen : rows[g].pushed # NotYet => rows[g].there

LogsFilled ==
    /\ Filled(log) /\ Filled(restored.rows)
    /\ \A g \in Gen : Filled(bucket[g].rows)
    /\ \A p \in Process : Filled(job[p].rows)

SweepIsCurrent ==
    hashing # Nothing => /\ hashing.gen \in Gen /\ hashing.hash # NotYet
                         /\ log[hashing.gen].pushed = hashing.hash

MonitorIsBehind ==
    ~Overlap /\ life = 0 => seen <= index.gen /\ (moved => seen < index.gen)

WatchInductive ==
    /\ ObjectsInductive /\ AloneInductive
    /\ WatchTypeOK /\ LogsFilled /\ SweepIsCurrent /\ MonitorIsBehind
=============================================================================
