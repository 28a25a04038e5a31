# A formal model of mthydra

mthydra runs Telegram relays for a small group of users.  A controller hands out
RU boxes (entry relays behind TLS cover domains), each of which tunnels to EU
exits; boxes are burned and replaced as they are discovered, users are spread
over small shards so that one informer exposes few boxes, and every box learns
the current exits from one signed descriptor.

The controller is one SQLite database (WAL mode).  It is written by short-lived
operator commands, each a process of its own, and by the threads of one daemon.
A SELECT outside a transaction runs in autocommit, and most helpers
(`log_event`, `set_obligation`, `prove`, `mark_burned`, ...) commit by
themselves, so a command is a sequence of small commits between which any other
process may commit too, and it can be killed after each of them.  That is what
most modules here are about.  The modules are TLA+, the configurations
model-check them with TLC on small instances, and the `*Proofs` modules hold
theorems, for every value of the constants, checked by TLAPS.

`PROJECT.json` lists the components, the runs and what each shows, the map from
definitions to source lines, the hazards each property is for, and the theorems.
`PROJECT.json`'s mutants are edits of single definitions, each the slip a plausible
change of the code would be, under which TLC finds the property named violated; the
slips stand in the modules, right before the definition they are slips of.

## 1. Inventory

Paths are below `src/src/mthydra/` unless they begin with `src/`.
"Hard" names what makes a component difficult to test.

| Component | State | Operations | Interacts with | Hard | What makes it correct |
|---|---|---|---|---|---|
| Cover pool, RU boxes, credentials (C, G): `controller/state/{cover_pool,cover_pool_scheduler,burned,ru_boxes,credentials}.py`, `controller/provisioning/` | `cover_domain_pool`, `burned_domains`, `ru_boxes`, `onward_credentials`, obligation rows | cover-add, attest, rotate, provision-seed, ru-box-mark-live, reclaim, terminate; the TTL, rotation and auto-reverify sweeps | shards (a box belongs to one), descriptor (the seed carries it), alerter (obligations) | reads before transactions, three commits per termination, sweeps that act on snapshots minutes old | an exposed domain is never reused; an in_use domain has a standing holder; no terminated box keeps a credential; burning is final |
| Shard manager (H): `controller/state/{shards,users_shards}.py`, `controller/shard_manager/` | `shards.members_json`, `users.current_shard_id` (the same fact twice) | user-add, user-onboard, shard-create, shard-reshuffle, the reshuffle wheel, shard creation by provisioning | boxes, distribution | read-modify-write of a JSON list, a reshuffle in several commits, wheel against operators | one roster per user, both records agree, no shard is shown to more users than max_size or than the operator listed, every user is seated, every overdue shard regenerated |
| Descriptor (B): `descriptor/`, `controller/state/{descriptor,eu_exit_set}.py` | `descriptor_signing_key`, `descriptor_history`, `eu_exit_set`, the object `descriptors/current` | sign-now, signing-key-rotate, eu-add, eu-retire, the rotator's tick, publish-now, seeds | RU agents, data exit | four autocommit reads before an insert; upload after the connection is closed | one active key, an unbroken hash chain, newest descriptor by the active key, boxes never roll back |
| Credential authority (B): `descriptor/authority.py`, `controller/state/authority.py` | `credential_authority`, credentials | bootstrap, authority-rotate, authority-migrate-placeholder | adopt case B, snapshots, startup checks | insert and retire are two commits, and a snapshot may be taken between them | one active authority, and a real key, wherever a daemon serves |
| RU agent (E): `ru_agent/` | the box's iptables chains, `sing-box.json`, held descriptor, children | startup, refresh thread, recheck thread, supervisor, tunnel check, debug poller, shutdown | descriptor object, sing-box, nfqws | two threads on one chain with no lock, exceptions that end a thread | rules follow the held descriptor, heal after a loss, and a box goes off only for cause |
| Backup pipeline (A): `controller/backup/`, `controller/state/backup_log.py` | `backup_log`, one object per generation and `index.json` in the bucket | do_backup by the floor timer and by backup-now, integrity sweep, reconcile | bucket, monitor, restore | a per-process mutex, four steps across database and bucket, timeouts that took effect, numbers reused after a restore | one writer per generation, the log and the index tell the truth, index.json catches up, failures alarm |
| Backup monitor: `src/mthydra-backup-monitor/` | a JSON state file | poll, evaluate_gap, mail | `index.json` only | state saved before the mail; an index that goes back | silence is reported, alarms are true |
| Restore, adopt, promote, standby (A): `controller/restore/`, `controller/promote.py`, `controller/standby/`, `controller/state/node_state.py` | the database file itself, `node_state`, the standby's heartbeat | restore, adopt-restored-state, promote, standby watch | bucket, every table | renames and single commits without a transaction, snapshots of any age and role | a promotion ends in a database that starts; nothing but a command that asks for no role keeps a standby from starting; a silent standby is flagged |
| Startup invariants, schema: `controller/state/{invariants,schema,db,audit}.py`, `controller/startup.py` | checks over all tables | apply_schema, run_startup_checks | all | a check that a legal crash violates stops the daemon | the checks hold in every reachable state, not only at startup |
| Image build, gate, promotion (D, D2): `controller/image/`, `controller/state/{ru_images,image_profiles}.py` | `ru_images` states, canary data | build, gate, canary, promote, retire | boxes, probes | bucket, row and profile in three steps, promotion in three commits, rollback in one per box | one promoted image, every image of a row or a box in the bucket, a rollback flags its boxes, a release nobody builds is announced |
| EU nodes, data exit (F): `controller/data_exit/`, `controller/state/eu_nodes.py` | `eu_nodes`, `eu_exit_set`, config files | eu-node-add, eu-node-retire, keygen, eu-add, eu-retire, write config | descriptor, promotion, startup checks | rows that a later promotion or start reads | one active node; nodes without an identity do not stop a standby |
| Probes (I): `controller/probe/`, `controller/state/probe_*.py`, `controller/probe_runner/` | vantages, results, credentials | run, ingest, evaluate, quarantine, audit | boxes, images, alerter | three rows per pair, filed late and one by one, rows lost to the write lock, ticks and sweeps that raise | a box that fails every check is flagged and stays so, a false alarm clears, a terminated box is dropped |
| Observability (J): `controller/observability/`, `controller/state/alert_*.py` | alert log, acks, heartbeat | scan, send, repeat, ack | obligations of everyone | sent-but-not-recorded, rows compacted away, dedupe by the last attempt, acks of an older episode, a counter in memory | nothing is told twice within its window unless its own row is missing, whatever stays critical reaches the operator, a dead mail is reported over Telegram |
| Obligation clocks: `controller/state/obligations.py` | one row per obligation | set, prove, delete | everyone | rows nobody deletes | a row stands for something true |
| Distribution, enrolment (K): `controller/distribution/`, `controller/state/{distribution_log,user_channels}.py` | distribution log, tokens, channels | publish, forced publish, enrol | shards, boxes | send then record, two runs at once, a write transaction open while sending, a token looked up and then spent by user, batches fetched again | a user ends up with the current subset; a token binds once; rows about a user come true |
| Compactor (M): `controller/state/compactor.py` | every history table | prune | readers of those tables | retention against readers | nothing a reader needs is pruned |
| Operator tooling: `ops/` | releases on disk, systemd units | install, upgrade, roll back, RU bring-up | all | steps of which one fails | an upgrade ends in the old or the new release |
| Configuration, CLI parsing, text: `controller/{config,debug_flag,debug_runtime}.py`, renderers | none of its own | parse, format | - | - | not a subject of a state machine |

## 2. Plan and where it stands

Most important behaviour first: what the users' safety and the network's life
depend on, then what watches it.

1. **Fleet** `CoverFleet`, abstract `CoverLifecycle`, `CoverFleetProofs`.
2. **Shards** `ShardRosters`, abstract `ShardPartition`, `ShardRosterProofs`.
3. **Descriptor** `DescriptorChain`, composed with publication and boxes by
   `DescriptorRefresh`; `DescriptorChainProofs`.
4. **RU agent** `RuAgent`; `WatchersProofs`.
5. **Backup** `BackupGenerations`, composed with the monitor and the integrity
   sweep by `BackupWatch`; `BackupProofs`.
6. **Node roles** `NodeRoles`: init, serve, authority, restore, promotion, standbys;
   `NodeRolesProofs`.
7. **Images and canary** `Images`; `ImagesProofs`.
8. **Probes and verdicts** `Probes`.
9. **Alerts** `Alerts`; `WatchersProofs`.
10. **Distribution and enrolment** `Distribution`; `DistributionProofs`.

All ten are built.  What is left of the plan is named, with the reason, in section 7.
There is one run per distinct question: what a run with overlapping writers would
show of the fleet, the shards, the signers and the backups is proved instead, by
theorems that allow any number of overlapping writers (section 5).

## 3. Modules and what they stand for

Every action is one committed transaction, one autocommit read, one request to
the bucket, one message, or one command on the box.  Reads that decide a later write
are kept in the process's own record (`op`, `job`, `pub`, `sweep`, `poll`): this
record is lost when the process dies, the tables are not.

### CoverFleet, CoverLifecycle, MCCoverFleet, CoverFleetProofs

`pool`, `assigned`, `stale`, `overdue` are columns of `cover_domain_pool`
(timestamps are reduced to whether a TTL has passed), `burned` is
`burned_domains`, `boxState`, `sni`, `wentLive` are columns of `ru_boxes`, `cred`
the box's onward credential, and `rotPending`, `frozen`, `drift` obligation rows.
`op[s]` is where the command of shell `s` is and what it has read: provisioning
picks a domain and later commits; reclaim reads and later commits; termination
reads the box, lists credentials, revokes, burns, marks; rotation reads, burns,
clears.  The three sweeps have one variable group each.  `Crash` kills a command
or restarts the daemon.  `CoverLifecycle` is the life of a domain as an operator
thinks of it: unknown, unverified, verified, in use, burned, and never handed
back once a live box has shown it.  `Check6`, `Check19` and `Check28` are the startup
checks on these tables.

### ShardRosters, ShardPartition, MCShardRosters, ShardRosterProofs

`roster` is `shards.members_json`, `current` is `users.current_shard_id`, `phase`
the state of a shard row.  Each writer, the wheel included, has a record: what it
planned (`plan`), which shards it has not created yet (`todo`), the one whose
users it is repointing (`moving`).  A reshuffle commits its primary shard, then
each leftover chunk, then the retirement.  `ShardPartition` does the whole in
one step.  `Check34` to `Check36` are the startup checks on rosters.  shard-create
takes any list: with more ids than max_size (`MaxListed`), and, where `Commands` has
"strangers", with ids that are no users yet.  `Cap` is therefore the larger of
max_size and `MaxListed`.  An id listed twice is the same as listed once.

### DescriptorChain, DescriptorRefresh, MCDescriptorRefresh, DescriptorChainProofs

`keys`, `history`, `exits` are the three tables; `op` is a signer between its
reads.  Hashes are the generation they are of, 0 for null.  `DescriptorRefresh`
adds the bucket object, publishers (read, later put), seeds (read descriptor,
later read keys) and, per box, the anchors of its seed, the held descriptor, the
descriptor `sing-box.json` was rendered from, the failure counter, and beside it
`inRow`, the outages since the box last got an answer of any kind.  `Check13` to
`Check15` and `Check22` are the startup checks on keys and history, `VerifyChain` is
`verify_chain`.

### RuAgent, MCRuAgent, WatchersProofs

One box.  `chain` is the iptables chain `MTHYDRA_DESYNC` with its jumps, `holder`
the list `_current_exit_endpoints`, `job` where each of the two threads is within
`desync.clear` and `desync.install`, one command per action.  `loaded` is what
sing-box runs with, `held` what `sing-box.json` says.  `raced` remembers whether
the threads ever met amid those commands.

### BackupGenerations, BackupWatch, MCBackupWatch, BackupProofs

`log` is `backup_log`, `bucket` the objects (which life of the database wrote
them, and the log that was inside), `index` is `index.json`.  `job` is a process
in `do_backup`: read the number, insert the row, snapshot, upload, record, publish
the index, stamp.  A request that raises may have reached the bucket.  `restored`
and `life` are restore and adopt-restored-state: the log goes back to the one in
the object.  `BackupWatch` adds the monitor (`seen`, `overdue`, `alarmed` are its
state file, `mailing` the gap between saving and sending) and the integrity sweep
(`hashing` is the row it has read and not yet compared, `corrupt` the rows
`backup_integrity_failed::g`).

### NodeRoles, MCNodeRoles, NodeRolesProofs

Machines, each with the file at `db_path` (`live`, `NoDB` when there is none).  A database
is a record: `role` is `node_state`, `auth` is `credential_authority` by generation, `rows`
whether any other table of check 23 has one (signing keys, descriptors, publishing tokens,
cover domains, burned domains, exits, credentials of providers but b2), `eu` and `ident` are
`eu_nodes`, `hb` the heartbeat rows of `alert_log`, `stale` the liveness rows.
`WriteUnasked` is cover-add, eu-add or rotate-provider-credential, which write such a row
whatever the role.  `bucket` holds whole databases, as snapshots do.  `job` is a command
between two of its steps, with the decrypted snapshot and the file it renamed away:
promote-active stages, renames the old file away, moves the new one in, sets the role,
updates `eu_nodes`, runs the startup checks, and rolls back if they refuse;
adopt-restored-state moves and, in case B, retires and re-keys the authority, with the
daemon down from its first step to its last, as its docstring demands and nothing enforces;
authority-rotate inserts and then retires.  `Kill` ends a command between any two of those
steps.  `StartupCheck` is what `serve` must pass, `CheckAll` the conjunction of checks 22,
23, 26, 31 and 42 on a database.

### Images, MCImages, ImagesProofs

`state`, `ever` (a `promoted_at`) and `profile` are `ru_images` and `image_profiles`,
`object` the images in the bucket, `box` the columns of `ru_boxes` that say what it
runs, `soaked` and `killRow` what the gate reads of a canary.  `job` is a command
between two commits: build uploads, inserts, pins; promote reads and gates, then
commits, then clears the obligation; rollback retires, restores, and flags box by
box.  Commands about images take turns; those about boxes run between any two of their
commits: provision-seed reads the promoted image (`pick`) and inserts the box later,
when the image may be retired (`late` remembers such boxes, for the property), and
boxes are marked live, terminated and lose their canary flag.  `latest`, `seen`,
`relRow` are the release tracker.

### Probes, MCProbes

`window` is the newest M rows of `probe_results` for a box in the order of their
`cycle_at`, `audit` the boxes the audit sweep still has to judge, `bad` the checks that
a box fails.  `pending` is a pair of the runner's tick: which of its three checks is
next, and how many rows of its box are newer than its `cycle_at`, which was taken when
its probes began.  Each check files a row of its own (`Probe`), behind the rows that
are newer; other pairs and probe-record may have filed theirs meanwhile, and the vantage
may have been retired or burned, or the row is lost to the lock (`ProbeLost`).
`evaluate_box` is the operators from hard fail to distinct vantages; `kill`, `blocked`,
`coverage`, `unreachable` are the rows it leads to.

### Alerts, MCAlerts, WatchersProofs

Ages instead of timestamps, cut off at the longest window: `since` is the age of a
key's last row of `alert_log`, `told` that of its last delivery through a sink,
`acked` what is left of an ack.  `sweep` is `AlertSweep.run_once` between two keys or
two sinks: decide, send, log.  `beat`, `fails`, `breach` are the heartbeat publisher
and the dead man's switch.  `Restart` kills the daemon, perhaps between a message and
its row; `Compact` is compact-logs on `alert_log` with any cutoff.  `unlogged` is history:
a key and a sink it was told through whose row a kill prevented or `Compact` took, until
the key has a row again.

The agent and the alerter watch the network from two sides and share no state;
`WatchersProofs` holds the proofs of both, which is why the specification of the
agent is called `AgentSpec`.

### Distribution, MCDistribution, DistributionProofs

One user.  `usable` is what `build_subset` would compute now, `holds` what the user
got last over a channel, `last` what the log says.  `pub` is one `run_once` in each of
two threads or processes: read the user, take the write lock with the DELETE, then per
channel skip, send, append, commit the decision's audit row, and last the row about
reachability.  A write that finds the lock taken ends the run where it is
(`PubGiveUp`).  `token`, `starts`, `poll` are the enrolment poller: match looks a token
up by its hash, then spends whatever token the user has by then, in a commit of its own;
the channels, read with the address of that moment, are bound in the next, and the offset
of the batch is saved after all of them, so a batch that fails is fetched again.
`binds` counts per token.  `lost` remembers that a message arrived
of which the log does not tell: an answer that never came, a row that was not written.

## 4. Runs

| Run | What it asks | Bounds |
|---|---|---|
| fleet_one_operator | exposed domains are never offered again, startup checks 6, 19 and 28 pass in every state, the tables implement CoverLifecycle | 2 domains, 2 boxes, 1 operator, the auto-reverify sweep, 1 crash |
| fleet_sweeps_live | stale verifications are withdrawn, overdue domains flagged | 2 domains, 1 box, 1 operator, the other 2 sweeps, 1 crash |
| shards_one_writer | startup checks 34 to 36 pass between commands that list users of the table, blast radius, implements ShardPartition | 3 users, 4 shard ids, target 1, max 2, 2 listed, no fault |
| shards_live | no overlap breaks the invariant; users are seated, overdue shards regenerated | 2 users, 4 shard ids, 1 operator (add, reshuffle) and the wheel at once, max 1, 1 fault |
| descriptor_refresh | one active key, what is published and pending is history (`RefreshInductive`), history that the next start accepts, boxes move forward, catch up, go off only after outages in a row | 1 operator and the rotator, 1 publisher, 1 box, 2 keys, 2 descriptors, 1 kill, 2 outages |
| ru_agent | rules are current while the threads do not meet, and heal when they do | 2 exits, 3 descriptor contents, 2 refreshes, 2 troubles |
| backup_watch | objects, log, index, sweep and monitor agree (`WatchInductive`), index.json catches up, alarms and corruption are real, silence is reported | daemon and 1 shell, taking turns, 3 generations, 1 fault, 1 restore, 1 lost mail or download |
| node_roles | only rows of commands that ask for no role keep a standby from starting, a promotion settles, a serving daemon could be restarted, standbys are watched | 2 machines, 3 authorities, 1 snapshot, 1 kill, 3 commands or spans of days |
| images | catalogue and bucket agree, one promoted image, a rollback flags its boxes, an unbuilt release is announced | 3 images of 2 releases, 2 boxes, 1 kill, 8 commands, releases or verdicts |
| probes | a box that fails every check is flagged, a false alarm clears, the sweep's rows are right | 2 vantages, 1 box, window 2 of which 2 must fail, 2 vantages needed, a box that fails one check or all, 1 command or change of the world |
| alerts | no message without a row but for kills and compaction, not twice within a window, crit gets through, a dead mail is told | 1 alarm and the breach, windows 1 and 3, acks for 2, threshold 2, 3 acks, outages, compactions or restarts |
| distribution | a token binds once, the log is true of what the user has over Telegram (`DistributionInductive`), the first channel ends up current, rows about the user come true | 1 box, 2 tokens, threshold 2, 3 steps of the operator, the user or the world |

Why these are enough.  Two domains and two boxes let a domain pass from one box to another
while a third party holds a stale reading of it; three users and max 2 make a reshuffle
produce two chunks, and four ids leave it somewhere to put them.  An operator and the
rotator are the fewest that draw the same generation, two keys the fewest for a rotation.
Two machines are a primary and a standby, each of which can be promoted with the other's
snapshot, and two authorities beyond the first let a snapshot be taken in the middle of a
rotation and be adopted under case B.  Three images are one promoted, one to roll back to
and one being built; two boxes make a rollback flag twice, with room for a kill in between.
A window of two rows over two vantages has every mixture of verdicts that N-of-M and the
distinct-vantage rule tell apart.  The alert windows and the ack differ from each other, so
that a key can be acked within one window and deduped by the other.  In Distribution three
steps let the subset change twice under two runs, or a channel go down and come up again.
What a bound cuts is named in the module ("bound:"), and properties that would be cut by it
say so (`IdsLeft`, `g + MaxFaults < MaxGen`).  The proofs need no bounds.

CHECK_DEADLOCK is off where the system may stop: a bounded number of ids, faults,
generations or troubles, once used up, leaves nothing to do, and a box that is off
stays off.  It is on in `probes`, `alerts` and `distribution`, whose schedulers
never stop.

### Fairness

* The daemon's sweeps run by APScheduler on interval triggers and are re-registered
  at every start: weak fairness on each sweep's steps, none on any operator step.
* The wheel's sweep likewise; a step of it that fails is a bounded fault.
* `RefreshLoop.run_forever` ticks every 15 +- 5 minutes while its thread lives: weak
  fairness on a tick that reaches the object, none on publication.
* The recheck thread wakes every 15 minutes, and the commands of either thread
  go on once begun: weak fairness on the two threads.
* systemd restarts `serve`, whose floor timer begins a backup, and every request
  to the bucket times out: weak fairness on serving, on the daemon's `Begin`, and on
  the steps of a backup once begun.
* The monitor polls every `poll_interval_minutes`, time passes.
* A standby's publisher and the active's poller run on intervals (NodeRoles): weak
  fairness on both and on the ageing of a beat that is not renewed; none on serving.
* The release tracker runs on an interval: weak fairness on its two steps.
* The probe runner and the audit sweep: strong fairness on the ticks, on each box of
  a sweep and on a probe that gets its row written, because the lock that makes a
  writer fail is held for moments (`busy_timeout` is seconds, ticks are minutes) and
  is free again and again; weak fairness on a probe that ends one way or the other.
* The alerter and the heartbeat: weak fairness on each of the two jobs; time passes
  (strong, as any other step may come before it).
* The publisher: weak fairness on the sweep, run after run, and on a forced run once
  begun.  A user who taps a link, a forced run, and the poller's batches have none.

## 5. What is proved

`BY` names the facts each leaf needs; nothing is assumed beyond the named
assumptions on constants.  The pattern throughout: an invariant that says, besides
what is wanted, what every process that is between two statements still knows.

| Theorem | Statement | Why it is not inductive as it stands |
|---|---|---|
| CoverFleetProofs!FleetSafe (TypeCorrect, HolderStandsAlways, CredentialRevoked, BurningIsFinal) | `Spec => []FleetInductive` and its parts | a termination between its commits: the invariant records that before `burn` the credential is gone and before `mark` the domain is burned |
| CoverFleetProofs!FleetChecksAlways | checks 6, 19 and 28 in every state, any overlap, any kill | from FleetInductive: a provisioning's pick may be burned, its commit tests again |
| CoverFleetProofs!OneOperatorSafe (ExposedNeverReused, LifecycleImplemented) | the same with one operator process | a reclaim between read and commit: with one operator, the box cannot have gone live |
| ShardRosterProofs!OverlapSafe (RosterCappedAlways, RetirementIsFinal) | any overlap, kills, failures, and shard-create with any ids, users or not: no roster outgrows the larger of max_size and what an operator lists at once | what each writer has planned is within that cap, and uuids drawn are nobody else's |
| ShardRosterProofs!TurnsSafe (NoCrossShardUserAlways, RecordsAgreeAlways) | while commands take turns, none dies, no user is onboarded twice and shard-create lists users of the table (`TakeTurns`) | users "in flight" between a roster and a pointer are those of the one writer's plan |
| ShardRosterProofs!PointersSafe (RosterChecksPassAlways, BlastRadiusAlways) | under `TakeTurns`: checks 34 to 36 pass between commands, and between any two commits no shard is shown to more users than max_size or than an operator listed in one shard-create | the one writer's plan says which users still point at the retired shard and which at the primary one, and that no empty roster is left active (`PointersHold`) |
| ShardRosterProofs!PartitionImplemented | under `TakeTurns`, every statement maps to a step of `ShardPartition` or to a stutter; there a shard opens with as many users as were listed | under a regeneration the abstract shards are those of the plan from its first commit on (`Opened`), the users' pointers those the plan will write |
| DescriptorChainProofs!ChainAlways (ChainOneKey) | any overlap, kills | a signer's reads can only have been overtaken |
| DescriptorChainProofs!ChainTurns (ChainIsLinked, ChainLatestTrusted) | as long as no signer ever started during another | what the signer has read is what is; a newest descriptor by a retired key is about to be followed (`LatestFollowed`) |
| DescriptorChainProofs!ChainHistorySound | the next start's checks 13, 14 and 22, and 15 with verify_chain while signers take turns | the key a signer has read existed when it was read, and key rows are never deleted |
| DescriptorChainProofs!RefreshAlways | `RefreshSpec => []RefreshInductive`, any signers, publishers, boxes and kills | what a publisher or a seed has read, what is published and what a box holds are generations of the history; a box that trusts every key so far has counted no more than the outages since it last got an answer (`BoxesFollow`) |
| DescriptorChainProofs!RefreshOffAfterOutages | a box that trusts every key goes off only after MAX_FAILURE_TICKS failed fetches in a row | from `BoxesFollow` |
| DescriptorChainProofs!RefreshNeverRollsBack | with `PublishInTurns`, a box never goes back to an older descriptor | what a publisher has read is no older than the object (`ObjectBehindReads`) |
| WatchersProofs!AgentAlways (AgentRulesAreCurrent) | `AgentSpec => []AgentInductive`, any exits, children, troubles: threads that never met leave at rest the chain of the held descriptor or none, and only a race makes a reinstall power the box off | a thread amid its commands that met no one finds the chain as its own last command left it (`ChainAt`), so each command of clear and install does what it is for (`NotMet`) |
| BackupProofs!BackupObjects (BackupTruth) | any overlap, faults, kills, restores | a writer owns a row that stays unpushed until its object is there; every log a restore could bring back agrees with the bucket |
| BackupProofs!BackupAlone | when backups take turns | the backup under way has the highest number |
| BackupProofs!WatchAlways | `WatchSpec => []WatchInductive`, any processes, generations, faults and restores | the row the sweep has picked is still what the log says of it (a pushed row changes only by a restore, which the sweep does not survive), and until a restore the monitor is not ahead of the index |
| BackupProofs!WatchAlarmIsTrue, WatchCorruptionIsReal | an alarm is decided only over an index nobody wrote since, while backups take turns; a generation is called corrupt only if the bucket differs from its row at that moment | from WatchInductive, step by step |
| NodeRolesProofs!RolesAlways | `Spec => []RolesInductive`: a standby, a snapshot of one, a file a promotion keeps passes the checks but for rows left by a command that asks for no role; any machines, snapshots and kills | the skeleton under an unfinished init, the snapshot staged and the file renamed away are databases too, and each must be sound before it is moved in |
| NodeRolesProofs!PromotionsSettle | a promotion that is not killed ends in a database that starts, or gives back the skeleton it renamed away as it was | needs what a job knows at each step: what is at `db_path`, that the file renamed away was a standby's, and that the checks ran on what is there |
| NodeRolesProofs!ServingAlways | `Spec => []ServingIsRestartable`: without a kill, what serves as active has one authority and no placeholder | between its commits a rotation has two; the invariant `ServeFits` names both, the older one about to retire, and check 22 refuses any start while both are active |
| ImagesProofs!CatalogueAlways | `Spec => []ImagesInductive`, any images, boxes, kills | a build that has uploaded and not inserted, a rollback between retire and restore when nothing is promoted |
| ImagesProofs!RollbackFlagsAll | a rollback that is not killed flags every box it has to, beside any commands about boxes, but for a box inserted after its image was retired | while it flags, every box of the image has its row, is still on its list or is late (`FlagSound`); what the other commands may do to a box meanwhile (`BoxKept`) keeps it so |
| WatchersProofs!AlertsAlways | what dedupe reads is never older than what was told, unless a kill prevented the row of that message or compact-logs took it | the one message on its way belongs to the key and the sink the sweep is at (`SendingIsOn`) |
| WatchersProofs!ToldOnce | no sink tells a key twice within its window, unless a kill prevented that message's row or compact-logs took it; a restart alone excuses nothing | a key on its way through the sinks was past its window when it was decided, and every sink's own last delivery is at least as old (`Due`) |
| DistributionProofs!EnrollmentAlways | each token binds once, any batch fetched again, whatever is minted between lookup and update | the live token has bound nothing, nor has the one about to bind, which is live no more (`TokensAddUp`) |
| DistributionProofs!DistributionAlways | `Spec => []DistributionInductive`: until an answer or a row is lost the last row is the last message over Telegram, so a sweep that skips skips a user who has that very subset | between a message and its row the log is old: the run whose turn is Telegram holds the transaction, one run at most does, and nobody else writes rows meanwhile (`RunsAreOrdered`, `LogIsTrue`) |

Assumptions beyond the constants' types appear as hypotheses in the theorems
themselves: one operator process (`SingleOperator`), writers that take turns
(`TakeTurns`), one publisher of descriptors
at a time (`PublishInTurns`), `~overlapped`, `~Overlap`.  Onboardings that overwrite each other's
reads are in `OverlapSafe` only: the run's one operator adds and reshuffles beside the
wheel.  The theorems say what the code promises
under them; those without them say what is left when writers overlap.

With that, every invariant, action property and refinement that a run checks is a theorem;
nothing is proved of `Probes`, whose three properties are liveness.  Only model-checked are
the liveness properties, because the prover has no rule for `ENABLED` and so none for
fairness: `StaleIsWithdrawn`, `OverdueIsFlagged`, `UnassignedIsSeated`,
`OverdueIsReshuffled`, `BoxCatchesUp`, `RulesHeal`, `IndexCatchesUp`, `SilenceIsReported`,
`PollerIsRight`, `UnbuiltIsAnnounced`, `HardFailIsFlagged`, `FalseAlarmClears`,
`SweepIsRight`, `CritReachesOperator`, `DeadMansSwitch`, `FirstChannelIsCurrent` and
`FlagsAreRight`.  What the invariants above give them is their safety half:
`FirstChannelIsCurrent` could fail by a sweep that skips a user who has an old subset, which
`SkipsAreTrue` excludes for Telegram; `RulesHeal` by a reinstall that leaves the wrong
rules, which `NotMet` excludes.

## 6. Where the code and its documents disagree, and what breaks under a kill

The modules follow the code; none of the following is a property, because the code
does not have it.  Where a property that holds had to be stated around one of them,
its bound or hypothesis says so (no fault and no strangers in `shards_one_writer`,
`~Overlap`, `kills = 0`, `~lost`, `late`, `unlogged`, `bad[b] = Check`, `past`).

Fleet and shards

* `reclaim_box` reads outside its transaction: with two operators, a box marked live in
  between has its domain returned to the pool (hence one operator in `NeverReuseExposed`).
* The auto-reverify sweep burns by a snapshot taken before the probes: a domain
  provisioned since is burned in use, and the floor is counted in the snapshot.
* ru-box-terminate after cover-rotate revokes, fails on the burned domain and leaves a
  standing box without a credential, which startup check 27 refuses.
* A rotation_pending row written for a domain burned since the due list was read stays.
* A reshuffle killed between its primary shard and a leftover chunk leaves users who
  point at the primary shard and are on no roster; `state/shards.py:161` says "Atomic".
* The wheel can seat a user between `add_user` and `assign_user_to_shard`; a second
  onboarding leaves the first roster; check 35 then refuses the next start.
* shard-create takes any list.  More ids than max_size make a larger roster (the cap is
  only in `assign_user_to_shard`, `users_shards.py:83`), up to the wheel's next reshuffle.
  An id that is no user yet gets a place on the roster; once it is added, the wheel seats it
  a second time and check 35 refuses the next start, with one writer and no fault.
* Only the wheel's own non-empty reshuffle deletes the overdue row.  An empty default
  shard is retired and never created again.

Descriptor and agent

* A box keeps its seed's anchors for life: after one rotation and one publish it
  refuses the descriptor 24 times and powers down, though spec B (B-D8) says it learns of
  the key through the descriptor.  `OffOnlyAfterOutages` and `BoxCatchesUp` are stated for
  boxes that trust the key.
* A descriptor without exits raises in `rewrite_fn` after the new hash is recorded and
  ends the refresh thread; the docstring says tick never raises.
* HUP goes to a unit `mthydra-sing-box` nobody installs: sing-box runs on with its old
  exits until it restarts.
* The recheck thread can meet a refresh's clear, collide with its install and power a
  healthy box down (`ru_agent/__main__.py:305` says the gate avoids this).
* descriptor-verify passes no previous hash (`cli.py:1661`), so any generation above the
  first FAILs.

Backup

* `run_startup_checks` gets no destination from its callers, so `reconcile_pending` is
  never called (spec A, 9 and 10.11); a later backup's index covers the row instead,
  which `IndexCatchesUp` shows.
* An index upload that fails is preceded by `record_pushed` and resets the streak it
  should count in; `abandon_zombie_starts`' docstring says tagged rows are excluded from
  the streak, and `count_consecutive_failures` counts them.
* The mutex is per process: a slower process's older index.json is put last and stays
  until the next backup, and the monitor may mail for nothing.
* A restored log numbers again what the bucket holds, and overwrites it (spec A: "never
  reuse a generation number").
* `backup-integrity-now --generation` checks the newest all the same: `cli.py:2669-2733`
  replaces a name that `integrity.py` has imported already.  A
  `backup_integrity_failed::g` row of a generation that leaves the last ten stays.

Roles

* promote-active killed between its two renames (`promote.py:131-134`), or in its
  rollback, leaves no file at `db_path`.
* A snapshot taken between authority-rotate's insert and its retire has two active
  generations: check 22 refuses every promotion and start from it, except between
  the retire and the insert of an adoption under case B, where it counts one.  adopt case B killed
  between retire and insert leaves none; its new token is a placeholder that check 26
  does not recognise.
* cover-add, eu-add and rotate-provider-credential ask for no role
  (`cli.py:2565`, `1745`, `1074`): one of them on a standby, and check 23 refuses its next
  start.  A promotion does not mind: it renames the skeleton away.
* Rows of eu-node-add without cover_sni or reality_pubkey stop the daemon from restarting
  (check 31) until keygen; keygen for another node overwrites the local key file.
* promote-active leaves the former active node's row 'active'.  A stale row of a standby
  that was retired is never cleared.  Check 42 refuses a snapshot, or a daemon that was
  down, longer than twice the heartbeat interval.
* `eu_standby_liveness_stale` and `t4_upstream_release_available` are missing from the
  alerter's anti-obligation prefixes, so they turn critical as overdue proofs do.
* `apply_schema` runs all current statements before it looks at the version: on a
  database older than some columns, CREATE INDEX fails; the 0.0.3 fix release note says
  all migrations are walked.

Images

* `provision_box` builds every box, canary or not, from the promoted image
  (`seed.py:170`), so no candidate's cohort ever fills; spec D2 (lines 244-248) provisions
  canaries "from v2".  With it, the only way to a second image is to retire the first.
* `promote()` is three commits where `ru_images.py:5` says a single transaction; two at
  once may leave two promoted images.  A rollback killed between its steps leaves none,
  and reopens the bypass of the first image.  A build killed between insert and pin leaves
  a candidate without a profile.  `image_rollback_pending` rows are never deleted.
* provision-seed reads the promoted image and inserts its box later: a rollback that
  commits in between leaves a box on the image rolled back, without a row.
* ru-image-cycle looks for "iv-<release>", which no build writes.

Probes, alerts, distribution

* The window of M counts rows, of which a tick writes three per vantage: the newest M may
  all be passes of the checks that a box does pass, and a box that fails one check only may
  never be flagged, or lose its flag (hence `bad[b] = Check` in `HardFailIsFlagged`).
  Rows of burned vantages still count.  `blocked` and `coverage` rows of terminated boxes
  and `unreachable` rows of retired vantages are never cleared.
* Dedupe looks at the last attempt, whatever its severity or success; an ack suppresses
  every severity; the coverage row, written anew each sweep, never gets old enough to be
  critical; without credentials a dry-run sink reports success.
* A run of the publisher sends its first message with a write transaction open.  With two
  runs at once the second channel may keep an older subset (`publisher.py:165`; spec K
  says both get every change), and compaction of a delivered row sends it again.
* A message that arrived without its answer is no row.  If the user's boxes then come back
  to the subset of the last row, the sweep takes the user for current and skips for good
  (`publisher.py:157-160`), one publisher alone included: `FirstChannelIsCurrent` asks for
  no loss or for a subset the shard never had.
* A token is consumed before the channel is bound: a failure in between leaves the user
  unbound.  It is looked up by hash and spent by user (`enrollment.py:53-70`): a token
  minted in between is spent unused.  `EnrollmentPoller` writes back the mail address it
  read before, over a user-channels-set that came in between.  A user who binds a new chat
  gets nothing there until the subset changes, and user-onboard --email forgets the chat.

Smaller ones: two restores of the same bucket can leave rows whose hash the
integrity sweep finds different, hence `life <= 1` in `RowMatchesObject`;
adopt-restored-state relies on the operator to have stopped the daemon; the debounced
`notify_burned_change` has no callers; the bootstrap backup is not run by init;
publication of descriptors is manual, though spec E reads as if it were not;
`provision_box`'s comment promises current and outgoing keys where one is active;
`terminate_box` calls `sys.exit` from a thread; a second iptables failure reinstalls
again where the comment announces a shutdown.

## 7. Not modelled

* **Migrations, install, upgrade**: sequences of DDL, files, systemd and SSH commands
  that run once, under an operator's eye; their hard part is what the commands do, not
  their interleaving.
* **Data exit**: `serve` never arms `DataExitWheel`, and the exit set's `clear` and
  `set_data_exit_state` have no callers; the config writer renders one read of the tables.
* **The agent's tunnel check and debug poller, the reality observer, the vantage
  self-check**: one process, one row or one verdict each, that no other component
  decides upon.
* **Configuration, parsing, rendering, texts**: no state.
* **Startup checks of one row's format** (hashes, lengths, modes): they hold or fail by
  what one INSERT writes.

Left out of what is modelled: compact-logs on `alert_acks` (an ack forgotten early only
means that more is told), the expiry of tokens, the heartbeat interval of the
configuration, in place of which promote-active checks with the default, two forced runs of
the publisher at once (the operator's and the poller's take turns), and which of the rows
that check 23 counts are there.

Within what is modelled: timestamps are reduced to whether a limit has passed, or to ages
cut off at the longest window; JSON, age encryption, Ed25519 and TLS are their effect (what
a key trusts, what a hash names); SQLite's busy timeout is taken as long enough where
writers only commit, so that a commit succeeds or its process fails (Probes and
Distribution, where a writer holds the lock over the network, model the failure); DNS and
network results are arbitrary, a probe finds what a box fails; the audit log is left out
except where a property needs the fact (the self-alarm).
