\* The daemon and a backup-now take turns, watched by the monitor and by the
\* integrity sweep; one step fails or a process is killed, one mail or download
\* is lost, and one database is restored from the bucket.
CONSTANTS
    Shell = {s1}
    Daemon = daemon
    Overlap = FALSE
    MaxGen = 3
    MaxFaults = 1
    MaxRestores = 1
    MaxMailFaults = 1
SPECIFICATION FairWatchSpec
CHECK_DEADLOCK FALSE
INVARIANTS
    WatchInductive
PROPERTIES
    IndexCatchesUp
    AlarmIsTrue
    CorruptionIsReal
    SilenceIsReported
