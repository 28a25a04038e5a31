------------------------------- MODULE RuAgent -------------------------------
(***************************************************************************)
(* The agent of one RU box (specs E and V): startup, the descriptor-refresh *)
(* thread once it has a verified new descriptor (DescriptorRefresh has the  *)
(* rest of its loop), the periodic-recheck thread and the supervisor.  The  *)
(* two threads share the box's desync chain with no lock: every iptables    *)
(* command on it is a step.                                                 *)
(***************************************************************************)
EXTENDS Naturals, FiniteSets

CONSTANTS
    ExitIp,        \* addresses of EU exits
    Payload,       \* what descriptors may say
    Child,         \* what the supervisor runs besides nfqws
    SingBox,       \* one of them
    MaxCrashes,    \* Supervisor.CRASH_MAX_IN_WINDOW
    MaxAttempts,   \* STARTUP_MAX_ATTEMPTS
    MaxRefreshes,  \* bound: new descriptors
    MaxTrouble     \* bound: what the environment does to the box

\* A descriptor without exits ends the refresh thread: DescriptorRefresh!TickNew.
ASSUME AgentAssumption ==
    /\ Payload \subseteq [exits : (SUBSET ExitIp) \ {{}}, desync : BOOLEAN]
    /\ SingBox \in Child
    /\ MaxCrashes \in Nat \ {0} /\ MaxAttempts \in Nat \ {0}
    /\ MaxRefreshes \in Nat /\ MaxTrouble \in Nat

VARIABLES
    phase,      \* "boot", "up", "failed" (gave up, stays up) or "off"
    attempts,
    armed,      \* did the seed bring a desync strategy and an nfqws?
    held,       \* the descriptor of the refresh loop, which sing-box.json follows
    loaded,     \* the descriptor whose sing-box.json sing-box runs with
    holder,     \* _current_exit_endpoints
    nat,        \* are the REDIRECT rules for Telegram in place?
    chain,      \* MTHYDRA_DESYNC
    job,        \* where each thread is in its desync commands
    raced,      \* history variable: did anyone ever touch the chain amid them?
    hardened,   \* do the hardening invariants hold?
    crashes,    \* restarts of a child within the window
    why,        \* what powered the box down
    refreshes, trouble

agentvars == <<phase, attempts, armed, held, loaded, holder, nat, chain, job, raced,
               hardened, crashes, why, refreshes, trouble>>

Thread == {"refresh", "recheck"}

\* hooks: jumps from OUTPUT
NoChain      == [made |-> FALSE, rules |-> {}, hooks |-> 0]
FullChain(S) == [made |-> TRUE, rules |-> S, hooks |-> 1]

(* pc: the next command, "D", "F", "X" (clear), "N", "A", "H" (install), or   *)
(* "holder"; the recheck thread: "verify".  ips: exits not appended yet, next: *)
(* what the holder gets, only: clear and do not install.                       *)
Resting == [pc |-> "rest", ips |-> {}, next |-> {}, only |-> FALSE]
JobType == [pc : {"rest", "verify", "D", "F", "X", "N", "A", "H", "holder"},
            ips : SUBSET ExitIp, next : SUBSET ExitIp, only : BOOLEAN]
Amid(t) == job[t].pc \notin {"rest", "verify"}
Meets(t) == raced' = (raced \/ \E u \in Thread \ {t} : Amid(u))

-----------------------------------------------------------------------------
AgentInit ==
    /\ phase = "boot" /\ attempts = 0
    /\ held \in Payload
    /\ armed \in BOOLEAN /\ (armed => held.desync)
    /\ loaded = held
    /\ holder = {}
    /\ nat = FALSE
    /\ chain = NoChain
    /\ job = [t \in Thread |-> Resting]
    /\ raced = FALSE
    /\ hardened = TRUE
    /\ crashes = [c \in Child |-> 0]
    /\ why = "none"
    /\ refreshes = 0 /\ trouble = 0

\* iptables.install tears its chain down before it builds it: one that fails
\* leaves no REDIRECT that works, whatever was there.
InstallNat(done) == nat' = done

\* What desync.install leaves of the chain when a command of it fails.
HalfInstalled(S) == {NoChain} \cup {[made |-> TRUE, rules |-> R, hooks |-> 0] : R \in SUBSET S}

(* _startup, up to MaxAttempts times: hardening, seed and mtg leave the rules   *)
(* alone; then the REDIRECT rules; on a box with nfqws its download and last    *)
(* the desync chain.  A step that fails leaves the rules of those before it.    *)
StartFails ==
    /\ phase = "boot"
    /\ attempts' = attempts + 1
    /\ phase' = IF attempts' = MaxAttempts THEN "failed" ELSE "boot"
    /\ \/ UNCHANGED <<nat, chain>>
       \/ InstallNat(FALSE) /\ UNCHANGED chain
       \/ armed /\ InstallNat(TRUE) /\ chain' \in {chain} \cup HalfInstalled(held.exits)
    /\ UNCHANGED <<armed, held, loaded, holder, job, raced, hardened, crashes, why,
                   refreshes, trouble>>

StartSucceeds ==
    /\ phase = "boot"
    /\ phase' = "up"
    /\ InstallNat(TRUE)
    /\ chain' = IF armed THEN FullChain(held.exits) ELSE chain
    /\ holder' = held.exits
    /\ UNCHANGED <<attempts, armed, held, loaded, job, raced, hardened, crashes, why,
                   refreshes, trouble>>

\* terminate_box
PowerOff(cause) == phase' = "off" /\ why' = cause
StaysUp == UNCHANGED <<phase, why>>

-----------------------------------------------------------------------------
(* Statements; some follow the slip that a careless edit of them might be. *)

\* _apply_desync_on_refresh touches the chain only where nfqws runs
Touches == armed

\* the exits a refresh installs rules for
OldExits(d) == holder
NewExits(d) == d.exits

\* the first command of desync.clear, -D OUTPUT
Unhook(ch) == [ch EXCEPT !.hooks = IF @ = 0 THEN 0 ELSE @ - 1]

\* desync.verify_installed
VerifiesChain == chain.made
Verifies == chain.made /\ holder \subseteq chain.rules

\* iptables.verify_installed
NatVerified == nat

\* a child crashed once too often
TooMany(n) == n >= MaxCrashes

-----------------------------------------------------------------------------
(* One command of desync.clear or desync.install by thread t.  An install that *)
(* fails is suppressed by the refresh thread; the recheck thread powers off.   *)

SetChain(t, ch, pc) ==
    /\ chain' = ch
    /\ job' = [job EXCEPT ![t].pc = pc]
    /\ StaysUp
    /\ UNCHANGED holder

AfterLast(t) == IF t = "refresh" THEN "holder" ELSE "rest"

InstallFails(t) ==
    /\ IF t = "refresh" THEN job' = [job EXCEPT ![t].pc = "holder"] /\ StaysUp
                        ELSE PowerOff("desync") /\ UNCHANGED job
    /\ UNCHANGED <<chain, holder>>

ClearCommand(t) ==
    \/ job[t].pc = "D" /\ SetChain(t, Unhook(chain), "F")
    \/ job[t].pc = "F" /\ SetChain(t, [chain EXCEPT !.rules = {}], "X")
    \/ /\ job[t].pc = "X"
       /\ SetChain(t, IF chain.rules = {} /\ chain.hooks = 0 THEN NoChain ELSE chain,
                   IF job[t].only THEN AfterLast(t) ELSE "N")

InstallCommand(t) ==
    \/ /\ job[t].pc = "N"
       /\ IF chain.made THEN InstallFails(t)
                        ELSE SetChain(t, [chain EXCEPT !.made = TRUE], "A")
    \/ /\ job[t].pc = "A" /\ job[t].ips # {}
       /\ IF ~chain.made THEN InstallFails(t) ELSE
            \E ip \in job[t].ips :
                /\ chain' = [chain EXCEPT !.rules = @ \cup {ip}]
                /\ job' = [job EXCEPT ![t].ips = @ \ {ip}]
                /\ StaysUp
                /\ UNCHANGED holder
    \/ job[t].pc = "A" /\ job[t].ips = {} /\ SetChain(t, chain, "H")
    \/ /\ job[t].pc = "H"
       /\ IF ~chain.made THEN InstallFails(t)
          ELSE SetChain(t, [chain EXCEPT !.hooks = @ + 1], AfterLast(t))

Command(t) ==
    /\ phase = "up"
    /\ ClearCommand(t) \/ InstallCommand(t)
    /\ Meets(t)
    /\ UNCHANGED <<attempts, armed, held, loaded, nat, hardened, crashes, refreshes, trouble>>

-----------------------------------------------------------------------------
(* The refresh thread's rewrite_fn *)

\* sing-box.json is written, then "systemctl kill -s HUP mthydra-sing-box" names a
\* unit nobody installs, since sing-box is a child of the supervisor.
Rewrite(d) ==
    /\ phase = "up"
    /\ job["refresh"].pc = "rest"
    /\ refreshes < MaxRefreshes
    /\ refreshes' = refreshes + 1
    /\ held' = d
    /\ job' = [job EXCEPT !["refresh"] =
                  [pc   |-> IF Touches THEN "D" ELSE "holder",
                   ips  |-> IF d.desync THEN NewExits(d) ELSE {},
                   next |-> d.exits,
                   only |-> ~d.desync]]
    /\ UNCHANGED <<phase, attempts, armed, loaded, holder, nat, chain, raced, hardened,
                   crashes, why, trouble>>

SetHolder ==
    /\ phase = "up"
    /\ job["refresh"].pc = "holder"
    /\ holder' = job["refresh"].next
    /\ job' = [job EXCEPT !["refresh"] = Resting]
    /\ Meets("refresh")
    /\ UNCHANGED <<phase, attempts, armed, held, loaded, nat, chain, hardened, crashes,
                   why, refreshes, trouble>>

-----------------------------------------------------------------------------
(* The recheck thread *)

RecheckHardening ==
    /\ phase = "up" /\ job["recheck"].pc = "rest"
    /\ ~hardened
    /\ PowerOff("hardening")
    /\ UNCHANGED <<attempts, armed, held, loaded, holder, nat, chain, job, raced,
                   hardened, crashes, refreshes, trouble>>

\* No other thread touches the REDIRECT rules: the reinstall is one step, which
\* can fail.
RecheckNat ==
    /\ phase = "up" /\ job["recheck"].pc = "rest"
    /\ hardened
    /\ \/ /\ IF NatVerified THEN UNCHANGED nat ELSE InstallNat(TRUE)
          /\ StaysUp
          /\ UNCHANGED trouble
          /\ job' = [job EXCEPT !["recheck"].pc = IF armed THEN "verify" ELSE "rest"]
       \/ /\ ~NatVerified /\ trouble < MaxTrouble
          /\ trouble' = trouble + 1
          /\ InstallNat(FALSE)
          /\ PowerOff("iptables")
          /\ UNCHANGED job
    /\ UNCHANGED <<attempts, armed, held, loaded, holder, chain, raced, hardened,
                   crashes, refreshes>>

\* The holder is read once, for the check and for the install.
RecheckDesync ==
    /\ phase = "up" /\ job["recheck"].pc = "verify"
    /\ job' = [job EXCEPT !["recheck"] =
                  IF Verifies THEN Resting
                  ELSE [pc |-> "D", ips |-> holder, next |-> {}, only |-> FALSE]]
    /\ UNCHANGED <<phase, attempts, armed, held, loaded, holder, nat, chain, raced,
                   hardened, crashes, why, refreshes, trouble>>

-----------------------------------------------------------------------------
(* The supervisor.  A restarted sing-box reads sing-box.json. *)

ChildDies(c) ==
    /\ phase = "up"
    /\ trouble < MaxTrouble
    /\ trouble' = trouble + 1
    /\ crashes' = [crashes EXCEPT ![c] = @ + 1]
    /\ IF TooMany(crashes'[c]) THEN PowerOff("supervisor") /\ UNCHANGED loaded
       ELSE /\ loaded' = IF c = SingBox THEN held ELSE loaded
            /\ StaysUp
    /\ UNCHANGED <<attempts, armed, held, holder, nat, chain, job, raced, hardened, refreshes>>

\* The crashes of a child leave the window.
WindowPasses(c) ==
    /\ phase = "up"
    /\ \E n \in 0..crashes[c] : crashes' = [crashes EXCEPT ![c] = n]
    /\ UNCHANGED <<phase, attempts, armed, held, loaded, holder, nat, chain, job, raced,
                   hardened, why, refreshes, trouble>>

-----------------------------------------------------------------------------
(* The environment *)

RulesLost ==
    /\ phase = "up"
    /\ trouble < MaxTrouble
    /\ trouble' = trouble + 1
    /\ \/ nat' = FALSE /\ UNCHANGED <<chain, raced>>
       \/ chain' = NoChain /\ raced' = (raced \/ \E t \in Thread : Amid(t)) /\ UNCHANGED nat
    /\ UNCHANGED <<phase, attempts, armed, held, loaded, holder, job, hardened, crashes,
                   why, refreshes>>

HardeningRegresses ==
    /\ phase = "up"
    /\ trouble < MaxTrouble
    /\ trouble' = trouble + 1
    /\ hardened' = FALSE
    /\ UNCHANGED <<phase, attempts, armed, held, loaded, holder, nat, chain, job, raced,
                   crashes, why, refreshes>>

-----------------------------------------------------------------------------
RefreshThread == Command("refresh") \/ SetHolder
RecheckThread == Command("recheck") \/ RecheckHardening \/ RecheckNat \/ RecheckDesync

AgentNext ==
    \/ StartFails \/ StartSucceeds
    \/ \E d \in Payload : Rewrite(d)
    \/ RefreshThread \/ RecheckThread
    \/ \E c \in Child : ChildDies(c) \/ WindowPasses(c)
    \/ RulesLost \/ HardeningRegresses

\* Threads run; the recheck thread wakes every 15 minutes.  Nothing makes a
\* descriptor arrive, a child die or rules vanish.
AgentSpec     == AgentInit /\ [][AgentNext]_agentvars
AgentFairSpec == AgentSpec /\ WF_agentvars(RefreshThread) /\ WF_agentvars(RecheckThread)

-----------------------------------------------------------------------------
(* Properties *)

\* Types of the box and its threads.
AgentTypeOK ==
    /\ phase \in {"boot", "up", "failed", "off"}
    /\ attempts \in 0..MaxAttempts
    /\ armed \in BOOLEAN
    /\ held \in Payload /\ loaded \in Payload
    /\ holder \subseteq ExitIp
    /\ nat \in BOOLEAN
    /\ chain \in [made : BOOLEAN, rules : SUBSET ExitIp, hooks : 0..2]
    /\ job \in [Thread -> JobType]
    /\ raced \in BOOLEAN
    /\ hardened \in BOOLEAN
    /\ crashes \in [Child -> 0..MaxCrashes]
    /\ why \in {"none", "hardening", "iptables", "desync", "supervisor"}
    /\ refreshes \in 0..MaxRefreshes /\ trouble \in 0..MaxTrouble

\* A box without nfqws never gets NFQUEUE rules, which nothing would read.  Having
\* never met, the threads leave at rest the chain away or with a rule for every exit
\* of the descriptor in sing-box.json, none for a former one, and one jump; and no
\* reinstall finds the chain in its way ("Idempotent"), whatever a failed startup or
\* the environment left of it.
RulesAreCurrent ==
    /\ why = "desync" => raced
    /\ armed \/ ~chain.made
    /\ (phase = "up" /\ ~raced /\ \A t \in Thread : job[t].pc \in {"rest", "verify"})
         => chain = NoChain \/ chain = FullChain(held.exits)

\* However the threads meet and whatever removes rules, every exit of a box with
\* nfqws gets its rule back and Telegram traffic is redirected into sing-box again,
\* or the box is powered off.
RulesHeal ==
    /\ (phase = "up" /\ armed) ~> (phase = "off" \/ (holder \subseteq chain.rules /\ chain.made))
    /\ (phase = "up" /\ ~nat) ~> (phase = "off" \/ nat)

-----------------------------------------------------------------------------
(* Why RulesAreCurrent holds: a thread that is alone amid its commands finds  *)
(* the chain as its own last command left it.                                 *)

SetsHolder == job["refresh"].pc = "rest" => holder = held.exits

\* Where each thread can be, and what it took along.
ThreadsInOrder ==
    /\ job["refresh"].pc # "verify" /\ job["recheck"].pc # "holder" /\ ~job["recheck"].only
    /\ job["refresh"].pc # "rest" => job["refresh"].next = held.exits
    /\ phase = "up" => SetsHolder
    /\ phase \in {"boot", "failed"} => \A t \in Thread : job[t] = Resting

\* OUTPUT has a jump at most for each thread that has hung one in and been overtaken.
Hooking(t) == job[t].pc \in {"A", "H"}

HooksBounded ==
    /\ (\E t \in Thread : Hooking(t)) => chain.hooks <= 1
    /\ (\A t \in Thread : Hooking(t)) => chain.hooks = 0

ChainInShape ==
    /\ ~chain.made => chain = NoChain
    /\ ~armed => /\ chain = NoChain
                 /\ job["recheck"].pc = "rest" /\ job["refresh"].pc \in {"rest", "holder"}

ChainAtRest == chain = NoChain \/ chain = FullChain(held.exits)

\* The chain between the commands of a thread that met no one.
ChainAt(t) ==
    /\ job[t].pc = "D" => chain = NoChain \/ chain.hooks = 1
    /\ job[t].pc \in {"F", "X", "N", "A", "H"} => chain.hooks = 0
    /\ job[t].pc = "X" => chain.rules = {}
    /\ job[t].pc = "N" => chain = NoChain
    /\ job[t].pc \in {"A", "H"} => chain.made
    /\ job[t].pc = "A" => chain.rules \cup job[t].ips = held.exits
    /\ job[t].pc = "H" => chain.rules = held.exits
    /\ job[t].pc \in {"N", "A", "H"} => ~job[t].only
    /\ job[t].pc \in {"D", "F", "X", "N"} /\ ~job[t].only => job[t].ips = held.exits
    /\ job[t].pc = "holder" => ChainAtRest

Alone(t) == \A u \in Thread \ {t} : ~Amid(u)

NotMet ==
    (phase = "up" /\ ~raced) =>
        /\ (\A t \in Thread : ~Amid(t)) => ChainAtRest
        /\ \A t \in Thread : Amid(t) /\ Alone(t) => ChainAt(t)

AgentInductive ==
    /\ AgentTypeOK
    /\ phase = "boot" => attempts < MaxAttempts
    /\ phase \in {"boot", "up"} => \A c \in Child : crashes[c] < MaxCrashes
    /\ why = "desync" => raced
    /\ ThreadsInOrder /\ HooksBounded /\ ChainInShape /\ NotMet
=============================================================================
