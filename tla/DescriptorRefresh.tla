-------------------------- MODULE DescriptorRefresh --------------------------
(***************************************************************************)
(* From the signed descriptor to the boxes (specs B, E and G): the operator *)
(* uploads the latest descriptor with descriptor-publish-now, provision-    *)
(* seed hands a new box a descriptor and the keys to trust, and the refresh *)
(* loop of every box fetches the one fleet-wide object.                     *)
(***************************************************************************)
EXTENDS DescriptorChain

CONSTANTS
    Box,
    Publisher,     \* operator processes that publish or seed
    MaxFailures,   \* RefreshLoop.MAX_FAILURE_TICKS
    MaxOutages     \* bound: fetches that fail

ASSUME RefreshAssumption == MaxFailures \in Nat \ {0} /\ MaxOutages \in Nat

VARIABLES
    object,        \* the generation in descriptors/current, 0 before the first
    pub,           \* what each publisher has read
    phase,         \* of a box: "none", "up", "off" (powered down by its agent)
    anchors,       \* descriptor_trust_anchors of its seed
    held,          \* the generation its refresh loop holds
    config,        \* the generation sing-box.json was rendered from
    refreshing,    \* boxes whose refresh thread is alive
    failures,      \* RefreshLoop.failure_count
    outages,
    inRow          \* history: outages of a box since its last tick that got an answer

boxvars == <<phase, anchors, held, config, refreshing, failures>>
fetched == <<outages, inRow>>
vars    == <<chainvars, object, pub, boxvars, fetched>>

PubIdle == [pc |-> "idle", gen |-> 0]

RefreshInit ==
    /\ Init
    /\ object = 0
    /\ pub = [p \in Publisher |-> PubIdle]
    /\ phase = [b \in Box |-> "none"]
    /\ anchors = [b \in Box |-> {}]
    /\ held = [b \in Box |-> 0]
    /\ config = [b \in Box |-> 0]
    /\ refreshing = {}
    /\ failures = [b \in Box |-> 0]
    /\ outages = 0
    /\ inRow = [b \in Box |-> 0]

(* Statements; some follow the slip that a careless edit of them might be. *)

\* descriptor-publish-now's SELECT ... ORDER BY generation DESC LIMIT 1
SomeDescriptor(g) == g \in DOMAIN history
LatestDescriptor(g) == g \in DOMAIN history /\ g = Latest

\* the failure counter after a tick that reached the object
ResetNever(b) == failures[b]
Reset(b) == 0

\* the signature checks against one of the seed's anchors
TrustsNone(b, g) == FALSE
Trusts(b, g) == history[g].key \in anchors[b]

\* render_sing_box_config raises for a descriptor without exits
Renders(g) == history[g].exits # {}

-----------------------------------------------------------------------------
(* The operator *)

\* The descriptor is read and the connection closed; the upload comes later.
PublishRead(p) ==
    /\ pub[p] = PubIdle
    /\ \E g \in 1..MaxGen : LatestDescriptor(g)
                            /\ pub' = [pub EXCEPT ![p] = [pc |-> "put", gen |-> g]]
    /\ UNCHANGED <<chainvars, object, boxvars, fetched>>

PublishPut(p) ==
    /\ pub[p].pc = "put"
    /\ object' = pub[p].gen
    /\ pub' = [pub EXCEPT ![p] = PubIdle]
    /\ UNCHANGED <<chainvars, boxvars, fetched>>

\* provision-seed reads the descriptor and then, in another autocommit read, the
\* keys.  The seed names the object's URL, so the object exists.
SeedRead(p) ==
    /\ pub[p] = PubIdle
    /\ object # 0
    /\ \E g \in 1..MaxGen : LatestDescriptor(g)
                            /\ pub' = [pub EXCEPT ![p] = [pc |-> "seed", gen |-> g]]
    /\ UNCHANGED <<chainvars, object, boxvars, fetched>>

\* The box boots from its seed.  A descriptor without exits cannot be rendered
\* and ends the agent before it starts; such a box is not followed further.
SeedAnchors(p, b) ==
    LET g == pub[p].gen IN
    /\ pub[p].pc = "seed"
    /\ phase[b] = "none"
    /\ pub' = [pub EXCEPT ![p] = PubIdle]
    /\ IF Renders(g)
       THEN /\ phase' = [phase EXCEPT ![b] = "up"]
            /\ anchors' = [anchors EXCEPT ![b] = ActiveKeys]
            /\ held' = [held EXCEPT ![b] = g]
            /\ config' = [config EXCEPT ![b] = g]
            /\ refreshing' = refreshing \cup {b}
            /\ UNCHANGED failures
       ELSE UNCHANGED boxvars
    /\ UNCHANGED <<chainvars, object, fetched>>

-----------------------------------------------------------------------------
(* RefreshLoop.tick *)

Ticks(b) == phase[b] = "up" /\ b \in refreshing

Fails(b) ==
    /\ failures' = [failures EXCEPT ![b] = failures[b] + 1]
    /\ phase' = [phase EXCEPT ![b] =
                     IF failures[b] + 1 >= MaxFailures THEN "off" ELSE @]
    /\ UNCHANGED <<anchors, held, config, refreshing>>

Answered(b) == inRow' = [inRow EXCEPT ![b] = 0] /\ UNCHANGED outages

\* The fetch raises.
TickOutage(b) ==
    /\ Ticks(b)
    /\ outages < MaxOutages
    /\ outages' = outages + 1
    /\ inRow' = [inRow EXCEPT ![b] = @ + 1]
    /\ Fails(b)
    /\ UNCHANGED <<chainvars, object, pub>>

\* 304, or the same bytes again.
TickUnchanged(b) ==
    /\ Ticks(b)
    /\ object = held[b]
    /\ failures' = [failures EXCEPT ![b] = Reset(b)]
    /\ Answered(b)
    /\ UNCHANGED <<chainvars, object, pub, phase, anchors, held, config, refreshing>>

TickRefused(b) ==
    /\ Ticks(b)
    /\ object # held[b]
    /\ ~Trusts(b, object)
    /\ Fails(b)
    /\ Answered(b)
    /\ UNCHANGED <<chainvars, object, pub>>

\* The loop takes the new descriptor and calls rewrite_fn last.  An exception
\* there leaves tick, and with it the thread ends.
TickNew(b) ==
    /\ Ticks(b)
    /\ object # held[b]
    /\ Trusts(b, object)
    /\ held' = [held EXCEPT ![b] = object]
    /\ failures' = [failures EXCEPT ![b] = Reset(b)]
    /\ IF Renders(object)
       THEN config' = [config EXCEPT ![b] = object] /\ UNCHANGED refreshing
       ELSE refreshing' = refreshing \ {b} /\ UNCHANGED config
    /\ Answered(b)
    /\ UNCHANGED <<chainvars, object, pub, phase, anchors>>

Tick(b) == TickUnchanged(b) \/ TickRefused(b) \/ TickNew(b)

-----------------------------------------------------------------------------
PublisherStep(p) ==
    \/ PublishRead(p) \/ PublishPut(p) \/ SeedRead(p)
    \/ \E b \in Box : SeedAnchors(p, b)

Next ==
    \/ ChainNext /\ UNCHANGED <<object, pub, boxvars, fetched>>
    \/ \E p \in Publisher : PublisherStep(p)
    \/ \E b \in Box : Tick(b) \/ TickOutage(b)

\* run_forever ticks every 15 +- 5 minutes for as long as its thread lives.
RefreshSpec == RefreshInit /\ [][Next]_vars
FairSpec    == RefreshSpec /\ \A b \in Box : WF_vars(Tick(b))

-----------------------------------------------------------------------------
(* Properties *)

\* A box that is not ahead of the object never goes back to an older exit set,
\* although it checks neither generation nor hash chain: the one object it reads
\* never falls behind it.  (A box fresh from its seed may be ahead.)
BoxNeverRollsBack ==
    [][\A b \in Box : (held[b] # 0 /\ held[b] <= object)
                          => held'[b] >= held[b] /\ held'[b] <= object']_vars

\* A box whose seed names the key of the published descriptor gets to hold it, until
\* another is published or its agent powers it down after an outage.
BoxCatchesUp ==
    \A b \in Box, g \in 1..MaxGen :
        (Ticks(b) /\ object = g /\ history[g].key \in anchors[b])
            ~> (held[b] = g \/ object # g \/ (~Ticks(b) /\ outages > 0))

\* A box trusts the key of every descriptor so far.  Once false of a box that is up
\* it stays so: the seed's anchors never change and rows are never deleted.
TrustsAll(b) == \A g \in DOMAIN history : history[g].key \in anchors[b]

\* An agent whose seed names the key of every descriptor so far powers its box down
\* only after MAX_FAILURE_TICKS fetches that failed in a row: scattered outages, with
\* an unchanged or a new descriptor in between, never add up.
OffOnlyAfterOutages ==
    \A b \in Box : phase[b] = "off" /\ TrustsAll(b) => inRow[b] >= MaxFailures

-----------------------------------------------------------------------------
(* Inductive invariants *)

PubJob == [pc : {"idle", "put", "seed"}, gen : 0..MaxGen]

RefreshTypeOK ==
    /\ object \in 0..MaxGen
    /\ pub \in [Publisher -> PubJob]
    /\ phase \in [Box -> {"none", "up", "off"}]
    /\ anchors \in [Box -> SUBSET Key]
    /\ held \in [Box -> 0..MaxGen]
    /\ refreshing \subseteq Box
    /\ failures \in [Box -> Nat]
    /\ outages \in 0..MaxOutages
    /\ inRow \in [Box -> Nat]

\* Only a row that exists is published or seeded, and seeds name an object.
PublishersBehind ==
    /\ object <= Latest
    /\ \A p \in Publisher : /\ pub[p].gen <= Latest
                            /\ pub[p].pc # "idle" => pub[p].gen # 0
                            /\ pub[p].pc = "seed" => object # 0

\* A box exists only once there is an object; as long as it trusts every row, its
\* counter holds no more than the outages since the last answer.
BoxesFollow ==
    \A b \in Box :
        /\ phase[b] = "none" => held[b] = 0 /\ failures[b] = 0
        /\ phase[b] # "none" => object # 0
        /\ TrustsAll(b) => /\ failures[b] <= inRow[b]
                           /\ phase[b] = "off" => inRow[b] >= MaxFailures

RefreshInductive ==
    AlwaysInductive /\ RefreshTypeOK /\ PublishersBehind /\ BoxesFollow

\* The hypothesis under which the published object never falls behind: one operator
\* process publishes at a time.
PublishInTurns == \A p, q \in Publisher : p = q

\* What a publisher has read is no older than what is published.
ObjectBehindReads == \A p \in Publisher : pub[p].pc = "put" => object <= pub[p].gen
=============================================================================
