---------------------------- MODULE ObsResources ----------------------------
(***************************************************************************)
(* ObsProvisioner and ObsResourceLeaseStore: SessionScribe switches OBS to *)
(* a profile and a scene collection of its own, and back to the user's.    *)
(* What the user had is kept in a lease on disk.  Every step is a request  *)
(* to OBS, in which the user may switch, record, or lose the connection at *)
(* any time; CaptureConfigurator prepares the sources of a recording.      *)
(*                                                                         *)
(* The command queue runs one of provisionBase() and                       *)
(* restorePreviousResources() at a time: op is where it is.                *)
(***************************************************************************)
EXTENDS Naturals

CONSTANTS
  Own,      \* the user's profiles and scene collections
  NoName,   \* null in a lease
  MaxUser,  \* bound: what the user does in OBS
  MaxOps    \* bound: connects and disconnects

VARIABLES
  current,     \* the profile and the scene collection that OBS has current
  recording,   \* whether OBS records, and for whom
  lease,       \* the lease on disk
  connected,
  op,          \* the queued operation: its next request, and what it has read
  resources,   \* provisioner.resources: "none", "base" (without inputs) or "inputs"
  discovered,  \* configurator.discovery is not null
  configured,  \* configurator.configured is not null
  audio,       \* OBS: the scene items of the chosen audio sources are enabled
  wanted,      \* history: what the user chose last
  raced,       \* history: choices made while an operation was about to switch
  overwritten, \* history: the user's own that were reconfigured without such a race
  users, ops

vars == <<current, recording, lease, connected, op, resources, discovered, configured,
          audio, wanted, raced, overwritten, users, ops>>
sources == <<discovered, configured, audio>>
history == <<wanted, raced, overwritten>>

Kinds == {"profile", "collection"}
Managed == "SessionScribe"
Names == Own \cup {Managed}
NoLease == [k \in Kinds |-> Managed]  \* no lease names the managed ones as previous
Leases == [Kinds -> Own \cup {NoName}]
Steps == {"none", "status", "lists", "profile", "parameters", "collections",
          "collection", "scene",
          "load", "seeCollection", "setCollection", "seeProfile", "setProfile", "verify"}
NoOp == [pc |-> "none", saw |-> NoLease]

TypeOK ==
  /\ current \in [Kinds -> Names]
  /\ recording \in {"no", "foreign", "ours"}
  /\ lease \in Leases \cup {NoLease}
  /\ {connected, discovered, configured, audio} \subseteq BOOLEAN
  /\ op \in [pc : Steps, saw : [Kinds -> Names]]
  /\ resources \in {"none", "base", "inputs"}
  /\ wanted \in [Kinds -> Names]
  /\ raced \subseteq Kinds
  /\ overwritten \subseteq Kinds
  /\ users \in 0..MaxUser
  /\ ops \in 0..MaxOps

At(pc) == connected /\ op.pc = pc
Go(pc) == op' = [op EXCEPT !.pc = pc]
See(kinds, pc) ==
  op' = [pc |-> pc, saw |-> [k \in Kinds |-> IF k \in kinds THEN current[k] ELSE op.saw[k]]]

----------------------------------------------------------------------------
(* provisionBase()                                                         *)

\* connect(): a recovery without a lease makes one from the manifest; unless the
\* recording is still running, provisionBase() follows.
Connect ==
  /\ ~connected /\ op.pc = "none" /\ ops < MaxOps
  /\ connected' = TRUE
  /\ ops' = ops + 1
  /\ op' = IF recording = "ours" THEN NoOp ELSE [NoOp EXCEPT !.pc = "status"]
  /\ lease' \in {lease} \cup (IF lease = NoLease THEN Leases ELSE {})
  /\ UNCHANGED <<current, recording, resources, sources, history, users>>

ProvisionMayStart ==
  /\ At("status")
  /\ IF recording = "no" THEN Go("lists") ELSE op' = NoOp
  /\ UNCHANGED <<current, recording, lease, connected, resources, sources, history,
                 users, ops>>

\* loadOrCreateRestorationLease(): what is not managed now is what the user has.
LeaseFor(names) ==
  [k \in Kinds |-> IF names[k] # Managed THEN names[k]
                   ELSE IF lease = NoLease THEN NoName ELSE lease[k]]

\* A variant with a bug: an existing lease is kept as it is.
ProvisionLeasesOnce ==
  /\ At("lists")
  /\ See(Kinds, "profile")
  /\ lease' = IF lease = NoLease THEN LeaseFor(current) ELSE lease
  /\ UNCHANGED <<current, recording, connected, resources, sources, history, users, ops>>

\* A variant with a bug: the lease is kept in memory only.
ProvisionLeasesInMemory ==
  /\ At("lists")
  /\ See(Kinds, "profile")
  /\ UNCHANGED <<current, recording, lease, connected, resources, sources, history, users,
                 ops>>

ProvisionLeases ==
  /\ At("lists")
  /\ See(Kinds, "profile")
  /\ lease' = LeaseFor(current)
  /\ UNCHANGED <<current, recording, connected, resources, sources, history, users, ops>>

\* SetCurrentProfile, SetCurrentSceneCollection and their Create requests.
Switch(kind, name) == current' = [current EXCEPT ![kind] = name]

ProvisionProfile ==
  /\ At("profile")
  /\ IF op.saw["profile"] = Managed THEN UNCHANGED current ELSE Switch("profile", Managed)
  /\ Go("parameters")
  /\ UNCHANGED <<recording, lease, connected, resources, sources, history, users, ops>>

\* Requests that change whatever is current.
Overwrites(kind) ==
  overwritten' = IF current[kind] = Managed \/ kind \in raced
                 THEN overwritten ELSE overwritten \cup {kind}

ProvisionParameters ==
  /\ At("parameters")
  /\ Overwrites("profile")
  /\ Go("collections")
  /\ UNCHANGED <<current, recording, lease, connected, resources, sources, wanted, raced,
                 users, ops>>

\* A variant with a bug: the collection is taken to be as it was at the beginning.
ProvisionRereadsNothing ==
  /\ At("collections")
  /\ op' = [pc |-> "scene", saw |-> op.saw]
  /\ UNCHANGED <<current, recording, lease, connected, resources, sources, history, users,
                 ops>>

ProvisionRereads ==
  /\ At("collections")
  /\ See({"collection"}, "collection")
  /\ UNCHANGED <<current, recording, lease, connected, resources, sources, history, users,
                 ops>>

ProvisionCollection ==
  /\ At("collection")
  /\ IF op.saw["collection"] = Managed
     THEN UNCHANGED current ELSE Switch("collection", Managed)
  /\ Go("scene")
  /\ UNCHANGED <<recording, lease, connected, resources, sources, history, users, ops>>

\* The scene is made and the special inputs are muted.
ProvisionScene ==
  /\ At("scene")
  /\ Overwrites("collection")
  /\ resources' = "base"
  /\ op' = NoOp
  /\ UNCHANGED <<current, recording, lease, connected, sources, wanted, raced, users, ops>>

----------------------------------------------------------------------------
(* restorePreviousResources(), and then the connection is closed, also if  *)
(* it failed.                                                              *)

Closes == op' = NoOp /\ connected' = FALSE

Disconnect ==
  /\ connected /\ op.pc = "none" /\ recording # "ours" /\ ops < MaxOps
  /\ ops' = ops + 1
  /\ Go("load")
  /\ UNCHANGED <<current, recording, lease, connected, resources, sources, history, users>>

RestoreLoads ==
  /\ At("load")
  /\ CASE recording # "no" -> Closes /\ UNCHANGED resources
       [] lease = NoLease /\ recording = "no" -> Closes /\ resources' = "none"
       [] OTHER -> Go("seeCollection") /\ UNCHANGED <<connected, resources>>
  /\ UNCHANGED <<current, recording, lease, sources, history, users, ops>>

WasManaged(kind) == op.saw[kind] = Managed
Previous(kind) == lease[kind] # NoName /\ WasManaged(kind)

RestoreSeesCollection ==
  /\ At("seeCollection")
  /\ See({"collection"}, "setCollection")
  /\ UNCHANGED <<current, recording, lease, connected, resources, sources, history, users,
                 ops>>

RestoreCollection ==
  /\ At("setCollection")
  /\ IF Previous("collection") THEN Switch("collection", lease["collection"])
                               ELSE UNCHANGED current
  /\ Go("seeProfile")
  /\ UNCHANGED <<recording, lease, connected, resources, sources, history, users, ops>>

RestoreSeesProfile ==
  /\ At("seeProfile")
  /\ See({"profile"}, "setProfile")
  /\ UNCHANGED <<current, recording, lease, connected, resources, sources, history, users,
                 ops>>

RestoreProfile ==
  /\ At("setProfile")
  /\ IF Previous("profile") THEN Switch("profile", lease["profile"])
                            ELSE UNCHANGED current
  /\ Go("verify")
  /\ UNCHANGED <<recording, lease, connected, resources, sources, history, users, ops>>

Restored(kind) ==
  \/ lease[kind] = NoName
  \/ IF WasManaged(kind) THEN current[kind] = lease[kind] ELSE current[kind] # Managed

RestoreVerifies ==
  /\ At("verify")
  /\ IF \A k \in Kinds : Restored(k) THEN lease' = NoLease /\ resources' = "none"
                                     ELSE UNCHANGED <<lease, resources>>
  /\ Closes
  /\ UNCHANGED <<current, recording, sources, history, users, ops>>

\* A request fails: refused, cancelled, out of time, or nothing of that name.  A failed
\* connect may leave the connection open; a failed restore does not.
OpFails ==
  /\ op.pc # "none"
  /\ op' = NoOp
  /\ connected' \in {FALSE} \cup (IF op.pc \in {"load", "seeCollection", "setCollection",
                                   "seeProfile", "setProfile", "verify"} THEN {} ELSE {TRUE})
  /\ UNCHANGED <<current, recording, lease, resources, sources, history, users, ops>>

ConnectionLost ==
  /\ connected /\ op.pc = "none"
  /\ connected' = FALSE
  /\ UNCHANGED <<current, recording, lease, op, resources, sources, history, users, ops>>

\* The application ends; OBS and the lease stay.
Crash ==
  /\ connected
  /\ Closes
  /\ resources' = "none"
  /\ discovered' = FALSE /\ configured' = FALSE
  /\ UNCHANGED <<current, recording, lease, audio, history, users, ops>>

----------------------------------------------------------------------------
(* The user in OBS.                                                        *)

\* Between a request that reads and the one that acts on it.
AboutToSwitch ==
  CASE op.pc \in {"profile", "parameters"} -> Kinds
    [] op.pc \in {"collections", "collection", "scene", "setCollection"} -> {"collection"}
    [] op.pc = "setProfile" -> {"profile"}
    [] OTHER -> {}

UserSwitches(kind, name) ==
  /\ users < MaxUser /\ current[kind] # name
  /\ users' = users + 1
  /\ current' = [current EXCEPT ![kind] = name]
  /\ wanted' = [wanted EXCEPT ![kind] = name]
  /\ raced' = (raced \ {kind}) \cup (AboutToSwitch \cap {kind})
  /\ UNCHANGED <<recording, lease, connected, op, resources, sources, overwritten, ops>>

UserRecords ==
  /\ users < MaxUser /\ recording # "ours"
  /\ users' = users + 1
  /\ recording' = IF recording = "no" THEN "foreign" ELSE "no"
  /\ UNCHANGED <<current, lease, connected, op, resources, sources, history, ops>>

----------------------------------------------------------------------------
(* The sources.                                                            *)

\* requireConnected(), requireObsIdle() and requireResources()
Usable == connected /\ op.pc = "none" /\ resources # "none" /\ recording = "no"

\* ensureInput() makes an audio input, or finds it, and disables its scene item.
EnsureInput == audio' = FALSE
EnsurePlatformInputs == resources' = "inputs" /\ EnsureInput

\* discover(): an effect of the renderer, run whenever the status or the view changes
\* while OBS is ready.
Discover ==
  /\ Usable
  /\ EnsurePlatformInputs
  /\ discovered' = TRUE
  /\ UNCHANGED <<current, recording, lease, connected, op, configured, history, users, ops>>

\* setEnabled() for the audio sources that were chosen.
EnableAudio == audio' = TRUE

\* configure(): the inputs of an earlier connection are not looked up again if there was
\* a discovery.
Configure ==
  /\ Usable
  /\ resources = "inputs" \/ ~discovered
  /\ resources' = "inputs"
  /\ discovered' = TRUE /\ configured' = TRUE
  /\ EnableAudio
  /\ UNCHANGED <<current, recording, lease, connected, op, history, users, ops>>

\* The check of PreflightService, as far as these variables go.
PreflightPasses == Usable /\ configured /\ \A k \in Kinds : current[k] = Managed

\* start() runs the check again.
Start ==
  /\ PreflightPasses
  /\ recording' = "ours"
  /\ UNCHANGED <<current, lease, connected, op, resources, sources, history, users, ops>>

Stop ==
  /\ recording = "ours"
  /\ recording' = "no"
  /\ UNCHANGED <<current, lease, connected, op, resources, sources, history, users, ops>>

----------------------------------------------------------------------------

Init ==
  /\ current \in [Kinds -> Names]
  /\ wanted = current
  /\ recording = "no"
  /\ lease = NoLease
  /\ connected = FALSE
  /\ op = NoOp
  /\ resources = "none"
  /\ discovered = FALSE /\ configured = FALSE /\ audio = FALSE
  /\ raced = {}
  /\ overwritten = {}
  /\ users = 0 /\ ops = 0

Provision ==
  ProvisionMayStart \/ ProvisionLeases \/ ProvisionProfile \/ ProvisionParameters
    \/ ProvisionRereads \/ ProvisionCollection \/ ProvisionScene
Restore ==
  RestoreLoads \/ RestoreSeesCollection \/ RestoreCollection \/ RestoreSeesProfile
    \/ RestoreProfile \/ RestoreVerifies

Next ==
  \/ Connect \/ Provision
  \/ Disconnect \/ Restore
  \/ OpFails \/ ConnectionLost \/ Crash
  \/ \E k \in Kinds, n \in Names : UserSwitches(k, n)
  \/ UserRecords
  \/ Discover \/ Configure \/ Start \/ Stop

Spec == Init /\ [][Next]_vars

----------------------------------------------------------------------------

\* "it is written before OBS is mutated, survives recording acknowledgement and crashes"
\* (ARCHITECTURE.md:30): while OBS shows something managed that the user did not
\* choose, the lease on disk names what he chose, unless he chose it in the instant in
\* which OBS was being switched.
LeaseKnowsTheWay ==
  \A k \in Kinds :
    current[k] = Managed /\ wanted[k] # Managed =>
      lease[k] = wanted[k] \/ k \in raced

\* "and is removed only after restoration is verified": when the lease goes, OBS shows
\* what the user chose last, with the same exception.
RestoredBeforeForgotten ==
  [][lease # NoLease /\ lease' = NoLease =>
       \A k \in Kinds : current[k] = wanted[k] \/ wanted[k] = Managed \/ k \in raced]_vars

\* The user's own profile and collection are not reconfigured, with the same exception:
\* the requests that configure name no profile, they change the current one.
OwnIsNotReconfigured == overwritten = {}

\* "Choose the OBS source and audio inputs, then verify them before recording."
\* (CaptureWorkspace.tsx:448): a recording starts with the chosen audio sources enabled.
RecordsChosenAudio == [][recording' = "ours" /\ recording # "ours" => audio]_vars
=============================================================================
