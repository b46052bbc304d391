------------------------- MODULE ObsResourcesProofs -------------------------
(***************************************************************************)
(* What ObsResources promises about the lease, for any profiles and scene  *)
(* collections, and any number of switches, connects, lost connections and *)
(* crashes.                                                                *)
(***************************************************************************)
EXTENDS ObsResources, TLAPS

\* The managed name and null are not names of the user's own.
ObsConstants == Managed \notin Own /\ NoName \notin Own /\ NoName # Managed

\* The part of TypeOK that the rest depends on.
Named ==
  /\ current \in [Kinds -> Names]
  /\ wanted \in [Kinds -> Names]
  /\ lease \in Leases \cup {NoLease}
  /\ op \in [pc : Steps, saw : [Kinds -> Names]]
  /\ raced \subseteq Kinds

\* Steps at which a kind is about to be switched to the managed one, those at which what
\* was read of it is still to be used, and those at which it was switched.
BeforeSwitch(k) ==
  IF k = "profile" THEN {"profile"} ELSE {"profile", "parameters", "collections", "collection"}
ReadBefore(k) == IF k = "profile" THEN {"profile"} ELSE {"collection"}
AfterSwitch(k) == IF k = "profile" THEN {"parameters"} ELSE {"scene"}
BeforeReturn(k) == IF k = "profile" THEN "setProfile" ELSE "setCollection"

\* What OBS shows, when it is the user's own, is what he chose last.
OwnIsWanted ==
  \A k \in Kinds \ raced : current[k] # Managed /\ wanted[k] # Managed => current[k] = wanted[k]

\* Before the switch the lease has what OBS shows.
LeasedBeforeSwitch ==
  \A k \in Kinds \ raced :
    op.pc \in BeforeSwitch(k) /\ current[k] # Managed => lease[k] = current[k]

\* What an operation has read is so, unless the user switched meanwhile.
ReadIsTrue ==
  \A k \in Kinds \ raced :
    /\ op.pc \in ReadBefore(k) => op.saw[k] = current[k]
    /\ op.pc \in AfterSwitch(k) => current[k] = Managed
    /\ op.pc = BeforeReturn(k) /\ op.saw[k] = Managed => current[k] = Managed

\* A restoration has a lease.
RestoresALease ==
  op.pc \in {"seeCollection", "setCollection", "seeProfile", "setProfile", "verify"}
    => lease # NoLease

Safe ==
  /\ Named
  /\ LeaseKnowsTheWay
  /\ OwnIsNotReconfigured
  /\ OwnIsWanted
  /\ LeasedBeforeSwitch
  /\ ReadIsTrue
  /\ RestoresALease

----------------------------------------------------------------------------

\* A lease is not mistaken for its absence.
LEMMA LeasesAreLeases == ASSUME ObsConstants PROVE NoLease \notin Leases
<1>1. NoLease["profile"] = Managed /\ "profile" \in Kinds
  BY DEF NoLease, Kinds
<1>2. ASSUME NoLease \in Leases PROVE NoLease["profile"] \in Own \cup {NoName}
  BY <1>1, <1>2 DEF Leases
<1>3. QED
  BY <1>1, <1>2 DEF ObsConstants

\* What a lease names is of the user, or nothing.
LEMMA LeaseHasOwn ==
  ASSUME ObsConstants, Named, NEW k \in Kinds
  PROVE  /\ lease[k] \in Own \cup {NoName, Managed}
         /\ lease = NoLease => lease[k] = Managed
         /\ lease # NoLease => lease[k] \in Own \cup {NoName}
  BY DEF ObsConstants, Named, Leases, NoLease

LEMMA InitIsSafe == ASSUME ObsConstants, Init PROVE Safe
<1>1. Named
  BY DEF Init, Named, NoOp, NoLease, Names, Steps
<1>2. op.pc = "none" /\ wanted = current /\ overwritten = {} /\ lease = NoLease
  BY DEF Init, NoOp
<1>3. QED
  BY <1>1, <1>2 DEF Safe, LeaseKnowsTheWay, OwnIsNotReconfigured, OwnIsWanted,
     LeasedBeforeSwitch, ReadIsTrue, RestoresALease, BeforeSwitch, ReadBefore, AfterSwitch,
     BeforeReturn

\* A step that leaves OBS, the lease and the history alone, and at most ends or begins an
\* operation.
LEMMA QuietStep ==
  ASSUME Safe, UNCHANGED <<current, lease, history>>,
         op' = op \/ op' = NoOp \/ \E pc \in {"status", "lists", "load"} : op' = [op EXCEPT !.pc = pc]
                \/ op' = [NoOp EXCEPT !.pc = "status"]
  PROVE  Safe'
<1>1. op' = op \/ op'.pc \in {"none", "status", "lists", "load"}
  BY DEF Safe, Named, NoOp
<1>2. Named'
  <2>1. op' \in [pc : Steps, saw : [Kinds -> Names]]
    BY DEF Safe, Named, NoOp, NoLease, Names, Steps
  <2>2. QED
    BY <2>1 DEF Safe, Named, history
<1>3. QED
  BY <1>1, <1>2 DEF Safe, LeaseKnowsTheWay, OwnIsNotReconfigured, OwnIsWanted,
     LeasedBeforeSwitch, ReadIsTrue, RestoresALease, BeforeSwitch, ReadBefore, AfterSwitch,
     BeforeReturn, history

LEMMA ConnectIsSafe == ASSUME ObsConstants, Safe, Connect PROVE Safe'
<1>1. UNCHANGED <<current, history>> /\ op.pc = "none" /\ op'.pc \in {"none", "status"}
  BY DEF Connect, NoOp
<1>2. lease' = lease \/ (lease = NoLease /\ lease' \in Leases)
  <2>1. lease' \in {lease} \cup (IF lease = NoLease THEN Leases ELSE {})
    BY DEF Connect
  <2>2. CASE lease = NoLease
    BY <2>1, <2>2
  <2>3. CASE lease # NoLease
    BY <2>1, <2>3
  <2>4. QED
    BY <2>2, <2>3
<1>3. op' \in [pc : Steps, saw : [Kinds -> Names]]
  BY DEF Connect, NoOp, NoLease, Names, Steps
<1>4. lease = NoLease => \A k \in Kinds : lease[k] = Managed
  BY DEF NoLease
<1>5. Named'
  BY <1>1, <1>2, <1>3 DEF Safe, Named, history
<1>6. LeaseKnowsTheWay'
  BY <1>1, <1>2, <1>4 DEF Safe, LeaseKnowsTheWay, history
<1>7. QED
  BY <1>1, <1>5, <1>6 DEF Safe, OwnIsNotReconfigured, OwnIsWanted,
     LeasedBeforeSwitch, ReadIsTrue, RestoresALease, BeforeSwitch, ReadBefore, AfterSwitch,
     BeforeReturn, history

----------------------------------------------------------------------------
(* provisionBase().                                                        *)

\* The lease of a provision is one.
LEMMA LeasesForUsers ==
  ASSUME ObsConstants, Safe
  PROVE  /\ LeaseFor(current) \in Leases
         /\ \A k \in Kinds :
              /\ current[k] # Managed => LeaseFor(current)[k] = current[k]
              /\ current[k] = Managed /\ lease # NoLease => LeaseFor(current)[k] = lease[k]
<1>1. ASSUME NEW k \in Kinds
      PROVE  LeaseFor(current)[k] \in Own \cup {NoName}
  BY LeaseHasOwn DEF LeaseFor, Safe, Named, Names
<1>2. QED
  BY <1>1 DEF LeaseFor, Leases

LEMMA ProvisionLeasesIsSafe == ASSUME ObsConstants, Safe, ProvisionLeases PROVE Safe'
<1> USE DEF Kinds
<1>1. /\ UNCHANGED <<current, history>>
      /\ op' = [pc |-> "profile", saw |-> [k \in Kinds |-> current[k]]]
      /\ lease' = LeaseFor(current)
  BY DEF ProvisionLeases, See
<1>2. lease = NoLease => \A k \in Kinds : lease[k] = Managed
  BY DEF NoLease
<1>3. /\ lease' \in Leases
      /\ \A k \in Kinds :
           /\ current[k] # Managed => lease'[k] = current[k]
           /\ current[k] = Managed /\ lease # NoLease => lease'[k] = lease[k]
  BY <1>1, LeasesForUsers
<1>4. Named'
  BY <1>1, <1>3 DEF Safe, Named, history, Steps
<1>5. LeaseKnowsTheWay'
  BY <1>1, <1>2, <1>3 DEF Safe, LeaseKnowsTheWay, OwnIsWanted, history
<1>6. LeasedBeforeSwitch' /\ ReadIsTrue' /\ RestoresALease'
  BY <1>1, <1>3 DEF LeasedBeforeSwitch, ReadIsTrue, RestoresALease, ReadBefore, AfterSwitch,
     BeforeReturn
<1>7. QED
  BY <1>1, <1>4, <1>5, <1>6 DEF Safe, OwnIsNotReconfigured, OwnIsWanted, history

\* The switch to the managed profile or collection.
LEMMA SwitchIsSafe ==
  ASSUME ObsConstants, Safe, NEW k \in Kinds, op.pc \in ReadBefore(k),
         current' = IF op.saw[k] = Managed THEN current ELSE [current EXCEPT ![k] = Managed],
         op' = [op EXCEPT !.pc = IF k = "profile" THEN "parameters" ELSE "scene"],
         UNCHANGED <<lease, history>>
  PROVE  Safe'
<1> USE DEF Kinds
<1>1. /\ op'.saw = op.saw
      /\ op'.pc = IF k = "profile" THEN "parameters" ELSE "scene"
      /\ Named'
  <2>1. op \in [pc : Steps, saw : [Kinds -> Names]] /\ current \in [Kinds -> Names]
    BY DEF Safe, Named
  <2>2. (IF k = "profile" THEN "parameters" ELSE "scene") \in Steps
    BY DEF Steps
  <2>3. /\ op'.saw = op.saw /\ op' \in [pc : Steps, saw : [Kinds -> Names]]
        /\ op'.pc = IF k = "profile" THEN "parameters" ELSE "scene"
    BY <2>1, <2>2
  <2>4. current' \in [Kinds -> Names]
    BY <2>1 DEF Names
  <2>5. QED
    BY <2>3, <2>4 DEF Safe, Named, history
<1>2. \A kind \in Kinds : 
        current'[kind] = current[kind] \/ (kind = k /\ current'[kind] = Managed)
  BY DEF Safe, Named
<1>3. k \notin raced => current'[k] = Managed
  BY DEF Safe, Named, ReadIsTrue
<1>4. LeaseKnowsTheWay'
  <2>1. op.pc \in BeforeSwitch(k)
    BY DEF ReadBefore, BeforeSwitch
  <2>2. QED
    BY <1>2, <2>1 DEF Safe, LeaseKnowsTheWay, LeasedBeforeSwitch, OwnIsWanted, history
<1>5. LeasedBeforeSwitch' /\ ReadIsTrue' /\ OwnIsWanted'
  BY <1>1, <1>2, <1>3 DEF Safe, LeasedBeforeSwitch, ReadIsTrue, OwnIsWanted, ReadBefore,
     BeforeSwitch, AfterSwitch, BeforeReturn, history
<1>6. RestoresALease' /\ OwnIsNotReconfigured'
  BY <1>1 DEF Safe, RestoresALease, OwnIsNotReconfigured, history
<1>7. QED
  BY <1>1, <1>4, <1>5, <1>6 DEF Safe

LEMMA ProvisionIsSafe == ASSUME ObsConstants, Safe, Provision PROVE Safe'
<1> USE DEF Kinds
<1>1. CASE ProvisionMayStart
  BY <1>1, QuietStep DEF ProvisionMayStart, Go
<1>2. CASE ProvisionLeases
  BY <1>2, ProvisionLeasesIsSafe
<1>3. CASE ProvisionProfile
  BY <1>3, SwitchIsSafe DEF ProvisionProfile, At, Go, Switch, ReadBefore
<1>4. CASE ProvisionParameters
  <2>1. current["profile"] = Managed \/ "profile" \in raced
    BY <1>4 DEF ProvisionParameters, At, Safe, ReadIsTrue, AfterSwitch
  <2>2. /\ UNCHANGED <<current, lease, history>> /\ op'.pc = "collections" /\ op'.saw = op.saw
        /\ op.pc = "parameters" /\ Named'
    BY <1>4, <2>1 DEF ProvisionParameters, At, Overwrites, Go, Safe, Named, Steps, Names, history
  <2>3. QED
    BY <2>2 DEF Safe, LeaseKnowsTheWay, OwnIsNotReconfigured, OwnIsWanted, LeasedBeforeSwitch,
       ReadIsTrue, RestoresALease, BeforeSwitch, ReadBefore, AfterSwitch, BeforeReturn, history
<1>5. CASE ProvisionRereads
  <2>1. /\ UNCHANGED <<current, lease, history>> /\ op'.pc = "collection"
        /\ op'.saw["collection"] = current["collection"] /\ op.pc = "collections" /\ Named'
    BY <1>5 DEF ProvisionRereads, At, See, Safe, Named, Steps, Names, history
  <2>2. QED
    BY <2>1 DEF Safe, LeaseKnowsTheWay, OwnIsNotReconfigured, OwnIsWanted, LeasedBeforeSwitch,
       ReadIsTrue, RestoresALease, BeforeSwitch, ReadBefore, AfterSwitch, BeforeReturn, history
<1>6. CASE ProvisionCollection
  BY <1>6, SwitchIsSafe DEF ProvisionCollection, At, Go, Switch, ReadBefore
<1>7. CASE ProvisionScene
  <2>1. current["collection"] = Managed \/ "collection" \in raced
    BY <1>7 DEF ProvisionScene, At, Safe, ReadIsTrue, AfterSwitch
  <2>2. QED
    BY <1>7, <2>1, QuietStep DEF ProvisionScene, Overwrites, history
<1>8. QED
  BY <1>1, <1>2, <1>3, <1>4, <1>5, <1>6, <1>7 DEF Provision

----------------------------------------------------------------------------
(* restorePreviousResources().                                             *)

\* A switch back to what the lease names.
LEMMA ReturnIsSafe ==
  ASSUME ObsConstants, Safe, NEW k \in Kinds, op.pc = BeforeReturn(k),
         current' = IF Previous(k) THEN [current EXCEPT ![k] = lease[k]] ELSE current,
         op' = [op EXCEPT !.pc = IF k = "profile" THEN "verify" ELSE "seeProfile"],
         UNCHANGED <<lease, history>>
  PROVE  Safe'
<1> USE DEF Kinds
<1>1. /\ op \in [pc : Steps, saw : [Kinds -> Names]] /\ current \in [Kinds -> Names]
      /\ lease # NoLease /\ lease \in Leases
  BY DEF Safe, Named, RestoresALease, BeforeReturn
<1>2. Previous(k) => lease[k] \in Own /\ lease[k] \in Names
  BY <1>1 DEF Previous, Leases, Names
<1>3. (IF k = "profile" THEN "verify" ELSE "seeProfile") \in Steps
  BY DEF Steps
<1>4. /\ op' \in [pc : Steps, saw : [Kinds -> Names]]
      /\ op'.pc = IF k = "profile" THEN "verify" ELSE "seeProfile"
  BY <1>1, <1>3
<1>5. current' \in [Kinds -> Names]
  BY <1>1, <1>2
<1>6. Named'
  BY <1>4, <1>5 DEF Safe, Named, history
<1>7. \A kind \in Kinds : \/ current'[kind] = current[kind]
                          \/ kind = k /\ Previous(k) /\ current'[kind] = lease[k]
  BY <1>1
<1>8. Previous(k) /\ k \notin raced /\ wanted[k] # Managed => lease[k] = wanted[k]
  BY DEF Previous, WasManaged, Safe, ReadIsTrue, LeaseKnowsTheWay
<1>9. LeaseKnowsTheWay' /\ OwnIsWanted'
  BY <1>2, <1>7, <1>8 DEF Safe, LeaseKnowsTheWay, OwnIsWanted, history, ObsConstants
<1>10. LeasedBeforeSwitch' /\ ReadIsTrue' /\ RestoresALease' /\ OwnIsNotReconfigured'
  BY <1>1, <1>4 DEF Safe, LeasedBeforeSwitch, ReadIsTrue, RestoresALease,
     OwnIsNotReconfigured, ReadBefore, BeforeSwitch, AfterSwitch, BeforeReturn, history
<1>11. QED
  BY <1>6, <1>9, <1>10 DEF Safe

\* What OBS has current is read before it is switched.
LEMMA LookIsSafe ==
  ASSUME ObsConstants, Safe, NEW k \in Kinds, See({k}, BeforeReturn(k)), lease # NoLease,
         UNCHANGED <<current, lease, history>>
  PROVE  Safe'
<1>1. /\ op'.pc = BeforeReturn(k) /\ op'.saw[k] = current[k]
      /\ op' \in [pc : Steps, saw : [Kinds -> Names]]
  BY DEF See, Safe, Named, Steps, BeforeReturn, Kinds
<1>2. Named'
  BY <1>1 DEF Safe, Named, history
<1>3. QED
  BY <1>1, <1>2 DEF Safe, LeaseKnowsTheWay, OwnIsNotReconfigured, OwnIsWanted,
     LeasedBeforeSwitch, ReadIsTrue, RestoresALease, BeforeSwitch, ReadBefore, AfterSwitch,
     BeforeReturn, Kinds, history

\* When a restoration finds everything restored, OBS shows what the user wants.
LEMMA RestoredIsWanted ==
  ASSUME ObsConstants, Safe, lease # NoLease, NEW k \in Kinds, Restored(k)
  PROVE  /\ current[k] = wanted[k] \/ wanted[k] = Managed \/ k \in raced
         /\ current[k] = Managed /\ wanted[k] # Managed => k \in raced
<1>1. wanted[k] \in Own \cup {Managed} /\ lease[k] \in Own \cup {NoName}
  BY DEF Safe, Named, Names, Leases
<1>2. QED
  BY <1>1 DEF ObsConstants, Safe, LeaseKnowsTheWay, OwnIsWanted, Restored

LEMMA RestoreIsSafe == ASSUME ObsConstants, Safe, Restore PROVE Safe'
<1>1. CASE RestoreLoads
  <2>1. CASE op' = NoOp
    BY <1>1, <2>1, QuietStep DEF RestoreLoads
  <2>2. CASE op' # NoOp
    <3>1. /\ UNCHANGED <<current, lease, history>> /\ op' = [op EXCEPT !.pc = "seeCollection"]
      BY <1>1, <2>2 DEF RestoreLoads, Closes, Go
    <3>2. lease # NoLease
      BY <1>1, <2>2 DEF RestoreLoads, Closes, Go
    <3>3. op'.pc = "seeCollection" /\ Named'
      BY <3>1 DEF Safe, Named, Steps, history
    <3>4. QED
      BY <3>1, <3>2, <3>3 DEF Safe, LeaseKnowsTheWay, OwnIsNotReconfigured, OwnIsWanted,
         LeasedBeforeSwitch, ReadIsTrue, RestoresALease, BeforeSwitch, ReadBefore,
         AfterSwitch, BeforeReturn, history
  <2>3. QED
    BY <2>1, <2>2
<1>2. CASE RestoreSeesCollection
  BY <1>2, LookIsSafe DEF RestoreSeesCollection, At, BeforeReturn, Kinds, Safe, RestoresALease
<1>3. CASE RestoreCollection
  BY <1>3, ReturnIsSafe DEF RestoreCollection, At, Go, Switch, BeforeReturn, Kinds
<1>4. CASE RestoreSeesProfile
  BY <1>4, LookIsSafe DEF RestoreSeesProfile, At, BeforeReturn, Kinds, Safe, RestoresALease
<1>5. CASE RestoreProfile
  BY <1>5, ReturnIsSafe DEF RestoreProfile, At, Go, Switch, BeforeReturn, Kinds
<1>6. CASE RestoreVerifies
  <2>1. op' = NoOp /\ UNCHANGED <<current, history>> /\ op.pc = "verify"
    BY <1>6 DEF RestoreVerifies, Closes, At
  <2>2. CASE lease' = lease
    BY <2>1, <2>2, QuietStep
  <2>3. CASE lease' = NoLease /\ \A k \in Kinds : Restored(k)
    <3>1. lease # NoLease
      BY <2>1 DEF Safe, RestoresALease
    <3>2. \A k \in Kinds : current[k] = Managed /\ wanted[k] # Managed => k \in raced
      BY <2>3, <3>1, RestoredIsWanted
    <3>3. Named'
      BY <2>1, <2>3 DEF Safe, Named, NoOp, NoLease, Names, Steps, history
    <3>4. op'.pc = "none"
      BY <2>1 DEF NoOp
    <3>5. QED
      BY <2>1, <3>2, <3>3, <3>4 DEF Safe, LeaseKnowsTheWay, OwnIsNotReconfigured, OwnIsWanted,
         LeasedBeforeSwitch, ReadIsTrue, RestoresALease, BeforeSwitch, ReadBefore,
         AfterSwitch, BeforeReturn, history
  <2>4. QED
    BY <1>6, <2>2, <2>3 DEF RestoreVerifies
<1>7. QED
  BY <1>1, <1>2, <1>3, <1>4, <1>5, <1>6 DEF Restore

----------------------------------------------------------------------------
(* The user, and everything together.                                      *)

LEMMA UserSwitchIsSafe ==
  ASSUME ObsConstants, Safe, NEW k \in Kinds, NEW n \in Names, UserSwitches(k, n)
  PROVE  Safe'
<1>1. /\ current' = [current EXCEPT ![k] = n] /\ wanted' = [wanted EXCEPT ![k] = n]
      /\ raced' = (raced \ {k}) \cup (AboutToSwitch \cap {k})
      /\ UNCHANGED <<lease, op, overwritten>>
  BY DEF UserSwitches
<1>2. current \in [Kinds -> Names] /\ wanted \in [Kinds -> Names]
  BY DEF Safe, Named, Names
<1>3. Named'
  BY <1>1, <1>2 DEF Safe, Named
<1>4. \A kind \in Kinds : \/ kind = k /\ current'[kind] = n /\ wanted'[kind] = n
                          \/ kind # k /\ current'[kind] = current[kind]
                             /\ wanted'[kind] = wanted[kind] /\ (kind \in raced' <=> kind \in raced)
  BY <1>1, <1>2
<1>5. k \notin raced' => /\ op.pc \notin BeforeSwitch(k) \cup ReadBefore(k) \cup AfterSwitch(k)
                         /\ op.pc # BeforeReturn(k)
  BY <1>1 DEF AboutToSwitch, BeforeSwitch, ReadBefore, AfterSwitch, BeforeReturn, Kinds
<1>6. LeaseKnowsTheWay' /\ OwnIsWanted'
  BY <1>1, <1>4 DEF Safe, LeaseKnowsTheWay, OwnIsWanted, ObsConstants
<1>7. LeasedBeforeSwitch' /\ ReadIsTrue'
  BY <1>1, <1>4, <1>5 DEF Safe, LeasedBeforeSwitch, ReadIsTrue
<1>8. RestoresALease' /\ OwnIsNotReconfigured'
  BY <1>1 DEF Safe, RestoresALease, OwnIsNotReconfigured
<1>9. QED
  BY <1>3, <1>6, <1>7, <1>8 DEF Safe

LEMMA NextIsSafe == ASSUME ObsConstants, Safe, [Next]_vars PROVE Safe'
<1>1. CASE Connect
  BY <1>1, ConnectIsSafe
<1>2. CASE Provision
  BY <1>2, ProvisionIsSafe
<1>3. CASE Disconnect
  BY <1>3, QuietStep DEF Disconnect, Go
<1>4. CASE Restore
  BY <1>4, RestoreIsSafe
<1>5. CASE OpFails \/ ConnectionLost \/ Crash
  BY <1>5, QuietStep DEF OpFails, ConnectionLost, Crash, Closes
<1>6. CASE \E k \in Kinds, n \in Names : UserSwitches(k, n)
  BY <1>6, UserSwitchIsSafe
<1>7. CASE UserRecords \/ Discover \/ Configure \/ Start \/ Stop
  BY <1>7, QuietStep DEF UserRecords, Discover, Configure, Start, Stop
<1>8. CASE UNCHANGED vars
  BY <1>8, QuietStep DEF vars, history
<1>9. QED
  BY <1>1, <1>2, <1>3, <1>4, <1>5, <1>6, <1>7, <1>8 DEF Next

----------------------------------------------------------------------------

THEOREM SafeAlways == ASSUME ObsConstants PROVE Spec => []Safe
<1>1. Init => Safe
  BY InitIsSafe
<1>2. Safe /\ [Next]_vars => Safe'
  BY NextIsSafe
<1>3. QED
  BY <1>1, <1>2, PTL DEF Spec

\* The lease on disk names what the user had, after any series of switches, failures and
\* crashes.
THEOREM LeaseNamesTheUsers == ASSUME ObsConstants PROVE Spec => []LeaseKnowsTheWay
<1>1. Safe => LeaseKnowsTheWay
  BY DEF Safe
<1>2. QED
  BY <1>1, SafeAlways, PTL

\* Nothing of the user's own is reconfigured, unless he switched in the instant before.
THEOREM OwnStaysAsItWas == ASSUME ObsConstants PROVE Spec => []OwnIsNotReconfigured
<1>1. Safe => OwnIsNotReconfigured
  BY DEF Safe
<1>2. QED
  BY <1>1, SafeAlways, PTL

\* The lease goes only when OBS shows what the user chose last.
THEOREM LeaseEndsRestored == ASSUME ObsConstants PROVE Spec => RestoredBeforeForgotten
<1>1. ASSUME Safe, [Next]_vars, lease # NoLease, lease' = NoLease
      PROVE  \A k \in Kinds : current[k] = wanted[k] \/ wanted[k] = Managed \/ k \in raced
  <2>1. RestoreVerifies /\ \A k \in Kinds : Restored(k)
    <3>1. ~ProvisionLeases
      BY <1>1, LeasesForUsers, LeasesAreLeases DEF ProvisionLeases
    <3>2. ~Connect
      BY <1>1 DEF Connect
    <3>3. ~Provision
      BY <1>1, <3>1 DEF Provision, ProvisionMayStart, ProvisionProfile, ProvisionParameters,
         ProvisionRereads, ProvisionCollection, ProvisionScene
    <3>4. Restore
      BY <1>1, <3>2, <3>3 DEF Next, Disconnect, OpFails, ConnectionLost, Crash, UserSwitches,
         UserRecords, Discover, Configure, Start, Stop, vars
    <3>5. RestoreVerifies
      BY <1>1, <3>4 DEF Restore, RestoreLoads, RestoreSeesCollection, RestoreCollection,
         RestoreSeesProfile, RestoreProfile
    <3>6. QED
      BY <1>1, <3>5 DEF RestoreVerifies
  <2>2. QED
    BY <1>1, <2>1, RestoredIsWanted
<1>2. Safe /\ [Next]_vars => [lease # NoLease /\ lease' = NoLease =>
        \A k \in Kinds : current[k] = wanted[k] \/ wanted[k] = Managed \/ k \in raced]_vars
  BY <1>1
<1>3. QED
  BY <1>2, SafeAlways, PTL DEF Spec, RestoredBeforeForgotten

----------------------------------------------------------------------------
(* The types that the lease does not depend on.                            *)

Marked ==
  /\ recording \in {"no", "foreign", "ours"}
  /\ connected \in BOOLEAN /\ discovered \in BOOLEAN
  /\ configured \in BOOLEAN /\ audio \in BOOLEAN
  /\ resources \in {"none", "base", "inputs"}
  /\ users \in 0..MaxUser /\ ops \in 0..MaxOps

LEMMA StepKeepsMarks ==
  ASSUME MaxUser \in Nat, MaxOps \in Nat, Marked, [Next]_vars
  PROVE  Marked'
<1> USE DEF Marked, sources
<1>1. CASE Connect
  BY <1>1 DEF Connect
<1>2. CASE Provision
  BY <1>2 DEF Provision, ProvisionMayStart, ProvisionLeases, ProvisionProfile,
     ProvisionParameters, ProvisionRereads, ProvisionCollection, ProvisionScene
<1>3. CASE Disconnect
  BY <1>3 DEF Disconnect
<1>4. CASE Restore
  <2>1. CASE RestoreLoads
    BY <2>1 DEF RestoreLoads, Closes
  <2>2. CASE RestoreVerifies
    BY <2>2 DEF RestoreVerifies, Closes
  <2>3. QED
    BY <1>4, <2>1, <2>2 DEF Restore, RestoreSeesCollection, RestoreCollection,
       RestoreSeesProfile, RestoreProfile
<1>5. CASE OpFails \/ ConnectionLost \/ Crash
  BY <1>5 DEF OpFails, ConnectionLost, Crash, Closes
<1>6. CASE \E k \in Kinds, n \in Names : UserSwitches(k, n)
  BY <1>6 DEF UserSwitches
<1>7. CASE UserRecords
  BY <1>7 DEF UserRecords
<1>8. CASE Discover \/ Configure
  BY <1>8 DEF Discover, Configure, EnsurePlatformInputs, EnsureInput, EnableAudio
<1>9. CASE Start \/ Stop
  BY <1>9 DEF Start, Stop
<1>10. CASE UNCHANGED vars
  BY <1>10 DEF vars
<1>11. QED
  BY <1>1, <1>2, <1>3, <1>4, <1>5, <1>6, <1>7, <1>8, <1>9, <1>10 DEF Next

THEOREM TypesHold == ASSUME ObsConstants, MaxUser \in Nat, MaxOps \in Nat PROVE Spec => []TypeOK
<1>1. Init => Marked
  <2> SUFFICES ASSUME Init PROVE Marked
    OBVIOUS
  <2>1. users \in 0..MaxUser /\ ops \in 0..MaxOps
    BY DEF Init
  <2>2. /\ connected \in BOOLEAN /\ discovered \in BOOLEAN
        /\ configured \in BOOLEAN /\ audio \in BOOLEAN
    BY DEF Init
  <2>3. QED
    BY <2>1, <2>2 DEF Init, Marked
<1>2. Marked /\ [Next]_vars => Marked'
  BY StepKeepsMarks
<1>3. Safe /\ Marked => TypeOK
  <2> SUFFICES ASSUME Safe, Marked PROVE TypeOK
    OBVIOUS
  <2>1. {connected, discovered, configured, audio} \subseteq BOOLEAN
    BY DEF Marked
  <2>2. overwritten \subseteq Kinds /\ Named
    BY DEF Safe, OwnIsNotReconfigured
  <2>3. /\ recording \in {"no", "foreign", "ours"} /\ resources \in {"none", "base", "inputs"}
        /\ users \in 0..MaxUser /\ ops \in 0..MaxOps
    BY DEF Marked
  <2>4. QED
    BY <2>1, <2>2, <2>3 DEF Named, TypeOK
<1>4. QED
  BY <1>1, <1>2, <1>3, SafeAlways, PTL DEF Spec

=============================================================================
