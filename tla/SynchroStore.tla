---------------------------- MODULE SynchroStore ----------------------------
(***************************************************************************)
(* What a ClusterSynchro promises about its resource synchros and their    *)
(* resource-version watermarks, with the goroutines, the lock and the      *)
(* refresh loops abstracted away:                                         *)
(*                                                                         *)
(*   registry  storage GVRs with a registered resource synchro            *)
(*   versions  storage GVRs with a watermark entry                        *)
(*   alive     storage GVRs whose synchro's Run has not returned          *)
(*                                                                         *)
(* A synchro is registered together with its watermark entry and starts  *)
(* running; a watermark entry can exist on its own (a failed creation, a  *)
(* warm restart); a synchro leaves the registry only once it has stopped,  *)
(* and a watermark entry is dropped only when no synchro is registered    *)
(* for it.                                                                 *)
(***************************************************************************)
EXTENDS TLAPS

CONSTANT GVRs

VARIABLES registry, versions, alive

storeVars == <<registry, versions, alive>>

(* Warm restart: the entries loaded from storage, no synchro yet. *)
Init ==
    /\ registry = {}
    /\ versions \in SUBSET GVRs
    /\ alive = {}

(* A synchro is created with its watermark entry, registered and Run. *)
Register(g) ==
    /\ g \notin registry
    /\ registry' = registry \cup {g}
    /\ versions' = versions \cup {g}
    /\ alive' = alive \cup {g}

(* The watermark entry is ensured but the synchro is not created. *)
Track(g) ==
    /\ g \notin registry
    /\ versions' = versions \cup {g}
    /\ UNCHANGED <<registry, alive>>

(* A synchro's Run returns. *)
Stop(g) ==
    /\ g \in alive
    /\ alive' = alive \ {g}
    /\ UNCHANGED <<registry, versions>>

(* A stopped synchro is removed from the registry. *)
Unregister(g) ==
    /\ g \in registry \ alive
    /\ registry' = registry \ {g}
    /\ UNCHANGED <<versions, alive>>

(* The watermark entry of an unregistered storage GVR is dropped. *)
Forget(g) ==
    /\ g \in versions \ registry
    /\ versions' = versions \ {g}
    /\ UNCHANGED <<registry, alive>>

Next ==
    \E g \in GVRs :
        Register(g) \/ Track(g) \/ Stop(g) \/ Unregister(g) \/ Forget(g)

Spec == Init /\ [][Next]_storeVars

(* What the store guarantees: a running synchro is registered and a        *)
(* registered synchro has its watermark entry.                             *)
StoreSafety == alive \subseteq registry /\ registry \subseteq versions

(* Every behaviour of the store keeps StoreSafety; it is inductive.        *)
THEOREM StoreSafe == Spec => []StoreSafety
<1>1. Init => StoreSafety
    BY DEF Init, StoreSafety
<1>2. StoreSafety /\ [Next]_storeVars => StoreSafety'
    BY DEF StoreSafety, Next, Register, Track, Stop, Unregister, Forget,
           storeVars
<1>3. QED
    BY <1>1, <1>2, PTL DEF Spec

=============================================================================
