------------------------ MODULE ClusterSynchroStoreProofs ------------------------
(***************************************************************************)
(* Proofs that ClusterSynchro implements SynchroStore, that every         *)
(* registered synchro has its watermark entry and that a completed        *)
(* refresh converges to its plan.                                         *)
(***************************************************************************)
EXTENDS ClusterSynchroProofs

(* The storage GVRs whose synchro's Run has not returned. *)
AliveSet == {g \in GVRs : SynchroAlive(g)}

(* The inductive invariant:                                               *)
(*  - a running synchro is registered (it leaves the registry only after  *)
(*    its Close channel is closed);                                       *)
(*  - in the removal loop, every registered GVR outside the plan is still *)
(*    to be closed;                                                       *)
(*  - in the cleaning loop, the registry is inside the plan and every     *)
(*    watermark outside the plan is still to be cleaned, so the GVRs to   *)
(*    clean have no registered synchro.                                   *)
AliveRegistered == \A g \in GVRs : SynchroAlive(g) => g \in registry

RemovePending ==
    rfPc \in {"remove", "awaitClose"} => registry \ plan \subseteq todo

CleanPending ==
    rfPc = "clean" =>
        /\ registry \subseteq plan
        /\ todo \cap plan = {}
        /\ versions \ plan \subseteq todo

SInv ==
    /\ TypeInv
    /\ AliveRegistered
    /\ RegistryHasVersions
    /\ RemovePending
    /\ CleanPending

USE ConstAssumption DEF Handlers, NoStarts, SynStates, vars, wgVars, runVars,
                        rfVars

LEMMA InitSInv == Init => SInv
<1> SUFFICES ASSUME Init PROVE SInv
    OBVIOUS
<1>1. TypeInv
    BY InitTypeInv
<1>2. AliveRegistered /\ RegistryHasVersions /\ RemovePending /\ CleanPending
    BY DEF Init, AliveRegistered, SynchroAlive, RegistryHasVersions,
           RemovePending, CleanPending
<1>3. QED
    BY <1>1, <1>2 DEF SInv

(* The part of the state the invariant is about. *)
StoreCore == <<rfPc, plan, todo, registry, versions, syn>>

LEMMA NextSInv == SInv /\ [Next]_vars => SInv'
<1> SUFFICES ASSUME SInv, [Next]_vars PROVE SInv'
    OBVIOUS
<1>1. TypeInv'
    BY NextTypeInv DEF SInv
<1> SUFFICES (AliveRegistered /\ RegistryHasVersions /\ RemovePending
              /\ CleanPending)'
    BY <1>1 DEF SInv
<1>2. /\ syn \in [GVRs -> SynStates]
      /\ registry \subseteq GVRs /\ versions \subseteq GVRs
      /\ plan \subseteq GVRs /\ todo \subseteq GVRs
      /\ cur \in GVRs \cup {Nil}
      /\ AliveRegistered /\ RegistryHasVersions /\ RemovePending
      /\ CleanPending
    BY DEF SInv, TypeInv, TypeOK
<1> USE <1>2 DEF AliveRegistered, SynchroAlive, RegistryHasVersions,
                 RemovePending, CleanPending
(* Steps that leave the refresher's state and the synchros alone. *)
<1>3. ASSUME UNCHANGED StoreCore PROVE (AliveRegistered /\ RegistryHasVersions
                                       /\ RemovePending /\ CleanPending)'
    BY <1>3 DEF StoreCore
(* The refresher moves to a state where neither loop invariant applies. *)
<1>4. ASSUME rfPc' \in {"wait", "lock", "create", "exited"},
             UNCHANGED <<registry, versions, syn>>
      PROVE (AliveRegistered /\ RegistryHasVersions /\ RemovePending
             /\ CleanPending)'
    BY <1>4
<1>5. CASE \E g \in GVRs : RefresherCreate(g)
    BY <1>5 DEF RefresherCreate
<1>6. CASE RefresherUnlock
    BY <1>6 DEF RefresherUnlock
<1>7. CASE \E g \in GVRs : RefresherClose(g)
    <2>1. PICK g \in GVRs : RefresherClose(g)
        BY <1>7
    <2>2. \A x \in GVRs : SynchroAlive(x)' => SynchroAlive(x)
        BY <2>1 DEF RefresherClose
    <2>3. QED
        BY <2>1, <2>2 DEF RefresherClose
<1>8. CASE RefresherClosed
    BY <1>8 DEF RefresherClosed
<1>9. CASE RefresherRemoved
    BY <1>9 DEF RefresherRemoved
<1>10. CASE \E g \in GVRs : RefresherClean(g)
    <2>1. PICK g \in GVRs : RefresherClean(g)
        BY <1>10
    <2>2. g \notin registry
        BY <2>1 DEF RefresherClean
    <2>3. QED
        BY <2>1, <2>2 DEF RefresherClean
<1>11. CASE RefresherDone
    BY <1>11 DEF RefresherDone
<1>12. CASE \E g \in GVRs : SynchroExit(g)
    BY <1>12 DEF SynchroExit
<1>13. CASE UNCHANGED vars
    BY <1>3, <1>13 DEF StoreCore
<1>14. CASE \E upd \in BOOLEAN : ShutdownBegin(upd)
    BY <1>3, <1>14, Zenon DEF ShutdownBegin, StoreCore
<1>15. CASE ShutdownFinish
    BY <1>3, <1>15, Zenon DEF ShutdownFinish, StoreCore
<1>16. CASE ShutdownReturn
    BY <1>3, <1>16, Zenon DEF ShutdownReturn, StoreCore
<1>17. CASE StatusPublish
    BY <1>3, <1>17, Zenon DEF StatusPublish, StoreCore
<1>18. CASE StatusExit
    BY <1>3, <1>18, Zenon DEF StatusExit, StoreCore
<1>19. CASE MonitorHealthy
    BY <1>3, <1>19, Zenon DEF MonitorHealthy, StoreCore
<1>20. CASE MonitorUnhealthy
    BY <1>3, <1>20, Zenon DEF MonitorUnhealthy, StoreCore
<1>21. CASE MonitorExit
    BY <1>3, <1>21, Zenon DEF MonitorExit, StoreCore
<1>22. CASE Run
    BY <1>3, <1>22, Zenon DEF Run, StoreCore
<1>23. CASE RunnerWake
    BY <1>3, <1>23, Zenon DEF RunnerWake, StoreCore
<1>24. CASE RunnerExit
    BY <1>3, <1>24, Zenon DEF RunnerExit, StoreCore
<1>25. CASE RunnerCheck
    BY <1>3, <1>25, Zenon DEF RunnerCheck, StoreCore
<1>26. CASE RunnerLock
    BY <1>3, <1>26, Zenon DEF RunnerLock, StoreCore
<1>27. CASE RunnerStartAll
    BY <1>3, <1>27, Zenon DEF RunnerStartAll, StoreCore
<1>28. CASE RunnerHandlerStopped
    BY <1>3, <1>28, Zenon DEF RunnerHandlerStopped, StoreCore
<1>29. CASE \E h \in Handlers : GSelect(h)
    BY <1>3, <1>29, Zenon DEF GSelect, StoreCore
<1>30. CASE \E h \in Handlers : GClose(h)
    BY <1>3, <1>30, Zenon DEF GClose, StoreCore
<1>31. CASE \E R \in SUBSET GVRs : SetResources(R)
    BY <1>3, <1>31, Zenon DEF SetResources, StoreCore
<1>32. CASE ResourceMutation \/ SetResourcesReset
    BY <1>3, <1>32, Zenon DEF ResourceMutation, SetResourcesReset,
                              resetSyncResources, StoreCore
<1>33. CASE Terminated
    BY <1>3, <1>33, Zenon DEF Terminated, StoreCore
<1>34. CASE RefresherStart
    BY <1>4, <1>34, Zenon DEF RefresherStart
<1>35. CASE RefresherExit
    BY <1>4, <1>35, Zenon DEF RefresherExit
<1>36. CASE RefresherReceive \/ RefresherCheck \/ RefresherLoad
    BY <1>4, <1>36, Zenon DEF RefresherReceive, RefresherCheck, RefresherLoad
<1>37. CASE RefresherLock
    BY <1>4, <1>37, Zenon DEF RefresherLock
<1>38. CASE RefresherAbort
    BY <1>4, <1>38, Zenon DEF RefresherAbort
<1>39. QED
    BY <1>5, <1>6, <1>7, <1>8, <1>9, <1>10, <1>11, <1>12, <1>13, <1>14, <1>15, <1>16, <1>17, <1>18, <1>19, <1>20, <1>21, <1>22, <1>23, <1>24, <1>25, <1>26, <1>27, <1>28, <1>29, <1>30, <1>31, <1>32, <1>33, <1>34, <1>35, <1>36, <1>37, <1>38, Zenon
    DEF Next

-----------------------------------------------------------------------------
(* Refinement of SynchroStore. *)

LEMMA InitRefines == Init => Store!Init
    BY DEF Init, Store!Init, SynchroAlive

LEMMA StepRefines == SInv /\ [Next]_vars => [Store!Next]_Store!storeVars
<1> SUFFICES ASSUME SInv, [Next]_vars PROVE [Store!Next]_Store!storeVars
    OBVIOUS
<1>1. /\ syn \in [GVRs -> SynStates]
      /\ registry \subseteq GVRs /\ versions \subseteq GVRs
      /\ cur \in GVRs \cup {Nil}
      /\ CleanPending
    BY DEF SInv, TypeInv, TypeOK
<1> USE <1>1
(* Steps that touch neither the maps nor the synchros are stutters. *)
<1>2. ASSUME UNCHANGED <<registry, versions, syn>>
      PROVE UNCHANGED Store!storeVars
    BY <1>2 DEF Store!storeVars, SynchroAlive
<1>3. CASE \E g \in GVRs : RefresherCreate(g)
    <2>1. PICK g \in GVRs : RefresherCreate(g)
        BY <1>3
    <2>2. CASE UNCHANGED <<versions, registry, syn>>
        BY <1>2, <2>2
    <2>3. CASE g \notin registry /\ versions' = versions \cup {g}
               /\ UNCHANGED <<registry, syn>>
        <3>1. Store!Track(g)
            BY <2>3 DEF Store!Track, SynchroAlive
        <3>2. QED
            BY <3>1 DEF Store!Next
    <2>4. CASE /\ g \notin registry
               /\ versions' = versions \cup {g}
               /\ registry' = registry \cup {g}
               /\ syn' = [syn EXCEPT ![g] = "running"]
        <3>1. AliveSet' = AliveSet \cup {g}
            BY <2>4 DEF AliveSet, SynchroAlive
        <3>2. Store!Register(g)
            BY <2>4, <3>1 DEF Store!Register, AliveSet
        <3>3. QED
            BY <3>2 DEF Store!Next
    <2>5. QED
        BY <2>1, <2>2, <2>3, <2>4, Zenon DEF RefresherCreate
<1>4. CASE \E g \in GVRs : RefresherClose(g)
    <2>1. PICK g \in GVRs : RefresherClose(g)
        BY <1>4
    <2>2. AliveSet' = AliveSet
        BY <2>1 DEF RefresherClose, AliveSet, SynchroAlive
    <2>3. QED
        BY <2>1, <2>2 DEF RefresherClose, Store!storeVars, AliveSet
<1>5. CASE RefresherClosed
    <2>1. CASE cur \in registry
        <3>1. Store!Unregister(cur)
            BY <1>5, <2>1 DEF RefresherClosed, Store!Unregister, SynchroAlive
        <3>2. QED
            BY <2>1, <3>1 DEF Store!Next
    <2>2. CASE cur \notin registry
        BY <1>2, <1>5, <2>2 DEF RefresherClosed
    <2>3. QED
        BY <2>1, <2>2
<1>6. CASE \E g \in GVRs : RefresherClean(g)
    <2>1. PICK g \in GVRs : RefresherClean(g)
        BY <1>6
    <2>2. g \notin registry
        BY <2>1 DEF RefresherClean, CleanPending
    <2>3. CASE g \in versions
        <3>1. Store!Forget(g)
            BY <2>1, <2>2, <2>3 DEF RefresherClean, Store!Forget, SynchroAlive
        <3>2. QED
            BY <3>1 DEF Store!Next
    <2>4. CASE g \notin versions
        BY <1>2, <2>1, <2>4 DEF RefresherClean
    <2>5. QED
        BY <2>3, <2>4
<1>7. CASE \E g \in GVRs : SynchroExit(g)
    <2>1. PICK g \in GVRs : SynchroExit(g)
        BY <1>7
    <2>2. Store!Stop(g)
        BY <2>1 DEF SynchroExit, Store!Stop, SynchroAlive
    <2>3. QED
        BY <2>2 DEF Store!Next
<1>8. CASE UNCHANGED vars
    BY <1>2, <1>8
<1>9. CASE \E upd \in BOOLEAN : ShutdownBegin(upd)
    BY <1>2, <1>9 DEF ShutdownBegin
<1>10. CASE ShutdownFinish
    BY <1>2, <1>10 DEF ShutdownFinish
<1>11. CASE ShutdownReturn
    BY <1>2, <1>11 DEF ShutdownReturn
<1>12. CASE StatusPublish
    BY <1>2, <1>12 DEF StatusPublish
<1>13. CASE StatusExit
    BY <1>2, <1>13 DEF StatusExit
<1>14. CASE MonitorHealthy
    BY <1>2, <1>14 DEF MonitorHealthy
<1>15. CASE MonitorUnhealthy
    BY <1>2, <1>15 DEF MonitorUnhealthy
<1>16. CASE MonitorExit
    BY <1>2, <1>16 DEF MonitorExit
<1>17. CASE Run
    BY <1>2, <1>17 DEF Run
<1>18. CASE RunnerWake
    BY <1>2, <1>18 DEF RunnerWake
<1>19. CASE RunnerExit
    BY <1>2, <1>19 DEF RunnerExit
<1>20. CASE RunnerCheck
    BY <1>2, <1>20 DEF RunnerCheck
<1>21. CASE RunnerLock
    BY <1>2, <1>21 DEF RunnerLock
<1>22. CASE RunnerStartAll
    BY <1>2, <1>22 DEF RunnerStartAll
<1>23. CASE RunnerHandlerStopped
    BY <1>2, <1>23 DEF RunnerHandlerStopped
<1>24. CASE \E h \in Handlers : GSelect(h)
    BY <1>2, <1>24 DEF GSelect
<1>25. CASE \E h \in Handlers : GClose(h)
    BY <1>2, <1>25 DEF GClose
<1>26. CASE \E R \in SUBSET GVRs : SetResources(R)
    BY <1>2, <1>26 DEF SetResources
<1>27. CASE ResourceMutation \/ SetResourcesReset
    BY <1>2, <1>27 DEF ResourceMutation, SetResourcesReset, resetSyncResources
<1>28. CASE Terminated
    BY <1>2, <1>28 DEF Terminated
<1>29. CASE RefresherStart
    BY <1>2, <1>29 DEF RefresherStart
<1>30. CASE RefresherExit
    BY <1>2, <1>30 DEF RefresherExit
<1>31. CASE RefresherReceive \/ RefresherCheck \/ RefresherLoad
    BY <1>2, <1>31 DEF RefresherReceive, RefresherCheck, RefresherLoad
<1>32. CASE RefresherLock
    BY <1>2, <1>32 DEF RefresherLock
<1>33. CASE RefresherUnlock
    BY <1>2, <1>33 DEF RefresherUnlock
<1>34. CASE RefresherAbort
    BY <1>2, <1>34 DEF RefresherAbort
<1>35. CASE RefresherRemoved
    BY <1>2, <1>35 DEF RefresherRemoved
<1>36. CASE RefresherDone
    BY <1>2, <1>36 DEF RefresherDone
<1>37. QED
    BY <1>3, <1>4, <1>5, <1>6, <1>7, <1>8, <1>9, <1>10, <1>11, <1>12, <1>13, <1>14, <1>15, <1>16, <1>17, <1>18, <1>19, <1>20, <1>21, <1>22, <1>23, <1>24, <1>25, <1>26, <1>27, <1>28, <1>29, <1>30, <1>31, <1>32, <1>33, <1>34, <1>35, <1>36, Zenon
    DEF Next

(* ClusterSynchro implements SynchroStore for every set of storage GVRs  *)
(* and every bound: a synchro leaves storageResourceSynchros only after   *)
(* its Run returned, and a watermark is deleted only for a storage GVR    *)
(* with no registered synchro (refreshSyncResources, lines 449-483).      *)
THEOREM Refinement == Spec => ImplementsStore
<1>1. Spec => []SInv
    BY InitSInv, NextSInv, PTL DEF Spec
<1>2. QED
    BY <1>1, InitRefines, StepRefines, PTL DEF Spec, ImplementsStore, Store!Spec

(* Every registered synchro has its watermark entry in                   *)
(* storageResourceVersions, whatever the order of creations, failures,    *)
(* closes and cleans.                                                     *)
THEOREM RegistryVersions == Spec => []RegistryHasVersions
<1>1. Spec => []SInv
    BY InitSInv, NextSInv, PTL DEF Spec
<1>2. QED
    BY <1>1, PTL DEF SInv

(* The only step from the cleaning loop back to the refresher's select is *)
(* RefresherDone, taken when nothing is left to clean.                    *)
LEMMA ConvergeStep ==
    ASSUME SInv, [Next]_vars
    PROVE  rfPc = "clean" /\ rfPc' = "wait" =>
               registry' \subseteq plan /\ versions' \subseteq plan
<1> SUFFICES ASSUME rfPc = "clean", rfPc' = "wait"
             PROVE  registry' \subseteq plan /\ versions' \subseteq plan
    OBVIOUS
<1>1. CleanPending
    BY DEF SInv
<1>2. CASE \E upd \in BOOLEAN : ShutdownBegin(upd)
    BY <1>1, <1>2 DEF ShutdownBegin
<1>3. CASE ShutdownFinish
    BY <1>1, <1>3 DEF ShutdownFinish
<1>4. CASE ShutdownReturn
    BY <1>1, <1>4 DEF ShutdownReturn
<1>5. CASE StatusPublish
    BY <1>1, <1>5 DEF StatusPublish
<1>6. CASE StatusExit
    BY <1>1, <1>6 DEF StatusExit
<1>7. CASE MonitorHealthy
    BY <1>1, <1>7 DEF MonitorHealthy
<1>8. CASE MonitorUnhealthy
    BY <1>1, <1>8 DEF MonitorUnhealthy
<1>9. CASE MonitorExit
    BY <1>1, <1>9 DEF MonitorExit
<1>10. CASE Run
    BY <1>1, <1>10 DEF Run
<1>11. CASE RunnerWake
    BY <1>1, <1>11 DEF RunnerWake
<1>12. CASE RunnerExit
    BY <1>1, <1>12 DEF RunnerExit
<1>13. CASE RunnerCheck
    BY <1>1, <1>13 DEF RunnerCheck
<1>14. CASE RunnerLock
    BY <1>1, <1>14 DEF RunnerLock
<1>15. CASE RunnerStartAll
    BY <1>1, <1>15 DEF RunnerStartAll
<1>16. CASE RunnerHandlerStopped
    BY <1>1, <1>16 DEF RunnerHandlerStopped
<1>17. CASE \E h \in Handlers : GSelect(h)
    BY <1>1, <1>17 DEF GSelect
<1>18. CASE \E h \in Handlers : GClose(h)
    BY <1>1, <1>18 DEF GClose
<1>19. CASE \E g \in GVRs : SynchroExit(g)
    BY <1>1, <1>19 DEF SynchroExit
<1>20. CASE RefresherStart
    BY <1>1, <1>20 DEF RefresherStart
<1>21. CASE RefresherExit
    BY <1>1, <1>21 DEF RefresherExit
<1>22. CASE RefresherReceive \/ RefresherCheck \/ RefresherLoad
    BY <1>1, <1>22 DEF RefresherReceive, RefresherCheck, RefresherLoad
<1>23. CASE RefresherLock
    BY <1>1, <1>23 DEF RefresherLock
<1>24. CASE \E g \in GVRs : RefresherCreate(g)
    BY <1>1, <1>24 DEF RefresherCreate
<1>25. CASE RefresherUnlock
    BY <1>1, <1>25 DEF RefresherUnlock
<1>26. CASE \E g \in GVRs : RefresherClose(g)
    BY <1>1, <1>26 DEF RefresherClose
<1>27. CASE RefresherClosed
    BY <1>1, <1>27 DEF RefresherClosed
<1>28. CASE RefresherAbort
    BY <1>1, <1>28 DEF RefresherAbort
<1>29. CASE RefresherRemoved
    BY <1>1, <1>29 DEF RefresherRemoved
<1>30. CASE \E g \in GVRs : RefresherClean(g)
    BY <1>1, <1>30 DEF RefresherClean
<1>31. CASE RefresherDone
    BY <1>1, <1>31 DEF RefresherDone, CleanPending
<1>32. CASE \E R \in SUBSET GVRs : SetResources(R)
    BY <1>1, <1>32 DEF SetResources
<1>33. CASE ResourceMutation \/ SetResourcesReset
    BY <1>1, <1>33 DEF ResourceMutation, SetResourcesReset, resetSyncResources
<1>34. CASE Terminated
    BY <1>1, <1>34 DEF Terminated
<1>35. CASE UNCHANGED vars
    BY <1>1, <1>35
<1>36. QED
    BY <1>2, <1>3, <1>4, <1>5, <1>6, <1>7, <1>8, <1>9, <1>10, <1>11, <1>12, <1>13, <1>14, <1>15, <1>16, <1>17, <1>18, <1>19, <1>20, <1>21, <1>22, <1>23, <1>24, <1>25, <1>26, <1>27, <1>28, <1>29, <1>30, <1>31, <1>32, <1>33, <1>34, <1>35, Zenon
    DEF Next

(* A refresh that runs to its end leaves no synchro and no watermark      *)
(* outside its plan, whether or not CleanClusterResource failed.          *)
THEOREM Converges == Spec => RefreshConverges
<1>1. Spec => []SInv
    BY InitSInv, NextSInv, PTL DEF Spec
<1>2. SInv /\ [Next]_vars =>
          [rfPc = "clean" /\ rfPc' = "wait" =>
               registry' \subseteq plan /\ versions' \subseteq plan]_vars
    BY ConvergeStep
<1>3. QED
    BY <1>1, <1>2, PTL DEF Spec, RefreshConverges

-----------------------------------------------------------------------------
(* No SetResources is lost.  NoLostResources is inductive by itself.  A  *)
(* SetResources stores and then sends: between the two its caller is at    *)
(* "reset" and the property claims nothing; the send (or a discovery       *)
(* mutation's) leaves a token.  The refresher receives and then loads:     *)
(* between the two it is at "check" or "load", and the Load negotiates     *)
(* the plan from the resources stored when it runs.                        *)

LEMMA NextNoLost == NoLostResources /\ [Next]_vars => NoLostResources'
<1> SUFFICES ASSUME NoLostResources, [Next]_vars PROVE NoLostResources'
    OBVIOUS
(* Steps that leave the token, the caller, the resources, the plan and    *)
(* the refresher alone.                                                    *)
<1>1. ASSUME signal' = signal, scPc' = scPc, syncResources' = syncResources,
             plan' = plan, rfPc' = rfPc
      PROVE  NoLostResources'
    BY <1>1 DEF NoLostResources
<1>2. CASE \E R \in SUBSET GVRs : SetResources(R)
    BY <1>2 DEF SetResources, NoLostResources
<1>3. CASE ResourceMutation \/ SetResourcesReset
    BY <1>3 DEF ResourceMutation, SetResourcesReset, resetSyncResources,
                NoLostResources
<1>4. CASE RefresherReceive \/ RefresherCheck
    BY <1>4 DEF RefresherReceive, RefresherCheck, NoLostResources
<1>5. CASE RefresherLoad
    BY <1>5 DEF RefresherLoad, NoLostResources
<1>6. CASE RefresherStart \/ RefresherExit
    BY <1>6 DEF RefresherStart, RefresherExit, NoLostResources
<1>7. CASE RefresherLock \/ RefresherUnlock \/ RefresherClosed
            \/ RefresherAbort \/ RefresherRemoved \/ RefresherDone
    BY <1>7 DEF RefresherLock, RefresherUnlock, RefresherClosed,
                RefresherAbort, RefresherRemoved, RefresherDone, NoLostResources
<1>8. CASE \E g \in GVRs : RefresherCreate(g) \/ RefresherClose(g)
                             \/ RefresherClean(g) \/ SynchroExit(g)
    BY <1>8 DEF RefresherCreate, RefresherClose, RefresherClean, SynchroExit,
                NoLostResources
<1>9. CASE \/ \E upd \in BOOLEAN : ShutdownBegin(upd)
            \/ ShutdownFinish \/ ShutdownReturn \/ StatusPublish \/ StatusExit
    BY <1>1, <1>9 DEF ShutdownBegin, ShutdownFinish, ShutdownReturn,
                      StatusPublish, StatusExit
<1>10. CASE MonitorHealthy \/ MonitorUnhealthy \/ MonitorExit \/ Run
    BY <1>1, <1>10 DEF MonitorHealthy, MonitorUnhealthy, MonitorExit, Run
<1>11. CASE RunnerWake \/ RunnerExit \/ RunnerCheck \/ RunnerLock
             \/ RunnerStartAll \/ RunnerHandlerStopped
    BY <1>1, <1>11 DEF RunnerWake, RunnerExit, RunnerCheck, RunnerLock,
                       RunnerStartAll, RunnerHandlerStopped
<1>12. CASE \E h \in Handlers : GSelect(h) \/ GClose(h)
    BY <1>1, <1>12 DEF GSelect, GClose
<1>13. CASE Terminated \/ UNCHANGED vars
    BY <1>1, <1>13 DEF Terminated
<1>14. QED
    BY <1>2, <1>3, <1>4, <1>5, <1>6, <1>7, <1>8, <1>9, <1>10, <1>11, <1>12,
       <1>13, Zenon
    DEF Next

(* setSyncResourcesCh has capacity 1 and resetSyncResources drops a send  *)
(* when it is full (lines 321-326); still, whenever no token is pending,  *)
(* no SetResources is between its Store and its send and the refresher is *)
(* not between its receive and its Load, the refresher works on or waits  *)
(* with the latest resources.                                             *)
THEOREM ResourcesNotLost == Spec => []NoLostResources
<1>1. Init => NoLostResources
    BY DEF Init, NoLostResources
<1>2. QED
    BY <1>1, NextNoLost, PTL DEF Spec

-----------------------------------------------------------------------------
(* What SynchroStore guarantees carries over through the refinement: the   *)
(* abstract StoreSafe, instantiated with the refinement mapping, gives     *)
(* that a synchro whose Run has not returned is in storageResourceSynchros *)
(* and every registered synchro has its watermark entry, without another  *)
(* invariant proof about ClusterSynchro.                                   *)
THEOREM StoreSafetyInherited ==
    Spec => [](AliveSet \subseteq registry /\ RegistryHasVersions)
<1>1. Spec => Store!Spec
    BY Refinement DEF ImplementsStore
<1>2. Store!Spec => []Store!StoreSafety
    BY Store!StoreSafe
<1>3. Store!StoreSafety <=> (AliveSet \subseteq registry /\ RegistryHasVersions)
    BY DEF Store!StoreSafety, AliveSet, RegistryHasVersions
<1>4. QED
    BY <1>1, <1>2, <1>3, PTL

=============================================================================
