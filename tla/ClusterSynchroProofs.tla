------------------------ MODULE ClusterSynchroProofs ------------------------
(***************************************************************************)
(* Proofs about ClusterSynchro for every value of the constants.           *)
(***************************************************************************)
EXTENDS ClusterSynchro, TLAPS

(* TypeOK is not inductive by itself: RunnerStartAll increments            *)
(* starts[g][hGen], which stays in [Handlers -> Nat] only because the      *)
(* runner has made a handlerStopCh before it starts the synchros.          *)
RunnerHasHandler == rnPc \in {"startAll", "waitH"} => hGen \in Handlers

TypeInv == TypeOK /\ RunnerHasHandler

(* The inductive invariant behind StartedOncePerHandler and               *)
(* RegisteredStarted:                                                     *)
(*  - runnerLock is held by at most one of runner and refresher;          *)
(*  - no synchro has been started on a handlerStopCh not yet made;        *)
(*  - while the runner holds the lock, nothing has been started on the    *)
(*    handlerStopCh it just made.                                         *)
LockExclusive == ~(RefresherHoldsLock /\ RunnerHoldsLock)

NoFutureStarts ==
    \A g \in GVRs, h \in Handlers : h > hGen => starts[g][h] = 0

FreshHandler ==
    rnPc = "startAll" => \A g \in GVRs : starts[g][hGen] = 0

Strengthening ==
    /\ LockExclusive
    /\ NoFutureStarts
    /\ FreshHandler
    /\ StartedOncePerHandler
    /\ RegisteredStarted

IInv == TypeInv /\ Strengthening

(* TypeOK split for the provers: Zenon takes the Boolean-valued          *)
(* variables, SMT the rest.                                               *)
TypeBool ==
    /\ closer \in BOOLEAN /\ closed \in BOOLEAN /\ runCalled \in BOOLEAN
    /\ sdUpdate \in BOOLEAN /\ statusChClosed \in BOOLEAN
    /\ stClosed \in BOOLEAN /\ spClosed \in BOOLEAN /\ hClosed \in BOOLEAN
    /\ discoveryStarted \in BOOLEAN /\ signal \in BOOLEAN

TypeRest ==
    /\ sdPc \in {"none", "waitGroup", "waitClosed", "returned"}
    /\ statusQ \in 0..1
    /\ stPc \in {"notStarted", "loop", "exited"}
    /\ running \in {"Pending", "Running", "Shutdown"}
    /\ published \in {"None", "Pending", "Running", "Shutdown"}
    /\ mon \in {"notStarted", "active", "exited"}
    /\ healthCalls \in 0..MaxHealthCalls
    /\ healthy \in {"Unknown", "True", "False"}
    /\ spGen \in 0..healthCalls
    /\ rnPc \in {"notStarted", "waitStart", "woke", "lock", "startAll",
                 "waitH", "exited"}
    /\ hGen \in 0..MaxHandlers
    /\ gPc \in [Handlers -> {"none", "spawned", "waiting", "exited"}]
    /\ gCap \in [Handlers -> 0..spGen]
    /\ syncResources \in (SUBSET GVRs) \cup {Nil}
    /\ setCalls \in 0..MaxSetCalls /\ scPc \in {"idle", "reset"}
    /\ rfPc \in {"notStarted", "wait", "check", "load", "lock", "create",
                 "remove", "awaitClose", "clean", "exited"}
    /\ plan \in SUBSET GVRs /\ todo \in SUBSET GVRs /\ cur \in GVRs \cup {Nil}
    /\ registry \in SUBSET GVRs /\ versions \in SUBSET GVRs
    /\ syn \in [GVRs -> SynStates]
    /\ starts \in [GVRs -> [Handlers -> Nat]]

LEMMA TypeSplit == TypeOK <=> TypeBool /\ TypeRest
BY Zenon DEF TypeOK, TypeBool, TypeRest

USE ConstAssumption DEF Handlers, NoStarts, SynStates, vars, wgVars, runVars,
                        rfVars

-----------------------------------------------------------------------------
(* Updating one point of a function keeps it in its function set. *)
LEMMA ExceptInFunSet ==
    ASSUME NEW S, NEW T, NEW f \in [S -> T], NEW x, NEW v \in T
    PROVE  [f EXCEPT ![x] = v] \in [S -> T]
OBVIOUS

LEMMA InitTypeInv == Init => TypeInv
<1> SUFFICES ASSUME Init PROVE TypeBool /\ TypeRest /\ RunnerHasHandler
    BY TypeSplit DEF TypeInv
<1>1. TypeBool
    BY Zenon DEF Init, TypeBool
<1>2. TypeRest
    <2>1. starts \in [GVRs -> [Handlers -> Nat]]
        BY DEF Init
    <2>2. syn \in [GVRs -> SynStates] /\ syncResources \in (SUBSET GVRs) \cup {Nil}
        BY DEF Init
    <2>3. /\ statusQ \in 0..1 /\ healthCalls \in 0..MaxHealthCalls
          /\ spGen \in 0..healthCalls /\ hGen \in 0..MaxHandlers
          /\ gCap \in [Handlers -> 0..spGen] /\ setCalls \in 0..MaxSetCalls
        BY DEF Init
    <2>4. QED
        BY <2>1, <2>2, <2>3, Zenon DEF Init, TypeRest
<1>3. RunnerHasHandler
    BY DEF Init, RunnerHasHandler
<1>4. QED
    BY <1>1, <1>2, <1>3

LEMMA NextTypeInv == TypeInv /\ [Next]_vars => TypeInv'
<1> SUFFICES ASSUME TypeInv, [Next]_vars PROVE TypeInv'
    OBVIOUS
<1> TypeBool /\ TypeRest
    BY TypeSplit DEF TypeInv
<1> USE DEF TypeInv, TypeOK, RunnerHasHandler
<1>1. CASE Run
    BY <1>1 DEF Run
<1>2. CASE \E upd \in BOOLEAN : ShutdownBegin(upd)
    BY <1>2 DEF ShutdownBegin
<1>3. CASE ShutdownFinish
    BY <1>3 DEF ShutdownFinish, UpdateStatus
<1>4. CASE ShutdownReturn
    BY <1>4 DEF ShutdownReturn
<1>5. CASE StatusPublish
    BY <1>5 DEF StatusPublish
<1>6. CASE StatusExit
    BY <1>6 DEF StatusExit
<1>7. CASE MonitorHealthy
    <2>1. TypeBool'
        BY <1>7, Zenon DEF MonitorHealthy, startRunner, UpdateStatus, TypeBool
    <2>2. TypeRest'
        BY <1>7 DEF MonitorHealthy, startRunner, UpdateStatus, TypeRest
    <2>3. RunnerHasHandler'
        BY <1>7 DEF MonitorHealthy, startRunner, UpdateStatus
    <2>4. QED
        BY <2>1, <2>2, <2>3, Zenon DEF TypeBool, TypeRest
<1>8. CASE MonitorUnhealthy
    <2>1. TypeBool'
        BY <1>8, Zenon DEF MonitorUnhealthy, stopRunner, UpdateStatus, TypeBool
    <2>2. TypeRest'
        BY <1>8 DEF MonitorUnhealthy, stopRunner, UpdateStatus, TypeRest
    <2>3. RunnerHasHandler'
        BY <1>8 DEF MonitorUnhealthy, stopRunner, UpdateStatus
    <2>4. QED
        BY <2>1, <2>2, <2>3, Zenon DEF TypeBool, TypeRest
<1>9. CASE MonitorExit
    BY <1>9 DEF MonitorExit
<1>10. CASE RunnerWake
    BY <1>10 DEF RunnerWake
<1>11. CASE RunnerExit
    BY <1>11 DEF RunnerExit
<1>12. CASE RunnerCheck
    BY <1>12 DEF RunnerCheck
<1>13. CASE RunnerLock
    <2>1. TypeBool'
        BY <1>13, Zenon DEF RunnerLock, TypeBool
    <2>2. TypeRest'
        BY <1>13 DEF RunnerLock, TypeRest
    <2>3. RunnerHasHandler'
        BY <1>13 DEF RunnerLock
    <2>4. QED
        BY <2>1, <2>2, <2>3, Zenon DEF TypeBool, TypeRest
<1>14. CASE RunnerStartAll
    BY <1>14 DEF RunnerStartAll
<1>15. CASE RunnerHandlerStopped
    BY <1>15 DEF RunnerHandlerStopped
<1>16. CASE \E h \in Handlers : GSelect(h)
    <2>1. PICK h \in Handlers : GSelect(h)
        BY <1>16
    <2>2. /\ gPc \in [Handlers -> {"none", "spawned", "waiting", "exited"}]
          /\ gCap \in [Handlers -> 0..spGen]
          /\ spGen \in Nat
        BY DEF TypeRest
    <2>3. gPc' \in [Handlers -> {"none", "spawned", "waiting", "exited"}]
        BY <2>1, <2>2, ExceptInFunSet DEF GSelect
    <2>4. gCap' \in [Handlers -> 0..spGen']
        BY <2>1, <2>2, ExceptInFunSet DEF GSelect
    <2>5. TypeBool'
        BY <2>1, Zenon DEF GSelect, TypeBool
    <2>6. TypeRest'
        BY <2>1, <2>3, <2>4 DEF GSelect, TypeRest
    <2>7. QED
        BY <2>1, <2>5, <2>6, Zenon DEF GSelect, TypeBool, TypeRest
<1>17. CASE \E h \in Handlers : GClose(h)
    <2>1. PICK h \in Handlers : GClose(h)
        BY <1>17
    <2>2. gPc' \in [Handlers -> {"none", "spawned", "waiting", "exited"}]
        <3>1. gPc \in [Handlers -> {"none", "spawned", "waiting", "exited"}]
            BY DEF TypeRest
        <3>2. QED
            BY <2>1, <3>1, ExceptInFunSet DEF GClose
    <2>3. TypeBool'
        BY <2>1, Zenon DEF GClose, TypeBool
    <2>4. TypeRest'
        BY <2>1, <2>2 DEF GClose, TypeRest
    <2>5. QED
        BY <2>1, <2>3, <2>4, Zenon DEF GClose, TypeBool, TypeRest
<1>18. CASE \E g \in GVRs : SynchroExit(g)
    BY <1>18 DEF SynchroExit
<1>19. CASE RefresherStart
    BY <1>19 DEF RefresherStart
<1>20. CASE RefresherExit
    BY <1>20 DEF RefresherExit
<1>21. CASE RefresherReceive
    <2>1. TypeBool'
        BY <1>21, Zenon DEF RefresherReceive, TypeBool
    <2>2. TypeRest'
        BY <1>21 DEF RefresherReceive, TypeRest
    <2>3. RunnerHasHandler'
        BY <1>21 DEF RefresherReceive
    <2>4. QED
        BY <2>1, <2>2, <2>3, Zenon DEF TypeBool, TypeRest
<1>37. CASE RefresherCheck
    <2>1. TypeBool'
        BY <1>37, Zenon DEF RefresherCheck, TypeBool
    <2>2. TypeRest'
        BY <1>37 DEF RefresherCheck, TypeRest
    <2>3. RunnerHasHandler'
        BY <1>37 DEF RefresherCheck
    <2>4. QED
        BY <2>1, <2>2, <2>3, Zenon DEF TypeBool, TypeRest
<1>38. CASE RefresherLoad
    <2>1. TypeBool'
        BY <1>38, Zenon DEF RefresherLoad, TypeBool
    <2>2. TypeRest'
        BY <1>38 DEF RefresherLoad, TypeRest
    <2>3. RunnerHasHandler'
        BY <1>38 DEF RefresherLoad
    <2>4. QED
        BY <2>1, <2>2, <2>3, Zenon DEF TypeBool, TypeRest
<1>22. CASE RefresherLock
    BY <1>22 DEF RefresherLock
<1>23. CASE \E g \in GVRs : RefresherCreate(g)
    <2>1. PICK g \in GVRs : RefresherCreate(g)
        BY <1>23
    <2>2. TypeBool'
        BY <2>1, Zenon DEF RefresherCreate, TypeBool
    <2>3. TypeRest'
        <3>1. /\ todo' \in SUBSET GVRs /\ versions' \in SUBSET GVRs
              /\ registry' \in SUBSET GVRs
            BY <2>1 DEF RefresherCreate
        <3>2. syn' \in [GVRs -> SynStates]
            BY <2>1 DEF RefresherCreate
        <3>3. starts' \in [GVRs -> [Handlers -> Nat]]
            <4>1. [NoStarts EXCEPT ![hGen] = 1] \in [Handlers -> Nat]
                OBVIOUS
            <4>2. \/ starts' = starts
                  \/ starts' = [starts EXCEPT ![g] = [NoStarts EXCEPT ![hGen] = 1]]
                  \/ starts' = [starts EXCEPT ![g] = NoStarts]
                BY <2>1, Zenon DEF RefresherCreate
            <4>3. starts \in [GVRs -> [Handlers -> Nat]]
                BY DEF TypeInv, TypeOK
            <4>4. NoStarts \in [Handlers -> Nat]
                OBVIOUS
            <4>5. [starts EXCEPT ![g] = [NoStarts EXCEPT ![hGen] = 1]]
                    \in [GVRs -> [Handlers -> Nat]]
                BY <4>1, <4>3, ExceptInFunSet
            <4>6. [starts EXCEPT ![g] = NoStarts] \in [GVRs -> [Handlers -> Nat]]
                BY <4>4, <4>3, ExceptInFunSet
            <4>7. QED
                BY <4>2, <4>3, <4>5, <4>6, Zenon
        <3>4. /\ sdPc' = sdPc /\ statusQ' = statusQ /\ stPc' = stPc
              /\ running' = running /\ published' = published /\ mon' = mon
              /\ healthCalls' = healthCalls /\ healthy' = healthy
              /\ spGen' = spGen /\ rnPc' = rnPc /\ hGen' = hGen /\ gPc' = gPc
              /\ gCap' = gCap /\ syncResources' = syncResources
              /\ setCalls' = setCalls /\ scPc' = scPc /\ rfPc' = rfPc /\ plan' = plan
              /\ cur' = cur
            BY <2>1, Zenon DEF RefresherCreate
        <3>5. TypeRest
            BY TypeSplit DEF TypeInv
        <3>6. /\ sdPc' \in {"none", "waitGroup", "waitClosed", "returned"}
              /\ statusQ' \in 0..1
              /\ stPc' \in {"notStarted", "loop", "exited"}
              /\ running' \in {"Pending", "Running", "Shutdown"}
              /\ published' \in {"None", "Pending", "Running", "Shutdown"}
              /\ mon' \in {"notStarted", "active", "exited"}
              /\ healthy' \in {"Unknown", "True", "False"}
              /\ rnPc' \in {"notStarted", "waitStart", "woke", "lock", "startAll",
                             "waitH", "exited"}
              /\ gPc' \in [Handlers -> {"none", "spawned", "waiting", "exited"}]
              /\ rfPc' \in {"notStarted", "wait", "check", "load", "lock", "create",
                             "remove", "awaitClose", "clean", "exited"}
              /\ scPc' \in {"idle", "reset"}
              /\ syncResources' \in (SUBSET GVRs) \cup {Nil}
              /\ plan' \in SUBSET GVRs /\ cur' \in GVRs \cup {Nil}
            BY <3>4, <3>5 DEF TypeRest
        <3>7. /\ healthCalls' \in 0..MaxHealthCalls
              /\ spGen' \in 0..healthCalls'
              /\ hGen' \in 0..MaxHandlers
              /\ gCap' \in [Handlers -> 0..spGen']
              /\ setCalls' \in 0..MaxSetCalls
            <4>1. /\ healthCalls' = healthCalls /\ spGen' = spGen
                  /\ hGen' = hGen /\ gCap' = gCap /\ setCalls' = setCalls
                BY <3>4, Zenon
            <4>2. /\ healthCalls \in 0..MaxHealthCalls
                  /\ spGen \in 0..healthCalls
                  /\ hGen \in 0..MaxHandlers
                  /\ gCap \in [Handlers -> 0..spGen]
                  /\ setCalls \in 0..MaxSetCalls
                BY <3>5, Zenon DEF TypeRest
            <4>3. QED
                BY <4>1, <4>2
        <3>8. QED
            BY <3>1, <3>2, <3>3, <3>6, <3>7, Zenon DEF TypeRest
    <2>4. RunnerHasHandler'
        BY <2>1 DEF RefresherCreate
    <2>5. QED
        BY <2>2, <2>3, <2>4, ZenonT(60) DEF TypeBool, TypeRest
<1>24. CASE RefresherUnlock
    BY <1>24 DEF RefresherUnlock
<1>25. CASE \E g \in GVRs : RefresherClose(g)
    BY <1>25 DEF RefresherClose
<1>26. CASE RefresherClosed
    BY <1>26 DEF RefresherClosed
<1>27. CASE RefresherAbort
    BY <1>27 DEF RefresherAbort
<1>28. CASE RefresherRemoved
    BY <1>28 DEF RefresherRemoved
<1>29. CASE \E g \in GVRs : RefresherClean(g)
    BY <1>29 DEF RefresherClean
<1>30. CASE RefresherDone
    BY <1>30 DEF RefresherDone
<1>31. CASE \E R \in SUBSET GVRs : SetResources(R)
    BY <1>31 DEF SetResources
<1>36. CASE SetResourcesReset
    BY <1>36 DEF SetResourcesReset, resetSyncResources
<1>32. CASE ResourceMutation
    BY <1>32 DEF ResourceMutation, resetSyncResources
<1>33. CASE Terminated
    BY <1>33 DEF Terminated
<1>34. CASE UNCHANGED vars
    BY <1>34
<1>35. QED
    BY <1>1, <1>2, <1>3, <1>4, <1>5, <1>6, <1>7, <1>8, <1>9, <1>10, <1>11,
       <1>12, <1>13, <1>14, <1>15, <1>16, <1>17, <1>18, <1>19, <1>20, <1>21,
       <1>22, <1>23, <1>24, <1>25, <1>26, <1>27, <1>28, <1>29, <1>30, <1>31,
       <1>32, <1>33, <1>34, <1>36, <1>37, <1>38 DEF Next

(* The specification keeps every variable within its type. *)
THEOREM TypeCorrect == Spec => []TypeOK
<1>1. Spec => []TypeInv
    BY InitTypeInv, NextTypeInv, PTL DEF Spec
<1>2. QED
    BY <1>1, PTL DEF TypeInv

-----------------------------------------------------------------------------
(* StartedOncePerHandler and RegisteredStarted for every number of GVRs  *)
(* and handlers.                                                          *)

LEMMA InitIInv == Init => IInv
<1> SUFFICES ASSUME Init PROVE IInv
    OBVIOUS
<1>1. TypeInv
    BY InitTypeInv
<1>2. Strengthening
    BY DEF Init, Strengthening, LockExclusive, NoFutureStarts, FreshHandler,
           StartedOncePerHandler, RegisteredStarted, RefresherHoldsLock,
           RunnerHoldsLock
<1>3. QED
    BY <1>1, <1>2 DEF IInv

(* The part of the state the strengthening is about. *)
Core == <<rfPc, rnPc, starts, hGen, hClosed, registry>>

LEMMA NextIInv == IInv /\ [Next]_vars => IInv'
<1> SUFFICES ASSUME IInv, [Next]_vars PROVE IInv'
    OBVIOUS
<1>1. TypeInv'
    BY NextTypeInv DEF IInv
<1> SUFFICES Strengthening'
    BY <1>1 DEF IInv
<1>2. /\ starts \in [GVRs -> [Handlers -> Nat]]
      /\ hGen \in 0..MaxHandlers
      /\ registry \subseteq GVRs
      /\ rnPc \in {"startAll", "waitH"} => hGen \in Handlers
      /\ Strengthening
    BY DEF IInv, TypeInv, TypeOK, RunnerHasHandler
<1> USE <1>2 DEF Strengthening, LockExclusive, NoFutureStarts, FreshHandler,
                 StartedOncePerHandler, RegisteredStarted, RefresherHoldsLock,
                 RunnerHoldsLock
(* Steps that leave the core alone. *)
<1>3. ASSUME UNCHANGED Core PROVE Strengthening'
    BY <1>3 DEF Core
(* The runner moves between states where it holds no lock and waits on  *)
(* no handler.                                                            *)
<1>4. ASSUME rnPc' \notin {"startAll", "waitH"},
             UNCHANGED <<rfPc, starts, hGen, registry>>
      PROVE Strengthening'
    BY <1>4
(* The refresher moves outside the creation loop, registry only shrinks. *)
<1>5. ASSUME rfPc' # "create", registry' \subseteq registry,
             UNCHANGED <<rnPc, starts, hGen, hClosed>>
      PROVE Strengthening'
    BY <1>5
<1>6. CASE RunnerLock
    <2>1. hGen + 1 \in Handlers
        BY <1>6 DEF RunnerLock
    <2>2. \A g \in GVRs : starts[g][hGen + 1] = 0
        BY <2>1
    <2>3. \A g \in GVRs, h \in Handlers : h > hGen + 1 => starts[g][h] = 0
        OBVIOUS
    <2>4. QED
        BY <1>6, <2>2, <2>3 DEF RunnerLock
<1>7. CASE RunnerStartAll
    <2>1. hGen \in Handlers
        BY <1>7 DEF RunnerStartAll
    <2>2. \A g \in registry : starts'[g][hGen] = 1
        BY <1>7, <2>1 DEF RunnerStartAll
    <2>3. \A g \in GVRs \ registry : starts'[g] = starts[g]
        BY <1>7 DEF RunnerStartAll
    <2>4. \A g \in registry, h \in Handlers : h # hGen => starts'[g][h] = starts[g][h]
        BY <1>7, <2>1 DEF RunnerStartAll
    <2>5. QED
        BY <1>7, <2>1, <2>2, <2>3, <2>4 DEF RunnerStartAll
<1>8. CASE \E h \in Handlers : GClose(h)
    BY <1>8 DEF GClose
<1>9. CASE RefresherLock
    BY <1>9 DEF RefresherLock
<1>10. CASE \E g \in GVRs : RefresherCreate(g)
    <2>1. PICK g \in GVRs : RefresherCreate(g)
        BY <1>10
    <2>2. rnPc # "startAll"
        BY <2>1 DEF RefresherCreate
    <2>3. CASE UNCHANGED <<registry, starts>>
        BY <2>1, <2>2, <2>3 DEF RefresherCreate
    <2>4. CASE /\ registry' = registry \cup {g}
               /\ starts' = [starts EXCEPT ![g] =
                               IF hGen # 0 /\ ~hClosed
                               THEN [NoStarts EXCEPT ![hGen] = 1]
                               ELSE NoStarts]
        <3> DEFINE V == IF hGen # 0 /\ ~hClosed
                        THEN [NoStarts EXCEPT ![hGen] = 1]
                        ELSE NoStarts
        <3>1. /\ V \in [Handlers -> 0..1]
              /\ \A h \in Handlers : h > hGen => V[h] = 0
              /\ hGen # 0 /\ ~hClosed => V[hGen] = 1
            OBVIOUS
        <3>2. UNCHANGED <<rfPc, rnPc, hGen, hClosed>>
            BY <2>1 DEF RefresherCreate
        <3>3. QED
            BY <2>2, <2>4, <3>1, <3>2
    <2>5. QED
        BY <2>1, <2>3, <2>4, Zenon DEF RefresherCreate
<1>11. CASE UNCHANGED vars
    BY <1>3, <1>11 DEF Core
<1>12. CASE \E upd \in BOOLEAN : ShutdownBegin(upd)
    BY <1>3, <1>12, Zenon DEF ShutdownBegin, Core
<1>13. CASE ShutdownFinish
    BY <1>3, <1>13, Zenon DEF ShutdownFinish, Core
<1>14. CASE ShutdownReturn
    BY <1>3, <1>14, Zenon DEF ShutdownReturn, Core
<1>15. CASE StatusPublish
    BY <1>3, <1>15, Zenon DEF StatusPublish, Core
<1>16. CASE StatusExit
    BY <1>3, <1>16, Zenon DEF StatusExit, Core
<1>17. CASE MonitorHealthy
    BY <1>3, <1>17, Zenon DEF MonitorHealthy, Core
<1>18. CASE MonitorUnhealthy
    BY <1>3, <1>18, Zenon DEF MonitorUnhealthy, Core
<1>19. CASE MonitorExit
    BY <1>3, <1>19, Zenon DEF MonitorExit, Core
<1>20. CASE \E h \in Handlers : GSelect(h)
    BY <1>3, <1>20, Zenon DEF GSelect, Core
<1>21. CASE \E g \in GVRs : SynchroExit(g)
    BY <1>3, <1>21, Zenon DEF SynchroExit, Core
<1>22. CASE \E g \in GVRs : RefresherClean(g)
    BY <1>3, <1>22, Zenon DEF RefresherClean, Core
<1>23. CASE \E R \in SUBSET GVRs : SetResources(R)
    BY <1>3, <1>23, Zenon DEF SetResources, Core
<1>24. CASE ResourceMutation \/ SetResourcesReset
    BY <1>3, <1>24, Zenon DEF ResourceMutation, SetResourcesReset, Core
<1>25. CASE Terminated
    BY <1>3, <1>25, Zenon DEF Terminated, Core
<1>26. CASE Run
    BY <1>4, <1>26, Zenon DEF Run
<1>27. CASE RunnerWake
    BY <1>4, <1>27, Zenon DEF RunnerWake
<1>28. CASE RunnerExit
    BY <1>4, <1>28, Zenon DEF RunnerExit
<1>29. CASE RunnerCheck
    BY <1>4, <1>29, Zenon DEF RunnerCheck
<1>30. CASE RunnerHandlerStopped
    BY <1>4, <1>30, Zenon DEF RunnerHandlerStopped
<1>31. CASE RefresherStart
    BY <1>5, <1>31, Zenon DEF RefresherStart
<1>32. CASE RefresherExit
    BY <1>5, <1>32, Zenon DEF RefresherExit
<1>33. CASE RefresherReceive \/ RefresherCheck \/ RefresherLoad
    BY <1>5, <1>33, Zenon DEF RefresherReceive, RefresherCheck, RefresherLoad
<1>34. CASE RefresherUnlock
    BY <1>5, <1>34, Zenon DEF RefresherUnlock
<1>35. CASE \E g \in GVRs : RefresherClose(g)
    BY <1>5, <1>35, Zenon DEF RefresherClose
<1>36. CASE RefresherClosed
    BY <1>5, <1>36, Zenon DEF RefresherClosed
<1>37. CASE RefresherAbort
    BY <1>5, <1>37, Zenon DEF RefresherAbort
<1>38. CASE RefresherRemoved
    BY <1>5, <1>38, Zenon DEF RefresherRemoved
<1>39. CASE RefresherDone
    BY <1>5, <1>39, Zenon DEF RefresherDone
<1>40. QED
    BY <1>6, <1>7, <1>8, <1>9, <1>10, <1>11, <1>12, <1>13, <1>14, <1>15, <1>16, <1>17, <1>18, <1>19, <1>20, <1>21, <1>22, <1>23, <1>24, <1>25, <1>26, <1>27, <1>28, <1>29, <1>30, <1>31, <1>32, <1>33, <1>34, <1>35, <1>36, <1>37, <1>38, <1>39, Zenon
    DEF Next

(* No resource synchro is ever started twice on the same handlerStopCh:  *)
(* runner's range over storageResourceSynchros and the refresher's start *)
(* of a new synchro are serialised by runnerLock (lines 369-437, 509-530). *)
THEOREM StartedOnce == Spec => []StartedOncePerHandler
<1>1. Spec => []IInv
    BY InitIInv, NextIInv, PTL DEF Spec
<1>2. QED
    BY <1>1, PTL DEF IInv, Strengthening

(* While the runner waits on an open handlerStopCh, every registered     *)
(* synchro has been started on it exactly once.                           *)
THEOREM RegisteredAllStarted == Spec => []RegisteredStarted
<1>1. Spec => []IInv
    BY InitIInv, NextIInv, PTL DEF Spec
<1>2. QED
    BY <1>1, PTL DEF IInv, Strengthening

====
