--------------------- MODULE ClusterSynchroRunnerProofs ---------------------
(***************************************************************************)
(* Proof that the runner of ClusterSynchro implements RunnerSession.       *)
(***************************************************************************)
EXTENDS ClusterSynchroProofs

(* The goroutine G of session h has been spawned and has not closed yet. *)
GLive(h) == gPc[h] \in {"spawned", "waiting"}

(* A G that has not closed yet belongs to the current session, which is   *)
(* under way (the runner's start section or its wait on handlerStopCh)    *)
(* and whose handlerStopCh is still open; no G of a later session exists; *)
(* outside a session the current handlerStopCh is nil or closed.  Because *)
(* G closes whatever s.handlerStopCh holds when it runs, this is what     *)
(* keeps it from closing another session's channel.                       *)
HandlerOwned ==
    /\ \A h \in Handlers :
          GLive(h) => h = hGen /\ rnPc \in {"startAll", "waitH"} /\ ~hClosed
    /\ \A h \in Handlers : h > hGen => gPc[h] = "none"
    /\ rnPc \notin {"startAll", "waitH"} => hGen = 0 \/ hClosed

(* The runner goroutine exists only once Run has been called. *)
RunnerNotStarted == ~runCalled => rnPc = "notStarted"

RInv == TypeInv /\ RunnerNotStarted /\ HandlerOwned

USE ConstAssumption DEF Handlers, NoStarts, SynStates, vars, wgVars, runVars,
                        rfVars

LEMMA InitRInv == Init => RInv
<1> SUFFICES ASSUME Init PROVE RInv
    OBVIOUS
<1>1. TypeInv
    BY InitTypeInv
<1>2. RunnerNotStarted /\ HandlerOwned
    BY DEF Init, RunnerNotStarted, HandlerOwned, GLive
<1>3. QED
    BY <1>1, <1>2 DEF RInv

LEMMA NextRInv == RInv /\ [Next]_vars => RInv'
<1> SUFFICES ASSUME RInv, [Next]_vars PROVE RInv'
    OBVIOUS
<1>1. TypeInv'
    BY NextTypeInv DEF RInv
<1> SUFFICES RunnerNotStarted' /\ HandlerOwned'
    BY <1>1 DEF RInv
<1>2. /\ hGen \in 0..MaxHandlers
      /\ gPc \in [Handlers -> {"none", "spawned", "waiting", "exited"}]
      /\ RunnerNotStarted /\ HandlerOwned
    BY DEF RInv, TypeInv, TypeOK
<1> USE <1>2 DEF GLive
(* Steps that leave the runner and G alone. *)
<1>3. ASSUME runCalled' = runCalled, rnPc' = rnPc, gPc' = gPc, hGen' = hGen,
             hClosed' = hClosed
      PROVE RunnerNotStarted' /\ HandlerOwned'
    BY <1>3 DEF RunnerNotStarted, HandlerOwned
<1>4. CASE Run
    BY <1>4 DEF Run, RunnerNotStarted, HandlerOwned
<1>5. CASE RunnerWake
    BY <1>5 DEF RunnerWake, RunnerNotStarted, HandlerOwned
<1>6. CASE RunnerExit
    BY <1>6 DEF RunnerExit, RunnerNotStarted, HandlerOwned
<1>7. CASE RunnerCheck
    BY <1>7 DEF RunnerCheck, RunnerNotStarted, HandlerOwned
<1>8. CASE RunnerLock
    <2>1. hGen + 1 \in Handlers /\ rnPc = "lock"
        BY <1>8 DEF RunnerLock
    <2>2. \A h \in Handlers : ~GLive(h)
        BY <2>1 DEF HandlerOwned
    <2>3. gPc' = [gPc EXCEPT ![hGen + 1] = "spawned"] /\ hGen' = hGen + 1
          /\ hClosed' = FALSE /\ rnPc' = "startAll" /\ runCalled' = runCalled
        BY <1>8 DEF RunnerLock
    <2>4. \A h \in Handlers : GLive(h)' => h = hGen'
        BY <2>1, <2>2, <2>3
    <2>5. \A h \in Handlers : h > hGen' => gPc'[h] = "none"
        BY <2>1, <2>3 DEF HandlerOwned
    <2>6. QED
        BY <2>1, <2>3, <2>4, <2>5 DEF RunnerNotStarted, HandlerOwned
<1>9. CASE RunnerStartAll
    BY <1>9 DEF RunnerStartAll, RunnerNotStarted, HandlerOwned
<1>10. CASE RunnerHandlerStopped
    BY <1>10 DEF RunnerHandlerStopped, RunnerNotStarted, HandlerOwned
<1>11. CASE \E h \in Handlers : GSelect(h)
    BY <1>11 DEF GSelect, RunnerNotStarted, HandlerOwned
<1>12. CASE \E h \in Handlers : GClose(h)
    BY <1>12 DEF GClose, RunnerNotStarted, HandlerOwned
<1>13. CASE UNCHANGED vars
    BY <1>3, <1>13
<1>14. CASE \E upd \in BOOLEAN : ShutdownBegin(upd)
    BY <1>3, <1>14 DEF ShutdownBegin
<1>15. CASE ShutdownFinish
    BY <1>3, <1>15 DEF ShutdownFinish
<1>16. CASE ShutdownReturn
    BY <1>3, <1>16 DEF ShutdownReturn
<1>17. CASE StatusPublish
    BY <1>3, <1>17 DEF StatusPublish
<1>18. CASE StatusExit
    BY <1>3, <1>18 DEF StatusExit
<1>19. CASE MonitorHealthy
    BY <1>3, <1>19 DEF MonitorHealthy
<1>20. CASE MonitorUnhealthy
    BY <1>3, <1>20 DEF MonitorUnhealthy
<1>21. CASE MonitorExit
    BY <1>3, <1>21 DEF MonitorExit
<1>22. CASE \E g \in GVRs : SynchroExit(g)
    BY <1>3, <1>22 DEF SynchroExit
<1>23. CASE \E g \in GVRs : RefresherCreate(g)
    BY <1>3, <1>23 DEF RefresherCreate
<1>24. CASE \E g \in GVRs : RefresherClose(g)
    BY <1>3, <1>24 DEF RefresherClose
<1>25. CASE \E g \in GVRs : RefresherClean(g)
    BY <1>3, <1>25 DEF RefresherClean
<1>26. CASE \E R \in SUBSET GVRs : SetResources(R)
    BY <1>3, <1>26 DEF SetResources
<1>27. CASE ResourceMutation \/ SetResourcesReset
    BY <1>3, <1>27 DEF ResourceMutation, SetResourcesReset
<1>28. CASE Terminated
    BY <1>3, <1>28 DEF Terminated
<1>29. CASE RefresherStart
    BY <1>3, <1>29 DEF RefresherStart
<1>30. CASE RefresherExit
    BY <1>3, <1>30 DEF RefresherExit
<1>31. CASE RefresherReceive \/ RefresherCheck \/ RefresherLoad
    BY <1>3, <1>31 DEF RefresherReceive, RefresherCheck, RefresherLoad
<1>32. CASE RefresherLock
    BY <1>3, <1>32 DEF RefresherLock
<1>33. CASE RefresherUnlock
    BY <1>3, <1>33 DEF RefresherUnlock
<1>34. CASE RefresherClosed
    BY <1>3, <1>34 DEF RefresherClosed
<1>35. CASE RefresherAbort
    BY <1>3, <1>35 DEF RefresherAbort
<1>36. CASE RefresherRemoved
    BY <1>3, <1>36 DEF RefresherRemoved
<1>37. CASE RefresherDone
    BY <1>3, <1>37 DEF RefresherDone
<1>38. QED
    BY <1>4, <1>5, <1>6, <1>7, <1>8, <1>9, <1>10, <1>11, <1>12, <1>13, <1>14, <1>15, <1>16, <1>17, <1>18, <1>19, <1>20, <1>21, <1>22, <1>23, <1>24, <1>25, <1>26, <1>27, <1>28, <1>29, <1>30, <1>31, <1>32, <1>33, <1>34, <1>35, <1>36, <1>37, Zenon
    DEF Next

-----------------------------------------------------------------------------
(* Refinement of RunnerSession. *)

LEMMA InitRefinesSession == Init => Session!Init
    BY DEF Init, Session!Init, RunnerPhase, HandlerOpen

LEMMA StepRefinesSession ==
    RInv /\ [Next]_vars => [Session!Next]_Session!sessionVars
<1> SUFFICES ASSUME RInv, [Next]_vars
             PROVE  [Session!Next]_Session!sessionVars
    OBVIOUS
<1>1. /\ hGen \in 0..MaxHandlers
      /\ gPc \in [Handlers -> {"none", "spawned", "waiting", "exited"}]
      /\ RunnerNotStarted /\ HandlerOwned
    BY DEF RInv, TypeInv, TypeOK
<1> USE <1>1
(* A step that leaves the runner's session where it was. *)
<1>2. ASSUME RunnerPhase' = RunnerPhase, hGen' = hGen, hClosed' = hClosed
      PROVE  UNCHANGED Session!sessionVars
    BY <1>2 DEF Session!sessionVars, HandlerOpen
<1>3. ASSUME rnPc' = rnPc, hGen' = hGen, hClosed' = hClosed
      PROVE  UNCHANGED Session!sessionVars
    BY <1>2, <1>3 DEF RunnerPhase
<1>4. CASE RunnerLock
    <2>1. Session!Begin
        BY <1>4 DEF RunnerLock, Session!Begin, RunnerPhase, HandlerOpen,
                    HandlerOwned
    <2>2. QED
        BY <2>1 DEF Session!Next
<1>5. CASE RunnerStartAll
    <2>1. Session!Started
        BY <1>5 DEF RunnerStartAll, Session!Started, RunnerPhase, HandlerOpen
    <2>2. QED
        BY <2>1 DEF Session!Next
<1>6. CASE \E h \in Handlers : GClose(h)
    <2>1. Session!Close
        BY <1>6 DEF GClose, Session!Close, RunnerPhase, HandlerOpen,
                    HandlerOwned, GLive
    <2>2. QED
        BY <2>1 DEF Session!Next
<1>7. CASE RunnerHandlerStopped
    <2>1. Session!Stopped
        BY <1>7 DEF RunnerHandlerStopped, Session!Stopped, RunnerPhase,
                    HandlerOpen
    <2>2. QED
        BY <2>1 DEF Session!Next
(* The runner's moves outside a session stay Idle. *)
<1>8. CASE Run \/ RunnerWake \/ RunnerExit \/ RunnerCheck
    <2>1. RunnerPhase = "Idle" /\ RunnerPhase' = "Idle"
        BY <1>8 DEF Run, RunnerWake, RunnerExit, RunnerCheck, RunnerPhase,
                    RunnerNotStarted
    <2>2. hGen' = hGen /\ hClosed' = hClosed
        BY <1>8 DEF Run, RunnerWake, RunnerExit, RunnerCheck
    <2>3. QED
        BY <2>1, <2>2, <1>2
<1>9. CASE \E h \in Handlers : GSelect(h)
    BY <1>3, <1>9 DEF GSelect
<1>10. CASE UNCHANGED vars
    BY <1>3, <1>10
<1>11. CASE \E upd \in BOOLEAN : ShutdownBegin(upd)
    BY <1>3, <1>11 DEF ShutdownBegin
<1>12. CASE ShutdownFinish
    BY <1>3, <1>12 DEF ShutdownFinish
<1>13. CASE ShutdownReturn
    BY <1>3, <1>13 DEF ShutdownReturn
<1>14. CASE StatusPublish
    BY <1>3, <1>14 DEF StatusPublish
<1>15. CASE StatusExit
    BY <1>3, <1>15 DEF StatusExit
<1>16. CASE MonitorHealthy
    BY <1>3, <1>16 DEF MonitorHealthy
<1>17. CASE MonitorUnhealthy
    BY <1>3, <1>17 DEF MonitorUnhealthy
<1>18. CASE MonitorExit
    BY <1>3, <1>18 DEF MonitorExit
<1>19. CASE \E g \in GVRs : SynchroExit(g)
    BY <1>3, <1>19 DEF SynchroExit
<1>20. CASE \E g \in GVRs : RefresherCreate(g)
    BY <1>3, <1>20 DEF RefresherCreate
<1>21. CASE \E g \in GVRs : RefresherClose(g)
    BY <1>3, <1>21 DEF RefresherClose
<1>22. CASE \E g \in GVRs : RefresherClean(g)
    BY <1>3, <1>22 DEF RefresherClean
<1>23. CASE \E R \in SUBSET GVRs : SetResources(R)
    BY <1>3, <1>23 DEF SetResources
<1>24. CASE ResourceMutation \/ SetResourcesReset
    BY <1>3, <1>24 DEF ResourceMutation, SetResourcesReset
<1>25. CASE Terminated
    BY <1>3, <1>25 DEF Terminated
<1>26. CASE RefresherStart \/ RefresherExit \/ RefresherReceive \/ RefresherCheck
             \/ RefresherLoad \/ RefresherLock
             \/ RefresherUnlock \/ RefresherClosed \/ RefresherAbort
             \/ RefresherRemoved \/ RefresherDone
    BY <1>3, <1>26 DEF RefresherStart, RefresherExit, RefresherReceive,
                       RefresherCheck, RefresherLoad,
                       RefresherLock, RefresherUnlock, RefresherClosed,
                       RefresherAbort, RefresherRemoved, RefresherDone
<1>27. QED
    BY <1>4, <1>5, <1>6, <1>7, <1>8, <1>9, <1>10, <1>11, <1>12, <1>13, <1>14, <1>15, <1>16, <1>17, <1>18, <1>19, <1>20, <1>21, <1>22, <1>23, <1>24, <1>25, <1>26, Zenon
    DEF Next

(* The runner implements RunnerSession for every bound: a handlerStopCh  *)
(* is made only when the previous one is closed, G closes it once and    *)
(* only during its session, and the runner waits for that close before   *)
(* it starts over (runner, lines 490-533).                               *)
THEOREM SessionRefinement == Spec => ImplementsRunnerSession
<1>1. Spec => []RInv
    BY InitRInv, NextRInv, PTL DEF Spec
<1>2. QED
    BY <1>1, InitRefinesSession, StepRefinesSession, PTL
    DEF Spec, ImplementsRunnerSession, Session!Spec

-----------------------------------------------------------------------------
(* RunnerSession's own invariant carries over through the refinement:     *)
(* while the runner is outside its start section and its wait, the        *)
(* current handlerStopCh is nil or closed, so discovery and the synchros  *)
(* started on it have been told to stop.                                  *)
THEOREM SessionSafetyInherited ==
    Spec => [](rnPc \notin {"startAll", "waitH"} => ~HandlerOpen)
<1>1. Spec => Session!Spec
    BY SessionRefinement DEF ImplementsRunnerSession
<1>2. Session!Spec => []Session!SessionSafety
    BY Session!SessionSafe
<1>3. Session!SessionSafety => (rnPc \notin {"startAll", "waitH"} => ~HandlerOpen)
    BY DEF Session!SessionSafety, RunnerPhase
<1>4. QED
    BY <1>1, <1>2, <1>3, PTL

-----------------------------------------------------------------------------
(* Each goroutine G closes s.handlerStopCh, reading the field when it     *)
(* closes (line 521), only while it holds its own session's channel and   *)
(* that channel is still open: no close of a closed channel (a panic) and *)
(* no close of a later session's channel.                                 *)
THEOREM ClosesOwnHandler == Spec => HandlerClosedByOwner
<1>1. Spec => []RInv
    BY InitRInv, NextRInv, PTL DEF Spec
<1>2. RInv => \A h \in Handlers :
                 gPc[h] = "waiting" /\ gPc'[h] = "exited" => h = hGen /\ ~hClosed
    BY DEF RInv, HandlerOwned, GLive
<1>3. QED
    BY <1>1, <1>2, PTL DEF HandlerClosedByOwner

=============================================================================
