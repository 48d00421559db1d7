--------------------------- MODULE ClusterSynchro ---------------------------
(***************************************************************************)
(* The lifecycle of one ClusterSynchro (pkg/synchromanager/clustersynchro/ *)
(* cluster_synchro.go): the goroutines it starts and the channels and      *)
(* shared state through which they interact.                               *)
(*                                                                         *)
(*   monitor   health probe; calls startRunner / stopRunner / updateStatus *)
(*   runner    starts discovery and every resource synchro on a fresh      *)
(*             handlerStopCh whenever startRunnerCh is closed              *)
(*   G         the goroutine that closes handlerStopCh on closer or on     *)
(*             stopRunnerCh                                               *)
(*   refresher syncResourcesRefresher / refreshSyncResources               *)
(*   status    the goroutine that drains updateStatusCh                    *)
(*   synchros  one resource synchro Run goroutine per storage GVR          *)
(*   shutdown  Shutdown(updateStatus)                                      *)
(*                                                                         *)
(* A storage GVR is a model value; negotiation is abstracted to the set    *)
(* of storage GVRs the plan contains.  Status texts are left out; the      *)
(* running condition is kept by its reason.                                *)
(***************************************************************************)
EXTENDS Naturals, FiniteSets

CONSTANTS
    GVRs,            \* storage GVRs that negotiation can put into a plan
    Nil,             \* syncResources before the first SetResources
    MaxHealthCalls,  \* bound on startRunner/stopRunner calls by the monitor
    MaxSetCalls,     \* bound on SetResources calls
    MaxHandlers      \* bound on handlerStopCh channels the runner makes

ASSUME ConstAssumption ==
    /\ IsFiniteSet(GVRs)
    /\ Nil \notin GVRs
    /\ MaxHealthCalls \in Nat
    /\ MaxSetCalls \in Nat
    /\ MaxHandlers \in Nat \ {0}

Handlers == 1..MaxHandlers          \* identities of handlerStopCh channels

VARIABLES
    closer, closed,           \* the closer / closed channels, TRUE = closed
    runCalled,                \* Run has been called
    sdPc, sdUpdate,           \* Shutdown: progress, updateStatus argument
    statusQ, statusChClosed,  \* updateStatusCh: buffered tokens (cap 1), closed
    stPc,                     \* status goroutine of Run
    running,                  \* reason of runningCondition
    published,                \* running reason of the last published status
    mon, healthCalls,         \* monitor goroutine, calls it made
    healthy,                  \* status of healthyCondition
    stClosed,                 \* current startRunnerCh is closed
    spClosed, spGen,          \* current stopRunnerCh is closed; its identity
    rnPc,                     \* runner goroutine
    hGen, hClosed,            \* current handlerStopCh (0 = nil); closed
    gPc, gCap,                \* G goroutine of each handlerStopCh; the
                              \* stopRunnerCh it selects on
    discoveryStarted,         \* dynamicDiscovery.Start has been called
    syncResources, signal,    \* s.syncResources; setSyncResourcesCh holds a token
    setCalls, scPc,           \* SetResources calls made; the caller's progress
    rfPc, plan, todo, cur,    \* refresher goroutine and its loop state
    registry,                 \* keys of storageResourceSynchros
    versions,                 \* keys of storageResourceVersions
    syn,                      \* state of the synchro of each storage GVR
    starts                    \* starts[g][h]: Start calls of g's synchro on h

wgVars  == <<closer, closed, runCalled, sdPc, sdUpdate, statusQ,
             statusChClosed, stPc, running, published>>
runVars == <<mon, healthCalls, healthy, stClosed, spClosed, spGen, rnPc, hGen,
             hClosed, gPc, gCap, discoveryStarted>>
rfVars  == <<syncResources, signal, setCalls, scPc, rfPc, plan, todo, cur,
             registry, versions, syn, starts>>
vars    == <<wgVars, runVars, rfVars>>

SynStates == {"none", "running", "closing", "stopped"}
NoStarts == [h \in Handlers |-> 0]

(* The synchro Run goroutines that belong to waitGroup and have not exited. *)
SynchroAlive(g) == syn[g] \in {"running", "closing"}

(* waitGroup counts monitor, runner and every synchro Run. *)
WaitGroupDone ==
    /\ mon # "active"
    /\ rnPc \in {"notStarted", "exited"}
    /\ \A g \in GVRs : ~SynchroAlive(g)

(* The lock runnerLock: held by the refresher in its creation loop and by  *)
(* the runner while it starts the handlers.                                *)
RefresherHoldsLock == rfPc = "create"
RunnerHoldsLock    == rnPc = "startAll"

-----------------------------------------------------------------------------
(* Fault variants: each is a plausible slip in the code of the definition *)
(* named in its comment, and each should break one property below.       *)

(* UpdateStatus: a send that does not drop when the buffer is full. *)
UpdateStatusUnbuffered == statusQ' = statusQ + 1

(* RunnerLock: handlerStopCh made without taking runnerLock. *)
RunnerLockUnguarded ==
    /\ rnPc = "lock"
    /\ hGen < MaxHandlers
    /\ hGen' = hGen + 1
    /\ hClosed' = FALSE
    /\ gPc' = [gPc EXCEPT ![hGen + 1] = "spawned"]
    /\ discoveryStarted' = TRUE
    /\ rnPc' = "startAll"
    /\ UNCHANGED <<wgVars, mon, healthCalls, healthy, stClosed, spClosed, spGen, gCap,
                   rfVars>>

(* RunnerLock: the goroutine that closes handlerStopCh is never started. *)
RunnerLockNoCloser ==
    /\ rnPc = "lock" /\ ~RefresherHoldsLock
    /\ hGen < MaxHandlers
    /\ hGen' = hGen + 1
    /\ hClosed' = FALSE
    /\ discoveryStarted' = TRUE
    /\ rnPc' = "startAll"
    /\ UNCHANGED <<wgVars, mon, healthCalls, healthy, stClosed, spClosed, spGen, gPc,
                   gCap, rfVars>>

(* startRunner: a closed stopRunnerCh is not replaced. *)
startRunnerNoReset ==
    /\ stClosed' = TRUE
    /\ UNCHANGED <<spClosed, spGen>>

(* RefresherCreate: a new synchro is not started on handlerStopCh. *)
RefresherCreateNoStart(g) ==
    /\ rfPc = "create" /\ g \in todo
    /\ todo' = todo \ {g}
    /\ \/ g \in registry /\ UNCHANGED <<versions, registry, syn, starts>>
       \/ g \notin registry
          /\ versions' = versions \cup {g}
          /\ registry' = registry \cup {g}
          /\ syn' = [syn EXCEPT ![g] = "running"]
          /\ starts' = [starts EXCEPT ![g] = NoStarts]
    /\ UNCHANGED <<wgVars, runVars, syncResources, signal, setCalls, scPc, rfPc,
                   plan, cur>>

(* RefresherCreate: the fresh watermark entry is not stored in the map. *)
RefresherCreateNoVersions(g) ==
    /\ rfPc = "create" /\ g \in todo
    /\ todo' = todo \ {g}
    /\ \/ g \in registry /\ UNCHANGED <<versions, registry, syn, starts>>
       \/ g \notin registry
          /\ registry' = registry \cup {g}
          /\ syn' = [syn EXCEPT ![g] = "running"]
          /\ starts' = [starts EXCEPT ![g] =
                          IF hGen # 0 /\ ~hClosed
                          THEN [NoStarts EXCEPT ![hGen] = 1]
                          ELSE NoStarts]
          /\ UNCHANGED versions
    /\ UNCHANGED <<wgVars, runVars, syncResources, signal, setCalls, scPc, rfPc,
                   plan, cur>>

(* RefresherClose: the synchro is deleted without waiting for Close(). *)
RefresherCloseNoWait(g) ==
    /\ rfPc = "remove" /\ g \in todo
    /\ syn' = [syn EXCEPT ![g] = IF @ = "running" THEN "closing" ELSE @]
    /\ registry' = registry \ {g}
    /\ todo' = todo \ {g}
    /\ UNCHANGED <<wgVars, runVars, syncResources, signal, setCalls, scPc, rfPc,
                   plan, cur, versions, starts>>

(* RefresherClean: the entry is kept when CleanClusterResource fails. *)
RefresherCleanKeepFailed(g) ==
    /\ rfPc = "clean" /\ g \in todo
    /\ \/ versions' = versions \ {g}
       \/ UNCHANGED versions
    /\ todo' = todo \ {g}
    /\ UNCHANGED <<wgVars, runVars, syncResources, signal, setCalls, scPc, rfPc, plan,
                   cur, registry, syn, starts>>

(* resetSyncResources on an unbuffered setSyncResourcesCh: the           *)
(* non-blocking send is taken only while the refresher waits in its select. *)
resetSyncResourcesUnbuffered == IF rfPc = "wait" THEN signal' = TRUE ELSE UNCHANGED signal

(* SetResources returns after the Store without resetSyncResources. *)
SetResourcesResetSkipped ==
    /\ scPc = "reset"
    /\ scPc' = "idle"
    /\ UNCHANGED <<wgVars, runVars, syncResources, signal, setCalls, rfPc, plan,
                   todo, cur, registry, versions, syn, starts>>

(* RunnerHandlerStopped: the runner goes on without waiting for          *)
(* handlerStopCh to be closed.                                            *)
RunnerHandlerStoppedNoWait ==
    /\ rnPc = "waitH"
    /\ rnPc' = "waitStart"
    /\ UNCHANGED <<wgVars, mon, healthCalls, healthy, stClosed, spClosed, spGen, hGen,
                   hClosed, gPc, gCap, discoveryStarted, rfVars>>

(* updateStatus: a non-blocking send on updateStatusCh (capacity 1). *)
UpdateStatus == statusQ' = 1

(* resetSyncResources: a non-blocking send on setSyncResourcesCh         *)
(* (capacity 1); a send to a full channel is dropped.                     *)
resetSyncResources == signal' = TRUE

(* ShutdownFinish: close(s.updateStatusCh) is left out. *)
ShutdownFinishNoClose ==
    /\ sdPc = "waitGroup"
    /\ WaitGroupDone
    /\ sdPc' = "waitClosed"
    /\ running' = "Shutdown"
    /\ IF sdUpdate THEN UpdateStatus ELSE UNCHANGED statusQ
    /\ UNCHANGED <<closer, closed, runCalled, sdUpdate, statusChClosed, stPc,
                   published, runVars, rfVars>>

-----------------------------------------------------------------------------
(* New: the initial state.  storageResourceVersions is loaded from        *)
(* storage (initWithResourceVersions), so any set of storage GVRs.        *)
Init ==
    /\ closer = FALSE /\ closed = FALSE
    /\ runCalled = FALSE
    /\ sdPc = "none" /\ sdUpdate = FALSE
    /\ statusQ = 0 /\ statusChClosed = FALSE
    /\ stPc = "notStarted"
    /\ running = "Pending"
    /\ published = "None"
    /\ mon = "notStarted" /\ healthCalls = 0
    /\ healthy = "Unknown"
    /\ stClosed = FALSE /\ spClosed = FALSE /\ spGen = 0
    /\ rnPc = "notStarted"
    /\ hGen = 0 /\ hClosed = FALSE
    /\ gPc = [h \in Handlers |-> "none"] /\ gCap = [h \in Handlers |-> 0]
    /\ discoveryStarted = FALSE
    /\ syncResources = Nil /\ signal = FALSE /\ setCalls = 0 /\ scPc = "idle"
    /\ rfPc = "notStarted" /\ plan = {} /\ todo = {} /\ cur = Nil
    /\ registry = {}
    /\ versions \in SUBSET GVRs
    /\ syn = [g \in GVRs |-> "none"]
    /\ starts = [g \in GVRs |-> NoStarts]

-----------------------------------------------------------------------------
(* Run: store Running, start monitor and runner in waitGroup and the      *)
(* status goroutine.                                                      *)
Run ==
    /\ ~runCalled
    /\ runCalled' = TRUE
    /\ running' = "Running"
    /\ mon' = "active"
    /\ rnPc' = "waitStart"
    /\ stPc' = "loop"
    /\ UNCHANGED <<closer, closed, sdPc, sdUpdate, statusQ, statusChClosed,
                   published, healthCalls, healthy, stClosed, spClosed, spGen, hGen,
                   hClosed, gPc, gCap, discoveryStarted, rfVars>>

(* Shutdown, first caller (closeOnce): close closer. *)
ShutdownBegin(upd) ==
    /\ sdPc = "none"
    /\ sdPc' = "waitGroup"
    /\ sdUpdate' = upd
    /\ closer' = TRUE
    /\ UNCHANGED <<closed, runCalled, statusQ, statusChClosed, stPc, running,
                   published, runVars, rfVars>>

(* waitGroup.Wait() has returned: store Shutdown, updateStatus if asked,  *)
(* close updateStatusCh.                                                  *)
ShutdownFinish ==
    /\ sdPc = "waitGroup"
    /\ WaitGroupDone
    /\ sdPc' = "waitClosed"
    /\ running' = "Shutdown"
    /\ IF sdUpdate THEN UpdateStatus ELSE UNCHANGED statusQ
    /\ statusChClosed' = TRUE
    /\ UNCHANGED <<closer, closed, runCalled, sdUpdate, stPc, published,
                   runVars, rfVars>>

(* <-s.closed: Shutdown returns. *)
ShutdownReturn ==
    /\ sdPc = "waitClosed"
    /\ closed
    /\ sdPc' = "returned"
    /\ UNCHANGED <<closer, closed, runCalled, sdUpdate, statusQ,
                   statusChClosed, stPc, running, published, runVars, rfVars>>

(* The status goroutine receives a token and publishes genClusterStatus. *)
StatusPublish ==
    /\ stPc = "loop"
    /\ statusQ = 1
    /\ statusQ' = 0
    /\ published' = running
    /\ UNCHANGED <<closer, closed, runCalled, sdPc, sdUpdate, statusChClosed,
                   stPc, running, runVars, rfVars>>

(* The range loop ends when updateStatusCh is closed and drained. *)
StatusExit ==
    /\ stPc = "loop"
    /\ statusQ = 0
    /\ statusChClosed
    /\ stPc' = "exited"
    /\ closed' = TRUE
    /\ UNCHANGED <<closer, runCalled, sdPc, sdUpdate, statusQ, statusChClosed,
                   running, published, runVars, rfVars>>

-----------------------------------------------------------------------------
(* The monitor (health checker loop, not in this file) turns health      *)
(* transitions into startRunner and stopRunner calls and publishes the    *)
(* healthy condition.                                                     *)

(* startRunner: replace a closed stopRunnerCh, then close startRunnerCh. *)
startRunner ==
    /\ IF spClosed THEN /\ spClosed' = FALSE
                        /\ spGen' = spGen + 1
                   ELSE UNCHANGED <<spClosed, spGen>>
    /\ stClosed' = TRUE

(* stopRunner: replace a closed startRunnerCh, then close stopRunnerCh. *)
stopRunner ==
    /\ stClosed' = FALSE
    /\ spClosed' = TRUE
    /\ UNCHANGED spGen

MonitorHealthy ==
    /\ mon = "active" /\ ~closer
    /\ healthCalls < MaxHealthCalls
    /\ healthCalls' = healthCalls + 1
    /\ healthy' = "True"
    /\ startRunner
    /\ UpdateStatus
    /\ UNCHANGED <<closer, closed, runCalled, sdPc, sdUpdate, statusChClosed,
                   stPc, running, published, mon, rnPc, hGen, hClosed, gPc,
                   gCap, discoveryStarted, rfVars>>

MonitorUnhealthy ==
    /\ mon = "active" /\ ~closer
    /\ healthCalls < MaxHealthCalls
    /\ healthCalls' = healthCalls + 1
    /\ healthy' = "False"
    /\ stopRunner
    /\ UpdateStatus
    /\ UNCHANGED <<closer, closed, runCalled, sdPc, sdUpdate, statusChClosed,
                   stPc, running, published, mon, rnPc, hGen, hClosed, gPc,
                   gCap, discoveryStarted, rfVars>>

MonitorExit ==
    /\ mon = "active" /\ closer
    /\ mon' = "exited"
    /\ UNCHANGED <<wgVars, healthCalls, healthy, stClosed, spClosed, spGen, rnPc, hGen,
                   hClosed, gPc, gCap, discoveryStarted, rfVars>>

-----------------------------------------------------------------------------
(* runner *)

(* The first select: startRunnerCh is closed. *)
RunnerWake ==
    /\ rnPc = "waitStart" /\ stClosed
    /\ rnPc' = "woke"
    /\ UNCHANGED <<wgVars, mon, healthCalls, healthy, stClosed, spClosed, spGen, hGen,
                   hClosed, gPc, gCap, discoveryStarted, rfVars>>

(* A select that sees closer returns from runner. *)
RunnerExit ==
    /\ rnPc \in {"waitStart", "woke"} /\ closer
    /\ rnPc' = "exited"
    /\ UNCHANGED <<wgVars, mon, healthCalls, healthy, stClosed, spClosed, spGen, hGen,
                   hClosed, gPc, gCap, discoveryStarted, rfVars>>

(* The second select: continue on a closed stopRunnerCh, else go on to    *)
(* the locked section (closer is RunnerExit).                             *)
RunnerCheck ==
    /\ rnPc = "woke"
    /\ \/ spClosed /\ rnPc' = "waitStart"
       \/ ~spClosed /\ ~closer /\ rnPc' = "lock"
    /\ UNCHANGED <<wgVars, mon, healthCalls, healthy, stClosed, spClosed, spGen, hGen,
                   hClosed, gPc, gCap, discoveryStarted, rfVars>>

(* runnerLock.Lock(); handlerStopCh = make(..); go G; go discovery.Start. *)
RunnerLock ==
    /\ rnPc = "lock" /\ ~RefresherHoldsLock
    /\ hGen < MaxHandlers
    /\ hGen' = hGen + 1
    /\ hClosed' = FALSE
    /\ gPc' = [gPc EXCEPT ![hGen + 1] = "spawned"]
    /\ discoveryStarted' = TRUE
    /\ rnPc' = "startAll"
    /\ UNCHANGED <<wgVars, mon, healthCalls, healthy, stClosed, spClosed, spGen, gCap,
                   rfVars>>

(* Range over storageResourceSynchros: go Start(handlerStopCh); Unlock. *)
RunnerStartAll ==
    /\ rnPc = "startAll"
    /\ starts' = [g \in GVRs |->
                    IF g \in registry
                    THEN [starts[g] EXCEPT ![hGen] = @ + 1]
                    ELSE starts[g]]
    /\ rnPc' = "waitH"
    /\ UNCHANGED <<wgVars, mon, healthCalls, healthy, stClosed, spClosed, spGen, hGen,
                   hClosed, gPc, gCap, discoveryStarted, syncResources, signal,
                   setCalls, scPc, rfPc, plan, todo, cur, registry, versions, syn>>

(* <-s.handlerStopCh returns; back to the top of the loop. *)
RunnerHandlerStopped ==
    /\ rnPc = "waitH" /\ hClosed
    /\ rnPc' = "waitStart"
    /\ UNCHANGED <<wgVars, mon, healthCalls, healthy, stClosed, spClosed, spGen, hGen,
                   hClosed, gPc, gCap, discoveryStarted, rfVars>>

(* G of session h evaluates its select: it reads s.stopRunnerCh now. *)
GSelect(h) ==
    /\ gPc[h] = "spawned"
    /\ gPc' = [gPc EXCEPT ![h] = "waiting"]
    /\ gCap' = [gCap EXCEPT ![h] = spGen]
    /\ UNCHANGED <<wgVars, mon, healthCalls, healthy, stClosed, spClosed, spGen, rnPc,
                   hGen, hClosed, discoveryStarted, rfVars>>

(* closer or the stopRunnerCh G selected on is closed (a replaced one was *)
(* closed before it was replaced): close(s.handlerStopCh), the channel    *)
(* the field holds when G gets there.                                     *)
GClose(h) ==
    /\ gPc[h] = "waiting"
    /\ closer \/ gCap[h] < spGen \/ spClosed
    /\ gPc' = [gPc EXCEPT ![h] = "exited"]
    /\ hClosed' = TRUE
    /\ UNCHANGED <<wgVars, mon, healthCalls, healthy, stClosed, spClosed, spGen, rnPc,
                   hGen, gCap, discoveryStarted, rfVars>>

-----------------------------------------------------------------------------
(* Resource synchros.  Run(closer) returns when closer is closed or when  *)
(* Close() has been called; the channel Close() returns is then closed.   *)
SynchroExit(g) ==
    /\ SynchroAlive(g)
    /\ closer \/ syn[g] = "closing"
    /\ syn' = [syn EXCEPT ![g] = "stopped"]
    /\ UNCHANGED <<wgVars, runVars, syncResources, signal, setCalls, scPc, rfPc,
                   plan, todo, cur, registry, versions, starts>>

-----------------------------------------------------------------------------
(* syncResourcesRefresher, started once by discovery's AfterStartFunc. *)
RefresherStart ==
    /\ rfPc = "notStarted" /\ discoveryStarted
    /\ rfPc' = "wait"
    /\ UNCHANGED <<wgVars, runVars, syncResources, signal, setCalls, scPc, plan, todo,
                   cur, registry, versions, syn, starts>>

RefresherExit ==
    /\ rfPc = "wait" /\ closer
    /\ rfPc' = "exited"
    /\ UNCHANGED <<wgVars, runVars, syncResources, signal, setCalls, scPc, plan, todo,
                   cur, registry, versions, syn, starts>>

(* The first select receives the token of setSyncResourcesCh. *)
RefresherReceive ==
    /\ rfPc = "wait" /\ signal
    /\ signal' = FALSE
    /\ rfPc' = "check"
    /\ UNCHANGED <<wgVars, runVars, syncResources, setCalls, scPc, plan, todo,
                   cur, registry, versions, syn, starts>>

(* The second select returns on closer, else calls refreshSyncResources. *)
RefresherCheck ==
    /\ rfPc = "check"
    /\ rfPc' = IF closer THEN "exited" ELSE "load"
    /\ UNCHANGED <<wgVars, runVars, syncResources, signal, setCalls, scPc, plan,
                   todo, cur, registry, versions, syn, starts>>

(* refreshSyncResources loads syncResources: it returns while they are   *)
(* nil, else negotiates its plan from them.                               *)
RefresherLoad ==
    /\ rfPc = "load"
    /\ \/ syncResources = Nil /\ rfPc' = "wait" /\ UNCHANGED plan
       \/ syncResources # Nil /\ plan' = syncResources /\ rfPc' = "lock"
    /\ UNCHANGED <<wgVars, runVars, syncResources, signal, setCalls, scPc, todo,
                   cur, registry, versions, syn, starts>>

(* runnerLock.Lock() before the creation loop. *)
RefresherLock ==
    /\ rfPc = "lock" /\ ~RunnerHoldsLock
    /\ rfPc' = "create"
    /\ todo' = plan
    /\ UNCHANGED <<wgVars, runVars, syncResources, signal, setCalls, scPc, plan, cur,
                   registry, versions, syn, starts>>

(* One iteration of the creation loop for storage GVR g of the plan.      *)
(* NewResourceStorage and NewResourceSynchro may fail; the watermark entry *)
(* is ensured between the two.  A new synchro is Run under closer and is   *)
(* started at once on a handlerStopCh that is set and not closed.         *)
RefresherCreate(g) ==
    /\ rfPc = "create" /\ g \in todo
    /\ todo' = todo \ {g}
    /\ \/ g \in registry
          /\ UNCHANGED <<versions, registry, syn, starts>>
       \/ g \notin registry                         \* storage failed
          /\ UNCHANGED <<versions, registry, syn, starts>>
       \/ g \notin registry                         \* synchro failed
          /\ versions' = versions \cup {g}
          /\ UNCHANGED <<registry, syn, starts>>
       \/ g \notin registry
          /\ versions' = versions \cup {g}
          /\ registry' = registry \cup {g}
          /\ syn' = [syn EXCEPT ![g] = "running"]
          /\ starts' = [starts EXCEPT ![g] =
                          IF hGen # 0 /\ ~hClosed
                          THEN [NoStarts EXCEPT ![hGen] = 1]
                          ELSE NoStarts]
    /\ UNCHANGED <<wgVars, runVars, syncResources, signal, setCalls, scPc, rfPc,
                   plan, cur>>

(* runnerLock.Unlock(); collect the registered GVRs not in the plan. *)
RefresherUnlock ==
    /\ rfPc = "create" /\ todo = {}
    /\ rfPc' = "remove"
    /\ todo' = registry \ plan
    /\ UNCHANGED <<wgVars, runVars, syncResources, signal, setCalls, scPc, plan, cur,
                   registry, versions, syn, starts>>

(* synchro.Close() for a removed storage GVR g. *)
RefresherClose(g) ==
    /\ rfPc = "remove" /\ g \in todo
    /\ syn' = [syn EXCEPT ![g] = IF @ = "running" THEN "closing" ELSE @]
    /\ cur' = g
    /\ rfPc' = "awaitClose"
    /\ UNCHANGED <<wgVars, runVars, syncResources, signal, setCalls, scPc, plan, todo,
                   registry, versions, starts>>

(* The channel of Close() is closed: storageResourceSynchros.Delete(g). *)
RefresherClosed ==
    /\ rfPc = "awaitClose" /\ syn[cur] = "stopped"
    /\ registry' = registry \ {cur}
    /\ todo' = todo \ {cur}
    /\ rfPc' = "remove"
    /\ UNCHANGED <<wgVars, runVars, syncResources, signal, setCalls, scPc, plan, cur,
                   versions, syn, starts>>

(* closer is closed while waiting for Close(): refreshSyncResources returns. *)
RefresherAbort ==
    /\ rfPc = "awaitClose" /\ closer
    /\ rfPc' = "wait"
    /\ UNCHANGED <<wgVars, runVars, syncResources, signal, setCalls, scPc, plan, todo,
                   cur, registry, versions, syn, starts>>

(* Collect the watermark entries not in the plan. *)
RefresherRemoved ==
    /\ rfPc = "remove" /\ todo = {}
    /\ rfPc' = "clean"
    /\ todo' = versions \ plan
    /\ UNCHANGED <<wgVars, runVars, syncResources, signal, setCalls, scPc, plan, cur,
                   registry, versions, syn, starts>>

(* delete(storageResourceVersions, g); CleanClusterResource(g), whose     *)
(* outcome only changes the sync conditions.                              *)
RefresherClean(g) ==
    /\ rfPc = "clean" /\ g \in todo
    /\ versions' = versions \ {g}
    /\ todo' = todo \ {g}
    /\ UNCHANGED <<wgVars, runVars, syncResources, signal, setCalls, scPc, rfPc, plan,
                   cur, registry, syn, starts>>

RefresherDone ==
    /\ rfPc = "clean" /\ todo = {}
    /\ rfPc' = "wait"
    /\ UNCHANGED <<wgVars, runVars, syncResources, signal, setCalls, scPc, plan, todo,
                   cur, registry, versions, syn, starts>>

-----------------------------------------------------------------------------
(* Callers of the synchro. *)

(* SetResources: syncResources.Store and SetSyncAllCustomResources. *)
SetResources(R) ==
    /\ scPc = "idle" /\ setCalls < MaxSetCalls
    /\ setCalls' = setCalls + 1
    /\ syncResources' = R
    /\ scPc' = "reset"
    /\ UNCHANGED <<wgVars, runVars, signal, rfPc, plan, todo, cur, registry,
                   versions, syn, starts>>

(* SetResources goes on to resetSyncResources and returns. *)
SetResourcesReset ==
    /\ scPc = "reset"
    /\ resetSyncResources
    /\ scPc' = "idle"
    /\ UNCHANGED <<wgVars, runVars, syncResources, setCalls, rfPc, plan, todo,
                   cur, registry, versions, syn, starts>>

(* Discovery's ResourceMutationHandler, resetSyncResources, while it runs. *)
ResourceMutation ==
    /\ discoveryStarted /\ ~hClosed
    /\ ~signal
    /\ resetSyncResources
    /\ UNCHANGED <<wgVars, runVars, syncResources, setCalls, scPc, rfPc, plan, todo,
                   cur, registry, versions, syn, starts>>

(* Shutdown has returned: the program is done with this synchro. *)
Terminated ==
    /\ sdPc = "returned"
    /\ UNCHANGED vars

-----------------------------------------------------------------------------
Next ==
    \/ Run
    \/ \E upd \in BOOLEAN : ShutdownBegin(upd)
    \/ ShutdownFinish \/ ShutdownReturn
    \/ StatusPublish \/ StatusExit
    \/ MonitorHealthy \/ MonitorUnhealthy \/ MonitorExit
    \/ RunnerWake \/ RunnerExit \/ RunnerCheck \/ RunnerLock
    \/ RunnerStartAll \/ RunnerHandlerStopped
    \/ \E h \in Handlers : GSelect(h) \/ GClose(h)
    \/ \E g \in GVRs : SynchroExit(g)
    \/ RefresherStart \/ RefresherExit \/ RefresherReceive \/ RefresherCheck
    \/ RefresherLoad \/ RefresherLock
    \/ \E g \in GVRs : RefresherCreate(g)
    \/ RefresherUnlock
    \/ \E g \in GVRs : RefresherClose(g)
    \/ RefresherClosed \/ RefresherAbort \/ RefresherRemoved
    \/ \E g \in GVRs : RefresherClean(g)
    \/ RefresherDone
    \/ \E R \in SUBSET GVRs : SetResources(R)
    \/ SetResourcesReset
    \/ ResourceMutation
    \/ Terminated

(* Every goroutine the synchro starts is scheduled eventually (weak       *)
(* fairness), and so is a caller that is inside SetResources or Shutdown *)
(* (its next statement runs once it can); calling them, and the monitor's *)
(* health observations, are not.                                          *)
Fairness ==
    /\ WF_vars(ShutdownFinish) /\ WF_vars(ShutdownReturn)
    /\ WF_vars(StatusPublish) /\ WF_vars(StatusExit)
    /\ WF_vars(MonitorExit)
    /\ WF_vars(RunnerWake \/ RunnerExit \/ RunnerCheck \/ RunnerLock
               \/ RunnerStartAll \/ RunnerHandlerStopped)
    /\ \A h \in Handlers : WF_vars(GSelect(h)) /\ WF_vars(GClose(h))
    /\ \A g \in GVRs : WF_vars(SynchroExit(g))
    /\ WF_vars(SetResourcesReset)
    /\ WF_vars(RefresherStart \/ RefresherExit \/ RefresherReceive
               \/ RefresherCheck \/ RefresherLoad
               \/ RefresherLock \/ RefresherUnlock \/ RefresherClosed
               \/ RefresherAbort \/ RefresherRemoved \/ RefresherDone
               \/ \E g \in GVRs : RefresherCreate(g) \/ RefresherClose(g)
                                  \/ RefresherClean(g))

Spec == Init /\ [][Next]_vars

FairSpec == Spec /\ Fairness

-----------------------------------------------------------------------------
(* Properties *)

TypeOK ==
    /\ closer \in BOOLEAN /\ closed \in BOOLEAN /\ runCalled \in BOOLEAN
    /\ sdPc \in {"none", "waitGroup", "waitClosed", "returned"}
    /\ sdUpdate \in BOOLEAN
    /\ statusQ \in 0..1 /\ statusChClosed \in BOOLEAN
    /\ stPc \in {"notStarted", "loop", "exited"}
    /\ running \in {"Pending", "Running", "Shutdown"}
    /\ published \in {"None", "Pending", "Running", "Shutdown"}
    /\ mon \in {"notStarted", "active", "exited"}
    /\ healthCalls \in 0..MaxHealthCalls
    /\ healthy \in {"Unknown", "True", "False"}
    /\ stClosed \in BOOLEAN /\ spClosed \in BOOLEAN
    /\ spGen \in 0..healthCalls
    /\ rnPc \in {"notStarted", "waitStart", "woke", "lock", "startAll",
                 "waitH", "exited"}
    /\ hGen \in 0..MaxHandlers /\ hClosed \in BOOLEAN
    /\ gPc \in [Handlers -> {"none", "spawned", "waiting", "exited"}]
    /\ gCap \in [Handlers -> 0..spGen]
    /\ discoveryStarted \in BOOLEAN
    /\ syncResources \in (SUBSET GVRs) \cup {Nil}
    /\ signal \in BOOLEAN /\ setCalls \in 0..MaxSetCalls
    /\ scPc \in {"idle", "reset"}
    /\ rfPc \in {"notStarted", "wait", "check", "load", "lock", "create", "remove",
                 "awaitClose", "clean", "exited"}
    /\ plan \in SUBSET GVRs /\ todo \in SUBSET GVRs /\ cur \in GVRs \cup {Nil}
    /\ registry \in SUBSET GVRs /\ versions \in SUBSET GVRs
    /\ syn \in [GVRs -> SynStates]
    /\ starts \in [GVRs -> [Handlers -> Nat]]

(* runner and refreshSyncResources both start synchros on handlerStopCh;  *)
(* runnerLock makes them agree: no synchro is started twice on the same  *)
(* handlerStopCh, and while the runner waits on an open handlerStopCh    *)
(* every registered synchro has been started on it.                      *)
StartedOncePerHandler ==
    \A g \in GVRs, h \in Handlers : starts[g][h] <= 1

RegisteredStarted ==
    rnPc = "waitH" /\ ~hClosed =>
        \A g \in registry : starts[g][hGen] = 1

(* storageResourceVersions has an entry for every registered synchro     *)
(* (the synchro holds the entry's maps), whatever the order in which     *)
(* refreshes create, close and clean.                                    *)
RegistryHasVersions == registry \subseteq versions

(* The synchro store the refresher maintains, seen through SynchroStore: *)
(* a synchro is alive while its Run has not returned.                     *)
Store == INSTANCE SynchroStore WITH alive <- {g \in GVRs : SynchroAlive(g)}

(* ClusterSynchro implements SynchroStore: every step of refresher,       *)
(* synchros and runner is a store step or leaves the store alone, so a    *)
(* synchro leaves storageResourceSynchros only after its Run returned and *)
(* a watermark is deleted (and CleanClusterResource issued) only for a    *)
(* storage GVR with no registered, hence no running, synchro.             *)
ImplementsStore == Store!Spec

(* The runner's handler sessions, seen through RunnerSession: Starting is *)
(* the locked start section, Serving the wait on handlerStopCh, and the  *)
(* current handlerStopCh is open once made until G closes it.           *)
RunnerPhase ==
    CASE rnPc = "startAll" -> "Starting"
      [] rnPc = "waitH"    -> "Serving"
      [] OTHER             -> "Idle"

HandlerOpen == hGen # 0 /\ ~hClosed

Session == INSTANCE RunnerSession
               WITH phase <- RunnerPhase, handler <- hGen, open <- HandlerOpen

(* The runner implements RunnerSession: a new handlerStopCh is made only  *)
(* when the previous one has been closed, so the goroutine G that closes *)
(* s.handlerStopCh (it reads the field when it closes) never closes a    *)
(* channel of a later session or one already closed; and the runner       *)
(* leaves <-s.handlerStopCh only once it is closed.                       *)
ImplementsRunnerSession == Session!Spec

(* setSyncResourcesCh holds one token and resetSyncResources drops a    *)
(* send to a full channel.  That loses nothing because SetResources      *)
(* stores before it sends (315, 318) and the refresher receives before it *)
(* loads (334, 347): whenever no token is pending, no SetResources is     *)
(* between its Store and its send, and the refresher (started, not        *)
(* exited) is not between its receive and its Load, it works on or waits  *)
(* with a plan negotiated from the latest resources, or none was set.     *)
NoLostResources ==
    ~signal /\ scPc = "idle" /\ rfPc \notin {"check", "load", "exited"} =>
        \/ syncResources = Nil
        \/ rfPc # "notStarted" /\ plan = syncResources

(* G closes s.handlerStopCh reading the field when it closes (line 521);  *)
(* the runner waits on that channel before it makes the next one.  So the *)
(* channel each G closes is its own session's and still open: closing a  *)
(* closed channel panics, and closing a later session's channel stops the *)
(* discovery and the synchros that session has just started.             *)
HandlerClosedByOwner ==
    [][\A h \in Handlers :
         gPc[h] = "waiting" /\ gPc'[h] = "exited" => h = hGen /\ ~hClosed]_vars

(* A refresh that runs to its end leaves no synchro and no watermark     *)
(* entry outside its plan.                                               *)
RefreshConverges ==
    [][rfPc = "clean" /\ rfPc' = "wait" =>
         registry' \subseteq plan /\ versions' \subseteq plan]_vars

FinalStatusShutdown ==
    sdPc = "returned" /\ sdUpdate => published = "Shutdown"

(* A healthy cluster gets a running runner: once the monitor has found   *)
(* the cluster healthy, the runner reaches an open handlerStopCh with     *)
(* every synchro started on it, unless the cluster turns unhealthy or the *)
(* synchro shuts down.  Rapid flaps must not leave it stopped.            *)
HealthyLeadsToRunning ==
    (runCalled /\ healthy = "True") ~>
        (rnPc = "waitH" /\ ~hClosed) \/ closer \/ healthy # "True"

(* An unhealthy cluster stops its handlers: once the monitor has found    *)
(* the cluster unhealthy, the current handlerStopCh is closed (discovery  *)
(* and every synchro observe the stop) unless it becomes healthy again.   *)
UnhealthyLeadsToStopped ==
    (healthy = "False" /\ hGen # 0) ~> hClosed \/ healthy # "False"

(* Shutdown returns once Run has been called: the waitGroup drains (every *)
(* goroutine in it observes closer), the status goroutine drains the      *)
(* closed updateStatusCh and closes closed.                               *)
ShutdownCompletes ==
    (sdPc # "none" /\ runCalled) ~> sdPc = "returned"

(* No SetResources is lost: setSyncResourcesCh holds one token and        *)
(* resetSyncResources drops a send when it is full, yet once the          *)
(* refresher runs, it eventually waits again with a plan negotiated from  *)
(* the latest resources, unless the synchro shuts down.                   *)
ResourcesApplied ==
    (rfPc # "notStarted" /\ syncResources # Nil) ~>
        (rfPc = "wait" /\ plan = syncResources) \/ closer

====
