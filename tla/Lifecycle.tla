------------------------------ MODULE Lifecycle ------------------------------
(***************************************************************************)
(* The life of one synchronization session (controller.go) and its entry   *)
(* in the manager (manager.go): creation, the run loop, and the operations *)
(* that clients of the daemon call at the same time: flush, pause, resume, *)
(* reset, terminate and the shutdown of the daemon, which may also crash   *)
(* and be started again.                                                   *)
(*                                                                         *)
(* A synchronization cycle is two steps here, scanning and what follows    *)
(* it; module Synchronization has the details.  The history in the archive *)
(* is a generation, which changes when it is reset.                        *)
(***************************************************************************)
EXTENDS Integers, FiniteSets

CONSTANTS Clients, Operations, Watched, MayCrash, MayFailToSave

ASSUME LifecycleAssumption ==
    /\ IsFiniteSet(Clients)
    /\ {"none", "nobody"} \cap Clients = {}
    /\ Operations \subseteq {"flush", "flushNoWait", "pause", "resume", "reset", "terminate", "shutdown"}
    /\ {Watched, MayCrash, MayFailToSave} \subseteq BOOLEAN

Sides == {"alpha", "beta"}

VARIABLES
    process,      \* the daemon: "up", "exiting" (shut down, about to exit) or "down"
    born,         \* whether creation of the session was ever requested
    sessionFile,  \* the saved session: "none", "running" or "paused"
    archive,      \* the generation of history in the archive file, -1 for no file
    registered,   \* whether the manager's map has the session
    sessionsLock, \* the client whose Shutdown holds the manager's lock, or "none"
    lock,         \* the client that holds lifecycleLock, or "none"
    paused,       \* session.Paused
    disabled,
    cancel,       \* whether cancel is set
    loop,         \* the run goroutine
    requests,     \* flushRequests: the client whose request is queued, or "none"
    held,         \* the sides connected by a call and not yet handed to the loop
    open,         \* how many endpoints of each side are connected
    pc, op,       \* where each client is, and in which operation
    over,         \* for a flush, whether its synchronizing channel is "closed" and its loop "dead", or neither
    answered,     \* whether the request of a flush is answered
    served,       \* history: what the loop did since the request was sent
    intent,       \* history: the last outcome reported to a client as a success
    unsaved       \* history: whether the last attempt to save the session failed

diskVars == <<sessionFile, archive>>
managerVars == <<process, born, registered, sessionsLock>>
controlVars == <<lock, paused, disabled, cancel>>
flushVars == <<requests, over, answered, served>>
endpointVars == <<held, open>>
historyVars == <<intent, unsaved>>
vars == <<diskVars, managerVars, controlVars, loop, flushVars, endpointVars, pc, op, historyVars>>

(* No run goroutine, and one that starts with some sides connected. The    *)
(* field connected stands for a status of Watching or above, base for the  *)
(* history the loop works with, flush for the request it serves.           *)
NoLoop == [at |-> "none", cancelled |-> FALSE, connected |-> FALSE, sides |-> {}, base |-> -1,
           flush |-> "none", missing |-> FALSE]
NewLoop(sides) == [NoLoop EXCEPT !.at = "alpha", !.sides = sides]
Running == loop.at \notin {"none", "done"}
Synchronizing == loop.at \in {"entering", "polling", "scanning", "applying"}

Init ==
    /\ process = "up" /\ born = FALSE
    /\ sessionFile = "none" /\ archive = -1
    /\ registered = FALSE /\ sessionsLock = "none"
    /\ lock = "none" /\ paused = FALSE /\ disabled = FALSE /\ cancel = FALSE
    /\ loop = NoLoop /\ requests = "none"
    /\ held = {} /\ open = [s \in Sides |-> 0]
    /\ pc = [c \in Clients |-> "idle"] /\ op = [c \in Clients |-> "none"]
    /\ over = [c \in Clients |-> "no"] /\ answered = [c \in Clients |-> FALSE]
    /\ served = [c \in Clients |-> "none"]
    /\ intent = "unknown" /\ unsaved = FALSE

(* A client's operation goes on, or ends. *)
Goto(c, step) == pc' = [pc EXCEPT ![c] = step] /\ UNCHANGED op
Return(c) == pc' = [pc EXCEPT ![c] = "idle"] /\ op' = [op EXCEPT ![c] = "none"]

(* Endpoints of some sides are connected, or shut down. *)
Connect(sides) == open' = [s \in Sides |-> open[s] + (IF s \in sides THEN 1 ELSE 0)]
ShutDown(sides) == open' = [s \in Sides |-> open[s] - (IF s \in sides THEN 1 ELSE 0)]

-----------------------------------------------------------------------------
(* Manager.Create and newSession. *)

CreateCall(c, operation) ==
    /\ process = "up" /\ ~born /\ pc[c] = "idle"
    /\ born' = TRUE
    /\ op' = [op EXCEPT ![c] = operation]
    /\ pc' = [pc EXCEPT ![c] = IF operation = "createPaused" THEN "createSave" ELSE "createConnect"]
    /\ UNCHANGED <<process, registered, sessionsLock, diskVars, controlVars, loop, flushVars, endpointVars, historyVars>>

(* Both sides are connected, or what was connected is shut down again. *)
CreateConnect(c) ==
    /\ pc[c] = "createConnect"
    /\ \/ held' = Sides /\ Connect(Sides) /\ Goto(c, "createSave")
       \/ UNCHANGED endpointVars /\ Return(c)
    /\ UNCHANGED <<managerVars, diskVars, controlVars, loop, flushVars, historyVars>>

(* Mutant of CreateSave: endpoints are shut down even if there are none. *)
CreateSaveShutsDown(c) ==
    /\ pc[c] = "createSave"
    /\ \/ /\ sessionFile' = IF op[c] = "createPaused" THEN "paused" ELSE "running"
          /\ Goto(c, "createArchive")
          /\ UNCHANGED endpointVars
       \/ /\ MayFailToSave /\ UNCHANGED sessionFile
          /\ held' = {} /\ ShutDown(Sides) /\ Return(c)
    /\ UNCHANGED <<archive, managerVars, controlVars, loop, flushVars, historyVars>>

(* The session is saved; on failure the endpoints are shut down. *)
CreateSave(c) ==
    /\ pc[c] = "createSave"
    /\ \/ /\ sessionFile' = IF op[c] = "createPaused" THEN "paused" ELSE "running"
          /\ Goto(c, "createArchive")
          /\ UNCHANGED endpointVars
       \/ /\ MayFailToSave /\ UNCHANGED sessionFile
          /\ held' = {} /\ ShutDown(held) /\ Return(c)
    /\ UNCHANGED <<archive, managerVars, controlVars, loop, flushVars, historyVars>>

(* The archive is saved, the controller made and the loop started. *)
CreateArchive(c) ==
    /\ pc[c] = "createArchive"
    /\ \/ /\ archive' = 0
          /\ paused' = (op[c] = "createPaused")
          /\ cancel' = ~paused'
          /\ loop' = IF paused' THEN NoLoop ELSE NewLoop(held)
          /\ held' = {}
          /\ Goto(c, "createRegister")
          /\ UNCHANGED <<open, sessionFile>>
       \/ /\ MayFailToSave /\ UNCHANGED <<archive, paused, cancel, loop>>
          /\ sessionFile' = "none"
          /\ held' = {} /\ ShutDown(held) /\ Return(c)
    /\ UNCHANGED <<managerVars, lock, disabled, flushVars, historyVars>>

CreateRegister(c) ==
    /\ pc[c] = "createRegister" /\ sessionsLock = "none"
    /\ registered' = TRUE
    /\ intent' = sessionFile
    /\ Return(c)
    /\ UNCHANGED <<process, born, sessionsLock, diskVars, controlVars, loop, flushVars, endpointVars, unsaved>>

-----------------------------------------------------------------------------
(* Operations on the controller: the manager selects it, then the operation *)
(* takes lifecycleLock. Shutdown holds the manager's lock until it returns. *)

Call(c, operation) ==
    /\ process = "up" /\ pc[c] = "idle" /\ registered /\ sessionsLock = "none"
    /\ op' = [op EXCEPT ![c] = operation]
    /\ pc' = [pc EXCEPT ![c] = "locking"]
    /\ sessionsLock' = IF operation = "shutdown" THEN c ELSE sessionsLock
    /\ UNCHANGED <<process, born, registered, diskVars, controlVars, loop, flushVars, endpointVars, historyVars>>

(* What halt, resume, reset and flush do first, "idle" if they return. *)
HaltStep == IF disabled THEN "idle" ELSE IF cancel THEN "stopping" ELSE "halting"
ResumeStep ==
    IF disabled THEN "idle"
    ELSE IF ~cancel THEN "unpausing"
    ELSE IF loop.connected THEN "idle"
    ELSE "stopping"

(* Mutant of ResetStep: the loop is not halted. *)
ResetStepRunning == "clearing"

ResetStep == IF cancel THEN HaltStep ELSE "clearing"
FlushStep == IF disabled \/ ~cancel \/ ~Synchronizing THEN "idle" ELSE "sending"

FirstStep(operation) ==
    CASE operation \in {"pause", "terminate", "shutdown"} -> HaltStep
      [] operation = "resume" -> ResumeStep
      [] operation = "reset" -> ResetStep
      [] operation \in {"flush", "flushNoWait"} -> FlushStep

(* The lock is taken; a flush and an operation that returns release it. A  *)
(* reset that stops the loop remembers to start it again. A resume that    *)
(* finds the loop connected reports success without saving anything.       *)
Lock(c) ==
    /\ pc[c] = "locking" /\ lock = "none"
    /\ LET step == FirstStep(op[c])
       IN  /\ pc' = [pc EXCEPT ![c] = step]
           /\ op' = [op EXCEPT ![c] = IF step = "idle" THEN "none"
                                      ELSE IF @ = "reset" /\ step = "stopping" THEN "restart"
                                      ELSE @]
           /\ lock' = IF step \in {"idle", "sending"} THEN "none" ELSE c
           /\ intent' = IF op[c] = "resume" /\ step = "idle" /\ ~disabled THEN "running"
                        ELSE IF step \in {"stopping", "halting", "unpausing"} /\ op[c] # "shutdown" THEN "unknown"
                        ELSE intent
           /\ IF sessionsLock = c /\ step = "idle"
              THEN sessionsLock' = "none" /\ process' = "exiting"
              ELSE UNCHANGED <<sessionsLock, process>>
    /\ UNCHANGED <<born, registered, diskVars, paused, disabled, cancel, loop, flushVars, endpointVars, unsaved>>

(* The loop is cancelled. *)
Stop(c) ==
    /\ pc[c] = "stopping"
    /\ loop' = [loop EXCEPT !.cancelled = TRUE]
    /\ Goto(c, "stopped")
    /\ UNCHANGED <<managerVars, diskVars, controlVars, flushVars, endpointVars, historyVars>>

(* Mutant of Stopped: the loop is not waited for. *)
StoppedAtOnce(c) ==
    /\ pc[c] = "stopped"
    /\ cancel' = FALSE
    /\ Goto(c, IF op[c] = "resume" THEN "unpausing" ELSE "halting")
    /\ UNCHANGED <<managerVars, diskVars, lock, paused, disabled, loop, flushVars, endpointVars, historyVars>>

(* The loop has finished, and its channels are dropped. *)
Stopped(c) ==
    /\ pc[c] = "stopped" /\ loop.at = "done"
    /\ cancel' = FALSE
    /\ Goto(c, IF op[c] = "resume" THEN "unpausing" ELSE "halting")
    /\ UNCHANGED <<managerVars, diskVars, lock, paused, disabled, loop, flushVars, endpointVars, historyVars>>

(* Mutant of HaltPause: the session is not saved. *)
HaltPauseUnsaved(c) ==
    /\ pc[c] = "halting" /\ op[c] \in {"pause", "restart"}
    /\ paused' = TRUE
    /\ IF op[c] = "restart" THEN Goto(c, "clearing") /\ UNCHANGED <<lock, intent>>
                            ELSE Return(c) /\ lock' = "none" /\ intent' = "paused"
    /\ UNCHANGED <<managerVars, diskVars, disabled, cancel, loop, flushVars, endpointVars, unsaved>>

(* halt marks the session as paused and saves it; a reset goes on. *)
HaltPause(c) ==
    /\ pc[c] = "halting" /\ op[c] \in {"pause", "restart"}
    /\ paused' = TRUE
    /\ \/ /\ sessionFile' = "paused" /\ unsaved' = FALSE
          /\ IF op[c] = "restart" THEN Goto(c, "clearing") /\ UNCHANGED <<lock, intent>>
                                  ELSE Return(c) /\ lock' = "none" /\ intent' = "paused"
       \/ MayFailToSave /\ unsaved' = TRUE /\ Return(c) /\ lock' = "none" /\ UNCHANGED <<sessionFile, intent>>
    /\ UNCHANGED <<managerVars, archive, disabled, cancel, loop, flushVars, endpointVars>>

HaltShutdown(c) ==
    /\ pc[c] = "halting" /\ op[c] = "shutdown"
    /\ disabled' = TRUE
    /\ lock' = "none" /\ sessionsLock' = "none" /\ process' = "exiting"
    /\ Return(c)
    /\ UNCHANGED <<born, registered, diskVars, paused, cancel, loop, flushVars, endpointVars, historyVars>>

(* The session file is removed, then the archive; an error of either is    *)
(* reported at the end.                                                    *)
HaltTerminate(c) ==
    /\ pc[c] = "halting" /\ op[c] = "terminate"
    /\ disabled' = TRUE
    /\ sessionFile' = "none" \/ (MayFailToSave /\ UNCHANGED sessionFile)
    /\ Goto(c, "wiping")
    /\ UNCHANGED <<managerVars, archive, lock, paused, cancel, loop, flushVars, endpointVars, historyVars>>

WipeArchive(c) ==
    /\ pc[c] = "wiping"
    /\ archive' = -1 \/ (MayFailToSave /\ UNCHANGED archive)
    /\ lock' = "none"
    /\ IF sessionFile = "none" /\ archive # -1 /\ archive' = -1
       THEN Goto(c, "deregistering") ELSE Return(c)
    /\ UNCHANGED <<managerVars, sessionFile, paused, disabled, cancel, loop, flushVars, endpointVars, historyVars>>

TerminateDeregister(c) ==
    /\ pc[c] = "deregistering" /\ sessionsLock = "none"
    /\ registered' = FALSE
    /\ intent' = "gone"
    /\ Return(c)
    /\ UNCHANGED <<process, born, sessionsLock, diskVars, controlVars, loop, flushVars, endpointVars, unsaved>>

(* reset saves an empty archive; a new generation of history begins. *)
ResetClear(c) ==
    /\ pc[c] = "clearing"
    /\ \/ /\ archive' = IF archive = 0 THEN 1 ELSE 0
          /\ IF op[c] = "restart" THEN Goto(c, "unpausing") /\ UNCHANGED lock ELSE Return(c) /\ lock' = "none"
       \/ MayFailToSave /\ UNCHANGED archive /\ Return(c) /\ lock' = "none"
    /\ UNCHANGED <<managerVars, sessionFile, paused, disabled, cancel, loop, flushVars, endpointVars, historyVars>>

(* Mutant of ResumeUnpause: the session is marked only if it is saved. *)
ResumeUnpauseSaved(c) ==
    /\ pc[c] = "unpausing"
    /\ \/ sessionFile' = "running" /\ paused' = FALSE /\ unsaved' = FALSE
       \/ MayFailToSave /\ unsaved' = TRUE /\ UNCHANGED <<sessionFile, paused>>
    /\ Goto(c, "connecting")
    /\ UNCHANGED <<managerVars, archive, lock, disabled, cancel, loop, flushVars, endpointVars, intent>>

(* resume marks the session as unpaused and tries to save it. *)
ResumeUnpause(c) ==
    /\ pc[c] = "unpausing"
    /\ paused' = FALSE
    /\ \/ sessionFile' = "running" /\ unsaved' = FALSE
       \/ MayFailToSave /\ unsaved' = TRUE /\ UNCHANGED sessionFile
    /\ Goto(c, "connecting")
    /\ UNCHANGED <<managerVars, archive, lock, disabled, cancel, loop, flushVars, endpointVars, intent>>

(* Each side is connected or not. *)
ResumeConnect(c) ==
    /\ pc[c] = "connecting"
    /\ \E sides \in SUBSET Sides : held' = sides /\ Connect(sides)
    /\ Goto(c, "launching")
    /\ UNCHANGED <<managerVars, diskVars, controlVars, loop, flushVars, historyVars>>

(* The loop is started with what is connected, even after an error of the  *)
(* save or of a connection, which is reported.                             *)
ResumeLaunch(c) ==
    /\ pc[c] = "launching"
    /\ loop' = NewLoop(held)
    /\ held' = {}
    /\ cancel' = TRUE
    /\ requests' = "none"
    /\ lock' = "none" /\ Return(c)
    /\ intent' = IF ~unsaved /\ held = Sides THEN "running" ELSE intent
    /\ UNCHANGED <<managerVars, diskVars, paused, disabled, open, over, answered, served, unsaved>>

-----------------------------------------------------------------------------
(* flush, after it has released the lock. *)

(* What is known of the request of a flush ends with the call. *)
Drop(c) ==
    /\ over' = [over EXCEPT ![c] = "no"]
    /\ answered' = [answered EXCEPT ![c] = FALSE]
    /\ served' = [served EXCEPT ![c] = "none"]

(* A flush that ends leaves its request behind, to be served for nobody;    *)
(* its channels are dropped.                                                *)
Abandon(c) ==
    /\ requests' = IF requests = c THEN "nobody" ELSE requests
    /\ loop' = IF loop.flush = c THEN [loop EXCEPT !.flush = "nobody"] ELSE loop
    /\ Drop(c)
    /\ Return(c)

(* The queue has room for one request, a dead loop's for one nobody takes. *)
FlushSend(c) ==
    /\ pc[c] = "sending" /\ op[c] = "flush"
    /\ \/ over[c] # "dead" /\ requests = "none" /\ requests' = c
       \/ over[c] = "dead" /\ UNCHANGED requests
    /\ Goto(c, "waiting")
    /\ UNCHANGED <<managerVars, diskVars, controlVars, loop, over, answered, served, endpointVars, historyVars>>

FlushNoWait(c) ==
    /\ pc[c] = "sending" /\ op[c] = "flushNoWait"
    /\ \/ over[c] # "dead" /\ requests = "none" /\ requests' = "nobody"
       \/ (over[c] # "no" \/ requests # "none") /\ UNCHANGED requests
    /\ Drop(c)
    /\ Return(c)
    /\ UNCHANGED <<managerVars, diskVars, controlVars, loop, endpointVars, historyVars>>

FlushAnswered(c) ==
    /\ pc[c] = "waiting" /\ answered[c]
    /\ Abandon(c)
    /\ UNCHANGED <<managerVars, diskVars, controlVars, endpointVars, historyVars>>

FlushOver(c) ==
    /\ pc[c] \in {"sending", "waiting"} /\ op[c] = "flush" /\ over[c] # "no"
    /\ Abandon(c)
    /\ UNCHANGED <<managerVars, diskVars, controlVars, endpointVars, historyVars>>

FlushCancel(c) ==
    /\ pc[c] \in {"sending", "waiting"} /\ op[c] = "flush"
    /\ Abandon(c)
    /\ UNCHANGED <<managerVars, diskVars, controlVars, endpointVars, historyVars>>

-----------------------------------------------------------------------------
(* run: connecting. *)

(* What the steps of the loop leave alone. *)
loopFrame == <<managerVars, sessionFile, controlVars, pc, op, held, historyVars>>

(* A side that is missing is connected or not. *)
LoopConnect(side, sides) ==
    \/ sides = loop.sides /\ UNCHANGED open
    \/ side \notin loop.sides /\ sides = loop.sides \union {side} /\ Connect({side})

LoopAlpha ==
    /\ loop.at = "alpha"
    /\ \E sides \in SUBSET Sides :
          /\ LoopConnect("alpha", sides)
          /\ loop' = [loop EXCEPT !.sides = sides, !.at = IF loop.cancelled THEN "exiting" ELSE "beta"]
    /\ UNCHANGED <<loopFrame, archive, flushVars>>

LoopBeta ==
    /\ loop.at = "beta"
    /\ \E sides \in SUBSET Sides :
          /\ LoopConnect("beta", sides)
          /\ loop' = [loop EXCEPT !.sides = sides, !.at = IF sides = Sides THEN "entering" ELSE "retry"]
    /\ UNCHANGED <<loopFrame, archive, flushVars>>

(* autoReconnectInterval passes, or the loop is cancelled. *)
LoopRetry ==
    /\ loop.at = "retry"
    /\ \/ loop' = [loop EXCEPT !.at = "alpha"]
       \/ loop.cancelled /\ loop' = [loop EXCEPT !.at = "exiting"]
    /\ UNCHANGED <<loopFrame, archive, flushVars, open>>

-----------------------------------------------------------------------------
(* synchronize. *)

(* synchronize returns and the synchronizing channel is closed. *)
Leave(state) ==
    /\ loop' = [loop EXCEPT !.at = state, !.flush = "none", !.missing = FALSE,
                            !.connected = @ /\ state # "leftHalted"]
    /\ over' = [c \in Clients |-> IF pc[c] \in {"sending", "waiting"} /\ over[c] = "no" THEN "closed" ELSE over[c]]
    /\ served' = [c \in Clients |-> IF served[c] = "scanned" THEN "none" ELSE served[c]]
    /\ UNCHANGED <<requests, answered>>

(* A scan begins, of everything if there is a flush request. *)
Scan(request) ==
    /\ loop' = [loop EXCEPT !.at = "scanning", !.connected = TRUE, !.flush = request]
    /\ served' = [c \in Clients |->
                    IF pc[c] # "waiting" \/ served[c] = "cycled" THEN served[c]
                    ELSE IF request # "none" THEN "scanned" ELSE "none"]

(* The archive is loaded; unless nothing is watched a first scan follows. *)
SynchronizeEnter ==
    /\ loop.at = "entering"
    /\ IF archive = -1
       THEN Leave("left")
       ELSE /\ loop' = [loop EXCEPT !.at = IF Watched THEN "scanning" ELSE "polling",
                                    !.connected = TRUE, !.base = archive]
            /\ UNCHANGED flushVars
    /\ UNCHANGED <<loopFrame, archive, open>>

PollEvent ==
    /\ loop.at = "polling" /\ Watched
    /\ Scan("none")
    /\ UNCHANGED <<loopFrame, archive, open, requests, over, answered>>

PollFlush ==
    /\ loop.at = "polling" /\ requests # "none"
    /\ Scan(requests)
    /\ requests' = "none"
    /\ UNCHANGED <<loopFrame, archive, open, over, answered>>

PollCancelled ==
    /\ loop.at = "polling" /\ loop.cancelled
    /\ Leave("left")
    /\ UNCHANGED <<loopFrame, archive, open>>

(* A poll, a scan or what follows it fails. *)
SynchronizeFail ==
    /\ loop.at \in {"polling", "scanning", "applying"}
    /\ Leave("left")
    /\ UNCHANGED <<loopFrame, archive, open>>

(* The scan has ended, and the loop was cancelled. *)
ScanCancelled ==
    /\ loop.at = "scanning" /\ loop.cancelled
    /\ Leave("left")
    /\ UNCHANGED <<loopFrame, archive, open>>

(* Mutant of ScanRetry: the request is forgotten. *)
ScanRetryForget ==
    /\ loop.at = "scanning" /\ ~loop.cancelled
    /\ Scan("none")
    /\ UNCHANGED <<loopFrame, archive, open, requests, over, answered>>

(* A scan recommends another, which serves the same request. *)
ScanRetry ==
    /\ loop.at = "scanning" /\ ~loop.cancelled
    /\ Scan(loop.flush)
    /\ UNCHANGED <<loopFrame, archive, open, requests, over, answered>>

ScanDone ==
    /\ loop.at = "scanning" /\ ~loop.cancelled
    /\ loop' = [loop EXCEPT !.at = "applying"]
    /\ UNCHANGED <<loopFrame, archive, open, flushVars>>

(* A safety check halts synchronization. *)
SafetyHalt ==
    /\ loop.at = "applying"
    /\ Leave("leftHalted")
    /\ UNCHANGED <<loopFrame, archive, open>>

(* The history is saved, but a transition had failed. *)
TransitionFail ==
    /\ loop.at = "applying"
    /\ archive' = loop.base
    /\ Leave("left")
    /\ UNCHANGED <<loopFrame, open>>

(* Mutant of CycleDone: a request that is queued is answered as well. *)
CycleDoneAll(missing) ==
    /\ loop.at = "applying"
    /\ archive' = loop.base
    /\ LET skip == missing /\ ~loop.missing
       IN  loop' = [loop EXCEPT !.at = IF skip THEN "scanning" ELSE "polling", !.missing = skip, !.flush = "none"]
    /\ answered' = [c \in Clients |-> answered[c] \/ c \in {loop.flush, requests}]
    /\ served' = [c \in Clients |-> IF served[c] = "scanned" THEN "cycled" ELSE served[c]]
    /\ requests' = "none"
    /\ UNCHANGED <<loopFrame, open, over>>

(* The cycle is complete: the history is saved, the request it served is   *)
(* answered, and polling is skipped once if files were missing.            *)
CycleDone(missing) ==
    /\ loop.at = "applying"
    /\ archive' = loop.base
    /\ LET skip == missing /\ ~loop.missing
       IN  loop' = [loop EXCEPT !.at = IF skip THEN "scanning" ELSE "polling", !.missing = skip, !.flush = "none"]
    /\ answered' = [c \in Clients |-> answered[c] \/ c = loop.flush]
    /\ served' = [c \in Clients |-> IF served[c] = "scanned" THEN "cycled" ELSE served[c]]
    /\ UNCHANGED <<loopFrame, open, requests, over>>

-----------------------------------------------------------------------------
(* run: after synchronize. *)

(* The endpoints are shut down and the state is reset; the loop then waits *)
(* to be resumed, ends if it was cancelled, or connects again.             *)
LoopLeft ==
    /\ loop.at \in {"left", "leftHalted"}
    /\ ShutDown(loop.sides)
    /\ \E next \in IF loop.at = "leftHalted" THEN {"halted"}
                   ELSE IF loop.cancelled THEN {"exiting"} ELSE {"alpha", "retry"} :
          loop' = [loop EXCEPT !.at = next, !.sides = {}, !.connected = FALSE, !.base = -1]
    /\ UNCHANGED <<loopFrame, archive, flushVars>>

LoopHalted ==
    /\ loop.at = "halted" /\ loop.cancelled
    /\ loop' = [loop EXCEPT !.at = "exiting"]
    /\ UNCHANGED <<loopFrame, archive, flushVars, open>>

(* Mutant of LoopExit: a side that is connected stays so. *)
LoopExitLeak ==
    /\ loop.at = "exiting"
    /\ loop' = [NoLoop EXCEPT !.at = "done"]
    /\ over' = [c \in Clients |-> IF pc[c] \in {"sending", "waiting"} THEN "dead" ELSE over[c]]
    /\ UNCHANGED <<loopFrame, archive, open, requests, answered, served>>

(* The deferred cleanup. *)
LoopExit ==
    /\ loop.at = "exiting"
    /\ ShutDown(loop.sides)
    /\ loop' = [NoLoop EXCEPT !.at = "done"]
    /\ over' = [c \in Clients |-> IF pc[c] \in {"sending", "waiting"} THEN "dead" ELSE over[c]]
    /\ UNCHANGED <<loopFrame, archive, requests, answered, served>>

-----------------------------------------------------------------------------
(* The daemon. *)

(* The process ends, after a shutdown or in a crash. *)
Gone ==
    /\ process' = "down"
    /\ registered' = FALSE /\ sessionsLock' = "none"
    /\ lock' = "none" /\ paused' = FALSE /\ disabled' = FALSE /\ cancel' = FALSE
    /\ loop' = NoLoop /\ requests' = "none"
    /\ held' = {} /\ open' = [s \in Sides |-> 0]
    /\ pc' = [c \in Clients |-> "idle"] /\ op' = [c \in Clients |-> "none"]
    /\ over' = [c \in Clients |-> "no"] /\ answered' = [c \in Clients |-> FALSE]
    /\ served' = [c \in Clients |-> "none"]
    /\ UNCHANGED <<born, diskVars, historyVars>>

Exit == process = "exiting" /\ Gone

Crash == MayCrash /\ process = "up" /\ Gone

(* NewManager and loadSession. *)
Start ==
    /\ process = "down"
    /\ process' = "up"
    /\ registered' = (sessionFile # "none")
    /\ paused' = (sessionFile = "paused")
    /\ cancel' = (sessionFile = "running")
    /\ loop' = IF sessionFile = "running" THEN NewLoop({}) ELSE NoLoop
    /\ UNCHANGED <<born, sessionsLock, diskVars, lock, disabled, flushVars, endpointVars, pc, op, historyVars>>

-----------------------------------------------------------------------------
(* The steps of a client between taking the lock and returning. *)
ClientStep(c) ==
    \/ CreateConnect(c) \/ CreateSave(c) \/ CreateArchive(c) \/ CreateRegister(c)
    \/ Stop(c) \/ Stopped(c)
    \/ HaltPause(c) \/ HaltShutdown(c) \/ HaltTerminate(c) \/ WipeArchive(c) \/ TerminateDeregister(c)
    \/ ResetClear(c) \/ ResumeUnpause(c) \/ ResumeConnect(c) \/ ResumeLaunch(c)
    \/ FlushNoWait(c) \/ FlushAnswered(c) \/ FlushOver(c)

(* The steps the loop takes by itself, those that wait for an event aside. *)
LoopStep ==
    \/ LoopAlpha \/ LoopBeta \/ LoopRetry
    \/ SynchronizeEnter \/ PollFlush \/ PollCancelled
    \/ ScanCancelled \/ ScanRetry \/ ScanDone
    \/ SafetyHalt \/ TransitionFail \/ \E missing \in BOOLEAN : CycleDone(missing)
    \/ LoopLeft \/ LoopHalted \/ LoopExit

Next ==
    \/ \E c \in Clients :
          \/ \E operation \in {"create", "createPaused"} : CreateCall(c, operation)
          \/ \E operation \in Operations : Call(c, operation)
          \/ Lock(c) \/ ClientStep(c) \/ FlushSend(c) \/ FlushCancel(c)
    \/ LoopStep \/ PollEvent \/ SynchronizeFail
    \/ Exit \/ Crash \/ Start

Spec == Init /\ [][Next]_vars

(* Goroutines are scheduled, a mutex and a channel serve everyone who waits *)
(* for them, a select does not ignore a request for ever, and scans are not *)
(* retried for ever. Nobody has to call, to cancel a flush or to crash, and *)
(* endpoints need neither report changes nor fail.                          *)
FairSpec ==
    /\ Spec
    /\ \A c \in Clients : WF_vars(ClientStep(c)) /\ SF_vars(Lock(c)) /\ SF_vars(FlushSend(c))
    /\ WF_vars(LoopStep) /\ SF_vars(PollFlush) /\ SF_vars(ScanDone)

-----------------------------------------------------------------------------
TypeOK ==
    /\ process \in {"up", "exiting", "down"}
    /\ {born, registered, paused, disabled, cancel} \subseteq BOOLEAN
    /\ sessionFile \in {"none", "running", "paused"} /\ archive \in -1..1
    /\ {lock, sessionsLock} \subseteq Clients \union {"none"}
    /\ loop \in [at : {"none", "alpha", "beta", "retry", "entering", "polling", "scanning", "applying",
                       "left", "leftHalted", "halted", "exiting", "done"},
                 cancelled : BOOLEAN, connected : BOOLEAN, sides : SUBSET Sides, base : -1..1,
                 flush : Clients \union {"none", "nobody"}, missing : BOOLEAN]
    /\ requests \in Clients \union {"none", "nobody"}
    /\ held \subseteq Sides /\ open \in [Sides -> 0..2]
    /\ pc \in [Clients -> {"idle", "createConnect", "createSave", "createArchive", "createRegister",
                           "locking", "stopping", "stopped", "halting", "wiping", "deregistering",
                           "clearing", "unpausing", "connecting", "launching", "sending", "waiting"}]
    /\ op \in [Clients -> Operations \union {"none", "create", "createPaused", "restart"}]
    /\ over \in [Clients -> {"no", "closed", "dead"}] /\ answered \in [Clients -> BOOLEAN]
    /\ served \in [Clients -> {"none", "scanned", "cycled"}]
    /\ intent \in {"unknown", "running", "paused", "gone"} /\ unsaved \in BOOLEAN

(* The comment on cancel: it is nil if and only if there is no loop         *)
(* running. In between is the call that has cancelled the loop and waits    *)
(* for it, with lifecycleLock.                                              *)
LoopTracked ==
    /\ Running => cancel
    /\ cancel => Running \/ \E c \in Clients : lock = c /\ pc[c] \in {"stopping", "stopped"}

(* What resume relies on: a session with a loop is not marked as paused.    *)
(* And once the controller is disabled, no loop is started again, whoever   *)
(* already was waiting for the lock.                                        *)
LoopAllowed == Running => ~paused /\ ~disabled

(* Each endpoint that is connected belongs to the loop or to the call that  *)
(* will hand it to the loop, and no side is ever connected twice: not when  *)
(* a loop is cancelled half connected, nor when a resume replaces it.       *)
EndpointsOwned == \A s \in Sides : open[s] = IF s \in loop.sides \union held THEN 1 ELSE 0

(* A loop synchronizes with the history that is in the archive: after a     *)
(* reset no loop still has the old history and will save it again.          *)
ResetHonoured == loop.at \in {"polling", "scanning", "applying"} => loop.base = archive

(* A flush reports success only after a full scan that began after its      *)
(* request was sent, and the rest of that cycle.                            *)
FlushHonest == \A c \in Clients : pc[c] = "waiting" /\ answered[c] => served[c] = "cycled"

(* What was reported to a client as a success is what the disk says, and    *)
(* what a daemon that is started again does: a paused session stays paused, *)
(* a terminated one is not there, and a running one runs. One case is       *)
(* excepted: a resume that finds the loop connected reports success and     *)
(* saves nothing, so that a session whose last save failed, as an earlier   *)
(* client was told, is paused when the daemon is started again.             *)
AcknowledgedKept ==
    /\ intent = "paused" => sessionFile = "paused" /\ ~Running
    /\ intent = "running" =>
          /\ sessionFile = "running" \/ (sessionFile = "paused" /\ unsaved)
          /\ process = "up" => IF paused THEN sessionFile = "paused" ELSE cancel \/ disabled \/ lock # "none"
    /\ intent = "gone" => sessionFile = "none" /\ ~Running /\ ~registered

(* Every call returns, whatever the other clients do: no operation is left  *)
(* waiting for a lock, for the loop to finish or for an answer.             *)
OperationsReturn == \A c \in Clients : pc[c] # "idle" ~> pc[c] = "idle"

(* halt says that terminating wipes the session information from disk.      *)
TerminatedWiped == intent = "gone" => archive = -1
=============================================================================
