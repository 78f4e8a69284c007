------------------------- MODULE FirecrackerRuntime -------------------------
(***************************************************************************)
(* FirecrackerRuntimeProvider, pkg/runtimes/firecracker/runtime.go: Resume,*)
(* Suspend, FlushData and Close, and the memory grabber that runs beside   *)
(* them.                                                                   *)
(*                                                                         *)
(* Guest memory is mapped from the memory device and msynced; or it is     *)
(* private and its changes are grabbed from /proc/<pid>/mem, found by the  *)
(* soft-dirty bits or by comparison (failsafe), and copied to the device   *)
(* or marked in the device's dirty tracker.  A grab stops the process with *)
(* SIGSTOP while it looks for the changes.                                 *)
(*                                                                         *)
(* A step is the code between two accesses to state that other threads     *)
(* use.  The callers are the peer: it resumes once, then goroutines of a   *)
(* migration suspend and flush, in any order and again, and the peer       *)
(* closes the runtime at any time, even while they still run.              *)
(***************************************************************************)
EXTENDS Naturals

CONSTANTS
  Owner,              \* the thread that calls Resume, then Close
  Movers,             \* goroutines that call Suspend and FlushData
  Grabber,            \* the periodic memory grabber
  Nobody,             \* the holder of a free mutex
  Blocks,             \* blocks of guest memory
  Configs,            \* the configurations to consider
  Faults,             \* the calls that may fail, and "exit" of the process
  GrabFaults          \* the threads whose grabs may fail

Threads == Movers \cup {Owner, Grabber}

\* What a grab does with a change, whether it compares, and if it is periodic.
\* Changes are copied or marked exactly when memory is private (GrabMemory).
AllConfigs == [updates : {"nothing", "copy", "mark"}, failsafe : BOOLEAN, periodic : BOOLEAN]

Calls == {"load", "direct", "startAgent", "afterResume", "beforeSuspend", "pauseVM",
          "snapshot", "msync", "pause", "read", "clear", "cont", "copy", "exit"}

ASSUME ThreadsAssumption ==
  /\ Owner \notin Movers /\ Grabber \notin Movers /\ Owner # Grabber
  /\ Nobody \notin Threads

ASSUME ConfigsAssumption ==
  Configs \subseteq AllConfigs /\ Faults \subseteq Calls /\ GrabFaults \subseteq Threads

VARIABLES
  config,             \* the configuration; never changes
  vm,                 \* "none", "running", "paused", "dead"
  process,            \* "runs", or "stopped" by SIGSTOP
  missing,            \* blocks the guest wrote that are not on the device
  soft,               \* the soft-dirty bits
  \* FirecrackerRuntimeProvider
  running, runningLock, memoryLock, grabMemory, agent,
  \* the threads
  pc, call,           \* where a thread is, and in which call
  list,               \* the changes a grab has found and not dealt with
  \* history
  promise,            \* "none", "suspended", "flushed": what callers were told
  since,              \* its value when each thread's call was made
  forgiven            \* blocks a failed grab dropped; all of them on Close

machineVars == <<config, vm, process>>
memoryVars  == <<missing, soft>>
providerVars == <<running, runningLock, memoryLock, grabMemory, agent>>
threadVars  == <<pc, call, list>>
historyVars == <<promise, since, forgiven>>
vars == <<machineVars, memoryVars, providerVars, threadVars, historyVars>>

ResumeStages == {"load", "direct", "setRunning", "startAgent", "afterResume"}
GrabStages   == {"pause", "read", "cont", "copy"}
CallStages   == {"suspend", "beforeSuspend", "pauseVM", "snapshot", "waitGrabber",
                 "flush", "msync", "memoryLock"} \cup GrabStages

Init ==
  /\ config \in Configs
  /\ vm = "none"
  /\ process = "runs"
  /\ missing = {}
  /\ soft = {}
  /\ running = FALSE
  /\ runningLock = Owner
  /\ memoryLock = Nobody
  /\ grabMemory = (config.updates # "nothing")
  /\ agent = "none"
  /\ pc = [t \in Threads |-> CASE t = Owner -> "load" [] t = Grabber -> "off" [] OTHER -> "before"]
  /\ call = [t \in Threads |-> IF t = Owner THEN "Resume" ELSE "none"]
  /\ list = [t \in Threads |-> {}]
  /\ promise = "none"
  /\ since = [t \in Threads |-> "none"]
  /\ forgiven = {}

Goto(t, from, to) == pc[t] = from /\ pc' = [pc EXCEPT ![t] = to]

\* Calls that reach into the process fail once it is dead.
Fails(c) == c \in Faults \/ vm = "dead"
GrabFails(t, c) == Fails(c) /\ (t \in GrabFaults \/ vm = "dead")
Alive == vm \in {"running", "paused"}

\* Firecracker's API and the guest's agent answer only while the process runs;
\* a call that waits for it has a timeout.
Answers == Alive /\ process = "runs"
TimesOut(c) == Fails(c) \/ process = "stopped"

-----------------------------------------------------------------------------
\* The guest, and the end of the process.

Executing == vm = "running" /\ process = "runs"

GuestWrite(b) ==
  /\ Executing
  /\ b \notin missing \/ b \notin soft
  /\ missing' = missing \cup {b}
  /\ soft' = soft \cup {b}
  /\ UNCHANGED <<machineVars, providerVars, threadVars, historyVars>>

Exit ==
  /\ "exit" \in Faults
  /\ Alive
  /\ vm' = "dead"
  /\ UNCHANGED <<config, process, memoryVars, providerVars, threadVars, historyVars>>

-----------------------------------------------------------------------------
\* Resume.  runningLock is held until it returns; it is called once.

\* Read the configuration and load the snapshot, which starts the VM.
LoadSnapshot ==
  /\ \/ /\ Goto(Owner, "load", "direct")
        /\ vm' = "running"
        /\ UNCHANGED runningLock
     \/ /\ Fails("load")
        /\ Goto(Owner, "load", "idle")
        /\ runningLock' = Nobody
        /\ UNCHANGED vm
  /\ UNCHANGED <<config, process, memoryVars, running, memoryLock, grabMemory, agent,
                 call, list, historyVars>>

\* Direct memory access can only be set up after that, and may fail.
SetupDirectMemory ==
  /\ \/ Goto(Owner, "direct", "setRunning") /\ UNCHANGED runningLock
     \/ /\ Fails("direct")
        /\ Goto(Owner, "direct", "idle")
        /\ runningLock' = Nobody
  /\ UNCHANGED <<machineVars, memoryVars, running, memoryLock, grabMemory, agent,
                 call, list, historyVars>>

\* setRunning(true) starts the grabber.
SetRunning ==
  /\ pc[Owner] = "setRunning"
  /\ pc' = [pc EXCEPT ![Owner] = "startAgent",
                      ![Grabber] = IF config.periodic THEN "tick" ELSE @]
  /\ running' = TRUE
  /\ UNCHANGED <<machineVars, memoryVars, runningLock, memoryLock, grabMemory, agent,
                 call, list, historyVars>>

StartAgent ==
  /\ \/ /\ Goto(Owner, "startAgent", "afterResume")
        /\ agent' = "open"
        /\ UNCHANGED runningLock
     \/ /\ "startAgent" \in Faults
        /\ Goto(Owner, "startAgent", "idle")
        /\ runningLock' = Nobody
        /\ UNCHANGED agent
  /\ UNCHANGED <<machineVars, memoryVars, running, memoryLock, grabMemory,
                 call, list, historyVars>>

\* AfterResume succeeds at one of its tries, and a migration may begin; or the
\* last try fails and Resume returns an error with the VM left running.
AfterResume ==
  /\ pc[Owner] = "afterResume"
  /\ \/ /\ Answers
        /\ pc' = [t \in Threads |-> IF t = Grabber THEN pc[t] ELSE "idle"]
     \/ /\ TimesOut("afterResume")
        /\ pc' = [pc EXCEPT ![Owner] = "idle"]
  /\ runningLock' = Nobody
  /\ UNCHANGED <<machineVars, memoryVars, running, memoryLock, grabMemory, agent,
                 call, list, historyVars>>

-----------------------------------------------------------------------------
\* The calls, and their returns.

Begin(t, name, stage) ==
  /\ Goto(t, "idle", stage)
  /\ call' = [call EXCEPT ![t] = name]
  /\ since' = [since EXCEPT ![t] = promise]

CallSuspend(t) ==
  /\ Begin(t, "Suspend", "suspend")
  /\ UNCHANGED <<machineVars, memoryVars, providerVars, list, promise, forgiven>>

CallFlushData(t) ==
  /\ Begin(t, "FlushData", "flush")
  /\ UNCHANGED <<machineVars, memoryVars, providerVars, list, promise, forgiven>>

\* Close no longer cares about the memory's contents.  Without an agent it does
\* not suspend.
CallClose ==
  /\ Begin(Owner, "Close", IF agent = "none" THEN "closeMachine" ELSE "suspend")
  /\ grabMemory' = (grabMemory /\ agent = "none")
  /\ forgiven' = Blocks
  /\ UNCHANGED <<machineVars, memoryVars, running, runningLock, memoryLock, agent,
                 list, promise>>

\* Mutant: Close goes on if it cannot suspend.
CloseAnyway(t, err) ==
  IF t = Grabber THEN "tick" ELSE IF call[t] = "Close" THEN "closeMachine" ELSE "idle"

\* Where a thread goes on: the grabber goes on whether its grab worked or not,
\* Close gives up if it cannot suspend.
Continue(t, err) ==
  IF t = Grabber THEN "tick"
  ELSE IF call[t] = "Close" /\ err = "nil" THEN "closeMachine" ELSE "idle"

\* The caller is told err, and runningLock is released if the call took it.
Return(t, err) ==
  /\ pc' = [pc EXCEPT ![t] = Continue(t, err)]
  /\ runningLock' = IF runningLock = t THEN Nobody ELSE runningLock
  /\ promise' = IF err # "nil" THEN promise
                ELSE IF call[t] = "Suspend" /\ promise = "none" THEN "suspended"
                ELSE IF call[t] = "FlushData" /\ since[t] # "none" THEN "flushed"
                ELSE promise

-----------------------------------------------------------------------------
\* Suspend, under runningLock.

SuspendLock(t) ==
  /\ pc[t] = "suspend"
  /\ runningLock = Nobody
  /\ IF running
     THEN /\ Goto(t, "suspend", "beforeSuspend")
          /\ runningLock' = t
          /\ UNCHANGED promise
     ELSE Return(t, "nil")
  /\ UNCHANGED <<machineVars, memoryVars, running, memoryLock, grabMemory, agent,
                 call, list, since, forgiven>>

\* GetRemote, BeforeSuspend and agent.Close; a closed agent has no remote.
BeforeSuspend(t) ==
  /\ pc[t] = "beforeSuspend"
  /\ \/ /\ Answers /\ vm = "running" /\ agent = "open"
        /\ Goto(t, "beforeSuspend", "pauseVM")
        /\ agent' = "closed"
        /\ UNCHANGED <<runningLock, promise>>
     \/ /\ TimesOut("beforeSuspend") \/ vm # "running" \/ agent # "open"
        /\ Return(t, "error")
        /\ UNCHANGED agent
  /\ UNCHANGED <<machineVars, memoryVars, running, memoryLock, grabMemory,
                 call, list, since, forgiven>>

\* Mutant: the vCPUs are not paused.
PauseVMNot(t) ==
  /\ Goto(t, "pauseVM", "snapshot")
  /\ UNCHANGED <<machineVars, memoryVars, providerVars, call, list, historyVars>>

\* PatchVM: the vCPUs are paused.
PauseVM(t) ==
  /\ pc[t] = "pauseVM"
  /\ \/ /\ Answers
        /\ Goto(t, "pauseVM", "snapshot")
        /\ vm' = "paused"
        /\ UNCHANGED <<runningLock, promise>>
     \/ /\ TimesOut("pauseVM")
        /\ Return(t, "error")
        /\ UNCHANGED vm
  /\ UNCHANGED <<config, process, memoryVars, running, memoryLock, grabMemory, agent,
                 call, list, since, forgiven>>

\* Guest memory mapped from the device is written back to it.  While the guest
\* executes this may miss what it writes meanwhile.
Msync ==
  /\ missing' \in SUBSET missing
  /\ IF config.updates = "nothing" THEN ~Executing => missing' = {}
     ELSE missing' = missing

\* CreateSnapshot, and setRunning(false), which cancels the grabber.
Snapshot(t) ==
  /\ pc[t] = "snapshot"
  /\ \/ /\ Answers
        /\ Goto(t, "snapshot", "waitGrabber")
        /\ Msync
        /\ running' = FALSE
        /\ UNCHANGED <<runningLock, promise>>
     \/ /\ TimesOut("snapshot")
        /\ Return(t, "error")
        /\ UNCHANGED <<missing, running>>
  /\ UNCHANGED <<machineVars, soft, memoryLock, grabMemory, agent,
                 call, list, since, forgiven>>

\* Mutant: setRunning does not wait for the grabber.
GrabberGone == TRUE

\* Wait for the grabber to be gone, then grab what it left.
GrabberDone == pc[Grabber] = "off"

WaitGrabber(t) ==
  /\ pc[t] = "waitGrabber"
  /\ GrabberDone
  /\ IF grabMemory
     THEN Goto(t, "waitGrabber", "memoryLock") /\ UNCHANGED <<runningLock, promise>>
     ELSE Return(t, "nil")
  /\ UNCHANGED <<machineVars, memoryVars, running, memoryLock, grabMemory, agent,
                 call, list, since, forgiven>>

-----------------------------------------------------------------------------
\* FlushData, under no lock.

FlushData(t) ==
  /\ Goto(t, "flush", IF grabMemory THEN "memoryLock" ELSE "msync")
  /\ UNCHANGED <<machineVars, memoryVars, providerVars, call, list, historyVars>>

\* CreateSnapshot with type Msync has no timeout of its own.
FlushMsync(t) ==
  /\ pc[t] = "msync"
  /\ \/ Answers /\ Msync /\ Return(t, "nil")
     \/ Fails("msync") /\ Return(t, "error") /\ UNCHANGED missing
  /\ UNCHANGED <<machineVars, soft, running, memoryLock, grabMemory, agent,
                 call, list, since, forgiven>>

-----------------------------------------------------------------------------
\* grabMemoryChanges, under memoryLock.

\* Mutant: memoryLock is not waited for.
GrabAnyway(t) ==
  /\ Goto(t, "memoryLock", "pause")
  /\ memoryLock' = t
  /\ UNCHANGED <<machineVars, memoryVars, running, runningLock, grabMemory, agent,
                 call, list, historyVars>>

GrabLock(t) ==
  /\ memoryLock = Nobody
  /\ Goto(t, "memoryLock", "pause")
  /\ memoryLock' = t
  /\ UNCHANGED <<machineVars, memoryVars, running, runningLock, grabMemory, agent,
                 call, list, historyVars>>

\* Mutant: memoryLock is not released.
KeepLock(t, err) ==
  /\ UNCHANGED memoryLock
  /\ list' = [list EXCEPT ![t] = {}]
  /\ Return(t, err)

GrabReturn(t, err) ==
  /\ memoryLock' = Nobody
  /\ list' = [list EXCEPT ![t] = {}]
  /\ Return(t, err)

\* Changes of these blocks will not be found again; comparison finds all.
Drop(blocks) ==
  forgiven' = IF config.failsafe \/ config.updates = "nothing" THEN forgiven
              ELSE forgiven \cup (blocks \cap missing)

\* SIGSTOP, and waiting for it to be effective.
PauseProcess(t) ==
  /\ pc[t] = "pause"
  /\ \/ /\ Alive
        /\ Goto(t, "pause", "read")
        /\ process' = "stopped"
        /\ UNCHANGED <<memoryLock, list, runningLock, promise>>
     \/ /\ GrabFails(t, "pause")
        /\ GrabReturn(t, "error")
        /\ process' \in {process, "stopped"}
  /\ UNCHANGED <<config, vm, memoryVars, running, grabMemory, agent,
                 call, since, forgiven>>

\* unlockcb: clear the soft-dirty bits, then SIGCONT.  The first error ends it.
Unlocked == soft' = {} /\ process' = "runs"
UnlockFailed(t) ==
  \/ GrabFails(t, "clear") /\ UNCHANGED <<soft, process>>
  \/ GrabFails(t, "cont") /\ soft' = {} /\ process' \in {"runs", "stopped"}

\* The soft-dirty bits are read.  If that fails unlockcb is called all the same.
ReadSoftDirty(t) ==
  /\ pc[t] = "read"
  /\ ~config.failsafe
  /\ \/ /\ Alive
        /\ Goto(t, "read", "cont")
        /\ list' = [list EXCEPT ![t] = soft]
        /\ UNCHANGED <<process, soft, memoryLock, runningLock, promise, forgiven>>
     \/ /\ GrabFails(t, "read")
        /\ Unlocked \/ UnlockFailed(t)
        /\ Drop(soft \ soft')
        /\ GrabReturn(t, "error")
  /\ UNCHANGED <<config, vm, missing, running, grabMemory, agent, call, since>>

\* Or all of memory is compared, and what differs dealt with at once.  If that
\* fails the process is left stopped.
Compare(t) ==
  /\ pc[t] = "read"
  /\ config.failsafe
  /\ \/ /\ Alive
        /\ Goto(t, "read", "cont")
        /\ missing' = IF config.updates = "nothing" THEN missing ELSE {}
        /\ UNCHANGED <<memoryLock, list, runningLock, promise>>
     \/ /\ GrabFails(t, "read")
        /\ IF config.updates = "nothing" THEN UNCHANGED missing
           ELSE \E done \in SUBSET missing : missing' = missing \ done
        /\ GrabReturn(t, "error")
  /\ UNCHANGED <<machineVars, soft, running, grabMemory, agent, call, since, forgiven>>

ResumeProcess(t) ==
  /\ pc[t] = "cont"
  /\ \/ /\ Alive
        /\ Unlocked
        /\ Goto(t, "cont", "copy")
        /\ UNCHANGED <<memoryLock, list, runningLock, promise, forgiven>>
     \/ /\ UnlockFailed(t)
        /\ Drop(soft \ soft')
        /\ GrabReturn(t, "error")
  /\ UNCHANGED <<config, vm, missing, running, grabMemory, agent, call, since>>

\* With the guest executing again: the changes found are marked, or copied
\* block by block.  A block written again meanwhile is left for the next grab.
Copy(t) ==
  /\ pc[t] = "copy"
  /\ IF list[t] = {} \/ config.updates = "nothing"
     THEN GrabReturn(t, "nil") /\ UNCHANGED <<missing, forgiven>>
     ELSE \/ /\ config.updates = "mark"
             /\ missing' = missing \ list[t]
             /\ list' = [list EXCEPT ![t] = {}]
             /\ UNCHANGED <<pc, memoryLock, runningLock, promise, forgiven>>
          \/ /\ config.updates = "copy"
             /\ Alive
             /\ \E b \in list[t] :
                   /\ missing' = missing \ ({b} \ soft)
                   /\ list' = [list EXCEPT ![t] = @ \ {b}]
             /\ UNCHANGED <<pc, memoryLock, runningLock, promise, forgiven>>
          \/ /\ config.updates = "copy"
             /\ GrabFails(t, "copy")
             /\ Drop(list[t])
             /\ GrabReturn(t, "error")
             /\ UNCHANGED missing
  /\ UNCHANGED <<machineVars, soft, running, grabMemory, agent, call, since>>

Grab(t) ==
  \/ GrabLock(t) \/ PauseProcess(t) \/ ReadSoftDirty(t) \/ Compare(t)
  \/ ResumeProcess(t) \/ Copy(t)

\* The grabber between grabs: its ticker fires, or its context is done.
GrabberTick ==
  /\ Goto(Grabber, "tick", "memoryLock")
  /\ UNCHANGED <<machineVars, memoryVars, providerVars, call, list, historyVars>>

GrabberStop ==
  /\ ~running
  /\ Goto(Grabber, "tick", "off")
  /\ UNCHANGED <<machineVars, memoryVars, providerVars, call, list, historyVars>>

-----------------------------------------------------------------------------
\* The rest of Close: the process is killed and waited for.
CloseMachine ==
  /\ Goto(Owner, "closeMachine", "closed")
  /\ agent' = IF agent = "open" THEN "closed" ELSE agent
  /\ vm' = "dead"
  /\ UNCHANGED <<config, process, memoryVars, running, runningLock, memoryLock,
                 grabMemory, call, list, historyVars>>

-----------------------------------------------------------------------------
Resume == LoadSnapshot \/ SetupDirectMemory \/ SetRunning \/ StartAgent \/ AfterResume

Suspend(t) ==
  \/ SuspendLock(t) \/ BeforeSuspend(t) \/ PauseVM(t) \/ Snapshot(t) \/ WaitGrabber(t)

Step(t) == Suspend(t) \/ FlushData(t) \/ FlushMsync(t) \/ Grab(t)

Next ==
  \/ \E b \in Blocks : GuestWrite(b)
  \/ Exit
  \/ Resume
  \/ \E t \in Movers : CallSuspend(t) \/ CallFlushData(t)
  \/ CallClose
  \/ \E t \in Threads : Step(t)
  \/ GrabberTick \/ GrabberStop
  \/ CloseMachine

Spec == Init /\ [][Next]_vars

\* The threads run, and a blocked Lock is granted in turn.  A cancelled grabber
\* notices, though its ticker may have fired too.
Fairness ==
  /\ WF_vars(Resume)
  /\ \A t \in Threads : WF_vars(Step(t)) /\ SF_vars(SuspendLock(t)) /\ SF_vars(GrabLock(t))
  /\ SF_vars(GrabberStop)
  /\ WF_vars(CloseMachine)

FairSpec == Spec /\ Fairness

-----------------------------------------------------------------------------
Stages == ResumeStages \cup CallStages \cup {"before", "idle", "tick", "off", "closeMachine", "closed"}

TypeOK ==
  /\ config \in AllConfigs
  /\ vm \in {"none", "running", "paused", "dead"}
  /\ process \in {"runs", "stopped"}
  /\ missing \subseteq Blocks
  /\ soft \subseteq Blocks
  /\ running \in BOOLEAN
  /\ runningLock \in Threads \cup {Nobody}
  /\ memoryLock \in Threads \cup {Nobody}
  /\ grabMemory \in BOOLEAN
  /\ agent \in {"none", "open", "closed"}
  /\ pc \in [Threads -> Stages]
  /\ pc[Grabber] \in {"off", "tick", "memoryLock"} \cup GrabStages
  /\ call \in [Threads -> {"none", "Resume", "Suspend", "FlushData", "Close"}]
  /\ list \in [Threads -> SUBSET Blocks]
  /\ promise \in {"none", "suspended", "flushed"}
  /\ since \in [Threads -> {"none", "suspended", "flushed"}]
  /\ forgiven \subseteq Blocks

\* A grab looks at memory only while the process is stopped: no other grab lets
\* it go on, and two grabs never share the soft-dirty bits (runtime.go:522-544,
\* 592-657, 721-758).
ReadsWhileStopped ==
  /\ \A t \in Threads : pc[t] \in {"read", "cont"} => process = "stopped" \/ vm = "dead"
  /\ \A t, u \in Threads : pc[t] \in GrabStages /\ pc[u] \in GrabStages => t = u

\* When a Suspend has returned without an error the periodic grabber is gone: it
\* will neither stop the process nor write to the device (runtime.go:282-286,
\* 466-473).
NoGrabAfterSuspend == promise # "none" => pc[Grabber] = "off"

\* When Close has returned without an error, and Resume had got as far as the
\* agent, neither the process nor the grabber is left (runtime.go:355-391).
ClosedIsQuiet ==
  pc[Owner] = "closed" /\ agent # "none" =>
     vm = "dead" /\ pc[Grabber] = "off" /\ ~running

\* Every Suspend returns, and so does every Close: the wait for the grabber under
\* runningLock, the grabber's wait for memoryLock and the stopped process never
\* wait for one another (runtime.go:355-476).
SuspendReturns ==
  \A t \in Movers \cup {Owner} :
     pc[t] = "suspend" ~> pc[t] \in {"idle", "closed"}

\* "NB: This isn't critical, but it may still signal up an issue" (runtime.go:274):
\* with the changes grabbed at the end, a periodic grab that failed does no harm.
FlushedIsComplete == promise = "flushed" /\ grabMemory => missing = {}

\* The thread that one has to wait for: it holds the mutex, or is the grabber.
Waits(t) ==
  \/ pc[t] = "suspend" /\ runningLock # Nobody
  \/ pc[t] = "waitGrabber" /\ ~GrabberDone
  \/ pc[t] = "memoryLock" /\ memoryLock # Nobody

WaitsFor(t) ==
  CASE pc[t] = "suspend" -> runningLock
    [] pc[t] = "waitGrabber" -> Grabber
    [] OTHER -> memoryLock

Level(t) ==
  CASE pc[t] = "suspend" -> 3 [] pc[t] = "waitGrabber" -> 2 [] pc[t] = "memoryLock" -> 1 [] OTHER -> 0

\* Whoever waits does so for a thread of a lower level, so that they never wait for one
\* another: the locks are taken in one order, and the grabber, which Suspend waits for
\* under runningLock, never takes that (runtime.go:266-287, 455-476, 522-524).
NoCircularWait ==
  \A t \in Threads : Waits(t) => WaitsFor(t) \in Threads /\ Level(WaitsFor(t)) < Level(t)

\* The order of the stages of a call, and of a grab; at the end a thread is at none.
Place(stage) ==
  CASE stage = "suspend"       -> 1
    [] stage = "beforeSuspend" -> 2
    [] stage = "pauseVM"       -> 3
    [] stage = "snapshot"      -> 4
    [] stage = "waitGrabber"   -> 5
    [] stage = "flush"         -> 6
    [] stage = "msync"         -> 7
    [] stage = "memoryLock"    -> 8
    [] stage = "pause"         -> 9
    [] stage = "read"          -> 10
    [] stage = "cont"          -> 11
    [] stage = "copy"          -> 12
    [] OTHER                   -> 13

\* A call moves on, or takes from the list of the changes that it has still to copy;
\* no other thread, the guest or Close gives it more to do.
CallForward ==
  \A t \in Threads :
    /\ Step(t) =>
         \/ Place(pc[t]) < Place(pc'[t])
         \/ /\ pc[t] = "copy" /\ pc'[t] = "copy"
            /\ list'[t] \subseteq list[t] /\ list'[t] # list[t]
    /\ pc[t] \in CallStages /\ ~Step(t) => pc'[t] = pc[t] /\ list'[t] = list[t]

\* So a Suspend, a FlushData or a grab has a bounded number of steps, however much the
\* guest writes and whoever else suspends (runtime.go:266-287, 318-345, 393-476, 522-760).
CallsGoForward == [][CallForward]_vars

\* Until it is closed, a runtime that has flushed keeps nothing back: with guest memory
\* mapped from the device, or compared in full, whatever failed before; with soft-dirty
\* bits if no grab failed (runtime.go:266-281, 393-476).
FlushedUnlessGrabFailed ==
  promise = "flushed" /\ call[Owner] # "Close"
    /\ (config.updates = "nothing" \/ config.failsafe \/ (GrabFaults = {} /\ vm # "dead"))
  => missing = {}

-----------------------------------------------------------------------------
\* The inductive invariant behind the safety properties.

\* Which calls reach which stages, and who holds which mutex there.
StageInv ==
  /\ pc[Owner] \in ResumeStages \cup {"idle", "suspend", "beforeSuspend", "pauseVM",
                                    "snapshot", "waitGrabber", "closeMachine", "closed"}
  /\ call[Owner] \in {"Resume", "Close"}
  /\ pc[Owner] \in {"load", "direct", "setRunning"} => pc[Grabber] = "off"
  /\ pc[Owner] \in ResumeStages => \A t \in Movers : pc[t] = "before"
  /\ \A t, u \in Movers : pc[t] = "before" <=> pc[u] = "before"
  /\ pc[Owner] \in {"suspend", "beforeSuspend", "pauseVM", "snapshot", "waitGrabber"} =>
       ~grabMemory
  /\ call[Grabber] = "none"
  /\ \A t \in Movers : pc[t] \in CallStages \cup {"before", "idle"} /\ call[t] \notin {"Close", "Resume"}
  /\ \A t \in Threads :
       /\ pc[t] \in {"suspend", "beforeSuspend", "pauseVM", "snapshot", "waitGrabber"} =>
            call[t] = IF t = Owner THEN "Close" ELSE "Suspend"
       /\ pc[t] \in {"flush", "msync"} => call[t] = "FlushData"
       /\ pc[t] \in {"memoryLock"} \cup GrabStages /\ t # Grabber =>
            call[t] \in {"Suspend", "FlushData"}

LockInv ==
  \A t \in Threads :
    /\ runningLock = t <=>
         \/ pc[t] \in ResumeStages \cup {"beforeSuspend", "pauseVM", "snapshot", "waitGrabber"}
         \/ call[t] = "Suspend" /\ pc[t] \in {"memoryLock"} \cup GrabStages
    /\ memoryLock = t <=> pc[t] \in GrabStages

\* What is left of the VM and of the grabber once running is unset.
StopInv ==
  /\ pc[Owner] \in {"startAgent", "afterResume"} => running
  /\ pc[Owner] \in ResumeStages => agent \in {"none", "open"} /\ promise = "none"
  /\ \A t \in Movers : pc[t] # "before" /\ ~running => vm \in {"paused", "dead"}
  /\ ~running /\ pc[Grabber] # "off" => \E t \in Threads : pc[t] = "waitGrabber"
  /\ \A t \in Threads :
       /\ pc[t] = "snapshot" => vm \in {"paused", "dead"}
       /\ runningLock = t /\ pc[t] \in {"waitGrabber", "memoryLock"} \cup GrabStages => ~running
       /\ runningLock = t /\ pc[t] \in {"beforeSuspend", "pauseVM", "snapshot"} => running
       /\ call[t] = "Suspend" /\ pc[t] \in {"memoryLock"} \cup GrabStages => pc[Grabber] = "off"
       /\ since[t] # "none" => promise # "none"
  /\ promise # "none" =>
       /\ ~running /\ pc[Grabber] = "off" /\ vm \in {"paused", "dead"}
       /\ \A t \in Movers : pc[t] # "before"
  /\ pc[Owner] \in {"closeMachine", "closed"} /\ agent # "none" =>
       ~running /\ pc[Grabber] = "off"
  /\ pc[Owner] = "closed" => vm = "dead"

\* Where a block that is missing will be found.
DataInv ==
  /\ grabMemory => config.updates # "nothing"
  /\ grabMemory \/ config.updates = "nothing" \/ forgiven = Blocks
  /\ config.updates # "nothing" /\ ~config.failsafe =>
       \A b \in missing : b \in soft \cup forgiven \/ \E t \in Threads : b \in list[t]
  /\ \A t \in Threads :
       /\ list[t] # {} => pc[t] \in {"cont", "copy"} /\ ~config.failsafe
       /\ pc[t] = "cont" /\ ~config.failsafe => list[t] = soft
       /\ pc[t] = "msync" => ~grabMemory
       /\ call[t] = "FlushData" /\ pc[t] \in {"memoryLock"} \cup GrabStages =>
            config.updates # "nothing"
       /\ call[t] = "FlushData" /\ since[t] # "none" /\ pc[t] = "copy" =>
            missing \subseteq list[t] \cup forgiven /\ soft = {}
       /\ call[t] = "FlushData" /\ since[t] # "none" /\ pc[t] = "cont" =>
            missing \subseteq list[t] \cup forgiven
  /\ promise = "flushed" => missing \subseteq forgiven

\* What makes the runtime forget a change: Close; or, where changes are found by the
\* soft-dirty bits, a grab that failed (runtime.go:536-539, 606-657, 704-758).
ForgivenInv ==
  /\ pc[Owner] = "load" => vm = "none"
  /\ forgiven # {} =>
       \/ call[Owner] = "Close"
       \/ config.updates # "nothing" /\ ~config.failsafe /\ (GrabFaults # {} \/ vm = "dead")

RuntimeInv ==
  TypeOK /\ StageInv /\ LockInv /\ StopInv /\ DataInv /\ ForgivenInv /\ ReadsWhileStopped

-----------------------------------------------------------------------------
\* What callers are promised.
C == INSTANCE VMContract WITH Data <- Blocks, executing <- Executing

ImplementsContract == C!Spec

=============================================================================
