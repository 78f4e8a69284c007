---------------------------- MODULE DirtyManager ----------------------------
(***************************************************************************)
(* The dirty phase of MigrateToPipe: pkg/common/dirty_manager.go and       *)
(* pkg/common/vm_state.go, driven by Silo's dg.MigrateDirty.               *)
(*                                                                         *)
(* Silo runs one goroutine per device.  Each loops over PreGetDirty, the   *)
(* fetch of the device's dirty blocks, PostGetDirty, the sending of those  *)
(* blocks, and PostMigrateDirty, until a hook ends the loop or fails.  A   *)
(* device becomes ready when it dirties few enough blocks for long enough, *)
(* or after too many cycles.  The goroutine that finds every device ready  *)
(* suspends the VM; each device then sends one last dirty list; and the    *)
(* goroutine that sends the last of them transfers authority.              *)
(*                                                                         *)
(* A step is the code between two accesses to state that another goroutine *)
(* uses.  The three mutexes are variables that name their holder.  Data is *)
(* abstracted to which blocks the destination has not been told about.     *)
(***************************************************************************)
EXTENDS Naturals, FiniteSets

CONSTANTS
  Devices,          \* the devices being migrated
  Memory,           \* the name DeviceMemoryName; it need not be migrated
  Blocks,           \* block numbers of a device
  MinCycles,        \* DeviceStatus.MinCycles, for each device
  Limits,           \* what DeviceStatus.MaxCycles may be, for each device
  MaxDirtyBlocks,   \* DeviceStatus.MaxDirtyBlocks, for each device
  CycleCap,         \* bound: where the cycle counters saturate
  Faults,           \* the calls that may fail
  Nobody            \* the holder of a free mutex

Calls == {"msync", "send", "suspend", "authority", "completed"}

ASSUME ConstantsAssumption ==
  /\ IsFiniteSet(Devices)
  /\ Devices # {}
  /\ Nobody \notin Devices
  /\ IsFiniteSet(Blocks)
  /\ MinCycles \in [Devices -> Nat]
  /\ Limits \subseteq [Devices -> Nat]
  /\ MaxDirtyBlocks \in [Devices -> Nat]
  /\ CycleCap \in Nat
  /\ \A limit \in Limits, d \in Devices : MinCycles[d] + limit[d] < CycleCap
  /\ Faults \subseteq Calls

VARIABLES
  pc,                  \* where each device's goroutine is
  \* DeviceStatus, one function per field
  maxCycles, totalCycles, cyclesBelow, ready, sentDirty, suspendedAtPre,
  \* DirtyManager
  readyDevices, readyLock, suspendLock, suspendCompleted,
  authorityCompleted,
  \* VMStateMgr
  suspended, suspendedLock,
  \* the VM and the block devices
  vmRunning,
  unflushed,           \* guest memory written since the last msync
  dirty,               \* blocks marked in each device's dirty tracker
  fetched,             \* the dirty list each goroutine holds
  \* the migration seen from its caller and from the destination
  authorityCalls,      \* history: how often AuthorityTransfer was called
  delivered,           \* the destination got the custom event
  result               \* of MigrateToPipe

statusVars   == <<maxCycles, totalCycles, cyclesBelow, ready, sentDirty,
                  suspendedAtPre>>
managerVars  == <<readyDevices, readyLock, suspendLock, suspendCompleted,
                  authorityCompleted>>
stateVars    == <<suspended, suspendedLock>>
dataVars     == <<vmRunning, unflushed, dirty, fetched>>
outcomeVars  == <<authorityCalls, delivered, result>>
vars == <<pc, statusVars, managerVars, stateVars, dataVars, outcomeVars>>

Stages == {"preGetDirty", "preMsync", "preReady", "getDirty", "send",
           "postMigrate", "throttle", "postReady", "checkReady", "lockSuspend",
           "suspend", "suspendVM", "suspendMsync", "suspendOk", "suspendError",
           "sentDirty", "sentCheck", "transfer", "done", "failed"}

Finished == {"done", "failed"}
Suspending == {"suspend", "suspendVM", "suspendMsync", "suspendOk", "suspendError"}

Goto(d, from, to) == pc[d] = from /\ pc' = [pc EXCEPT ![d] = to]

\* A call that may fail: what it can return.
Outcome(call) == {ok \in BOOLEAN : ok \/ call \in Faults}

\* A cycle counter stops at CycleCap, past every threshold it is compared with.
Increment(n) == IF n < CycleCap THEN n + 1 ELSE n

Init ==
  /\ pc = [d \in Devices |-> "preGetDirty"]
  /\ maxCycles \in Limits
  /\ totalCycles = [d \in Devices |-> 0]
  /\ cyclesBelow = [d \in Devices |-> 0]
  /\ ready = [d \in Devices |-> FALSE]
  /\ sentDirty = [d \in Devices |-> FALSE]
  /\ suspendedAtPre = [d \in Devices |-> FALSE]
  /\ readyDevices = {}
  /\ readyLock = Nobody
  /\ suspendLock = Nobody
  /\ suspendCompleted = FALSE
  /\ authorityCompleted = FALSE
  /\ suspended = FALSE
  /\ suspendedLock = Nobody
  /\ vmRunning = TRUE
  /\ unflushed = {}
  /\ dirty = [d \in Devices |-> {}]
  /\ fetched = [d \in Devices |-> {}]
  /\ authorityCalls = 0
  /\ delivered = FALSE
  /\ result = "migrating"

-----------------------------------------------------------------------------
\* The running VM, which is whatever is still executing until suspendFunc has
\* returned: the guest, and the snapshot the suspension itself writes out.
\* A write to memory may sit in the page cache or have been written back.

GuestWrite(d, b) ==
  /\ vmRunning
  /\ \/ /\ b \notin dirty[d]
        /\ dirty' = [dirty EXCEPT ![d] = @ \cup {b}]
        /\ UNCHANGED unflushed
     \/ /\ d = Memory
        /\ b \notin unflushed
        /\ unflushed' = unflushed \cup {b}
        /\ UNCHANGED dirty
  /\ UNCHANGED <<pc, statusVars, managerVars, stateVars, vmRunning, fetched,
                 outcomeVars>>

\* msyncFunc: everything the guest wrote reaches the memory device.
MsyncFunc(ok) ==
  /\ unflushed' = IF ok THEN {} ELSE unflushed
  /\ dirty' = IF ok /\ Memory \in Devices
              THEN [dirty EXCEPT ![Memory] = @ \cup unflushed] ELSE dirty

-----------------------------------------------------------------------------
\* PreGetDirty.

\* CheckSuspendedVM waits for suspendedLock, so for a suspension in progress.
PreGetDirty(d) ==
  LET wait == ~suspended /\ d = Memory /\ maxCycles[d] = 0
  IN
  /\ suspendedLock = Nobody
  /\ Goto(d, "preGetDirty", IF suspended \/ d # Memory THEN "getDirty"
                            ELSE IF wait THEN "preReady" ELSE "preMsync")
  /\ suspendedAtPre' = [suspendedAtPre EXCEPT ![d] = suspended]
  /\ ready' = [ready EXCEPT ![d] = IF wait THEN TRUE ELSE @]
  /\ UNCHANGED <<maxCycles, totalCycles, cyclesBelow, sentDirty, managerVars, stateVars,
                 dataVars, outcomeVars>>

\* Msync of the memory while the VM runs, outside any lock.
PreMsync(d) ==
  /\ \E ok \in Outcome("msync") :
        /\ Goto(d, "preMsync", IF ok THEN "getDirty" ELSE "failed")
        /\ MsyncFunc(ok)
  /\ UNCHANGED <<statusVars, managerVars, stateVars, vmRunning, fetched,
                 outcomeVars>>

\* markDeviceReady's critical section, entered once.
AddReadyDevice(d) ==
  /\ readyLock = Nobody \/ d \in readyDevices
  /\ readyDevices' = readyDevices \cup {d}

\* Memory with MaxCycles = 0 only waits for the suspension: PreGetDirty
\* returns false and nothing is fetched.  Silo asks again, or goes through
\* the rest of the cycle with an empty dirty list.
PreReady(d) ==
  /\ AddReadyDevice(d)
  /\ \/ Goto(d, "preReady", "preGetDirty")
     \/ Goto(d, "preReady", "send")
  /\ UNCHANGED <<statusVars, readyLock, suspendLock, suspendCompleted,
                 authorityCompleted, stateVars, dataVars, outcomeVars>>

-----------------------------------------------------------------------------
\* Silo's GetLatestDirty, PostGetDirty, and Silo's DirtyList and MigrateDirty.

\* Mutant: the state is read after the fetch.
LastListNow(d) == suspended

\* The list in hand is the device's last when the VM was stopped before the
\* fetch: the flag PreGetDirty saved, not the state now.
LastList(d) == suspendedAtPre[d]

\* GetLatestDirty takes the tracked blocks and clears the tracker.  With
\* nothing dirty and the VM stopped before the fetch, the device is finished.
GetDirty(d) ==
  /\ Goto(d, "getDirty",
          IF dirty[d] = {} /\ LastList(d) THEN "sentDirty" ELSE "send")
  /\ fetched' = [fetched EXCEPT ![d] = dirty[d]]
  /\ dirty' = [dirty EXCEPT ![d] = {}]
  /\ UNCHANGED <<statusVars, managerVars, stateVars, vmRunning, unflushed,
                 outcomeVars>>

\* The list, then the blocks.  The list stays in hand for PostMigrateDirty's
\* count, so what was sent is recorded by leaving stage "send".
SendDirty(d) ==
  /\ \E ok \in Outcome("send") :
        Goto(d, "send", IF ok THEN "postMigrate" ELSE "failed")
  /\ UNCHANGED <<statusVars, managerVars, stateVars, dataVars, outcomeVars>>

-----------------------------------------------------------------------------
\* PostMigrateDirty.

\* After the last list the device reports that it was sent.
PostMigrateDirty(d) ==
  /\ Goto(d, "postMigrate",
          IF LastList(d) THEN "sentDirty" ELSE "throttle")
  /\ fetched' = [fetched EXCEPT ![d] = IF LastList(d) THEN {} ELSE @]
  /\ UNCHANGED <<statusVars, managerVars, stateVars, vmRunning, unflushed, dirty,
                 outcomeVars>>

\* Mutant: > instead of >=.
SettledLate(d, few, total, below) ==
  IF few THEN below > MinCycles[d] ELSE total > maxCycles[d]

\* Mutant: MaxCycles is not looked at.
SettledQuietOnly(d, few, total, below) == few /\ below > MinCycles[d]

\* Is a device ready after a cycle with few or with many dirty blocks?
Settled(d, few, total, below) ==
  IF few THEN below > MinCycles[d] ELSE total >= maxCycles[d]

\* The end of the cycle throttle (the suspension only shortens the wait), the
\* cycle counters, and Ready.
CountCycle(d) ==
  LET total == Increment(totalCycles[d])
      below == Increment(cyclesBelow[d])
      few   == Cardinality(fetched[d]) < MaxDirtyBlocks[d]
      settled == Settled(d, few, total, below)
  IN
  /\ Goto(d, "throttle", IF settled /\ ~ready[d] THEN "postReady" ELSE "checkReady")
  /\ totalCycles' = [totalCycles EXCEPT ![d] = total]
  /\ cyclesBelow' = [cyclesBelow EXCEPT ![d] =
                       IF few THEN below ELSE IF settled THEN @ ELSE 0]
  /\ ready' = [ready EXCEPT ![d] = @ \/ settled]
  /\ fetched' = [fetched EXCEPT ![d] = {}]
  /\ UNCHANGED <<maxCycles, sentDirty, suspendedAtPre, managerVars, stateVars,
                 vmRunning, unflushed, dirty, outcomeVars>>

PostReady(d) ==
  /\ Goto(d, "postReady", "checkReady")
  /\ AddReadyDevice(d)
  /\ UNCHANGED <<statusVars, readyLock, suspendLock, suspendCompleted,
                 authorityCompleted, stateVars, dataVars, outcomeVars>>

\* Mutant: any one ready device is enough.
AnyReady == readyDevices # {}

\* len(dm.ReadyDevices) == len(dm.Devices)
AllReady == Cardinality(readyDevices) = Cardinality(Devices)

CheckReady(d) ==
  /\ readyLock = Nobody
  /\ Goto(d, "checkReady", IF AllReady THEN "lockSuspend" ELSE "preGetDirty")
  /\ UNCHANGED <<statusVars, managerVars, stateVars, dataVars, outcomeVars>>

\* Mutant: suspended is asked instead of suspendCompleted.
RetrySuspend == ~suspended

\* Only the first goroutine to get here suspends.
MustSuspend == ~suspendCompleted

LockSuspend(d) ==
  /\ suspendLock = Nobody
  /\ IF MustSuspend
     THEN /\ Goto(d, "lockSuspend", "suspend")
          /\ suspendLock' = d
     ELSE /\ Goto(d, "lockSuspend", "preGetDirty")
          /\ UNCHANGED suspendLock
  /\ UNCHANGED <<statusVars, readyDevices, readyLock, suspendCompleted,
                 authorityCompleted, stateVars, dataVars, outcomeVars>>

-----------------------------------------------------------------------------
\* SuspendAndMsync, called with suspendLock held.

SuspendBegin(d) ==
  /\ suspendedLock = Nobody
  /\ IF suspended
     THEN /\ Goto(d, "suspend", "suspendOk")
          /\ UNCHANGED suspendedLock
     ELSE /\ Goto(d, "suspend", "suspendVM")
          /\ suspendedLock' = d
  /\ UNCHANGED <<statusVars, managerVars, suspended, dataVars, outcomeVars>>

\* suspendFunc.  When it fails the VM may run on, or have been stopped.
SuspendVM(d) ==
  /\ \/ /\ Goto(d, "suspendVM", "suspendMsync")
        /\ vmRunning' = FALSE
        /\ UNCHANGED suspendedLock
     \/ /\ "suspend" \in Faults
        /\ Goto(d, "suspendVM", "suspendError")
        /\ vmRunning' \in BOOLEAN
        /\ suspendedLock' = Nobody
  /\ UNCHANGED <<statusVars, managerVars, suspended, unflushed, dirty, fetched,
                 outcomeVars>>

\* The final msync; suspended is set only when it worked.
SuspendMsync(d) ==
  /\ \E ok \in Outcome("msync") :
        /\ Goto(d, "suspendMsync", IF ok THEN "suspendOk" ELSE "suspendError")
        /\ MsyncFunc(ok)
        /\ suspended' = ok
  /\ suspendedLock' = Nobody
  /\ UNCHANGED <<statusVars, managerVars, vmRunning, fetched, outcomeVars>>

\* Back in PostMigrateDirty.  The attempt counts as completed, and
\* suspendDoneCh is closed, even when it failed.
SuspendEnd(d) ==
  /\ \/ Goto(d, "suspendOk", "preGetDirty")
     \/ Goto(d, "suspendError", "failed")
  /\ suspendCompleted' = TRUE
  /\ suspendLock' = Nobody
  /\ UNCHANGED <<statusVars, readyDevices, readyLock, authorityCompleted,
                 stateVars, dataVars, outcomeVars>>

-----------------------------------------------------------------------------
\* markReadyDeviceSentDirty.

\* Mutant: the last lists are not waited for.
AllReadyOnly(sent) == \A e \in Devices : ready[e]

AllSent(sent) == \A e \in Devices : ready[e] /\ sent[e]

\* Under readyLock: record the last list; go on if it was the last device's.
MarkSentDirty(d) ==
  LET sent == [sentDirty EXCEPT ![d] = TRUE]
      last == d \in readyDevices /\ AllSent(sent)
  IN
  /\ readyLock = Nobody
  /\ Goto(d, "sentDirty", IF last THEN "sentCheck" ELSE "done")
  /\ sentDirty' = IF d \in readyDevices THEN sent ELSE sentDirty
  /\ readyLock' = IF last THEN d ELSE Nobody
  /\ UNCHANGED <<maxCycles, totalCycles, cyclesBelow, ready, suspendedAtPre, readyDevices,
                 suspendLock, suspendCompleted, authorityCompleted,
                 stateVars, dataVars, outcomeVars>>

\* Still holding readyLock: has the suspension completed (suspendLock is taken
\* to look), and has nobody transferred authority yet?
CheckSuspendCompleted(d) ==
  LET first == suspendCompleted /\ ~authorityCompleted
  IN
  /\ suspendLock = Nobody
  /\ Goto(d, "sentCheck", IF first THEN "transfer" ELSE "done")
  /\ readyLock' = IF first THEN d ELSE Nobody
  /\ authorityCompleted' = (authorityCompleted \/ first)
  /\ UNCHANGED <<statusVars, readyDevices, suspendLock, suspendCompleted,
                 stateVars, dataVars, outcomeVars>>

\* Mutant: a failed transfer is tried again.
AfterTransferRetry(ok) == IF ok THEN "done" ELSE "transfer"

\* A failed transfer ends the goroutine; it is not tried again.
AfterTransfer(ok) == IF ok THEN "done" ELSE "failed"

\* AuthorityTransfer, a request over the wire made under readyLock.  It can
\* fail before or after the destination got the event.
AuthorityTransfer(d) ==
  /\ \E ok \in Outcome("authority"), arrived \in BOOLEAN :
        /\ ok => arrived
        /\ Goto(d, "transfer", AfterTransfer(ok))
        /\ delivered' = (delivered \/ arrived)
  /\ authorityCalls' = authorityCalls + 1
  /\ readyLock' = Nobody
  /\ UNCHANGED <<statusVars, readyDevices, suspendLock, suspendCompleted,
                 authorityCompleted, stateVars, dataVars, result>>

-----------------------------------------------------------------------------
\* MigrateToPipe around the goroutines.

\* dg.MigrateDirty returns when all goroutines are done, or on the first error,
\* leaving the other goroutines running.
MigrateDirtyReturn ==
  /\ result = "migrating"
  /\ \/ /\ \E d \in Devices : pc[d] = "failed"
        /\ result' = "error"
     \/ /\ \A d \in Devices : pc[d] = "done"
        /\ result' = "completing"
  /\ UNCHANGED <<pc, statusVars, managerVars, stateVars, dataVars,
                 authorityCalls, delivered>>

\* dg.Completed.
Completed ==
  /\ result = "completing"
  /\ \E ok \in Outcome("completed") : result' = IF ok THEN "ok" ELSE "error"
  /\ UNCHANGED <<pc, statusVars, managerVars, stateVars, dataVars,
                 authorityCalls, delivered>>

\* MigrateToPipe has returned and no goroutine is left.
Terminated ==
  /\ result \in {"ok", "error"}
  /\ \A d \in Devices : pc[d] \in Finished
  /\ UNCHANGED vars

Step(d) ==
  \/ PreGetDirty(d) \/ PreMsync(d) \/ PreReady(d)
  \/ GetDirty(d) \/ SendDirty(d)
  \/ PostMigrateDirty(d) \/ CountCycle(d) \/ PostReady(d) \/ CheckReady(d)
  \/ LockSuspend(d) \/ SuspendBegin(d) \/ SuspendVM(d) \/ SuspendMsync(d)
  \/ SuspendEnd(d)
  \/ MarkSentDirty(d) \/ CheckSuspendCompleted(d) \/ AuthorityTransfer(d)

Next ==
  \/ \E d \in Devices : Step(d)
  \/ \E d \in Devices, b \in Blocks : GuestWrite(d, b)
  \/ MigrateDirtyReturn
  \/ Completed
  \/ Terminated

Spec == Init /\ [][Next]_vars

\* Every goroutine runs, and so does the caller.  A mutex is held across steps
\* only on the way out of a loop, at most once per goroutine, so weak fairness
\* is enough.  Nothing makes the guest write, and nothing makes it stop.
Fairness ==
  /\ \A d \in Devices : WF_vars(Step(d))
  /\ WF_vars(MigrateDirtyReturn)
  /\ WF_vars(Completed)

FairSpec == Spec /\ Fairness

-----------------------------------------------------------------------------
TypeOK ==
  /\ pc \in [Devices -> Stages]
  /\ maxCycles \in Limits
  /\ totalCycles \in [Devices -> 0..CycleCap]
  /\ cyclesBelow \in [Devices -> 0..CycleCap]
  /\ ready \in [Devices -> BOOLEAN]
  /\ sentDirty \in [Devices -> BOOLEAN]
  /\ suspendedAtPre \in [Devices -> BOOLEAN]
  /\ readyDevices \subseteq Devices
  /\ readyLock \in Devices \cup {Nobody}
  /\ suspendLock \in Devices \cup {Nobody}
  /\ suspendCompleted \in BOOLEAN
  /\ authorityCompleted \in BOOLEAN
  /\ suspended \in BOOLEAN
  /\ suspendedLock \in Devices \cup {Nobody}
  /\ vmRunning \in BOOLEAN
  /\ unflushed \subseteq Blocks
  /\ dirty \in [Devices -> SUBSET Blocks]
  /\ fetched \in [Devices -> SUBSET Blocks]
  /\ authorityCalls \in Nat
  /\ delivered \in BOOLEAN
  /\ result \in {"migrating", "completing", "ok", "error"}

\* The (device, block) pairs the destination has not been told about.
Behind ==
  {x \in Devices \X Blocks :
      \/ x[2] \in dirty[x[1]]
      \/ x[1] = Memory /\ x[2] \in unflushed
      \/ pc[x[1]] \in {"send", "failed"} /\ x[2] \in fetched[x[1]]}

\* When the destination is given authority the VM has stopped for good, and no
\* write is missing: not in guest memory, in a tracker, or in a list that was
\* fetched and not sent (dirty_manager.go:88-123 with vm_state.go:66-94).
NoLostWrites == delivered => ~vmRunning /\ Behind = {}

\* A device reports its last list only once the VM is suspended, which is the
\* comment "This should only get sent IF the suspend has happened"
\* (dirty_manager.go:93); and then it really was the last.
SentAfterSuspend ==
  \A d \in Devices : sentDirty[d] =>
     suspended /\ \A x \in Behind : x[1] # d

\* "call auth transfer ONCE" (dirty_manager.go:96), whichever goroutines race.
TransferOnce == authorityCalls <= 1

\* MigrateToPipe reports success only when the destination has authority: no
\* path lets every goroutine leave without one of them having transferred it.
SuccessMeansHandedOver == result \in {"completing", "ok"} => delivered

\* A device cannot stay unready for ever: until it is ready it has run fewer
\* cycles than MaxCycles, give or take MinCycles quiet ones
\* (dirty_manager.go:155-166).
ConvergenceBound ==
  \A d \in Devices : ~ready[d] =>
     totalCycles[d] <= MinCycles[d] + (IF maxCycles[d] = 0 THEN 0 ELSE maxCycles[d] - 1)

\* A suspension begins only if none is under way and none was tried before, and
\* only with every device ready (dirty_manager.go:174-191).
SuspendOnceWhenReady ==
  [][\A d \in Devices : pc[d] # "suspendVM" /\ pc'[d] = "suspendVM" =>
        /\ ~suspendCompleted
        /\ \A e \in Devices : e # d => pc[e] \notin Suspending
        /\ \A e \in Devices : ready[e]]_vars

\* Once the caller was told the migration failed, the goroutines it left behind
\* never make the call that hands over the VM.
NoTransferAfterError ==
  [][result = "error" => authorityCalls' = authorityCalls]_vars

\* MigrateToPipe returns, with the destination having authority or with an error:
\* however much the guest keeps writing, a device becomes ready, the VM is
\* suspended and its last list is sent, and whatever call fails nobody waits for
\* ever (dirty_manager.go:125-193, migrations.go:537-570).
Returns == <>((result = "ok" /\ delivered) \/ result = "error")
-----------------------------------------------------------------------------
\* The inductive invariant behind the safety properties.

\* Each mutex is held exactly in the stages between its Lock and its Unlock.
LockInv ==
  \A d \in Devices :
    /\ readyLock = d <=> pc[d] \in {"sentCheck", "transfer"}
    /\ suspendLock = d <=> pc[d] \in Suspending
    /\ suspendedLock = d <=> pc[d] \in {"suspendVM", "suspendMsync"}

\* What each stage of the suspension has established.
SuspendInv ==
  /\ suspended => ~vmRunning /\ unflushed = {}
  /\ suspended /\ suspendLock = Nobody => suspendCompleted
  /\ ~vmRunning => \/ suspendCompleted
                   \/ \E d \in Devices : pc[d] \in {"suspendMsync", "suspendOk", "suspendError"}
  /\ \A d \in Devices :
       /\ pc[d] = "suspendMsync" => ~vmRunning
       /\ pc[d] = "suspendOk" => suspended
       /\ pc[d] \in Suspending => ~suspendCompleted
       /\ pc[d] \in Suspending \ {"suspendOk"} => ~suspended
       /\ suspendedAtPre[d] => suspended

\* Every device is ready before the suspension is attempted.
ReadyInv ==
  /\ \A d \in Devices :
       /\ d \in readyDevices \/ pc[d] \in {"preReady", "postReady"} => ready[d]
       /\ pc[d] \in Suspending \cup {"lockSuspend"} => readyDevices = Devices
  /\ suspended \/ suspendCompleted => readyDevices = Devices

\* A device that saw the suspension leaves nothing behind on its way out.
SentInv ==
  \A d \in Devices :
    /\ suspendedAtPre[d] =>
         pc[d] \in {"getDirty", "send", "postMigrate", "sentDirty", "sentCheck",
                   "transfer", "done", "failed"}
    /\ pc[d] \in {"sentDirty", "sentCheck", "transfer", "done"} => suspendedAtPre[d]
    /\ sentDirty[d] => /\ suspendedAtPre[d]
                       /\ pc[d] \in {"sentCheck", "transfer", "done", "failed"}
    /\ pc[d] \notin {"send", "postMigrate", "throttle", "failed"} => fetched[d] = {}
    /\ sentDirty[d] => fetched[d] = {}
    /\ sentDirty[d] \/ (suspendedAtPre[d] /\ pc[d] \in {"send", "postMigrate", "sentDirty"})
         => dirty[d] = {}
    /\ pc[d] = "done" => sentDirty[d]
    /\ pc[d] \in {"sentCheck", "transfer"} => \A e \in Devices : sentDirty[e]

\* Who answers for the transfer once every device has sent its last list.
AuthorityInv ==
  /\ authorityCalls = IF authorityCompleted /\ (\A d \in Devices : pc[d] # "transfer")
                      THEN 1 ELSE 0
  /\ authorityCompleted =>
       /\ \A d \in Devices : sentDirty[d]
       /\ delivered \/ \E d \in Devices : pc[d] \in {"transfer", "failed"}
  /\ delivered => authorityCompleted
  /\ (\A d \in Devices : sentDirty[d]) =>
       authorityCompleted \/ \E d \in Devices : pc[d] = "sentCheck"
  /\ \A d \in Devices :
       /\ pc[d] = "sentCheck" => ~authorityCompleted
       /\ pc[d] = "transfer" => authorityCompleted
       /\ pc[d] = "failed" /\ sentDirty[d] =>
            authorityCompleted /\ \A e \in Devices : pc[e] # "transfer"
  /\ result \in {"completing", "ok"} => \A d \in Devices : pc[d] = "done"
  /\ result = "error" => \/ \E d \in Devices : pc[d] = "failed"
                         \/ \A d \in Devices : pc[d] = "done"

\* The counters of a device that is not ready yet.
CycleInv ==
  \A d \in Devices : ~ready[d] =>
    /\ cyclesBelow[d] <= MinCycles[d]
    /\ totalCycles[d] <= cyclesBelow[d] + (IF maxCycles[d] = 0 THEN 0 ELSE maxCycles[d] - 1)

IInv == TypeOK /\ LockInv /\ SuspendInv /\ ReadyInv /\ SentInv /\ AuthorityInv /\ CycleInv

-----------------------------------------------------------------------------
\* Why nobody waits for ever: what Returns rests on besides fairness.

\* Does the goroutine's next step take a mutex that is held?
Waits(d) ==
  \/ pc[d] \in {"preGetDirty", "suspend"} /\ suspendedLock # Nobody
  \/ pc[d] \in {"lockSuspend", "sentCheck"} /\ suspendLock # Nobody
  \/ pc[d] \in {"checkReady", "sentDirty"} /\ readyLock # Nobody
  \/ pc[d] \in {"preReady", "postReady"} /\ readyLock # Nobody /\ d \notin readyDevices

\* A goroutine that holds a mutex waits for no other, although two of the mutexes
\* are taken while another is held (dirty_manager.go:87-123, 174-191,
\* vm_state.go:66-94).
HoldersMove == \A d \in Devices : d \in {readyLock, suspendLock, suspendedLock} => ~Waits(d)

\* The goroutine that finds every last list sent always makes the transfer: the
\* suspension has completed by then and nobody else has made it, so neither of the
\* two checks on its way ever turns it back (dirty_manager.go:103-121).
LastSenderTransfers ==
  \A d \in Devices : pc[d] = "sentCheck" => suspendCompleted /\ ~authorityCompleted

\* The stages of a device's last cycle, in their order.
LastCycle(stage) ==
  CASE stage = "getDirty"    -> 1
    [] stage = "send"        -> 2
    [] stage = "postMigrate" -> 3
    [] stage = "sentDirty"   -> 4
    [] stage = "sentCheck"   -> 5
    [] stage = "transfer"    -> 6
    [] OTHER                 -> 7

\* A device that has seen the suspension goes through one more cycle and no other:
\* it moves on from stage to stage and leaves (dirty_manager.go:87-140).
OneMoreCycle ==
  [][\A d \in Devices : suspendedAtPre[d] =>
        /\ suspendedAtPre'[d]
        /\ pc'[d] # pc[d] => LastCycle(pc[d]) < LastCycle(pc'[d])]_vars

\* MigrateToPipe fails only if some call did.
ErrorMeansFault == result = "error" => Faults # {}

-----------------------------------------------------------------------------
\* The handover the destination is promised.
H == INSTANCE Handover WITH
       Data <- Devices \X Blocks,
       running <- vmRunning,
       behind <- Behind,
       authority <- IF delivered THEN "destination" ELSE "source"

ImplementsHandover == H!Spec

=============================================================================
