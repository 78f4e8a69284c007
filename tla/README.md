# Verification of drafter

Drafter runs Firecracker VMs and live-migrates them between hosts. This
directory holds TLA+ models of the parts of it whose correctness depends on
the order in which several goroutines, processes and peers act, the TLC
configurations that check them on small instances, and proofs, checked by
TLAPS, that the most important of their properties hold for every value of
the constants.

Paths below are relative to the repository; `runtime.go:466` stands for
`src/pkg/runtimes/firecracker/runtime.go`, line 466, and so on.

## 1. The system

| part | state | operations | models |
|---|---|---|---|
| dirty phase of a migration: `DirtyManager`, `VMStateMgr` (pkg/common) | a status per device, the set of ready devices, three mutexes, the flags of the suspension and of the transfer of authority | `PreGetDirty`, `PostGetDirty`, `PostMigrateDirty`, `markDeviceReady`, `markReadyDeviceSentDirty`, `SuspendAndMsync`, `Msync` | `Handover`, `DirtyManager` |
| migration over a pipe and from files: `MigrateToPipe`, `MigrateFromPipe`, `MigrateFromFS` (pkg/common/migrations.go) | a Silo device group at each end, the channel `ready`, two contexts | send devices, migrate all, dirty phase, custom event, completed; receive the same | `Migration` |
| peer and its program (pkg/peer, cmd/drafter-peer) | a runtime provider, a device group, a queue of background errors | `StartPeer`, `MigrateFrom`, `Resume`, `MigrateTo`, `Close` | `Migration`, `MovingVM` |
| Firecracker runtime (runtime.go) | `running`, `runningLock`, `memoryLock`, `GrabMemory`, the agent, the periodic grabber | `Resume`, `Suspend`, `FlushData`, `Close`, `grabMemoryChanges` (soft-dirty and failsafe) | `VMContract`, `FirecrackerRuntime` |
| Firecracker machine (machine.go) | the process, `closed`, `cmdErr`, `cmdErrCh` | `StartFirecrackerMachine`, `Close`, `Wait` | `FirecrackerMachine` |
| agent RPC (pkg/ipc/agent_rpc.go) | a channel of one remote, the connection being served | accept loop, `handleRPCConnection`, `GetRemote`, `Close` | `AgentRPC` |
| port forwarder (pkg/network/forwarder, cmd/drafter-forwarder) | deferred calls, joined errors, the host's iptables | `ForwardPorts`, `concurrentMap`, `Close` | `Forwarder` |
| NAT (pkg/network/nat, pkg/network, cmd/drafter-nat) | two address tables, a map of claimable namespaces, what is in the kernel | `CreateNAT`, `ClaimNamespace`, `ReleaseNamespace`, `Close`; `Namespace.Open` and `Close` | `Namespace`, `NAT` |
| snapshotter, liveness ping and the guest's programs (snapshotter.go, pkg/ipc/liveness.go, cmd/drafter-agent, cmd/drafter-liveness) | a machine, two listeners, the VM's directory, the outputs, the deferred calls | `CreateSnapshot`; `Open`, `ReceiveAndClose`, `Close`; the ping, the agent's connections | `Snapshotter`, over `FirecrackerMachine` |
| mock, replay and empty runtimes (pkg/runtimes) | a write loop; recorded data | those of a runtime provider | none |
| package archive, block device padding, loop mounts, vsock | files and sockets | sequential I/O | none |

How they meet. The peer's program calls `MigrateFrom`, `Resume`, waits for the
next peer, and calls `MigrateTo`. `MigrateTo` hands Silo a set of hooks; Silo
runs one goroutine per device that calls them. The hooks call the runtime
through `VMStateMgr`: `FlushData` for a msync, `Suspend` to stop the VM. The
runtime calls the guest's agent through the remote of `AgentRPC` before it
suspends and after it resumes, calls Firecracker's API, and reads the memory of
the process itself. The machine's exit is relayed by a goroutine through an
error channel to the peer, where it cancels the program's context. The
snapshotter starts a machine of its own, waits for the guest's ping and for its
agent, has the agent prepare the guest, pauses it and copies out its files, with
the process's exit and the context's end possible all the while. The
namespaces of the NAT and the rules of the forwarder are set up by programs of
their own beside the peers and share the kernel's tables with each other.

What is hard, and what must be true nevertheless:

- *Dirty phase.* A device's last dirty list must be one fetched after the VM
  stopped, while any goroutine may stop it at any moment; the VM is suspended
  once and only with all devices ready; authority passes once, after the last of
  the last lists, and never after an error; a guest that writes for ever does
  not keep the migration from ending.
- *Runtime.* Three parties grab memory; the process must stay stopped while one
  of them reads, and bits that were cleared must belong to data that was copied.
  After a `Suspend` nothing executes and nothing grabs; after a `FlushData` what
  the VM wrote can be read from the device.
- *Machine.* Owner, context and the process itself end it at the same time;
  whoever returns from `Close` must find it gone, and a failure must reach somebody.
- *Agent.* The remote is taken off a channel and put back in two steps while
  connections come and go.
- *Chain of peers.* Any call fails, any connection breaks, any peer is
  interrupted: one peer executes the VM, with everything written before; a peer
  that is interrupted ends.
- *Snapshotter.* The package must be one point in time, of a guest that was
  prepared and that nothing connects from any more; whatever fails on the way, the
  process, the directory and the sockets must go, and the call must return though
  the guest never answers.
- *Forwarder and NAT.* Something set up half way by several goroutines, or by a
  process that was interrupted, must be undone exactly.

PROJECT.json lists the hazards with their lines and the properties for each;
section 7 names those that did not fit into that list.

## 2. The modules

```
Handover      <- implemented by - DirtyManager      (pkg/common/dirty_manager.go, vm_state.go)
VMContract    <- implemented by - FirecrackerRuntime (runtime.go)
MovingVM      <- implemented by - Migration          (main.go, peer.go, migrations.go)
    FirecrackerMachine <- EXTENDS - Snapshotter        (machine.go; snapshotter.go, liveness.go)
                                  AgentRPC           (agent_rpc.go)
                                  Forwarder          (forward_ports.go)
                 Namespace <- EXTENDS - NAT          (nat.go, ipmanager.go, namespace.go)
```

`MC*` modules give TLC its constants. `*Proofs` modules hold the theorems.
Definitions marked "Mutant:" are wrong versions of the definition after them;
each stands for a plausible mistake in the code and breaks the property that
PROJECT.json names with it. They are part of no specification.

The models are composed through their abstract specifications, not by one large
state space. `DirtyManager` is shown to implement `Handover`; `Migration` takes
a whole dirty phase to be `Handover`'s steps, done in the stages "suspend" and
"transfer", and each link of its chain is shown to implement `Handover` too, so
that what the one shows is what the other relies on. `FirecrackerRuntime` is shown to
implement `VMContract`; in `DirtyManager` the hooks `suspendVM` and `msync` stand for
`Suspend` and
`FlushData` with what `VMContract` says they establish. `Migration`'s calls of
Resume and Close likewise.
`FirecrackerRuntime`'s steps "beforeSuspend" and "startAgent", which may fail or
wait, are calls of `AgentRPC`; the process it stops and kills is the one whose
end `FirecrackerMachine` follows. `Snapshotter` runs on that machine itself: every
step of `FirecrackerMachine` is one of its own, its deferred `server.Close` is the
machine's `CloseCall`, and what it reads at the end is what the machine's relay sent;
`SnapshotterRunsMachine` shows that it gives the machine nothing that one does not allow.

### Handover, DirtyManager

`Handover` has a VM that writes, a destination that is told, and authority that
passes once, for a stopped VM with nothing left to tell. It starts with any blocks
untold: none in the dirty phase, all of them when a link of `Migration` is made.

In `DirtyManager` each device has a goroutine with a program counter `pc[d]`,
and a step is the code between two accesses to state other goroutines use. The
fields of `DeviceStatus` are functions of the device; `readyLock`,
`suspendLock` and `suspendedLock` hold the name of their holder
(`ReadyDevicesLock`, `suspendLock`, `suspendedVMLock`). The loop around the hooks
(GetLatestDirty, sending, `MigrateDirty`'s return at the first error) is Silo's,
modelled from what `migrations.go` passes to it and marked external where
nothing in the repository shows it. `DeviceStatus.MaxCycles` is chosen at
the start, from the set `Limits`. Data is abstracted to *which blocks the
destination has not been told of*: dirty in the tracker, fetched by a goroutine,
or in guest memory and not msynced. Cycle counters saturate at `CycleCap`, above
every threshold, so nothing they are compared with can tell.

### AgentRPC

One accepting goroutine (`serverPc`), the channel (`remote`, `Empty` or the
number of the connection whose remote is in it), and callers of `GetRemote` with
their two steps `Take` and `PutBack`. A receive from a full channel lets a
waiting sender complete at once, as Go's channels do. `MaxConnections` bounds the
connections accepted.

### FirecrackerMachine

The process ("running", "zombie", "reaped"), the goroutine that waits for it, the
one that closes it when the context is done, any number of owners calling
`Close`, start-up with its timeout, and the goroutine of `Start` that relays the
exit. A section under `closeLock` never blocks and is one step. Calling `Error()`
on the nil error of an exit with status 0 (machine.go:182, 283) ends the program:
the state `panicked`. `starter` is what `StartFirecrackerMachine` came back with,
"nilnil" when it has neither a machine nor an error. `closeKilled` is a history
variable, which no guard reads: whether the process was killed by a `Close`. The code
has only `closed` and the text of the error to tell, and `ReportsAgree` compares what
it makes of these with what happened: a kill by a `Close` is reported by nobody, and
every other end is reported as what it was. A kill by the cancelled context itself,
before a `Close` has set `closed`, is of the second kind.

### Snapshotter

`CreateSnapshot` is a sequence of stages, each the call that is made next; a call
that fails, at any stage in `Faults`, makes `result` and leads to "unwind", where
the calls in `deferred` run, the last deferred first. Which calls those are changes
where the code's `defer` statements stand: after the change of a socket's owner,
not before, so a listener whose chown fails is left. `Fail` is the failing side of
all stages whose failure leaves nothing behind; requests to Firecracker fail also
when the process is gone or the context is done, and the calls under a timeout at
any time. `liveness` and `accept` are the listener of `LivenessServer` and the
goroutine of `ReceiveAndClose`. The guest pings once, connects and disconnects its
agent as often as it likes and writes up to `MaxWrites` times; `written` numbers the
states of its disks and memory. An output holds which of these it is a copy of and
its length, `Padding` being the formula of `copySnapshotFiles`.

### VMContract, FirecrackerRuntime

`VMContract` is what `VMStateMgr` relies on: after a successful Suspend the VM
never executes; after a successful FlushData that follows, everything it wrote is
on the device or marked in its tracker, except blocks that are *forgiven*.
`FirecrackerRuntime` has the thread that resumes and closes, threads that suspend
and flush in any order and again, and the periodic grabber. `missing` are the
blocks written and not on the device, `soft` the soft-dirty bits, `list[t]` what
a grab has found. Blocks are forgiven when a grab has cleared their bits and
fails before it has copied them, and when the runtime is closed. A configuration
is what a grab does with a change (copy, mark, or nothing when memory is mapped
from the device), whether it compares (failsafe) and whether it is periodic. The
code allows copying and marking together; the model has them as alternatives,
because the properties ask the same of both.

### MovingVM, Migration

`MovingVM` is a single VM that executes at its host, stops, is caught up with
and only then moves. `Migration` is a chain of `N` programs of cmd/drafter-peer:
for each its main program (`stage`), its context, its VM, the connection to the
next one with the events sent (`sent`) and taken (`got`), and the goroutine that
waits for the incoming devices' completion. `Faults` are pairs of a peer and what may
fail there: a call, or "link", "exit" and "interrupt", which are a broken connection
(what is on it is lost), an exit of the machine, and a signal. `Patient` are the peers started with
`--disable-postcopy-migration`. An error of `SendCustomData` may or may not have
delivered the event. Main has one `closer` for its two connections: `HangUp` closes
the later one, `Close` of the exiting program whatever is open still, and a `Listen`
without a connection leaves neither to close (section 7). Metrics are left out. The clean exit of a machine is not
relayed by the code, so it cancels nothing here.

### Forwarder

A goroutine per forward appends iptables rules one by one and notes how to undo
each; `concurrentMap` publishes the notes, calls `wg.Done` and then joins the
error; `ForwardPorts` returns or undoes. `table` counts the copies of each rule,
since a rule can be there twice and a deletion takes one. A forward's notes are
those of its first rules and then the hook's, so `notes[p]` counts them, and
`deferFuncs`, a list of the forwards in the order of their publication, stands for
the list of lists that `Close` runs through. `stuck` remembers the rules whose
deletion failed. drafter-forwarder calls `Close` once; nobody calls `Wait`. That `errs` is read while it may be written is
modelled as either value, not as a torn one.

### Namespace, NAT

`Namespace` has what `Open` puts into the kernel and what `Close` takes out, as
sequences of named resources, and from them the sets a call can leave behind if
it fails on the way. `NAT` is the process around it: the loop of `CreateNAT`
(`main`, `next`), the background goroutine (`stage["background"]`), the two
tables, the map and its claims, `Close` by the background goroutine and by the
caller, an interrupt at any moment, and the process being started again with the
kernel as it was left. `Close` empties `hostVeths` under `hostVethsLock`, holds
that to its end, and from the namespaces on holds the other locks too; since it
takes them in one order, two predicates (`HostVethsLocked`, `MapLocked`) stand for
them. While it holds the map's lock nobody sees the map, so a namespace leaves
the map as it is closed, where the code replaces the map at the end. go-ipam hands
out the first free network or address; it is external. A claim that finds
nothing free changes nothing and is not a step. The goroutine-manager library's
behaviour (a panic in the loop or the return of `CreateNAT` cancels its context;
a background goroutine is not waited for) is external too.

## 3. What TLC checks

| run | instance | states | what it shows |
|---|---|---|---|
| Dirty | a disk and the memory, one block each; the memory limited to 2 cycles or only waiting; every call may fail | 449,000 | `IInv`, `NoLostWrites`, `TransferOnce`, `ConvergenceBound`, `SuspendOnceWhenReady`, `NoTransferAfterError`, the refinement of `Handover`, and that `MigrateToPipe` `Returns` |
| AgentOne | one caller, four connections | 3,100 | the remote of the connection being served is on the channel or held by the caller; a call made after it was published does not return an older one; a call returns if a connection stays, and lets through a handler whose send a stale remote blocks |
| Machine | two owners and the context, every kind of exit | 3,100 | `ClosedIsGone`; `ReportsAgree`: a kill by Close is reported by nobody and every other end as what it was; a failure is reported, every Close returns |
| MachineStart | one owner, exits with status 0 | | *violated*: `StartGivesMachineOrError` (section 6) |
| Snapshotter | a disk one byte short of a multiple of 1 MiB, a memory of one MiB, a small configuration; two writes; every call may fail, every kind of exit | 245,000 | the package is one point in time and complete on success; what is left when it returns; the order of ping, preparation, pause and snapshot; it returns |
| Runtime | one mover, the owner and the grabber, one block, four configurations, every call may fail | 41,000 | `RuntimeInv`; no grab after Suspend; nothing left after Close; the refinement of `VMContract`; every Suspend returns |
| RuntimeGrab | soft-dirty copying, only the copy of a periodic grab fails | | *violated*: `FlushedIsComplete` (section 6) |
| Migration | three peers, the last one patient; at the middle one every call may fail, the machine exit, its connection break, and it may be interrupted; failures at the others that cannot happen there | 80,000 | `OneVM`, `ResumesWithData`, the refinement of `MovingVM`; an interrupted peer ends (`Stops`); a chain that meets no failure arrives (`Arrives`) |
| MigrationHang | three peers, the first link breaks | | *violated*: `ProtocolErrorReturns` (section 6) |
| Forwarder | two forwards that share a rule with each other and with another program's copy | 40,000 | what was appended is accounted for by notes, undone, and nothing else is; what was announced works; the forwarder ends |
| ForwarderLost | as above, a lookup fails | | *violated*: `SuccessMeansForwarded` (section 6) |
| NAT | two namespaces, three pairs and addresses, two clients, one failing call, three starts | 68,000 | `NATInv`, `ExclusiveUse`, `CleanExit`, and that an interrupt `Ends` the process |

Each run that passes with a type invariant has it as a conjunct of its first
invariant (`IInv`, `OneCallerInv`, `MachineInv`, `SnapshotterInv`, `RuntimeInv`,
`MigrationInv`, `ForwarderInv`, `NATInv`), so it is not listed apart. Some safety
properties are consequences of these invariants that no run lists because a theorem
has them for all constants: `SentAfterSuspend` and `SuccessMeansHandedOver` of the
dirty phase, `ReadsWhileStopped` of the runtime, `ServedIsAvailable` of the agent,
`NothingMissing` of the chain.

Why the bounds are enough:

- *Devices.* The races of the dirty phase are between a device that suspends, or
  is the last, and another; two devices have every such pair, and the memory is one
  of them since it alone is msynced. One block per device distinguishes told from
  untold; lists of several blocks only add fewer-than-`MaxDirtyBlocks` cases,
  which the threshold of 1 has already.
- *Cycles.* `CycleCap` = 4 exceeds `MinCycles + MaxCycles`, so every comparison is
  reached with each outcome.
- *Connections.* A remote can be stale by one connection (served, ended, put
  back late) and the channel then be found full by the next; four connections
  have this twice in a row. Exhausting them ends no run early: the accepting
  goroutine then waits.
- *Snapshotter.* Two writes are the fewest with which a copy can be older than,
  and newer than, the snapshot. The three sizes are the ones next to where the
  padding jumps; `PaddingWorks` has all sizes.
- *Runtime.* One mover contends with the owner's Close and the periodic grabber for
  both locks, and calls Suspend and FlushData in any order, again and again. Two
  movers have ten times the states, which is too many for liveness; the safety
  properties and the refinement are proved for any number of them.
- *Peers.* In a chain of three the middle one is receiver and sender, so it is the
  one at which everything may fail. The first may fail to open its files ("fs") and
  to suspend, the last to get all its data ("complete"), for which it waits. `OneVM` and the
  refinement are proved for every length and every set of failures.
- *Forwards.* Two goroutines interleave their rules; another program's copy of a
  shared rule shows a deletion too many.
- *NAT.* The second namespace is the first that can be opened while the
  background goroutine closes another. A second start meets what the first left;
  a third meets what a failed Open followed by Close made of it. `FailPoints` are a
  call inside the namespace, one after half of it, and one among the rules.

`CHECK_DEADLOCK FALSE` is given where the program really ends (a closed runtime
or machine, a snapshotter that returned, exited peers, forwarders and processes
that are not restarted, also after a panic). Dirty and AgentOne are checked for deadlock.

### Fairness

Every liveness property rests on weak fairness of goroutines that can go on, as
Go's scheduler gives, plus what is listed here.

- Mutexes and channels that several goroutines contend for: strong fairness of
  taking `runningLock`, `memoryLock` (`SuspendLock`, `GrabLock`), of the grabber's
  select on its stop channel (`GrabberStop`), and of a receive from the remote
  channel (`Take`). Go's mutexes hand over to a waiter in starvation mode after
  1 ms, a channel serves its waiters in order, and a select among ready
  channels chooses at random.
- A cancelled connection's `LinkStream` ends (`LinkCancelled`).
- In `Snapshotter` a timeout passes; whether the guest pings, connects or answers is
  left open, so `ReturnsOrPanics` does not depend on it.
- Calls over the network and into the kernel return, with an error or not.
- In `Migration` the dirty phase catches up with a VM that no longer writes: this
  is what `DirtyManager`'s `Returns` shows.
- Nothing makes a guest write, a process exit, an owner call `Close`, a context
  end, a connection come, a client release, or a user interrupt. A caller that was
  told of an interrupt goes on to its `Close` (forwarder, NAT).

## 4. What is proved

| module | theorems | from |
|---|---|---|
| DirtyManagerProofs | TypeCorrect, Invariance, HandoverLosesNothing, LastListIsLast, TransferredOnce, SuccessIsHandover, CyclesAreBounded, SuspendedOnceWhenReady, NoLateTransfer, Refinement; HoldersNeverWait, LastSenderAlwaysTransfers, OneMoreCycleOnly, ErrorMeansSomeFault | `ConstantsAssumption` |
| AgentRPCProofs | TypeCorrect, CallersInvariance, NoRemoteTwice, SomeRemoteIsHad (any callers); OneCaller, RemoteIsKept, NewestIsReturned (one caller) | `ConnectionsAssumption` |
| FirecrackerMachineProofs | TypeCorrect, Invariance, CloseWaits, ReportsAreTrue, FailureIsNotDropped, CloseWaitsForADyingProcess, NothingOnlyIf, PanicsOnlyOnStatusZero; MachineOrErrorUnlessDone, NoPanic (no exit with status 0) | `ExitsAssumption` |
| SnapshotterProofs | SnapshotterInvariance, PackagesAreConsistent, ReturnsCleanedUp, SnapshotsAreInOrder, SnapshotterRunsMachine, StepsAreCounted; NoPanicUnlessDone (no exit with status 0); PaddingWorks (a lemma about `Padding` for every size) | `SnapshotterAssumption`, `ExitsAssumption` |
| FirecrackerRuntimeProofs | TypeCorrect, Invariance, GrabsReadStoppedMemory, GrabberGoneAfterSuspend, ClosedIsQuietAlways, RuntimeImplementsContract, FlushedIsCompleteUnlessGrabFailed, NoCircularWaitAlways, CallsGoForwardAlways | `ThreadsAssumption`, `ConfigsAssumption` |
| MigrationProofs | TypeCorrect, Invariance, OneVMAlways, NothingMissingAlways, ResumesWithDataAlways, MigrationImplementsMovingVM, EveryLinkHandsOver, MainMovesForward, NeighboursAreBusy | `ConstantsAssumption` |
| ForwarderProofs | ForwarderInvariance, NothingIsLeft, AnnouncedForwardsWork, LostOnlyInTheGap, FailsOnlyForAReason, EveryGoroutineEnds; AllForwardedWithoutFaults (no failing call of a goroutine) | `ConstantsAssumption`, `RulesAssumption` |
| NATProofs | NATInvariance, NothingIsUsedTwice, ExitsAreClean, ClaimsAreComplete, TablesNeverRunOut, CreationGoesForward, ClosesGoForward | `NATAssumption`, `NamespaceAssumption` |

So these hold for any number of devices, blocks, movers, connections, owners,
peers, forwards, namespaces, pairs and clients, any thresholds, any rules shared by
forwards and any set of failing calls.

The invariants and why they are needed:

- *Dirty phase*, `IInv`. That nothing is lost when authority passes is not
  inductive. It needs: a goroutine that sends its last list had seen `suspended`
  in PreGetDirty (`SentInv`); `suspended` implies that the VM stopped and its
  memory was flushed (`SuspendInv`), so the tracker cannot fill again; and the goroutine that
  transfers has found every device's last list sent (`AuthorityInv`). Who may be at
  which stage follows from the locks (`LockInv`), and that every device is ready
  before a suspension from the count under `readyLock` (`ReadyInv`). `CycleInv`
  bounds the counters of a device that is not ready. The refinement maps blocks
  not yet told to `Handover`'s `behind`, and authority to whether the event was
  delivered.
- *Agent*, `CallersInv`. Remotes are put on the channel in the order of their
  connections and taking or putting one back duplicates none, whoever calls. With
  one caller, `OneCallerInv` adds that a held remote is older than the one on the
  channel.
- *Machine*, `MachineInv`. Reaping and the end of the waiting goroutine
  coincide, so a Close that was told of the exit finds the process gone; the
  relay decides from the exit it waited for. `NilErrorInv` says why a nil error
  is on `cmdErrCh`: an exit with status 0, or a kill that this program asked for.
  What is reported is decided later than the exit, from `closed`; so the invariant has
  that a kill by a `Close` comes with `closed` already set (`closeKilled`).
- *Runtime*, `RuntimeInv`. `LockInv` ties stages to locks; `StopInv` says what is
  left of the VM and of the grabber once `running` is unset, from which a
  Suspend's promise follows; `DataInv` says where a block that is missing will be
  found: by its bit, in somebody's list, or forgiven, and `ForgivenInv` why it was
  forgiven: Close, or a soft-dirty grab that failed.
- *Chain*, `MigrationInv`. The authority is with the peer after the last one
  that sent the second event, and only peers it has reached can have a VM
  (`HostInv`); what a peer has sent determines what is left of its VM (`StageInv`);
  a patient peer is past its wait only with its data or a cancelled context, with
  which Resume fails (`PatientInv`). `ConnectionInv` ties a connection to the stages of
  the two peers it joins.

- *Snapshotter*, `SnapshotterInv`. `Milestones` says what is in place from which
  stage on; a snapshot is taken from "config" on, and since the VM is paused by then
  what is copied out later is what it was at the snapshot. `Unwinding` ties the list
  of deferred calls to the stage, to what is open and to what has been closed. It is
  proved beside `MachineInv`, which the steps of the process keep.
- *Forwarder*, `ForwarderInv`. `Accounted` is a sum per rule: the copies in the table
  are those of other programs and one for each forward that has appended the rule and
  not deleted it. An append and a deletion change both sides by one, by a lemma on
  the cardinality of the set `Standing`. `Failures` follows an error from the call
  to what is joined. That the deletions meet all notes needs
  `MapFirst` (every goroutine is done, and its notes published, before any is
  undone), and that a note is of the rule that was appended needs `StageNotes`.
- *NAT*, `NATInv`. Addresses are handed out in order and given back all together, so
  what is in use is told by how far the loop came (`LoopInOrder`, `TablesInOrder`)
  and what the kernel still has of a former process by the order in which that one
  opened its namespaces (`KernelInOrder`); from these, that no pair and no address
  belongs to two namespaces. That an exit is clean needs that a Close takes away
  exactly what an Open without failures brought.

Each theorem `Spec => []Inv` is three steps: the initial states, one lemma per
group of actions with a step per action, and PTL. The refinements are proved the
same way: initial states map to initial states and every step to a step of the
abstract specification or to a stutter, with the invariant as a hypothesis.
`EveryLinkHandsOver` does so for all links at a time, `SnapshotterRunsMachine` maps
the snapshotter's steps to those of the machine it runs.

Beside what the runs check there are three groups of results.

*What liveness rests on.* Fairness is out of the prover's reach, but a goroutine can
fail to come to its end in two other ways. These are excluded for all constants, except
for the agent's callers, who may go round once for each connection.
It might go round: a count of the steps that are left falls with each step of its own
and never rises with anybody else's (`EveryGoroutineEnds`, `CreationGoesForward`,
`ClosesGoForward`, `StepsAreCounted`), or the stages have an order in which it only
moves forward (`MainMovesForward`, `OneMoreCycleOnly`; `CallsGoForwardAlways`, where a
call may also shorten the list that it has to copy). And goroutines, or peers, might
wait for each other: whoever holds a mutex of the dirty phase does not wait
(`HoldersNeverWait`); in the runtime one waits only for a thread of a lower level
(`NoCircularWaitAlways`); whoever waits in a Close waits for a process that was killed
before (`CloseWaitsForADyingProcess`); a peer that receives waits for one that is at work
or about to hang up, and one that listens is waited for by nobody
(`NeighboursAreBusy`).

*What holds where the code does less than it says.* For the runs that end in a
violation (section 6) the theorems say how far the comment is right.
`FlushedIsCompleteUnlessGrabFailed`: nothing is missing after a flush unless a
soft-dirty grab failed. `LostOnlyInTheGap`: a forward is missing only if its goroutine
was between the two deferred calls; `AllForwardedWithoutFaults`: and never without a
failing call. `NeighboursAreBusy`: a receiver waits for ever only over a connection that
closed or broke. `NothingOnlyIf`, `MachineOrErrorUnlessDone`: neither machine nor error is
the answer only to an exit with status 0 or to a done context;
`PanicsOnlyOnStatusZero`, `NoPanic` and `NoPanicUnlessDone` say the same of the panics.

*What errors and successes mean.* `ErrorMeansSomeFault` and `FailsOnlyForAReason`:
neither the dirty phase nor the forwarder makes up an error; `FailureIsNotDropped`: one
of those who look at the process's exit has reported its failure;
`LastSenderAlwaysTransfers`: the goroutine that sends the last list is not turned back;
`ClaimsAreComplete`: what a client claims works; `TablesNeverRunOut`: the comparison of
the two tables before the NAT's loop suffices, so the loop does not fail for want of an
address. This last takes the counts that `CreateNAT` compares to be what go-ipam's
tables give out.

PROJECT.json lists the theorems a reader should know of, not the type invariants nor
what is a conjunct or a corollary of another one listed.

## 5. What is only model-checked

- Liveness: `Returns`, `AgentReachable`, `FailureReported`, `CloseReturns`,
  `ReturnsOrPanics`, `SuspendReturns`, `Stops`, `Arrives`, and `Ends` of the forwarder
  and the NAT. Fairness and ENABLED are outside what the prover decides; section 4
  says which parts of them that are about safety are proved.
- AgentRPC with several callers: with two, `NewestRemote` does not hold, since
  the caller with the stale remote may put it back first and the other one then
  drops the newest (agent_rpc.go:160). Resume and Suspend call it under
  `runningLock`, so one caller is the case that occurs inside the runtime; a user
  of the runtime's own GetRemote (runtime.go:290) would be a second. What is left
  with several, that no remote is duplicated and that some remote can be had, is
  proved.

## 6. What the checks found

- **RuntimeGrab** (runtime.go:275). The comment there says that an error of the
  periodic grabber "isn't critical". The grab has cleared the soft-dirty bits by
  then; if the copy fails, no later grab finds those blocks, and Suspend and
  FlushData return nil with the memory device incomplete. `ImplementsContract`
  holds because exactly these blocks are forgiven. With memory mapped from the device,
  or compared in full, the comment is right (`FlushedIsCompleteUnlessGrabFailed`).
- **MigrationHang** (migrations.go:442). A protocol error cancels `protocolCtx`;
  the wait for the authority listens to the caller's context and to `ready`. If
  the connection breaks between the devices and the authority, MigrateFromPipe
  never returns, although the comment at 392 expects another error to be
  returned. An interrupt does end it (`Stops`). While the connection is open the wait is
  for a sender that is at work (`NeighboursAreBusy`).
- **ForwarderLost** (forward_ports.go:331). A goroutine's deferred `wg.Done` runs
  before its error is joined, so ForwardPorts may return nil though a forward was
  not set up, and the program reports success. It has no other way to lose one
  (`LostOnlyInTheGap`).
- **MachineStart** (machine.go:225). "The cmd exited already. Return it as an error
  here", says the comment; but `cmdErrCh` carries nil for an exit with status 0, and
  for one after Close had set `closed`. Then StartFirecrackerMachine returns neither
  a machine nor an error, and its callers call `Wait` on the nil machine. In all other
  cases the comment is right (`NothingOnlyIf`). This is
  also one of the two ways in which `ReturnsOrPanics` ends in a panic; the other is
  `Error()` on the nil error of a process that ended with status 0, which the deferred
  `server.Close` meets too.

## 7. Not modelled, and hazards outside the list

Not modelled: FlushDevices (runtime.go) and GetBlockDevicePadding (pkg/utils), which
nothing calls; the mock and replay runtimes, which serve tests and measurements and
write on their own without a VM that could lose anything; the archive's one pass over
files, loop mounts and the vsock handshake, which are sequential I/O; the goroutines
of the agent's client in the guest, the mirror image of the server's; metrics; the
schemas built for Silo; flags, logging, the command line of Firecracker; the
`dgLock` of the peer, whose users the program calls one after another; what
happens inside Silo, Firecracker, panrpc, iptables and netlink.

Some hazards of the list in PROJECT.json have no property that covers all of them, since
the code does nothing about the rest: nobody may call GetRemote once Close has returned,
and a blocked handler then stays (agent_rpc.go:253); the guest's connection may be open
at the snapshot (snapshotter.go:249); when StartAgentRPC fails after setRunning(true),
Close does not suspend and the periodic grabber runs on (runtime.go:188), against which
`ClosedIsQuiet` is guarded; what a failed Open of a namespace leaves in the kernel
(namespace.go:286) is outside `CleanExit`, which speaks of processes where no call
failed. All four are in the models.

Hazards that were seen, and that the list in PROJECT.json leaves out because a
listed one is close to it or the case does not occur in the repository's programs:

- A device group with devices other than those passed to MigrateToPipe is
  dereferenced as nil (dirty_manager.go:51); the memory with `MaxCycles` = 0 as
  the only device would never be suspended (61).
- A remote is returned without any hold on its connection (agent_rpc.go:159);
  OnClientConnect may close `ready` after the handler gave up (226); a stale
  remote put back between the clearing of the channel (206) and the send (253)
  blocks the accepting goroutine until somebody calls GetRemote, after Close for
  ever: the model has it; `AgentReachable` has that a caller who waits lets it
  through, and no property that there is one.
- StartFirecrackerMachine leaves the process running when it times out
  (machine.go:222): the model has the leak.
- FlushData reads `GrabMemory` while Close unsets it (runtime.go:330): in the
  model Close forgives every block.
- A peer whose Close fails leaves its machine behind (peer.go:113): in the model,
  and `OneVM` covers it. Authority and cancellation ready together may drop a VM
  (migrations.go:443): the model has the choice, no property says that an
  interrupted receiver keeps it. A second custom event would close `ready` twice
  (409): `TransferOnce` excludes it at the sender. Device groups returned to
  nobody after an error (427, peer.go:342). `MigrateTo` reads `peer.dg` without the
  lock (peer.go:462). More than 12 background errors are dropped (peer.go:312):
  one is enough for what reads them.
- drafter-peer keeps both its connections in one `closer` (main.go:230, 295). A peer
  that sends and receives therefore closes the outgoing one twice and leaves the
  incoming one to the end of the process; and a peer with an incoming connection that
  is interrupted while it listens, or cannot listen, has a nil `closer` then, on which
  the deferred `Close` panics (239). The peer is closed all the same, by the call
  deferred before it: in the model both ways end in "close", and no property depends
  on how main came there.
- Closing a forwarder twice deletes rules twice (forward_ports.go:272).
- NAT: ReleasePair never returns nil (ipmanager.go:118) and is called with a nil
  pair after a failed GetPair (nat.go:201), both in the model as what they lead
  to; when the background goroutine reaches its select only after CreateNAT
  returned it may close everything at once (163), which the model allows and
  `WorksUntilClosed` therefore excludes by its guard; a namespace that could not be
  closed is forgotten (137); Close appends two rules that it ought to delete
  (namespace.go:336), which go with the namespace; ReleaseNamespace does not know
  who claimed (namespaces.go:76).
- Snapshotter: `agent.Close` closes the listener and not the connection, which may
  still be open when the snapshot is taken, although "Connections need to be closed
  before creating the snapshot" (snapshotter.go:248): in the model `remote` may be true
  then, and `TakenInOrder` asks for the listener only. A listener whose owner cannot
  be changed is left open (snapshotter.go:139, 162): `CleanedUp` excepts it. An exit
  of the machine is looked at only at the end, and without waiting (118, 267): the
  model has both. `ResumeTimeout` of the agent's configuration is read by nothing.
- Archive: one pass for all devices (package.go:158). Mock and replay runtimes:
  flags without a lock (mock_runtime.go:53), an error of init ignored
  (replay.go:123).

## 8. Plan

Done, in this order, the most important behaviour first: Handover, DirtyManager;
AgentRPC; FirecrackerMachine; VMContract, FirecrackerRuntime; MovingVM,
Migration; Forwarder; Namespace, NAT; Snapshotter; proofs of the invariants and
refinements of all of them, then of what liveness rests on and of what holds beside the
findings.

What could follow:

1. Proofs: of the agent's callers, how often GetRemote may go round for each connection
   that ends.
2. The mock runtime as a further implementation of `VMContract`, if it is to be
   relied on in tests of the migration.
3. The agent's client, to check the pair of client and server against a connection
   that breaks while both close.
4. AgentRPC with several callers, once GetRemote gives its callers the newest remote.

## 9. Running

    tlc -config Dirty.cfg MCDirtyManager
    tlapm DirtyManagerProofs.tla

A run's module and configuration are in PROJECT.json under `runs`; under `map`,
each definition with the lines of the source it models.
