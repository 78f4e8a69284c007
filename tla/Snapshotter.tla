----------------------------- MODULE Snapshotter -----------------------------
(***************************************************************************)
(* Making a VM package: CreateSnapshot of                                  *)
(* pkg/runtimes/firecracker/snapshotter.go, with the LivenessServer of     *)
(* pkg/ipc/liveness.go and the guest's programs, over the Firecracker      *)
(* process of FirecrackerMachine, whose relay is here the goroutine that   *)
(* sends what Wait returns to serverErr.                                   *)
(*                                                                         *)
(* The state of the guest is the number of times it wrote: a disk is a     *)
(* file that it writes through to, its memory is in a file only once a     *)
(* snapshot is taken.  Of the agent's server, which AgentRPC details, only *)
(* whether it listens and whether a remote can be had is kept.             *)
(***************************************************************************)
EXTENDS FirecrackerMachine, Sequences

CONSTANTS
  Devices,            \* the device names, in the order in which they are copied
  Inputs,             \* those with an input file: the kernel and the disks
  Size,               \* the size of each device's file
  Faults,             \* the stages whose call may fail
  MiB,                \* 1048576
  MaxWrites           \* bound: how often the guest writes

Main == "CreateSnapshot"                \* the caller of Close is its deferred call
Names == {Devices[i] : i \in DOMAIN Devices}
NotTaken == MaxWrites + 1

Stages == {"start", "openLiveness", "chownLiveness", "startAgent", "chownAgent", "copyIn", "boot",
           "receive", "select", "ready", "getRemote", "beforeSuspend", "closeAgent", "pause",
           "snapshot", "config", "copyOut", "serverErr"}
Requests == {"boot", "pause", "snapshot"}           \* to Firecracker's API

ASSUME SnapshotterAssumption ==
  /\ Owners = {Main}
  /\ Devices \in Seq(STRING) /\ Inputs \subseteq Names
  /\ Size \in [Names -> Nat]
  /\ Faults \subseteq Stages
  /\ MiB \in Nat \ {0} /\ MaxWrites \in Nat

VARIABLES
  stage,              \* the call it is at; then "unwind", "closing", "returned"
  result,             \* "none", "nil", or the stage whose error is returned
  deferred,           \* the deferred calls, the next to run first
  directory,          \* the VM's directory: "present" or "removed"
  files,              \* the devices with a file in it
  liveness,           \* the liveness listener: "none", "open", "closed"
  accept,             \* its Accept: "none", "wait", "conn", "closed", "failed"
  agent,              \* the agent's listener: "none", "open", "closed"
  ping,               \* the guest's one ping: "none", "queued", "refused"
  remote,             \* the guest's agent is connected and its remote can be had
  vm,                 \* "off", "running", "paused"
  written,            \* how often the guest wrote
  prepared,           \* the guest ran its before-suspend command
  taken,              \* what written was when the snapshot was taken, or NotTaken
  next,               \* the index of the device that is copied out next
  output              \* each device's output, of kind "before", "partial" or "copy"

control == <<stage, result, deferred>>
sockets == <<liveness, accept, agent>>
guest == <<ping, remote, vm, written, prepared>>
package == <<taken, next, output>>
ownVars == <<control, directory, files, sockets, guest, package>>
allVars == <<vars, ownVars>>

\* What an output is when it holds no copy of the device.
NoCopy(kind) == [kind |-> kind, version |-> 0, length |-> 0]

SInit ==
  /\ Init
  /\ stage = "start" /\ result = "none" /\ deferred = <<>>
  /\ directory = "present" /\ files = {}
  /\ liveness = "none" /\ accept = "none" /\ agent = "none"
  /\ ping = "none" /\ remote = FALSE /\ vm = "off" /\ written = 0 /\ prepared = FALSE
  /\ taken = NotTaken /\ next = 1 /\ output = [d \in Names |-> NoCopy("before")]

-----------------------------------------------------------------------------
\* From one call to the next, and out.

At(s) == ~panicked /\ stage = s

Go(from, to) == At(from) /\ stage' = to /\ UNCHANGED <<vars, result>>

\* A step that only gets further; one that defers calls too.
Pass(from, to) == Go(from, to) /\ UNCHANGED <<deferred, directory, files, sockets, guest, package>>

Deferring(from, to, calls) ==
  Go(from, to) /\ deferred' = calls /\ UNCHANGED <<directory, files, sockets, guest, package>>

Return(err) == stage' = "unwind" /\ result' = err /\ UNCHANGED <<vars, deferred>>

\* The deferred calls once the server runs, once the liveness socket is there, and
\* once the agent's is.
ServerDeferred == <<"closeServer", "removeDirectory">>
LivenessDeferred == <<"closeLiveness", "closeServer", "removeDirectory">>
AgentDeferred == <<"closeAgent", "closeLiveness", "closeServer", "removeDirectory">>

\* Firecracker answers a request while it runs and ctx is not done.
Answers == process = "running" /\ ~ctxDone

\* Mutant: GetRemote is called with ctx itself.
TimedCallOnly == {"beforeSuspend"}

\* Contexts with a timeout bound GetRemote and BeforeSuspend.
Timed == {"getRemote", "beforeSuspend"}

\* A call returns an error, and has changed nothing that outlives it.
Fail(s) ==
  /\ At(s)
  /\ \/ s \in Faults
     \/ s \in Requests /\ ~Answers
     \/ s \in Timed
  /\ Return(s)
  /\ UNCHANGED <<directory, files, sockets, guest, package>>

Failing == {"openLiveness", "chownLiveness", "startAgent", "chownAgent", "copyIn", "ready",
            "config"} \cup Requests \cup Timed

-----------------------------------------------------------------------------
\* The process starts; without a server nothing has been deferred yet.

Started == starter = "server" /\ Deferring("start", "openLiveness", ServerDeferred)

StartFails ==
  /\ At("start")
  /\ starter = "error"
  /\ stage' = "returned" /\ result' = "start"
  /\ UNCHANGED <<vars, deferred, directory, files, sockets, guest, package>>

\* Neither a server nor an error: the server is used all the same.
StartGivesNothing ==
  /\ At("start")
  /\ starter = "nilnil"
  /\ panicked' = TRUE
  /\ UNCHANGED <<process, exit, ctxDone, closed, closeKilled, waiter, cmdErrCh, starter,
                 closer, closeErr, relay, relayed, ownVars>>

\* The sockets that the guest's programs will connect to.
OpenLiveness ==
  /\ Go("openLiveness", "chownLiveness")
  /\ liveness' = "open"
  /\ UNCHANGED <<deferred, directory, files, accept, agent, guest, package>>

ChownLiveness == Deferring("chownLiveness", "startAgent", LivenessDeferred)

StartAgent ==
  /\ Go("startAgent", "chownAgent")
  /\ agent' = "open"
  /\ UNCHANGED <<deferred, directory, files, liveness, accept, guest, package>>

\* Mutant: the agent's listener is not deferred.
ChownAgentOnly == Pass("chownAgent", "copyIn")

ChownAgent == Deferring("chownAgent", "copyIn", AgentDeferred)

\* The inputs are copied to the VM's directory and the VM is configured and started.
CopyIn ==
  /\ Go("copyIn", "boot")
  /\ files' = Inputs
  /\ UNCHANGED <<deferred, directory, sockets, guest, package>>

StartVM ==
  /\ Answers
  /\ Go("boot", "receive")
  /\ vm' = "running"
  /\ UNCHANGED <<deferred, directory, files, sockets, ping, remote, written, prepared, package>>

-----------------------------------------------------------------------------
\* ReceiveAndClose: a goroutine accepts; the caller waits for it, or for its timeout.

Receive ==
  /\ Go("receive", "select")
  /\ accept' = "wait"
  /\ UNCHANGED <<deferred, directory, files, liveness, agent, guest, package>>

Accept ==
  /\ ~panicked
  /\ accept = "wait"
  /\ \/ liveness = "open" /\ ping = "queued" /\ accept' = "conn"
     \/ liveness = "closed" /\ accept' = "closed"
     \/ "select" \in Faults /\ accept' = "failed"
  /\ UNCHANGED <<vars, control, directory, files, liveness, agent, guest, package>>

\* Mutant: the end of the context is no error either.
ReceivedOrTimedOut ==
  /\ Go("select", "ready")
  /\ liveness' = "closed"
  /\ UNCHANGED <<deferred, directory, files, accept, agent, guest, package>>

\* A listener that was closed by its owner is no error.
Received ==
  /\ accept = "conn" \/ (accept = "closed" /\ liveness = "closed")
  /\ Go("select", "ready")
  /\ liveness' = "closed"
  /\ UNCHANGED <<deferred, directory, files, accept, agent, guest, package>>

\* The timeout passes or ctx is done, or Accept failed.
NotReceived ==
  /\ At("select")
  /\ Return("select")
  /\ liveness' = "closed"
  /\ UNCHANGED <<directory, files, accept, agent, guest, package>>

-----------------------------------------------------------------------------
\* The guest is prepared, and paused for its snapshot.

Ready == Pass("ready", "getRemote")

GetRemote == remote /\ Pass("getRemote", "beforeSuspend")

BeforeSuspend ==
  /\ remote /\ process = "running"
  /\ Go("beforeSuspend", "closeAgent")
  /\ prepared' = TRUE
  /\ UNCHANGED <<deferred, directory, files, sockets, ping, remote, vm, written, package>>

\* The listener is closed; the connection ends later.
CloseAgent ==
  /\ Go("closeAgent", "pause")
  /\ agent' = "closed"
  /\ UNCHANGED <<deferred, directory, files, liveness, accept, guest, package>>

\* Mutant: the VM is not paused, as for a snapshot of type Msync.
PauseNot == Answers /\ Pass("pause", "snapshot")

Pause ==
  /\ Answers
  /\ Go("pause", "snapshot")
  /\ vm' = "paused"
  /\ UNCHANGED <<deferred, directory, files, sockets, ping, remote, written, prepared, package>>

TakeSnapshot ==
  /\ Answers
  /\ Go("snapshot", "config")
  /\ taken' = written
  /\ files' = files \cup {"state", "memory"}
  /\ UNCHANGED <<deferred, directory, sockets, guest, next, output>>

WriteConfig ==
  /\ Go("config", "copyOut")
  /\ files' = files \cup {"config"}
  /\ UNCHANGED <<deferred, directory, sockets, guest, package>>

-----------------------------------------------------------------------------
\* The files are copied out one by one, each padded to a multiple of 1 MiB.

\* Mutant: only what is missing to a multiple.
PaddingToMultiple(size) == MiB - (size % MiB)

Padding(size) ==
  LET rest == MiB - (size % MiB) IN IF rest < MiB THEN rest + MiB ELSE rest

Version(d) == IF d \in Inputs THEN written ELSE taken

Copy(d) == [kind |-> "copy", version |-> Version(d), length |-> Size[d] + Padding(Size[d])]

CopyOut ==
  /\ next \in DOMAIN Devices
  /\ Devices[next] \in files
  /\ Go("copyOut", "copyOut")
  /\ output' = [output EXCEPT ![Devices[next]] = Copy(Devices[next])]
  /\ next' = next + 1
  /\ UNCHANGED <<deferred, directory, files, sockets, guest, taken>>

\* An output is left as it was, or truncated and perhaps partly written.
CopyOutFails ==
  /\ At("copyOut")
  /\ next \in DOMAIN Devices
  /\ "copyOut" \in Faults \/ Devices[next] \notin files
  /\ \E left \in {output[Devices[next]], NoCopy("partial")} :
       output' = [output EXCEPT ![Devices[next]] = left]
  /\ Return("copyOut")
  /\ UNCHANGED <<directory, files, sockets, guest, taken, next>>

CopiedOut == next \notin DOMAIN Devices /\ Pass("copyOut", "serverErr")

\* What the process ended with so far, without waiting for it.
CheckServer ==
  /\ At("serverErr")
  /\ Return(IF relayed = "nothing" THEN "nil" ELSE "serverErr")
  /\ UNCHANGED <<directory, files, sockets, guest, package>>

-----------------------------------------------------------------------------
\* The deferred calls.

Pop(call) ==
  /\ At("unwind")
  /\ deferred # <<>> /\ Head(deferred) = call
  /\ deferred' = Tail(deferred)

CloseSockets ==
  \/ /\ Pop("closeAgent")
     /\ agent' = "closed"
     /\ UNCHANGED <<vars, stage, result, directory, files, liveness, accept, guest, package>>
  \/ /\ Pop("closeLiveness")
     /\ liveness' = "closed"
     /\ UNCHANGED <<vars, stage, result, directory, files, accept, agent, guest, package>>

CloseServer ==
  /\ Pop("closeServer")
  /\ CloseCall(Main)
  /\ stage' = "closing"
  /\ UNCHANGED <<result, directory, files, sockets, guest, package>>

\* Mutant: the process is killed and not waited for.
ServerKilled == closer[Main] \in {"wait", "returned"} /\ Pass("closing", "unwind")

ServerClosed == closer[Main] = "returned" /\ Pass("closing", "unwind")

RemoveDirectory ==
  /\ Pop("removeDirectory")
  /\ directory' = "removed" /\ files' = {}
  /\ UNCHANGED <<vars, stage, result, sockets, guest, package>>

Returned == deferred = <<>> /\ Pass("unwind", "returned")

-----------------------------------------------------------------------------
\* The guest: drafter-liveness pings once, drafter-agent keeps connecting, and
\* whatever else runs writes.

GuestRuns == ~panicked /\ vm = "running" /\ process = "running"

Ping ==
  /\ GuestRuns
  /\ ping = "none"
  /\ ping' = IF liveness = "open" THEN "queued" ELSE "refused"
  /\ UNCHANGED <<vars, control, directory, files, sockets, remote, vm, written, prepared, package>>

Connect ==
  /\ GuestRuns
  /\ agent = "open" /\ ~remote
  /\ remote' = TRUE
  /\ UNCHANGED <<vars, control, directory, files, sockets, ping, vm, written, prepared, package>>

Disconnect ==
  /\ ~panicked
  /\ remote
  /\ remote' = FALSE
  /\ UNCHANGED <<vars, control, directory, files, sockets, ping, vm, written, prepared, package>>

Write ==
  /\ GuestRuns
  /\ written < MaxWrites
  /\ written' = written + 1
  /\ UNCHANGED <<vars, control, directory, files, sockets, ping, remote, vm, prepared, package>>

-----------------------------------------------------------------------------
\* Every step of the machine but the call of Close, which is CloseServer.
ProcessStep ==
  /\ \/ ExitItself \/ CancelCtx \/ CommandContextKill
     \/ Reap \/ ReportExit
     \/ SocketReady \/ StartTimeout \/ StartExited
     \/ CloseCall(CtxWatcher)
     \/ \E c \in Closers : CloseKill(c) \/ CloseWait(c)
     \/ WaitReaped \/ Relay
  /\ UNCHANGED ownVars

CreateSnapshot ==
  \/ Started \/ StartFails \/ StartGivesNothing
  \/ OpenLiveness \/ ChownLiveness \/ StartAgent \/ ChownAgent \/ CopyIn \/ StartVM
  \/ Receive \/ Received \/ NotReceived
  \/ Ready \/ GetRemote \/ BeforeSuspend \/ CloseAgent
  \/ Pause \/ TakeSnapshot \/ WriteConfig
  \/ CopyOut \/ CopyOutFails \/ CopiedOut \/ CheckServer
  \/ CloseSockets \/ CloseServer \/ ServerClosed \/ RemoveDirectory \/ Returned
  \/ \E s \in Failing : Fail(s)

Guest == Ping \/ Connect \/ Disconnect \/ Write

SNext == CreateSnapshot \/ Accept \/ Guest \/ ProcessStep

SSpec == SInit /\ [][SNext]_allVars

\* CreateSnapshot and its goroutines run, and its timeouts pass.  Nothing makes
\* the guest do anything, or the process exit.
SFairness ==
  /\ WF_allVars(CreateSnapshot) /\ WF_allVars(Accept)
  /\ Fairness

SFairSpec == SSpec /\ SFairness

-----------------------------------------------------------------------------
Outputs == [kind : {"before", "partial", "copy"}, version : 0..NotTaken, length : Nat]

STypeOK ==
  /\ stage \in Stages \cup {"unwind", "closing", "returned"}
  /\ result \in Stages \cup {"none", "nil"}
  /\ deferred \in {AgentDeferred, LivenessDeferred, ServerDeferred, <<"removeDirectory">>, <<>>}
  /\ directory \in {"present", "removed"}
  /\ files \subseteq Names \cup {"state", "memory", "config"}
  /\ liveness \in {"none", "open", "closed"} /\ agent \in {"none", "open", "closed"}
  /\ accept \in {"none", "wait", "conn", "closed", "failed"}
  /\ ping \in {"none", "queued", "refused"} /\ vm \in {"off", "running", "paused"}
  /\ remote \in BOOLEAN /\ prepared \in BOOLEAN
  /\ written \in 0..MaxWrites /\ taken \in 0..NotTaken
  /\ next \in Nat \ {0} /\ output \in [Names -> Outputs]

Copied(d) == output[d].kind = "copy"

Out == {"unwind", "closing", "returned"}

\* The stages from each milestone on.
Copying == {"copyOut", "serverErr"}
Snapped == {"config"} \cup Copying
Paused == {"snapshot"} \cup Snapped
Alone == {"pause"} \cup Paused                    \* the agent's listener is closed
Suspended == {"closeAgent"} \cup Alone
Pinged == {"ready", "getRemote", "beforeSuspend"} \cup Suspended
Serving == {"copyIn", "boot", "receive", "select"} \cup Pinged

\* Each milestone's effect is there from its stage on.
Milestones ==
  /\ stage \in {"start", "openLiveness"} => liveness = "none"
  /\ stage \in {"chownLiveness", "startAgent", "chownAgent", "copyIn", "boot", "receive", "select"}
       => liveness = "open"
  /\ stage \in Pinged => accept = "conn" /\ liveness = "closed"
  /\ stage \in {"start", "openLiveness", "chownLiveness", "startAgent"} => agent = "none"
  /\ stage \in Suspended => prepared
  /\ stage \in Alone => agent = "closed"
  /\ stage \in Paused => vm = "paused"
  /\ stage \in Snapped => taken # NotTaken
  /\ stage \notin Snapped \cup Out => taken = NotTaken
  /\ taken # NotTaken => vm = "paused" /\ written = taken

\* What has been copied out so far.
Progress ==
  /\ result = "none" <=> stage \notin Out
  /\ next <= Len(Devices) + 1
  /\ result = "none" => \A i \in 1 .. next - 1 : output[Devices[i]].kind = "copy"
  /\ stage = "serverErr" => next \notin DOMAIN Devices

\* What is deferred, and what is left of it on the way out.
Unwinding ==
  /\ result = "start" => /\ stage = "returned" /\ starter = "error"
                         /\ liveness = "none" /\ agent = "none"
  /\ stage # "start" /\ result # "start" => starter = "server"
  /\ stage \in {"start", "returned"} => deferred = <<>>
  /\ stage \in {"openLiveness", "chownLiveness"} => deferred = ServerDeferred
  /\ stage \in {"startAgent", "chownAgent"} => deferred = LivenessDeferred
  /\ stage \in Serving => deferred = AgentDeferred
  /\ stage = "closing" => deferred = <<"removeDirectory">>
  /\ agent = "open" => deferred = AgentDeferred \/ "chownAgent" \in {stage, result}
  /\ liveness = "open" =>
        deferred \in {AgentDeferred, LivenessDeferred} \/ "chownLiveness" \in {stage, result}
  /\ stage \in {"unwind", "returned"} /\ result # "start"
        /\ deferred \in {<<"removeDirectory">>, <<>>} => process = "reaped"
  /\ stage \in {"unwind", "returned"} /\ result # "start" /\ deferred = <<>>
        => directory = "removed"

\* A package is one point in time: whatever was copied out, by a call that failed
\* later too, is what the VM's files were at its snapshot, with at least 1 MiB of
\* padding up to a multiple of 1 MiB; success means that the guest had run its
\* before-suspend command and that no device is missing (snapshotter.go:249-359).
Consistent ==
  /\ \A d \in Names :
       Copied(d) => /\ taken # NotTaken /\ output[d].version = taken
                    /\ output[d].length >= Size[d] + MiB
                    /\ output[d].length % MiB = 0
  /\ result = "nil" => prepared /\ taken # NotTaken /\ \A d \in Names : Copied(d)

\* What the steps keep true of how far CreateSnapshot has come, from which
\* Consistent and CleanedUp follow; and the program panics only on a process that
\* gave no error: one that exited with status 0, or that ended before its socket
\* was there (snapshotter.go:87-274, machine.go:182, 225, 283).
SnapshotterInv ==
  /\ STypeOK
  /\ Milestones
  /\ Progress
  /\ Unwinding
  /\ Consistent
  /\ panicked => starter = "nilnil" \/ (process = "reaped" /\ exit = "ok")

\* However CreateSnapshot returns with a server started, the process has been
\* waited for and its directory removed; and no listener is left, except that of
\* a socket whose owner could not be changed, which is not yet deferred
\* (snapshotter.go:115-175).
CleanedUp ==
  stage = "returned" =>
     /\ starter = "server" => process = "reaped" /\ directory = "removed"
     /\ liveness = "open" => result = "chownLiveness"
     /\ agent = "open" => result = "chownAgent"

\* What CreateSnapshot does with the Firecracker process is what FirecrackerMachine
\* allows, its one Close and the goroutines included, until it goes on without a
\* server (snapshotter.go:99-141).
RunsMachine == Init /\ [][Next \/ StartGivesNothing]_vars

\* The snapshot is one of a guest that pinged and was prepared, that is paused,
\* and that nothing can connect from any more (snapshotter.go:201-252).
TakenInOrder ==
  [][taken' # taken => /\ accept = "conn" /\ prepared /\ vm = "paused"
                       /\ liveness = "closed" /\ agent = "closed"]_allVars

\* CreateSnapshot returns, whatever the guest and the process do or fail to do,
\* unless the program panics on a process that gave no error.
ReturnsOrPanics == <>(stage = "returned" \/ panicked)

=============================================================================
