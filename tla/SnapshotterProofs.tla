-------------------------- MODULE SnapshotterProofs --------------------------
(***************************************************************************)
(* Proofs about Snapshotter, for any devices of any sizes, any calls that  *)
(* may fail, and any number of writes by the guest.                        *)
(***************************************************************************)
EXTENDS Snapshotter, FirecrackerMachineProofs

\* A size less its rest, and once or twice the modulus more, is a multiple.
LEMMA Multiples ==
  ASSUME NEW size \in Nat, NEW m \in Nat \ {0}
  PROVE  /\ size % m \in 0 .. m - 1
         /\ (size + m - (size % m)) % m = 0
         /\ (size + m - (size % m) + m) % m = 0
<1> DEFINE k == size \div m
<1>1. k \in Nat /\ size % m \in 0 .. m - 1
  BY SMT
<1>2. size - (size % m) = m * k
  BY SMT
<1> HIDE DEF k
<1>3. m * k + m = m * (k + 1) /\ m * k + m + m = m * (k + 2)
  BY <1>1, SMT
<1>4. \A i \in Nat : (m * i) % m = 0
  BY SMT
<1>5. (m * (k + 1)) % m = 0 /\ (m * (k + 2)) % m = 0
  <2>1. k + 1 \in Nat /\ k + 2 \in Nat
    BY <1>1, SMT
  <2> QED
    BY <2>1, <1>4
<1> QED
  BY <1>1, <1>2, <1>3, <1>5, SMT

\* The padding leaves room and fills up to a multiple.
THEOREM PaddingWorks ==
  ASSUME NEW size \in Nat
  PROVE  /\ Padding(size) \in Nat /\ Padding(size) >= MiB
         /\ (size + Padding(size)) % MiB = 0
<1>1. MiB \in Nat \ {0}
  BY SnapshotterAssumption
<1> DEFINE rest == MiB - (size % MiB)
<1>2. /\ size % MiB \in 0 .. MiB - 1
      /\ (size + MiB - (size % MiB)) % MiB = 0
      /\ (size + MiB - (size % MiB) + MiB) % MiB = 0
  BY <1>1, Multiples
<1>3. CASE rest < MiB
  <2>1. Padding(size) = rest + MiB
    BY <1>3 DEF Padding
  <2> QED
    BY <1>1, <1>2, <2>1, SMT
<1>4. CASE ~(rest < MiB)
  <2>1. Padding(size) = rest
    BY <1>4 DEF Padding
  <2> QED
    BY <1>1, <1>2, <1>4, <2>1, SMT
<1>5. size % MiB \in Nat
  BY <1>1, <1>2, SMT
<1> QED
  BY <1>3, <1>4

\* What is left of the deferred calls once the next has run.
LEMMA Deferred ==
  /\ Head(AgentDeferred) = "closeAgent" /\ Tail(AgentDeferred) = LivenessDeferred
  /\ Head(LivenessDeferred) = "closeLiveness" /\ Tail(LivenessDeferred) = ServerDeferred
  /\ Head(ServerDeferred) = "closeServer" /\ Tail(ServerDeferred) = <<"removeDirectory">>
  /\ Head(<<"removeDirectory">>) = "removeDirectory" /\ Tail(<<"removeDirectory">>) = <<>>
  BY SMT DEF AgentDeferred, LivenessDeferred, ServerDeferred

\* The lists of deferred calls are different ones.
LEMMA DeferredDiffer ==
  /\ AgentDeferred # LivenessDeferred /\ AgentDeferred # ServerDeferred
  /\ AgentDeferred # <<"removeDirectory">> /\ AgentDeferred # <<>>
  /\ LivenessDeferred # ServerDeferred
  /\ LivenessDeferred # <<"removeDirectory">> /\ LivenessDeferred # <<>>
  /\ ServerDeferred # <<"removeDirectory">> /\ ServerDeferred # <<>>
  /\ <<"removeDirectory">> # <<>>
  BY SMT DEF AgentDeferred, LivenessDeferred, ServerDeferred

\* A device's name is one of Names.
LEMMA DeviceNames ==
  ASSUME NEW i \in DOMAIN Devices
  PROVE  Devices[i] \in Names /\ i \in 1 .. Len(Devices)
  BY SnapshotterAssumption DEF Names

\* Every step keeps the variables in their types.
LEMMA STypeStep ==
  STypeOK /\ [SNext]_allVars => STypeOK'
<1> SUFFICES ASSUME STypeOK, [SNext]_allVars
             PROVE  STypeOK'
  OBVIOUS
<1> USE SnapshotterAssumption DEF At, Go, Pass, Deferring, Return, Pop,
      vars, ownVars, control, sockets, guest, package,
      STypeOK, Stages, Outputs, NotTaken
<1>1. CASE Started
  BY <1>1 DEF Started
<1>2. CASE StartFails
  BY <1>2 DEF StartFails
<1>3. CASE StartGivesNothing
  BY <1>3 DEF StartGivesNothing
<1>4. CASE OpenLiveness
  BY <1>4 DEF OpenLiveness
<1>5. CASE ChownLiveness
  BY <1>5 DEF ChownLiveness
<1>6. CASE StartAgent
  BY <1>6 DEF StartAgent
<1>7. CASE ChownAgent
  BY <1>7 DEF ChownAgent
<1>8. CASE CopyIn
  BY <1>8 DEF CopyIn
<1>9. CASE StartVM
  BY <1>9 DEF StartVM
<1>10. CASE Receive
  BY <1>10 DEF Receive
<1>11. CASE Received
  BY <1>11 DEF Received
<1>12. CASE NotReceived
  BY <1>12 DEF NotReceived
<1>13. CASE Ready
  BY <1>13 DEF Ready
<1>14. CASE GetRemote
  BY <1>14 DEF GetRemote
<1>15. CASE BeforeSuspend
  BY <1>15 DEF BeforeSuspend
<1>16. CASE CloseAgent
  BY <1>16 DEF CloseAgent
<1>17. CASE Pause
  BY <1>17 DEF Pause
<1>18. CASE TakeSnapshot
  BY <1>18 DEF TakeSnapshot
<1>19. CASE WriteConfig
  BY <1>19 DEF WriteConfig
<1>20. CASE CopyOut
  <2>1. Devices[next] \in Names
    BY <1>20, DeviceNames DEF CopyOut
  <2>2. Size[Devices[next]] \in Nat
    BY <2>1
  <2>3. Padding(Size[Devices[next]]) \in Nat
    BY <2>2, PaddingWorks
  <2>4. Size[Devices[next]] + Padding(Size[Devices[next]]) \in Nat
    BY <2>2, <2>3, SMT
  <2>0. written \in 0 .. NotTaken /\ taken \in 0 .. NotTaken
    BY SMT
  <2>5. Version(Devices[next]) \in 0 .. NotTaken
    BY <2>0, Zenon DEF Version
  <2>6. Copy(Devices[next]) \in Outputs
    BY <2>4, <2>5 DEF Copy
  <2>7. output' \in [Names -> Outputs]
    BY <1>20, <2>1, <2>6 DEF CopyOut
  <2>8. next' \in Nat \ {0}
    BY <1>20, SMT DEF CopyOut
  <2> QED
    BY <1>20, <2>7, <2>8 DEF CopyOut
<1>21. CASE CopyOutFails
  <2>1. Devices[next] \in Names
    BY <1>21, DeviceNames DEF CopyOutFails
  <2>2. NoCopy("partial") \in Outputs
    BY SMT DEF NoCopy
  <2>3. output' \in [Names -> Outputs]
    BY <1>21, <2>1, <2>2 DEF CopyOutFails
  <2> QED
    BY <1>21, <2>3 DEF CopyOutFails
<1>22. CASE CopiedOut
  BY <1>22 DEF CopiedOut
<1>23. CASE CheckServer
  BY <1>23 DEF CheckServer
<1>24. CASE CloseSockets
  <2>1. deferred' \in {LivenessDeferred, ServerDeferred, <<"removeDirectory">>, <<>>}
    BY <1>24, Deferred DEF CloseSockets
  <2> QED
    BY <1>24, <2>1 DEF CloseSockets
<1>25. CASE CloseServer
  <2>1. deferred' \in {LivenessDeferred, ServerDeferred, <<"removeDirectory">>, <<>>}
    BY <1>25, Deferred DEF CloseServer
  <2> QED
    BY <1>25, <2>1 DEF CloseServer, CloseCall
<1>26. CASE ServerClosed
  BY <1>26 DEF ServerClosed
<1>27. CASE RemoveDirectory
  <2>1. deferred' \in {LivenessDeferred, ServerDeferred, <<"removeDirectory">>, <<>>}
    BY <1>27, Deferred DEF RemoveDirectory
  <2> QED
    BY <1>27, <2>1 DEF RemoveDirectory
<1>28. CASE Returned
  BY <1>28 DEF Returned
<1>29. CASE Accept
  BY <1>29 DEF Accept
<1>30. CASE Ping
  BY <1>30 DEF Ping, GuestRuns
<1>31. CASE Connect
  BY <1>31 DEF Connect, GuestRuns
<1>32. CASE Disconnect
  <2>1. remote' \in BOOLEAN
    BY <1>32 DEF Disconnect
  <2> QED
    BY <1>32, <2>1 DEF Disconnect
<1>33. CASE Write
  BY <1>33 DEF Write, GuestRuns
<1>34. ASSUME NEW s \in Failing, Fail(s) PROVE STypeOK'
  BY <1>34 DEF Fail, Failing, Requests, Timed
<1>35. CASE ProcessStep
  BY <1>35 DEF ProcessStep
<1>36. CASE UNCHANGED allVars
  BY <1>36 DEF allVars
<1> QED
  BY <1>1, <1>2, <1>3, <1>4, <1>5, <1>6, <1>7, <1>8, <1>9, <1>10, <1>11, <1>12, <1>13,
     <1>14, <1>15, <1>16, <1>17, <1>18, <1>19, <1>20, <1>21, <1>22, <1>23, <1>24, <1>25,
     <1>26, <1>27, <1>28, <1>29, <1>30, <1>31, <1>32, <1>33, <1>34, <1>35, <1>36 DEF
     SNext, CreateSnapshot, Guest

\* Every step is one of the machine, or leaves it alone, or goes on without a server.
LEMMA MachineSteps == [SNext]_allVars => [Next \/ StartGivesNothing]_vars
<1> SUFFICES ASSUME [SNext]_allVars PROVE [Next \/ StartGivesNothing]_vars
  OBVIOUS
<1>1. CASE CloseServer
  <2>1. Main \in Closers
    BY SnapshotterAssumption DEF Closers
  <2> QED
    BY <1>1, <2>1 DEF CloseServer, Next
<1>2. CASE ProcessStep
  <2>1. CtxWatcher \in Closers
    BY DEF Closers
  <2> QED
    BY <1>2, <2>1 DEF ProcessStep, Next
<1>3. CASE CreateSnapshot /\ ~CloseServer
  BY <1>3 DEF CreateSnapshot, Started, StartFails, OpenLiveness, ChownLiveness,
     StartAgent, ChownAgent, CopyIn, StartVM, Receive, Received, NotReceived, Ready, GetRemote,
     BeforeSuspend, CloseAgent, Pause, TakeSnapshot, WriteConfig, CopyOut, CopyOutFails,
     CopiedOut, CheckServer, CloseSockets, ServerClosed, RemoveDirectory, Returned, Fail,
     At, Go, Pass, Deferring, Return, Pop
<1>4. CASE Accept \/ Guest
  BY <1>4 DEF Accept, Guest, Ping, Connect, Disconnect, Write
<1>5. CASE UNCHANGED allVars
  BY <1>5 DEF allVars
<1> QED
  BY <1>1, <1>2, <1>3, <1>4, <1>5 DEF SNext

\* So every step keeps what FirecrackerMachine's steps keep.
LEMMA MachineKept == MachineInv /\ [SNext]_allVars => MachineInv'
<1>1. MachineInv /\ StartGivesNothing => MachineInv'
  BY DEF StartGivesNothing, MachineInv, TypeOK, ClosedIsGone, ReportsAgree, OwnKillIsNoError, NoWaitBeforeKill,
     NilErrorInv, KilledByUs
<1> QED
  BY <1>1, MachineSteps, MachineStep

\* What the steps of the process keep: a process that was waited for stays so, and
\* what its start gave; and a panic is on a process that gave no error.
LEMMA ProcessFacts ==
  ASSUME MachineInv, ProcessStep
  PROVE  /\ process = "reaped" => process' = "reaped"
         /\ starter # "starting" => starter' = starter
         /\ panicked' => process' = "reaped" /\ exit' = "ok"
<1> USE DEF MachineInv
<1>1. CASE ExitItself
  BY <1>1 DEF ExitItself
<1>2. CASE CancelCtx
  BY <1>2 DEF CancelCtx
<1>3. CASE CommandContextKill
  BY <1>3 DEF CommandContextKill
<1>4. CASE Reap
  BY <1>4 DEF Reap
<1>5. CASE ReportExit
  BY <1>5 DEF ReportExit
<1>6. CASE SocketReady
  BY <1>6 DEF SocketReady
<1>7. CASE StartTimeout
  BY <1>7 DEF StartTimeout
<1>8. CASE StartExited
  BY <1>8 DEF StartExited
<1>9. ASSUME NEW c \in Closers, CloseCall(c) \/ CloseKill(c) \/ CloseWait(c)
      PROVE  /\ process = "reaped" => process' = "reaped"
             /\ starter # "starting" => starter' = starter
             /\ panicked' => process' = "reaped" /\ exit' = "ok"
  <2>1. CASE CloseCall(c)
    BY <2>1 DEF CloseCall
  <2>2. CASE CloseKill(c)
    BY <2>2 DEF CloseKill
  <2>3. CASE CloseWait(c)
    <3>1. process' = process /\ exit' = exit /\ starter' = starter /\ process = "reaped"
      BY <2>3 DEF CloseWait
    <3>2. panicked' => exit = "ok"
      BY <2>3, Zenon DEF CloseWait
    <3> QED
      BY <3>1, <3>2
  <2> QED
    BY <1>9, <2>1, <2>2, <2>3
<1>10. CASE WaitReaped
  BY <1>10 DEF WaitReaped
<1>11. CASE Relay
  BY <1>11 DEF Relay
<1>12. CtxWatcher \in Closers
  BY DEF Closers
<1> QED
  BY <1>1, <1>2, <1>3, <1>4, <1>5, <1>6, <1>7, <1>8, <1>9, <1>10, <1>11, <1>12 DEF ProcessStep

\* Every step keeps the effects of the milestones passed.
LEMMA MilestonesStep ==
  STypeOK /\ Milestones /\ [SNext]_allVars => Milestones'
<1> SUFFICES ASSUME STypeOK /\ Milestones, [SNext]_allVars
             PROVE  Milestones'
  OBVIOUS
<1> USE SnapshotterAssumption DEF At, Go, Pass, Deferring, Return, Pop,
      vars, ownVars, control, sockets, guest, package,
      Milestones, Stages, Out, Copying, Snapped, Paused, Alone, Suspended, Pinged, Serving
<1>1. CASE Started
  BY <1>1 DEF Started
<1>2. CASE StartFails
  BY <1>2 DEF StartFails
<1>3. CASE StartGivesNothing
  BY <1>3 DEF StartGivesNothing
<1>4. CASE OpenLiveness
  BY <1>4 DEF OpenLiveness
<1>5. CASE ChownLiveness
  BY <1>5 DEF ChownLiveness
<1>6. CASE StartAgent
  BY <1>6 DEF StartAgent
<1>7. CASE ChownAgent
  BY <1>7 DEF ChownAgent
<1>8. CASE CopyIn
  BY <1>8 DEF CopyIn
<1>9. CASE StartVM
  BY <1>9 DEF StartVM
<1>10. CASE Receive
  BY <1>10 DEF Receive
<1>11. CASE Received
  BY <1>11 DEF Received
<1>12. CASE NotReceived
  BY <1>12 DEF NotReceived
<1>13. CASE Ready
  BY <1>13 DEF Ready
<1>14. CASE GetRemote
  BY <1>14 DEF GetRemote
<1>15. CASE BeforeSuspend
  BY <1>15 DEF BeforeSuspend
<1>16. CASE CloseAgent
  BY <1>16 DEF CloseAgent
<1>17. CASE Pause
  BY <1>17 DEF Pause
<1>18. CASE TakeSnapshot
  <2>1. written # NotTaken
    BY SMT DEF STypeOK, NotTaken
  <2> QED
    BY <1>18, <2>1 DEF TakeSnapshot
<1>19. CASE WriteConfig
  BY <1>19 DEF WriteConfig
<1>20. CASE CopyOut
  BY <1>20 DEF CopyOut, Copy, Version, NoCopy
<1>21. CASE CopyOutFails
  BY <1>21 DEF CopyOutFails, NoCopy
<1>22. CASE CopiedOut
  BY <1>22 DEF CopiedOut
<1>23. CASE CheckServer
  BY <1>23 DEF CheckServer
<1>24. CASE CloseSockets
  BY <1>24 DEF CloseSockets
<1>25. CASE CloseServer
  BY <1>25 DEF CloseServer, CloseCall
<1>26. CASE ServerClosed
  BY <1>26 DEF ServerClosed
<1>27. CASE RemoveDirectory
  BY <1>27 DEF RemoveDirectory
<1>28. CASE Returned
  BY <1>28 DEF Returned
<1>29. CASE Accept
  BY <1>29 DEF Accept
<1>30. CASE Ping
  BY <1>30 DEF Ping, GuestRuns
<1>31. CASE Connect
  BY <1>31 DEF Connect, GuestRuns
<1>32. CASE Disconnect
  BY <1>32 DEF Disconnect
<1>33. CASE Write
  BY <1>33 DEF Write, GuestRuns
<1>34. ASSUME NEW s \in Failing, Fail(s) PROVE Milestones'
  BY <1>34 DEF Fail, Failing, Requests, Timed
<1>35. CASE ProcessStep
  BY <1>35 DEF ProcessStep
<1>36. CASE UNCHANGED allVars
  BY <1>36 DEF allVars
<1> QED
  BY <1>1, <1>2, <1>3, <1>4, <1>5, <1>6, <1>7, <1>8, <1>9, <1>10, <1>11, <1>12, <1>13,
     <1>14, <1>15, <1>16, <1>17, <1>18, <1>19, <1>20, <1>21, <1>22, <1>23, <1>24, <1>25,
     <1>26, <1>27, <1>28, <1>29, <1>30, <1>31, <1>32, <1>33, <1>34, <1>35, <1>36 DEF
     SNext, CreateSnapshot, Guest

\* Every step keeps the account of what has been copied out.
LEMMA ProgressStep ==
  STypeOK /\ Progress /\ [SNext]_allVars => Progress'
<1> SUFFICES ASSUME STypeOK /\ Progress, [SNext]_allVars
             PROVE  Progress'
  OBVIOUS
<1> USE SnapshotterAssumption DEF At, Go, Pass, Deferring, Return, Pop,
      vars, ownVars, control, sockets, guest, package,
      Progress, Stages, Out, Copying, Snapped, Paused, Alone, Suspended, Pinged, Serving
<1>1. CASE Started
  BY <1>1 DEF Started
<1>2. CASE StartFails
  BY <1>2 DEF StartFails
<1>3. CASE StartGivesNothing
  BY <1>3 DEF StartGivesNothing
<1>4. CASE OpenLiveness
  BY <1>4 DEF OpenLiveness
<1>5. CASE ChownLiveness
  BY <1>5 DEF ChownLiveness
<1>6. CASE StartAgent
  BY <1>6 DEF StartAgent
<1>7. CASE ChownAgent
  BY <1>7 DEF ChownAgent
<1>8. CASE CopyIn
  BY <1>8 DEF CopyIn
<1>9. CASE StartVM
  BY <1>9 DEF StartVM
<1>10. CASE Receive
  BY <1>10 DEF Receive
<1>11. CASE Received
  BY <1>11 DEF Received
<1>12. CASE NotReceived
  BY <1>12 DEF NotReceived
<1>13. CASE Ready
  BY <1>13 DEF Ready
<1>14. CASE GetRemote
  BY <1>14 DEF GetRemote
<1>15. CASE BeforeSuspend
  BY <1>15 DEF BeforeSuspend
<1>16. CASE CloseAgent
  BY <1>16 DEF CloseAgent
<1>17. CASE Pause
  BY <1>17 DEF Pause
<1>18. CASE TakeSnapshot
  BY <1>18 DEF TakeSnapshot
<1>19. CASE WriteConfig
  BY <1>19 DEF WriteConfig
<1>20. CASE CopyOut
  <2>1. /\ next \in Nat \ {0} /\ next' = next + 1 /\ next \in 1 .. Len(Devices)
        /\ Len(Devices) \in Nat /\ output \in [Names -> Outputs]
    BY <1>20, DeviceNames DEF CopyOut, STypeOK
  <2>2. /\ next' <= Len(Devices) + 1
        /\ \A i \in 1 .. next' - 1 : i \in DOMAIN Devices /\ (i = next \/ i \in 1 .. next - 1)
    BY <2>1, SMT
  <2>3. stage = "copyOut" /\ stage' = "copyOut" /\ result' = result /\ result = "none"
    BY <1>20 DEF CopyOut
  <2>4. ASSUME NEW i \in 1 .. next' - 1 PROVE output'[Devices[i]].kind = "copy"
    <3>1. i \in DOMAIN Devices /\ Devices[i] \in Names /\ Devices[next] \in Names
      BY <1>20, <2>2, DeviceNames DEF CopyOut
    <3>2. Copy(Devices[next]).kind = "copy"
      BY DEF Copy
    <3>3. i # next => output[Devices[i]].kind = "copy"
      BY <2>2, <2>3
    <3> QED
      BY <1>20, <2>1, <2>2, <3>1, <3>2, <3>3 DEF CopyOut
  <2> QED
    BY <2>2, <2>3, <2>4
<1>21. CASE CopyOutFails
  BY <1>21 DEF CopyOutFails, NoCopy
<1>22. CASE CopiedOut
  BY <1>22 DEF CopiedOut
<1>23. CASE CheckServer
  BY <1>23 DEF CheckServer
<1>24. CASE CloseSockets
  BY <1>24 DEF CloseSockets
<1>25. CASE CloseServer
  BY <1>25 DEF CloseServer, CloseCall
<1>26. CASE ServerClosed
  BY <1>26 DEF ServerClosed
<1>27. CASE RemoveDirectory
  BY <1>27 DEF RemoveDirectory
<1>28. CASE Returned
  BY <1>28 DEF Returned
<1>29. CASE Accept
  BY <1>29 DEF Accept
<1>30. CASE Ping
  BY <1>30 DEF Ping, GuestRuns
<1>31. CASE Connect
  BY <1>31 DEF Connect, GuestRuns
<1>32. CASE Disconnect
  BY <1>32 DEF Disconnect
<1>33. CASE Write
  BY <1>33 DEF Write, GuestRuns
<1>34. ASSUME NEW s \in Failing, Fail(s) PROVE Progress'
  BY <1>34 DEF Fail, Failing, Requests, Timed
<1>35. CASE ProcessStep
  BY <1>35 DEF ProcessStep
<1>36. CASE UNCHANGED allVars
  BY <1>36 DEF allVars
<1> QED
  BY <1>1, <1>2, <1>3, <1>4, <1>5, <1>6, <1>7, <1>8, <1>9, <1>10, <1>11, <1>12, <1>13,
     <1>14, <1>15, <1>16, <1>17, <1>18, <1>19, <1>20, <1>21, <1>22, <1>23, <1>24, <1>25,
     <1>26, <1>27, <1>28, <1>29, <1>30, <1>31, <1>32, <1>33, <1>34, <1>35, <1>36 DEF
     SNext, CreateSnapshot, Guest

\* Every step keeps what is deferred and what has been undone.
LEMMA UnwindingStep ==
  MachineInv /\ STypeOK /\ Unwinding /\ Milestones /\ Progress /\ [SNext]_allVars => Unwinding'
<1> SUFFICES ASSUME MachineInv /\ STypeOK /\ Unwinding /\ Milestones /\ Progress, [SNext]_allVars
             PROVE  Unwinding'
  OBVIOUS
<1>0. deferred \in {AgentDeferred, LivenessDeferred, ServerDeferred, <<"removeDirectory">>, <<>>}
  BY DEF STypeOK
<1> USE SnapshotterAssumption DEF At, Go, Pass, Deferring, Return, Pop,
      vars, ownVars, control, sockets, guest, package,
      Unwinding, Stages, Out, Copying, Snapped, Paused, Alone, Suspended, Pinged, Serving
<1>1. CASE Started
  BY <1>1, Deferred, DeferredDiffer DEF Started, Milestones
<1>2. CASE StartFails
  BY <1>2, Deferred, DeferredDiffer DEF StartFails, Milestones
<1>3. CASE StartGivesNothing
  BY <1>3 DEF StartGivesNothing
<1>4. CASE OpenLiveness
  BY <1>4 DEF OpenLiveness
<1>5. CASE ChownLiveness
  BY <1>5, Deferred, DeferredDiffer DEF ChownLiveness, Milestones
<1>6. CASE StartAgent
  BY <1>6 DEF StartAgent
<1>7. CASE ChownAgent
  BY <1>7 DEF ChownAgent
<1>8. CASE CopyIn
  BY <1>8 DEF CopyIn
<1>9. CASE StartVM
  BY <1>9 DEF StartVM
<1>10. CASE Receive
  BY <1>10 DEF Receive
<1>11. CASE Received
  BY <1>11 DEF Received
<1>12. CASE NotReceived
  BY <1>12, Deferred, DeferredDiffer DEF NotReceived, Milestones
<1>13. CASE Ready
  BY <1>13 DEF Ready
<1>14. CASE GetRemote
  BY <1>14 DEF GetRemote
<1>15. CASE BeforeSuspend
  BY <1>15 DEF BeforeSuspend
<1>16. CASE CloseAgent
  BY <1>16 DEF CloseAgent
<1>17. CASE Pause
  BY <1>17 DEF Pause
<1>18. CASE TakeSnapshot
  BY <1>18 DEF TakeSnapshot
<1>19. CASE WriteConfig
  BY <1>19 DEF WriteConfig
<1>20. CASE CopyOut
  BY <1>20 DEF CopyOut, Copy, Version, NoCopy
<1>21. CASE CopyOutFails
  <2>1. stage = "copyOut" /\ stage' = "unwind" /\ result' = "copyOut"
    BY <1>21 DEF CopyOutFails
  <2>2. /\ deferred' = deferred /\ deferred = AgentDeferred /\ starter' = starter
        /\ starter = "server"
    BY <1>21, <2>1 DEF CopyOutFails
  <2> QED
    BY <2>1, <2>2, DeferredDiffer
<1>22. CASE CopiedOut
  BY <1>22 DEF CopiedOut
<1>23. CASE CheckServer
  BY <1>23, Deferred, DeferredDiffer DEF CheckServer, Milestones
<1>24. CASE CloseSockets
  <2>1. CASE deferred = AgentDeferred
    BY <1>24, <2>1, Deferred, DeferredDiffer DEF CloseSockets
  <2>2. CASE deferred = LivenessDeferred
    BY <1>24, <2>2, Deferred, DeferredDiffer DEF CloseSockets
  <2>3. CASE deferred \in {ServerDeferred, <<"removeDirectory">>}
    BY <1>24, <2>3, Deferred DEF CloseSockets
  <2> QED
    BY <1>0, <1>24, <2>1, <2>2, <2>3 DEF CloseSockets
<1>25. CASE CloseServer
  <2>1. /\ deferred = ServerDeferred /\ deferred' = <<"removeDirectory">>
        /\ stage' = "closing" /\ stage = "unwind"
    BY <1>0, <1>25, Deferred DEF CloseServer
  <2> QED
    BY <1>25, <2>1, Deferred, DeferredDiffer DEF CloseServer, CloseCall
<1>26. CASE ServerClosed
  <2>1. process = "reaped"
    BY <1>26, SnapshotterAssumption DEF ServerClosed, MachineInv, ClosedIsGone, Closers
  <2> QED
    BY <1>26, <2>1, DeferredDiffer DEF ServerClosed
<1>27. CASE RemoveDirectory
  <2>1. deferred = <<"removeDirectory">> /\ deferred' = <<>> /\ stage = "unwind"
    BY <1>0, <1>27, Deferred DEF RemoveDirectory
  <2> QED
    BY <1>27, <2>1, DeferredDiffer DEF RemoveDirectory
<1>28. CASE Returned
  BY <1>28, DeferredDiffer DEF Returned
<1>29. CASE Accept
  BY <1>29 DEF Accept
<1>30. CASE Ping
  BY <1>30 DEF Ping, GuestRuns
<1>31. CASE Connect
  BY <1>31 DEF Connect, GuestRuns
<1>32. CASE Disconnect
  BY <1>32 DEF Disconnect
<1>33. CASE Write
  BY <1>33 DEF Write, GuestRuns
<1>34. ASSUME NEW s \in Failing, Fail(s) PROVE Unwinding'
  <2>1. stage = s /\ stage' = "unwind" /\ result' = s /\ s # "start"
    BY <1>34 DEF Fail, Failing, Requests, Timed
  <2>2. s \notin Out
    BY <1>34 DEF Failing, Requests, Timed
  <2> QED
    BY <1>34, <2>1, <2>2, DeferredDiffer DEF Fail, Failing, Requests, Timed, Milestones
<1>35. CASE ProcessStep
  BY <1>35, ProcessFacts DEF ProcessStep
<1>36. CASE UNCHANGED allVars
  BY <1>36 DEF allVars
<1> QED
  BY <1>1, <1>2, <1>3, <1>4, <1>5, <1>6, <1>7, <1>8, <1>9, <1>10, <1>11, <1>12, <1>13,
     <1>14, <1>15, <1>16, <1>17, <1>18, <1>19, <1>20, <1>21, <1>22, <1>23, <1>24, <1>25,
     <1>26, <1>27, <1>28, <1>29, <1>30, <1>31, <1>32, <1>33, <1>34, <1>35, <1>36 DEF
     SNext, CreateSnapshot, Guest

\* Every step keeps a package that is one point in time.
LEMMA ConsistentStep ==
  STypeOK /\ Milestones /\ Progress /\ Consistent /\ [SNext]_allVars => Consistent'
<1> SUFFICES ASSUME STypeOK /\ Milestones /\ Progress /\ Consistent, [SNext]_allVars
             PROVE  Consistent'
  OBVIOUS
<1> USE SnapshotterAssumption DEF At, Go, Pass, Deferring, Return, Pop,
      vars, ownVars, control, sockets, guest, package,
      Consistent, Copied, Stages, Out, Copying, Snapped, Paused, Alone, Suspended, Pinged, Serving
<1>1. CASE Started
  BY <1>1 DEF Started
<1>2. CASE StartFails
  BY <1>2 DEF StartFails
<1>3. CASE StartGivesNothing
  BY <1>3 DEF StartGivesNothing
<1>4. CASE OpenLiveness
  BY <1>4 DEF OpenLiveness
<1>5. CASE ChownLiveness
  BY <1>5 DEF ChownLiveness
<1>6. CASE StartAgent
  BY <1>6 DEF StartAgent
<1>7. CASE ChownAgent
  BY <1>7 DEF ChownAgent
<1>8. CASE CopyIn
  BY <1>8 DEF CopyIn
<1>9. CASE StartVM
  BY <1>9 DEF StartVM
<1>10. CASE Receive
  BY <1>10 DEF Receive
<1>11. CASE Received
  BY <1>11 DEF Received
<1>12. CASE NotReceived
  BY <1>12 DEF NotReceived
<1>13. CASE Ready
  BY <1>13 DEF Ready
<1>14. CASE GetRemote
  BY <1>14 DEF GetRemote
<1>15. CASE BeforeSuspend
  BY <1>15 DEF BeforeSuspend
<1>16. CASE CloseAgent
  BY <1>16 DEF CloseAgent
<1>17. CASE Pause
  BY <1>17 DEF Pause
<1>18. CASE TakeSnapshot
  <2>1. written # NotTaken
    BY SMT DEF STypeOK, NotTaken
  <2>2. taken = NotTaken /\ result' = "none" /\ output' = output
    BY <1>18 DEF TakeSnapshot, Milestones, Progress
  <2> QED
    BY <2>2
<1>19. CASE WriteConfig
  BY <1>19 DEF WriteConfig
<1>20. CASE CopyOut
  <2>1. /\ stage = "copyOut" /\ result' = result /\ taken' = taken
        /\ output' = [output EXCEPT ![Devices[next]] = Copy(Devices[next])]
        /\ output \in [Names -> Outputs]
    BY <1>20 DEF CopyOut, STypeOK
  <2>2. result = "none" /\ taken # NotTaken /\ written = taken
    BY <2>1 DEF Progress, Milestones
  <2>3. Devices[next] \in Names
    BY <1>20, DeviceNames DEF CopyOut
  <2> DEFINE c == Devices[next]
  <2>4. Size[c] \in Nat /\ MiB \in Nat
    BY <2>3
  <2>5. /\ Padding(Size[c]) \in Nat /\ Padding(Size[c]) >= MiB
        /\ (Size[c] + Padding(Size[c])) % MiB = 0
    BY <2>4, PaddingWorks
  <2>6. Size[c] + Padding(Size[c]) >= Size[c] + MiB
    BY <2>4, <2>5, SMT
  <2>7. /\ Copy(c).version = taken /\ Copy(c).length >= Size[c] + MiB
        /\ Copy(c).length % MiB = 0
    BY <2>2, <2>5, <2>6 DEF Copy, Version
  <2>8. \A d \in Names : d # c => output'[d] = output[d]
    BY <2>1
  <2>9. output'[c] = Copy(c)
    BY <2>1, <2>3
  <2> QED
    BY <2>1, <2>2, <2>7, <2>8, <2>9
<1>21. CASE CopyOutFails
  BY <1>21 DEF CopyOutFails, NoCopy
<1>22. CASE CopiedOut
  BY <1>22 DEF CopiedOut
<1>23. CASE CheckServer
  <2>1. /\ stage = "serverErr" /\ output' = output /\ taken' = taken /\ prepared' = prepared
    BY <1>23 DEF CheckServer
  <2>2. prepared /\ taken # NotTaken
    BY <2>1 DEF Milestones
  <2>3. ASSUME NEW d \in Names PROVE output[d].kind = "copy"
    <3>1. PICK i \in DOMAIN Devices : Devices[i] = d
      BY DEF Names
    <3>2. i \in 1 .. next - 1
      BY <2>1, <3>1, DeviceNames, SMT DEF Progress, STypeOK
    <3> QED
      BY <2>1, <3>1, <3>2 DEF Progress
  <2> QED
    BY <2>1, <2>2, <2>3
<1>24. CASE CloseSockets
  BY <1>24 DEF CloseSockets
<1>25. CASE CloseServer
  BY <1>25 DEF CloseServer, CloseCall
<1>26. CASE ServerClosed
  BY <1>26 DEF ServerClosed
<1>27. CASE RemoveDirectory
  BY <1>27 DEF RemoveDirectory
<1>28. CASE Returned
  BY <1>28 DEF Returned
<1>29. CASE Accept
  BY <1>29 DEF Accept
<1>30. CASE Ping
  BY <1>30 DEF Ping, GuestRuns
<1>31. CASE Connect
  BY <1>31 DEF Connect, GuestRuns
<1>32. CASE Disconnect
  BY <1>32 DEF Disconnect
<1>33. CASE Write
  BY <1>33 DEF Write, GuestRuns
<1>34. ASSUME NEW s \in Failing, Fail(s) PROVE Consistent'
  BY <1>34 DEF Fail, Failing, Requests, Timed
<1>35. CASE ProcessStep
  BY <1>35 DEF ProcessStep
<1>36. CASE UNCHANGED allVars
  BY <1>36 DEF allVars
<1> QED
  BY <1>1, <1>2, <1>3, <1>4, <1>5, <1>6, <1>7, <1>8, <1>9, <1>10, <1>11, <1>12, <1>13,
     <1>14, <1>15, <1>16, <1>17, <1>18, <1>19, <1>20, <1>21, <1>22, <1>23, <1>24, <1>25,
     <1>26, <1>27, <1>28, <1>29, <1>30, <1>31, <1>32, <1>33, <1>34, <1>35, <1>36 DEF
     SNext, CreateSnapshot, Guest

\* Every step keeps the invariant.
LEMMA SnapshotterStep ==
  MachineInv /\ SnapshotterInv /\ [SNext]_allVars => MachineInv' /\ SnapshotterInv'
<1> SUFFICES ASSUME MachineInv, SnapshotterInv, [SNext]_allVars
             PROVE  MachineInv' /\ SnapshotterInv'
  OBVIOUS
<1>1. /\ MachineInv' /\ STypeOK' /\ Milestones' /\ Progress' /\ Unwinding' /\ Consistent'
  BY MachineKept, STypeStep, MilestonesStep, ProgressStep, UnwindingStep, ConsistentStep
     DEF SnapshotterInv
<1>2. panicked' => starter' = "nilnil" \/ (process' = "reaped" /\ exit' = "ok")
  <2>1. CASE StartGivesNothing
    BY <2>1 DEF StartGivesNothing
  <2>2. CASE ProcessStep
    BY <2>2, ProcessFacts
  <2>3. CASE UNCHANGED vars
    BY <2>3 DEF SnapshotterInv, vars
  <2>4. CASE CloseServer
    BY <2>4 DEF CloseServer, CloseCall, SnapshotterInv
  <2>5. CASE CreateSnapshot /\ ~StartGivesNothing /\ ~CloseServer
    BY <2>3, <2>5 DEF CreateSnapshot, Started, StartFails, OpenLiveness, ChownLiveness,
       StartAgent, ChownAgent, CopyIn, StartVM, Receive, Received, NotReceived, Ready, GetRemote,
       BeforeSuspend, CloseAgent, Pause, TakeSnapshot, WriteConfig, CopyOut, CopyOutFails,
       CopiedOut, CheckServer, CloseSockets, ServerClosed, RemoveDirectory, Returned, Fail,
       At, Go, Pass, Deferring, Return, Pop
  <2>6. CASE Accept \/ Guest
    BY <2>3, <2>6 DEF Accept, Guest, Ping, Connect, Disconnect, Write
  <2>7. CASE UNCHANGED allVars
    BY <2>3, <2>7 DEF allVars
  <2> QED
    BY <2>1, <2>2, <2>4, <2>5, <2>6, <2>7 DEF SNext
<1> QED
  BY <1>1, <1>2 DEF SnapshotterInv

\* The invariant holds throughout.
THEOREM SnapshotterInvariance == SSpec => [](MachineInv /\ SnapshotterInv)
<1>1. SInit => MachineInv
  BY DEF SInit, Init, MachineInv, TypeOK, ExitValues, ClosedIsGone, ReportsAgree, OwnKillIsNoError,
     NoWaitBeforeKill, NilErrorInv
<1>2. SInit => SnapshotterInv
  <2> SUFFICES ASSUME SInit PROVE SnapshotterInv
    OBVIOUS
  <2> USE SnapshotterAssumption DEF SInit
  <2>1. STypeOK
    <3>1. /\ MaxWrites \in Nat /\ NotTaken \in 0 .. NotTaken
          /\ 0 \in 0 .. MaxWrites /\ 0 \in 0 .. NotTaken
      BY SMT DEF NotTaken
    <3>2. NoCopy("before") \in Outputs
      BY <3>1, SMT DEF NoCopy, Outputs
    <3>3. output \in [Names -> Outputs]
      BY <3>2
    <3>4. remote \in BOOLEAN /\ prepared \in BOOLEAN
      OBVIOUS
    <3>5. next \in Nat \ {0}
      BY SMT
    <3> QED
      BY <3>1, <3>3, <3>4, <3>5 DEF STypeOK, Stages
  <2>2. Milestones
    BY DEF Milestones, Copying, Snapped, Paused, Alone, Suspended, Pinged, Out
  <2>3. Progress
    BY SMT DEF Progress, Out
  <2>4. Unwinding
    BY DeferredDiffer DEF Unwinding, Serving, Pinged, Suspended, Alone, Paused, Snapped, Copying
  <2>5. Consistent
    BY DEF Consistent, Copied, NoCopy
  <2>6. ~panicked
    BY DEF Init
  <2> QED
    BY <2>1, <2>2, <2>3, <2>4, <2>5, <2>6 DEF SnapshotterInv
<1> QED
  BY <1>1, <1>2, SnapshotterStep, PTL DEF SSpec

\* Every package is one point in time, and success means a complete one.
THEOREM PackagesAreConsistent == SSpec => []Consistent
<1>1. SnapshotterInv => Consistent
  BY DEF SnapshotterInv
<1> QED
  BY <1>1, SnapshotterInvariance, PTL

\* However CreateSnapshot returns, it has cleaned up.
THEOREM ReturnsCleanedUp == SSpec => []CleanedUp
<1>1. SnapshotterInv => CleanedUp
  <2> SUFFICES ASSUME SnapshotterInv, stage = "returned" PROVE CleanedUp
    BY DEF CleanedUp
  <2>1. CASE result = "start"
    BY <2>1 DEF SnapshotterInv, Unwinding, CleanedUp
  <2>2. CASE result # "start"
    <3>1. deferred = <<>>
      BY DEF SnapshotterInv, Unwinding
    <3>2. process = "reaped" /\ directory = "removed"
      BY <2>2, <3>1 DEF SnapshotterInv, Unwinding
    <3>3. /\ liveness = "open" => result = "chownLiveness"
          /\ agent = "open" => result = "chownAgent"
      BY <3>1, DeferredDiffer DEF SnapshotterInv, Unwinding
    <3> QED
      BY <3>2, <3>3 DEF CleanedUp
  <2> QED
    BY <2>1, <2>2
<1> QED
  BY <1>1, SnapshotterInvariance, PTL

\* The snapshot is taken of a prepared and paused guest that nothing connects from.
THEOREM SnapshotsAreInOrder == SSpec => TakenInOrder
<1>1. SnapshotterInv /\ [SNext]_allVars =>
        [taken' # taken => /\ accept = "conn" /\ prepared /\ vm = "paused"
                           /\ liveness = "closed" /\ agent = "closed"]_allVars
  <2> SUFFICES ASSUME SnapshotterInv, SNext, taken' # taken
               PROVE  /\ accept = "conn" /\ prepared /\ vm = "paused"
                      /\ liveness = "closed" /\ agent = "closed"
    BY DEF allVars, ownVars, package
  <2>1. TakeSnapshot
    BY DEF SNext, CreateSnapshot, Guest, ProcessStep, Started, StartFails, StartGivesNothing,
       OpenLiveness, ChownLiveness, StartAgent, ChownAgent, CopyIn, StartVM, Receive, Received,
       NotReceived, Ready, GetRemote, BeforeSuspend, CloseAgent, Pause, WriteConfig, CopyOut,
       CopyOutFails, CopiedOut, CheckServer, CloseSockets, CloseServer, ServerClosed,
       RemoveDirectory, Returned, Fail, Accept, Ping, Connect, Disconnect, Write,
       Pass, Deferring, ownVars, package
  <2>2. stage = "snapshot"
    BY <2>1 DEF TakeSnapshot, Go, At
  <2> QED
    BY <2>2 DEF SnapshotterInv, Milestones, Pinged, Suspended, Alone, Paused
<1> QED
  BY <1>1, SnapshotterInvariance, PTL DEF SSpec, TakenInOrder

\* CreateSnapshot is one of the machine's environments: what holds of the machine's
\* steps holds of it (snapshotter.go:99-141 over machine.go:80-308).
THEOREM SnapshotterRunsMachine == SSpec => RunsMachine
<1>1. SInit => Init
  BY DEF SInit
<1> QED
  BY <1>1, MachineSteps, PTL DEF SSpec, RunsMachine

\* With a Firecracker that never exits with status 0 by itself, the program panics in
\* CreateSnapshot only once ctx is done (snapshotter.go:99-141, machine.go:182, 225, 283).
THEOREM NoPanicUnlessDone ==
  ASSUME "ok" \notin Exits
  PROVE  SSpec => [](panicked => ctxDone)
<1>1. MachineInv /\ SnapshotterInv => (panicked => ctxDone)
  BY DEF MachineInv, NilErrorInv, SnapshotterInv, KilledByUs
<1> QED
  BY <1>1, SnapshotterInvariance, PTL

\* How many calls CreateSnapshot has still to make before it starts to return.
CallsLeft ==
  CASE stage = "start" -> 18 [] stage = "openLiveness" -> 17 [] stage = "chownLiveness" -> 16
    [] stage = "startAgent" -> 15 [] stage = "chownAgent" -> 14 [] stage = "copyIn" -> 13
    [] stage = "boot" -> 12 [] stage = "receive" -> 11 [] stage = "select" -> 10
    [] stage = "ready" -> 9 [] stage = "getRemote" -> 8 [] stage = "beforeSuspend" -> 7
    [] stage = "closeAgent" -> 6 [] stage = "pause" -> 5 [] stage = "snapshot" -> 4
    [] stage = "config" -> 3 [] stage = "copyOut" -> 2 [] stage = "serverErr" -> 1
    [] OTHER -> 0

ReturnsLeft == CASE stage = "closing" -> 2 [] stage = "unwind" -> 1 [] OTHER -> 0

\* A bound on its steps: a call may defer calls, each of which takes up to two steps;
\* every device is copied; and it returns.
StepsLeft == 10 * CallsLeft + (Len(Devices) + 1 - next) + 2 * Len(deferred) + ReturnsLeft

\* The number of the deferred calls, and that it shrinks.
LEMMA DeferredLengths ==
  /\ Len(AgentDeferred) = 4 /\ Len(LivenessDeferred) = 3 /\ Len(ServerDeferred) = 2
  /\ Len(<<"removeDirectory">>) = 1 /\ Len(<<>>) = 0
<1>1. Len(AgentDeferred) = 4
  BY SMT DEF AgentDeferred
<1>2. Len(LivenessDeferred) = 3
  BY SMT DEF LivenessDeferred
<1>3. Len(ServerDeferred) = 2
  BY SMT DEF ServerDeferred
<1>4. Len(<<"removeDirectory">>) = 1 /\ Len(<<>>) = 0
  BY SMT
<1> QED
  BY <1>1, <1>2, <1>3, <1>4

\* The bound is a number.
LEMMA StepsLeftType ==
  ASSUME SnapshotterInv
  PROVE  /\ StepsLeft \in Nat /\ CallsLeft \in 0 .. 18 /\ ReturnsLeft \in 0 .. 2
         /\ Len(deferred) \in 0 .. 4
         /\ next \in Nat /\ Len(Devices) \in Nat /\ next <= Len(Devices) + 1
<1>1. CallsLeft \in 0 .. 18
  BY DEF CallsLeft
<1>2. ReturnsLeft \in 0 .. 2
  BY DEF ReturnsLeft
<1>3. Len(deferred) \in 0 .. 4
  BY DeferredLengths DEF SnapshotterInv, STypeOK
<1>4. next \in Nat /\ Len(Devices) \in Nat /\ next <= Len(Devices) + 1
  BY SnapshotterAssumption DEF SnapshotterInv, STypeOK, Progress
<1>5. StepsLeft \in Nat
  BY <1>1, <1>2, <1>3, <1>4 DEF StepsLeft
<1> QED
  BY <1>1, <1>2, <1>3, <1>4, <1>5

\* What a step does to the three counts, and to the device to be copied next.
LEMMA CountsStep ==
  ASSUME SnapshotterInv, CreateSnapshot, ~StartGivesNothing
  PROVE  \/ /\ CallsLeft' < CallsLeft /\ next' = next
            /\ ReturnsLeft' <= ReturnsLeft + 1 /\ Len(deferred') <= Len(deferred) + 4
         \/ /\ CallsLeft' = CallsLeft /\ next' = next + 1
            /\ ReturnsLeft' = ReturnsLeft /\ Len(deferred') = Len(deferred)
         \/ /\ CallsLeft' = CallsLeft /\ next' = next
            /\ ReturnsLeft' <= ReturnsLeft + 1 /\ Len(deferred') = Len(deferred) - 1
         \/ /\ CallsLeft' = CallsLeft /\ next' = next
            /\ ReturnsLeft' < ReturnsLeft /\ Len(deferred') = Len(deferred)
<1> DEFINE Further == /\ CallsLeft' < CallsLeft /\ next' = next
                      /\ ReturnsLeft' <= ReturnsLeft + 1 /\ Len(deferred') <= Len(deferred) + 4
           Shorter == /\ CallsLeft' = CallsLeft /\ next' = next
                      /\ ReturnsLeft' <= ReturnsLeft + 1 /\ Len(deferred') = Len(deferred) - 1
           Nearer  == /\ CallsLeft' = CallsLeft /\ next' = next
                      /\ ReturnsLeft' < ReturnsLeft /\ Len(deferred') = Len(deferred)
<1>0. Len(deferred) \in 0 .. 4
  BY StepsLeftType
<1>1. ASSUME NEW s \in Stages, At(s), stage' = "unwind", UNCHANGED <<deferred, next>>
      PROVE  Further
  BY <1>0, <1>1 DEF At, CallsLeft, ReturnsLeft, Stages
<1>2. ASSUME NEW s \in Failing, Fail(s) PROVE Further
  BY <1>1, <1>2 DEF Fail, Failing, Requests, Timed, Stages, Return, package
<1>3. CASE NotReceived \/ CheckServer \/ CopyOutFails
  BY <1>1, <1>3 DEF NotReceived, CheckServer, CopyOutFails, At, Stages, Return, package
<1>4. CASE StartFails
  BY <1>0, <1>4 DEF StartFails, At, CallsLeft, ReturnsLeft, package
<1>5. CASE OpenLiveness \/ StartAgent \/ CopyIn \/ StartVM \/ Receive \/ Received \/ Ready
           \/ GetRemote \/ BeforeSuspend \/ CloseAgent \/ Pause
  BY <1>0, <1>5 DEF OpenLiveness, StartAgent, CopyIn, StartVM, Receive, Received, Ready,
     GetRemote, BeforeSuspend, CloseAgent, Pause, Pass, Go, At, CallsLeft, ReturnsLeft, package
<1>6. CASE TakeSnapshot \/ WriteConfig \/ CopiedOut
  BY <1>0, <1>6 DEF TakeSnapshot, WriteConfig, CopiedOut, Pass, Go, At, CallsLeft, ReturnsLeft,
     package
<1>7. CASE Started
  <2>1. Len(deferred') = 2
    BY <1>7, DeferredLengths DEF Started, Deferring
  <2> QED
    BY <1>0, <1>7, <2>1 DEF Started, Deferring, Go, At, CallsLeft, ReturnsLeft, package
<1>8. CASE ChownLiveness
  <2>1. Len(deferred') = 3
    BY <1>8, DeferredLengths DEF ChownLiveness, Deferring
  <2>2. Len(deferred) = 2
    BY <1>8, DeferredLengths DEF ChownLiveness, Deferring, Go, At, SnapshotterInv, Unwinding
  <2> QED
    BY <1>8, <2>1, <2>2 DEF ChownLiveness, Deferring, Go, At, CallsLeft, ReturnsLeft, package
<1>9. CASE ChownAgent
  <2>1. Len(deferred') = 4
    BY <1>9, DeferredLengths DEF ChownAgent, Deferring
  <2>2. Len(deferred) = 3
    BY <1>9, DeferredLengths DEF ChownAgent, Deferring, Go, At, SnapshotterInv, Unwinding
  <2> QED
    BY <1>9, <2>1, <2>2 DEF ChownAgent, Deferring, Go, At, CallsLeft, ReturnsLeft, package
<1>10. CASE CopyOut
  BY <1>10 DEF CopyOut, Go, At, CallsLeft, ReturnsLeft, package
<1>11. ASSUME NEW call, Pop(call) PROVE Len(deferred') = Len(deferred) - 1
  BY <1>11, Deferred, DeferredLengths, DeferredDiffer DEF Pop, SnapshotterInv, STypeOK
<1>12. CASE CloseSockets
  BY <1>11, <1>12 DEF CloseSockets, Pop, CallsLeft, ReturnsLeft, package
<1>13. CASE CloseServer \/ RemoveDirectory
  <2>1. Len(deferred') = Len(deferred) - 1
    BY <1>11, <1>13 DEF CloseServer, RemoveDirectory
  <2> QED
    BY <1>13, <2>1 DEF CloseServer, RemoveDirectory, Pop, At, CallsLeft, ReturnsLeft, package
<1>14. CASE ServerClosed \/ Returned
  BY <1>14 DEF ServerClosed, Returned, Pass, Go, At, CallsLeft, ReturnsLeft, package
<1> QED
  BY <1>2, <1>3, <1>4, <1>5, <1>6, <1>7, <1>8, <1>10, <1>12, <1>13, <1>14, <1>9 DEF CreateSnapshot

\* The weights outweigh what a step that gets further adds to the other counts.
LEMMA WeightsWork ==
  ASSUME NEW c \in 0 .. 18, NEW d \in 0 .. 4, NEW r \in 0 .. 2, NEW n \in Nat, NEW devices \in Nat,
         NEW c2 \in 0 .. 18, NEW d2 \in 0 .. 4, NEW r2 \in 0 .. 2, NEW n2 \in Nat,
         \/ c2 < c /\ n2 = n /\ r2 <= r + 1 /\ d2 <= d + 4
         \/ c2 = c /\ n2 = n + 1 /\ r2 = r /\ d2 = d
         \/ c2 = c /\ n2 = n /\ r2 <= r + 1 /\ d2 = d - 1
         \/ c2 = c /\ n2 = n /\ r2 < r /\ d2 = d
  PROVE  10 * c2 + (devices + 1 - n2) + 2 * d2 + r2 < 10 * c + (devices + 1 - n) + 2 * d + r
  BY SMT

\* Whatever fails, CreateSnapshot never comes back to a call, makes every deferred call
\* once, and returns within 180 steps and one for each device, or panics; the guest and
\* the process do not add to them.  That it is not kept waiting for ever is the
\* liveness property ReturnsOrPanics (snapshotter.go:87-362).
THEOREM StepsAreCounted ==
  SSpec => /\ [](StepsLeft \in Nat)
           /\ [][/\ CreateSnapshot => StepsLeft' < StepsLeft \/ panicked'
                 /\ StepsLeft' <= StepsLeft]_allVars
<1>1. SnapshotterInv => StepsLeft \in Nat
  BY StepsLeftType
<1>2. ASSUME SnapshotterInv, SnapshotterInv', SNext
      PROVE  /\ CreateSnapshot => StepsLeft' < StepsLeft \/ panicked'
             /\ StepsLeft' <= StepsLeft
  <2>1. /\ CallsLeft \in Nat /\ ReturnsLeft \in 0 .. 2 /\ Len(deferred) \in Nat
        /\ next \in Nat /\ Len(Devices) \in Nat /\ StepsLeft \in Nat
    BY <1>2, StepsLeftType
  <2>2. CallsLeft' \in Nat /\ ReturnsLeft' \in 0 .. 2
    BY DEF CallsLeft, ReturnsLeft
  <2>3. ASSUME UNCHANGED <<stage, deferred, next>> PROVE StepsLeft' <= StepsLeft
    <3>1. StepsLeft' = StepsLeft
      BY <2>3 DEF StepsLeft, CallsLeft, ReturnsLeft
    <3> QED
      BY <2>1, <3>1
  <2>4. CASE CreateSnapshot /\ ~StartGivesNothing
    <3>1. Len(deferred') \in Nat
      BY <1>2, DeferredLengths DEF SnapshotterInv, STypeOK
    <3>2. StepsLeft' = 10 * CallsLeft' + (Len(Devices) + 1 - next') + 2 * Len(deferred') + ReturnsLeft'
      BY DEF StepsLeft
    <3>3. StepsLeft = 10 * CallsLeft + (Len(Devices) + 1 - next) + 2 * Len(deferred) + ReturnsLeft
      BY DEF StepsLeft
    <3>4. /\ CallsLeft \in 0 .. 18 /\ CallsLeft' \in 0 .. 18
          /\ Len(deferred) \in 0 .. 4 /\ Len(deferred') \in 0 .. 4
      BY <1>2, StepsLeftType, DeferredLengths DEF CallsLeft, SnapshotterInv, STypeOK
    <3>5. next' \in Nat
      BY <1>2 DEF SnapshotterInv, STypeOK
    <3>6. StepsLeft' < StepsLeft
      BY <1>2, <2>1, <2>2, <2>4, <3>2, <3>3, <3>4, <3>5, CountsStep, WeightsWork
    <3> QED
      BY <2>1, <3>2, <3>6
  <2>5. CASE StartGivesNothing
    BY <2>3, <2>5 DEF StartGivesNothing, ownVars, control, package
  <2>6. CASE (Accept \/ Guest \/ ProcessStep) /\ ~CreateSnapshot
    BY <2>3, <2>6 DEF Accept, Guest, Ping, Connect, Disconnect, Write, ProcessStep, ownVars,
       control, package
  <2> QED
    BY <1>2, <2>4, <2>5, <2>6 DEF SNext
<1>3. SnapshotterInv /\ SnapshotterInv' /\ [SNext]_allVars
        => [/\ CreateSnapshot => StepsLeft' < StepsLeft \/ panicked'
            /\ StepsLeft' <= StepsLeft]_allVars
  BY <1>2
<1> QED
  BY <1>1, <1>3, SnapshotterInvariance, PTL DEF SSpec

=============================================================================
