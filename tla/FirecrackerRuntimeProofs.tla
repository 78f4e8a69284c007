---------------------- MODULE FirecrackerRuntimeProofs ----------------------
(***************************************************************************)
(* Proofs about FirecrackerRuntime, for any number of callers, any blocks  *)
(* and configurations, and any calls that may fail.  One lemma shows each  *)
(* part of the inductive invariant RuntimeInv to be preserved; a step from *)
(* a state that satisfies it is a step of VMContract.                      *)
(***************************************************************************)
EXTENDS FirecrackerRuntime, TLAPS

USE DEF Threads, ResumeStages, GrabStages, CallStages, Stages


\* Every step keeps the variables in their types.
LEMMA TypeStep == TypeOK /\ [Next]_vars => TypeOK'
<1> SUFFICES ASSUME TypeOK, [Next]_vars PROVE TypeOK'
  OBVIOUS
<1> USE ThreadsAssumption DEF TypeOK, Goto, machineVars, memoryVars, providerVars,
     threadVars, historyVars
<1>1. ASSUME NEW b \in Blocks, GuestWrite(b) PROVE TypeOK'
  BY <1>1 DEF GuestWrite
<1>2. CASE Exit
  BY <1>2 DEF Exit
<1>3. CASE LoadSnapshot
  BY <1>3 DEF LoadSnapshot
<1>4. CASE SetupDirectMemory
  BY <1>4 DEF SetupDirectMemory
<1>5. CASE SetRunning
  <2>1. CASE config.periodic
    BY <1>5, <2>1 DEF SetRunning
  <2>2. CASE ~config.periodic
    BY <1>5, <2>2 DEF SetRunning
  <2> QED BY <2>1, <2>2
<1>6. CASE StartAgent
  BY <1>6 DEF StartAgent
<1>7. CASE AfterResume
  BY <1>7 DEF AfterResume
<1>8. CASE CallClose
  BY <1>8 DEF CallClose, Begin
<1>9. CASE GrabberTick
  BY <1>9 DEF GrabberTick
<1>10. CASE GrabberStop
  BY <1>10 DEF GrabberStop
<1>11. CASE CloseMachine
  BY <1>11 DEF CloseMachine
<1>12. ASSUME NEW t \in Movers, CallSuspend(t) PROVE TypeOK'
  BY <1>12 DEF CallSuspend, Begin
<1>13. ASSUME NEW t \in Movers, CallFlushData(t) PROVE TypeOK'
  BY <1>13 DEF CallFlushData, Begin
<1>14. ASSUME NEW t \in Threads, SuspendLock(t) PROVE TypeOK'
  BY <1>14 DEF SuspendLock, Return, Continue
<1>15. ASSUME NEW t \in Threads, BeforeSuspend(t) PROVE TypeOK'
  BY <1>15 DEF BeforeSuspend, Return, Continue
<1>16. ASSUME NEW t \in Threads, PauseVM(t) PROVE TypeOK'
  BY <1>16 DEF PauseVM, Return, Continue
<1>17. ASSUME NEW t \in Threads, Snapshot(t) PROVE TypeOK'
  <2>0. UNCHANGED <<machineVars, soft, memoryLock, grabMemory, agent, call, list, since, forgiven>>
    BY <1>17 DEF Snapshot
  <2>1. CASE TimesOut("snapshot") /\ Return(t, "error") /\ UNCHANGED <<missing, running>>
    BY <1>17, <2>1 DEF Snapshot, Return, Continue
  <2>2. CASE Answers /\ Goto(t, "snapshot", "waitGrabber") /\ Msync /\ running' = FALSE /\ UNCHANGED <<runningLock, promise>>
    <3>1. missing' \subseteq missing
      BY <2>2 DEF Msync
    <3>2. t # Grabber /\ running' \in BOOLEAN
      BY <2>2
    <3>3. pc' = [pc EXCEPT ![t] = "waitGrabber"] /\ pc[t] = "snapshot" /\ running' = FALSE
      BY <2>2
    <3> QED BY <2>0, <2>2, <3>1, <3>2, <3>3
  <2> QED BY <1>17, <2>1, <2>2 DEF Snapshot
<1>18. ASSUME NEW t \in Threads, WaitGrabber(t) PROVE TypeOK'
  <2>1. CASE grabMemory
    BY <1>18, <2>1 DEF WaitGrabber, GrabberDone
  <2>2. CASE ~grabMemory
    BY <1>18, <2>2 DEF WaitGrabber, GrabberDone, Return, Continue
  <2> QED BY <2>1, <2>2
<1>19. ASSUME NEW t \in Threads, FlushData(t) PROVE TypeOK'
  BY <1>19 DEF FlushData
<1>20. ASSUME NEW t \in Threads, FlushMsync(t) PROVE TypeOK'
  BY <1>20 DEF FlushMsync, Return, Continue, Msync
<1>21. ASSUME NEW t \in Threads, GrabLock(t) PROVE TypeOK'
  BY <1>21 DEF GrabLock
<1>22. ASSUME NEW t \in Threads, PauseProcess(t) PROVE TypeOK'
  BY <1>22 DEF PauseProcess, GrabReturn, Return, Continue
<1>23. ASSUME NEW t \in Threads, ReadSoftDirty(t) PROVE TypeOK'
  BY <1>23 DEF ReadSoftDirty, GrabReturn, Return, Continue, Unlocked, UnlockFailed, Drop
<1>24. ASSUME NEW t \in Threads, Compare(t) PROVE TypeOK'
  BY <1>24 DEF Compare, GrabReturn, Return, Continue
<1>25. ASSUME NEW t \in Threads, ResumeProcess(t) PROVE TypeOK'
  BY <1>25 DEF ResumeProcess, GrabReturn, Return, Continue, Unlocked, UnlockFailed, Drop
<1>26. ASSUME NEW t \in Threads, Copy(t) PROVE TypeOK'
  BY <1>26 DEF Copy, GrabReturn, Return, Continue, Drop
<1>27. CASE UNCHANGED vars
  BY <1>27 DEF vars
<1> QED
  BY <1>1, <1>2, <1>3, <1>4, <1>5, <1>6, <1>7, <1>8, <1>9, <1>10, <1>11,
     <1>12, <1>13, <1>14, <1>15, <1>16, <1>17, <1>18, <1>19, <1>20, <1>21,
     <1>22, <1>23, <1>24, <1>25, <1>26, <1>27 DEF Next, Resume, Step, Suspend,
     Grab

\* Every step keeps the calls to the stages they can reach.
LEMMA StageStep == TypeOK /\ StageInv /\ [Next]_vars => StageInv'
<1> SUFFICES ASSUME TypeOK /\ StageInv, [Next]_vars PROVE StageInv'
  OBVIOUS
<1> USE ThreadsAssumption DEF TypeOK, StageInv, Goto, machineVars, memoryVars,
     providerVars, threadVars, historyVars
<1>1. ASSUME NEW b \in Blocks, GuestWrite(b) PROVE StageInv'
  BY <1>1 DEF GuestWrite
<1>2. CASE Exit
  BY <1>2 DEF Exit
<1>3. CASE LoadSnapshot
  BY <1>3 DEF LoadSnapshot
<1>4. CASE SetupDirectMemory
  BY <1>4 DEF SetupDirectMemory
<1>5. CASE SetRunning
  <2>1. CASE config.periodic
    BY <1>5, <2>1 DEF SetRunning
  <2>2. CASE ~config.periodic
    BY <1>5, <2>2 DEF SetRunning
  <2> QED BY <2>1, <2>2
<1>6. CASE StartAgent
  BY <1>6 DEF StartAgent
<1>7. CASE AfterResume
  BY <1>7 DEF AfterResume
<1>8. CASE CallClose
  <2>1. CASE agent = "none"
    <3>1. pc' = [pc EXCEPT ![Owner] = "closeMachine"] /\ pc[Owner] = "idle"
      BY <1>8, <2>1 DEF CallClose, Begin
    <3>2. call' = [call EXCEPT ![Owner] = "Close"]
      BY <1>8 DEF CallClose, Begin
    <3> QED BY <3>1, <3>2
  <2>2. CASE agent # "none"
    <3>1. pc' = [pc EXCEPT ![Owner] = "suspend"] /\ pc[Owner] = "idle" /\ grabMemory' = FALSE
      BY <1>8, <2>2 DEF CallClose, Begin
    <3>2. call' = [call EXCEPT ![Owner] = "Close"]
      BY <1>8 DEF CallClose, Begin
    <3> QED BY <3>1, <3>2
  <2> QED BY <2>1, <2>2
<1>9. CASE GrabberTick
  BY <1>9 DEF GrabberTick
<1>10. CASE GrabberStop
  BY <1>10 DEF GrabberStop
<1>11. CASE CloseMachine
  BY <1>11 DEF CloseMachine
<1>12. ASSUME NEW t \in Movers, CallSuspend(t) PROVE StageInv'
  BY <1>12 DEF CallSuspend, Begin
<1>13. ASSUME NEW t \in Movers, CallFlushData(t) PROVE StageInv'
  BY <1>13 DEF CallFlushData, Begin
<1>14. ASSUME NEW t \in Threads, SuspendLock(t) PROVE StageInv'
  BY <1>14 DEF SuspendLock, Return, Continue
<1>15. ASSUME NEW t \in Threads, BeforeSuspend(t) PROVE StageInv'
  BY <1>15 DEF BeforeSuspend, Return, Continue
<1>16. ASSUME NEW t \in Threads, PauseVM(t) PROVE StageInv'
  BY <1>16 DEF PauseVM, Return, Continue
<1>17. ASSUME NEW t \in Threads, Snapshot(t) PROVE StageInv'
  <2>0. UNCHANGED <<machineVars, soft, memoryLock, grabMemory, agent, call, list, since, forgiven>>
    BY <1>17 DEF Snapshot
  <2>1. CASE TimesOut("snapshot") /\ Return(t, "error") /\ UNCHANGED <<missing, running>>
    BY <1>17, <2>1 DEF Snapshot, Return, Continue
  <2>2. CASE Answers /\ Goto(t, "snapshot", "waitGrabber") /\ Msync /\ running' = FALSE /\ UNCHANGED <<runningLock, promise>>
    <3>1. missing' \subseteq missing
      BY <2>2 DEF Msync
    <3>2. t # Grabber /\ running' \in BOOLEAN
      BY <2>2
    <3>3. pc' = [pc EXCEPT ![t] = "waitGrabber"] /\ pc[t] = "snapshot" /\ running' = FALSE
      BY <2>2
    <3> QED BY <2>0, <2>2, <3>1, <3>2, <3>3
  <2> QED BY <1>17, <2>1, <2>2 DEF Snapshot
<1>18. ASSUME NEW t \in Threads, WaitGrabber(t) PROVE StageInv'
  <2>1. CASE grabMemory
    BY <1>18, <2>1 DEF WaitGrabber, GrabberDone
  <2>2. CASE ~grabMemory
    BY <1>18, <2>2 DEF WaitGrabber, GrabberDone, Return, Continue
  <2> QED BY <2>1, <2>2
<1>19. ASSUME NEW t \in Threads, FlushData(t) PROVE StageInv'
  BY <1>19 DEF FlushData
<1>20. ASSUME NEW t \in Threads, FlushMsync(t) PROVE StageInv'
  BY <1>20 DEF FlushMsync, Return, Continue, Msync
<1>21. ASSUME NEW t \in Threads, GrabLock(t) PROVE StageInv'
  BY <1>21 DEF GrabLock
<1>22. ASSUME NEW t \in Threads, PauseProcess(t) PROVE StageInv'
  BY <1>22 DEF PauseProcess, GrabReturn, Return, Continue
<1>23. ASSUME NEW t \in Threads, ReadSoftDirty(t) PROVE StageInv'
  BY <1>23 DEF ReadSoftDirty, GrabReturn, Return, Continue, Unlocked, UnlockFailed, Drop
<1>24. ASSUME NEW t \in Threads, Compare(t) PROVE StageInv'
  BY <1>24 DEF Compare, GrabReturn, Return, Continue
<1>25. ASSUME NEW t \in Threads, ResumeProcess(t) PROVE StageInv'
  BY <1>25 DEF ResumeProcess, GrabReturn, Return, Continue, Unlocked, UnlockFailed, Drop
<1>26. ASSUME NEW t \in Threads, Copy(t) PROVE StageInv'
  BY <1>26 DEF Copy, GrabReturn, Return, Continue, Drop
<1>27. CASE UNCHANGED vars
  BY <1>27 DEF vars
<1> QED
  BY <1>1, <1>2, <1>3, <1>4, <1>5, <1>6, <1>7, <1>8, <1>9, <1>10, <1>11,
     <1>12, <1>13, <1>14, <1>15, <1>16, <1>17, <1>18, <1>19, <1>20, <1>21,
     <1>22, <1>23, <1>24, <1>25, <1>26, <1>27 DEF Next, Resume, Step, Suspend,
     Grab

\* Every step keeps each mutex with the thread whose stage holds it.
LEMMA LockStep == TypeOK /\ StageInv /\ LockInv /\ [Next]_vars => LockInv'
<1> SUFFICES ASSUME TypeOK /\ StageInv /\ LockInv, [Next]_vars PROVE LockInv'
  OBVIOUS
<1> USE ThreadsAssumption DEF TypeOK, StageInv, LockInv, Goto, machineVars,
     memoryVars, providerVars, threadVars, historyVars
<1>1. ASSUME NEW b \in Blocks, GuestWrite(b) PROVE LockInv'
  BY <1>1 DEF GuestWrite
<1>2. CASE Exit
  BY <1>2 DEF Exit
<1>3. CASE LoadSnapshot
  BY <1>3 DEF LoadSnapshot
<1>4. CASE SetupDirectMemory
  BY <1>4 DEF SetupDirectMemory
<1>5. CASE SetRunning
  <2>1. CASE config.periodic
    BY <1>5, <2>1 DEF SetRunning
  <2>2. CASE ~config.periodic
    BY <1>5, <2>2 DEF SetRunning
  <2> QED BY <2>1, <2>2
<1>6. CASE StartAgent
  BY <1>6 DEF StartAgent
<1>7. CASE AfterResume
  BY <1>7 DEF AfterResume
<1>8. CASE CallClose
  BY <1>8 DEF CallClose, Begin
<1>9. CASE GrabberTick
  BY <1>9 DEF GrabberTick
<1>10. CASE GrabberStop
  BY <1>10 DEF GrabberStop
<1>11. CASE CloseMachine
  BY <1>11 DEF CloseMachine
<1>12. ASSUME NEW t \in Movers, CallSuspend(t) PROVE LockInv'
  BY <1>12 DEF CallSuspend, Begin
<1>13. ASSUME NEW t \in Movers, CallFlushData(t) PROVE LockInv'
  BY <1>13 DEF CallFlushData, Begin
<1>14. ASSUME NEW t \in Threads, SuspendLock(t) PROVE LockInv'
  BY <1>14 DEF SuspendLock, Return, Continue
<1>15. ASSUME NEW t \in Threads, BeforeSuspend(t) PROVE LockInv'
  BY <1>15 DEF BeforeSuspend, Return, Continue
<1>16. ASSUME NEW t \in Threads, PauseVM(t) PROVE LockInv'
  BY <1>16 DEF PauseVM, Return, Continue
<1>17. ASSUME NEW t \in Threads, Snapshot(t) PROVE LockInv'
  <2>0. UNCHANGED <<machineVars, soft, memoryLock, grabMemory, agent, call, list, since, forgiven>>
    BY <1>17 DEF Snapshot
  <2>1. CASE TimesOut("snapshot") /\ Return(t, "error") /\ UNCHANGED <<missing, running>>
    BY <1>17, <2>1 DEF Snapshot, Return, Continue
  <2>2. CASE Answers /\ Goto(t, "snapshot", "waitGrabber") /\ Msync /\ running' = FALSE /\ UNCHANGED <<runningLock, promise>>
    <3>1. missing' \subseteq missing
      BY <2>2 DEF Msync
    <3>2. t # Grabber /\ running' \in BOOLEAN
      BY <2>2
    <3>3. pc' = [pc EXCEPT ![t] = "waitGrabber"] /\ pc[t] = "snapshot" /\ running' = FALSE
      BY <2>2
    <3> QED BY <2>0, <2>2, <3>1, <3>2, <3>3
  <2> QED BY <1>17, <2>1, <2>2 DEF Snapshot
<1>18. ASSUME NEW t \in Threads, WaitGrabber(t) PROVE LockInv'
  <2>1. CASE grabMemory
    BY <1>18, <2>1 DEF WaitGrabber, GrabberDone
  <2>2. CASE ~grabMemory
    BY <1>18, <2>2 DEF WaitGrabber, GrabberDone, Return, Continue
  <2> QED BY <2>1, <2>2
<1>19. ASSUME NEW t \in Threads, FlushData(t) PROVE LockInv'
  BY <1>19 DEF FlushData
<1>20. ASSUME NEW t \in Threads, FlushMsync(t) PROVE LockInv'
  BY <1>20 DEF FlushMsync, Return, Continue, Msync
<1>21. ASSUME NEW t \in Threads, GrabLock(t) PROVE LockInv'
  BY <1>21 DEF GrabLock
<1>22. ASSUME NEW t \in Threads, PauseProcess(t) PROVE LockInv'
  BY <1>22 DEF PauseProcess, GrabReturn, Return, Continue
<1>23. ASSUME NEW t \in Threads, ReadSoftDirty(t) PROVE LockInv'
  BY <1>23 DEF ReadSoftDirty, GrabReturn, Return, Continue, Unlocked, UnlockFailed, Drop
<1>24. ASSUME NEW t \in Threads, Compare(t) PROVE LockInv'
  BY <1>24 DEF Compare, GrabReturn, Return, Continue
<1>25. ASSUME NEW t \in Threads, ResumeProcess(t) PROVE LockInv'
  BY <1>25 DEF ResumeProcess, GrabReturn, Return, Continue, Unlocked, UnlockFailed, Drop
<1>26. ASSUME NEW t \in Threads, Copy(t) PROVE LockInv'
  BY <1>26 DEF Copy, GrabReturn, Return, Continue, Drop
<1>27. CASE UNCHANGED vars
  BY <1>27 DEF vars
<1> QED
  BY <1>1, <1>2, <1>3, <1>4, <1>5, <1>6, <1>7, <1>8, <1>9, <1>10, <1>11,
     <1>12, <1>13, <1>14, <1>15, <1>16, <1>17, <1>18, <1>19, <1>20, <1>21,
     <1>22, <1>23, <1>24, <1>25, <1>26, <1>27 DEF Next, Resume, Step, Suspend,
     Grab

\* Every step keeps the process stopped, or dead, while a grab looks at its memory.
LEMMA ReadsStep == TypeOK /\ StageInv /\ LockInv /\ ReadsWhileStopped /\ [Next]_vars => ReadsWhileStopped'
<1> SUFFICES ASSUME TypeOK /\ StageInv /\ LockInv /\ ReadsWhileStopped, [Next]_vars PROVE ReadsWhileStopped'
  OBVIOUS
<1> USE ThreadsAssumption DEF TypeOK, StageInv, LockInv, ReadsWhileStopped, Goto,
     machineVars, memoryVars, providerVars, threadVars, historyVars
<1>1. ASSUME NEW b \in Blocks, GuestWrite(b) PROVE ReadsWhileStopped'
  BY <1>1 DEF GuestWrite
<1>2. CASE Exit
  BY <1>2 DEF Exit
<1>3. CASE LoadSnapshot
  BY <1>3 DEF LoadSnapshot
<1>4. CASE SetupDirectMemory
  BY <1>4 DEF SetupDirectMemory
<1>5. CASE SetRunning
  <2>1. CASE config.periodic
    BY <1>5, <2>1 DEF SetRunning
  <2>2. CASE ~config.periodic
    BY <1>5, <2>2 DEF SetRunning
  <2> QED BY <2>1, <2>2
<1>6. CASE StartAgent
  BY <1>6 DEF StartAgent
<1>7. CASE AfterResume
  BY <1>7 DEF AfterResume, Answers, Alive
<1>8. CASE CallClose
  BY <1>8 DEF CallClose, Begin
<1>9. CASE GrabberTick
  BY <1>9 DEF GrabberTick
<1>10. CASE GrabberStop
  BY <1>10 DEF GrabberStop
<1>11. CASE CloseMachine
  BY <1>11 DEF CloseMachine
<1>12. ASSUME NEW t \in Movers, CallSuspend(t) PROVE ReadsWhileStopped'
  BY <1>12 DEF CallSuspend, Begin
<1>13. ASSUME NEW t \in Movers, CallFlushData(t) PROVE ReadsWhileStopped'
  BY <1>13 DEF CallFlushData, Begin
<1>14. ASSUME NEW t \in Threads, SuspendLock(t) PROVE ReadsWhileStopped'
  BY <1>14 DEF SuspendLock, Return, Continue
<1>15. ASSUME NEW t \in Threads, BeforeSuspend(t) PROVE ReadsWhileStopped'
  BY <1>15 DEF BeforeSuspend, Return, Continue, Answers, Alive
<1>16. ASSUME NEW t \in Threads, PauseVM(t) PROVE ReadsWhileStopped'
  BY <1>16 DEF PauseVM, Return, Continue, Answers, Alive
<1>17. ASSUME NEW t \in Threads, Snapshot(t) PROVE ReadsWhileStopped'
  <2>0. UNCHANGED <<machineVars, soft, memoryLock, grabMemory, agent, call, list, since, forgiven>>
    BY <1>17 DEF Snapshot
  <2>1. CASE TimesOut("snapshot") /\ Return(t, "error") /\ UNCHANGED <<missing, running>>
    BY <1>17, <2>1 DEF Snapshot, Return, Continue
  <2>2. CASE Answers /\ Goto(t, "snapshot", "waitGrabber") /\ Msync /\ running' = FALSE /\ UNCHANGED <<runningLock, promise>>
    <3>1. missing' \subseteq missing
      BY <2>2 DEF Msync
    <3>2. t # Grabber /\ running' \in BOOLEAN
      BY <2>2
    <3>3. pc' = [pc EXCEPT ![t] = "waitGrabber"] /\ pc[t] = "snapshot" /\ running' = FALSE
      BY <2>2
    <3> QED BY <2>0, <2>2, <3>1, <3>2, <3>3
  <2> QED BY <1>17, <2>1, <2>2 DEF Snapshot
<1>18. ASSUME NEW t \in Threads, WaitGrabber(t) PROVE ReadsWhileStopped'
  <2>1. CASE grabMemory
    BY <1>18, <2>1 DEF WaitGrabber, GrabberDone
  <2>2. CASE ~grabMemory
    BY <1>18, <2>2 DEF WaitGrabber, GrabberDone, Return, Continue
  <2> QED BY <2>1, <2>2
<1>19. ASSUME NEW t \in Threads, FlushData(t) PROVE ReadsWhileStopped'
  BY <1>19 DEF FlushData
<1>20. ASSUME NEW t \in Threads, FlushMsync(t) PROVE ReadsWhileStopped'
  BY <1>20 DEF FlushMsync, Return, Continue, Msync
<1>21. ASSUME NEW t \in Threads, GrabLock(t) PROVE ReadsWhileStopped'
  BY <1>21 DEF GrabLock
<1>22. ASSUME NEW t \in Threads, PauseProcess(t) PROVE ReadsWhileStopped'
  BY <1>22 DEF PauseProcess, GrabReturn, Return, Continue
<1>23. ASSUME NEW t \in Threads, ReadSoftDirty(t) PROVE ReadsWhileStopped'
  BY <1>23 DEF ReadSoftDirty, GrabReturn, Return, Continue, Unlocked, UnlockFailed, Drop
<1>24. ASSUME NEW t \in Threads, Compare(t) PROVE ReadsWhileStopped'
  BY <1>24 DEF Compare, GrabReturn, Return, Continue
<1>25. ASSUME NEW t \in Threads, ResumeProcess(t) PROVE ReadsWhileStopped'
  BY <1>25 DEF ResumeProcess, GrabReturn, Return, Continue, Unlocked, UnlockFailed, Drop
<1>26. ASSUME NEW t \in Threads, Copy(t) PROVE ReadsWhileStopped'
  BY <1>26 DEF Copy, GrabReturn, Return, Continue, Drop
<1>27. CASE UNCHANGED vars
  BY <1>27 DEF vars
<1> QED
  BY <1>1, <1>2, <1>3, <1>4, <1>5, <1>6, <1>7, <1>8, <1>9, <1>10, <1>11,
     <1>12, <1>13, <1>14, <1>15, <1>16, <1>17, <1>18, <1>19, <1>20, <1>21,
     <1>22, <1>23, <1>24, <1>25, <1>26, <1>27 DEF Next, Resume, Step, Suspend,
     Grab

\* Only a Suspend or a FlushData that reports no error changes what was promised.
LEMMA ReturnPromise ==
  ASSUME NEW t \in Threads, NEW err, Return(t, err)
  PROVE  \/ promise' = promise
         \/ err = "nil" /\ (call[t] = "Suspend" \/ (call[t] = "FlushData" /\ since[t] # "none"))
<1>1. CASE err # "nil"
  BY <1>1 DEF Return
<1>2. CASE err = "nil" /\ call[t] = "Suspend"
  BY <1>2
<1>3. CASE err = "nil" /\ call[t] = "FlushData" /\ since[t] # "none"
  BY <1>3
<1>4. CASE err = "nil" /\ call[t] # "Suspend" /\ ~(call[t] = "FlushData" /\ since[t] # "none")
  <2>1. promise' = IF call[t] = "FlushData" /\ since[t] # "none" THEN "flushed" ELSE promise
    BY <1>4 DEF Return
  <2> QED BY <1>4, <2>1
<1> QED BY <1>1, <1>2, <1>3, <1>4

\* A return leaves StopInv true: a Suspend or a Close that reports no error
\* leaves the VM stopped and the grabber gone.
LEMMA ReturnStop ==
  ASSUME TypeOK, StageInv, LockInv, StopInv, NEW t \in Threads, NEW err, Return(t, err),
         UNCHANGED <<vm, running, agent, call, since>>,
         pc[t] \in CallStages,
         t = Grabber => pc[t] # "off",
         pc[t] = "waitGrabber" => pc[Grabber] = "off",
         t # Grabber /\ call[t] # "FlushData" /\ err = "nil" => ~running /\ pc[Grabber] = "off"
  PROVE  StopInv'
<1> USE ThreadsAssumption DEF TypeOK, StageInv, LockInv, StopInv
<1>1. /\ pc' = [pc EXCEPT ![t] = Continue(t, err)]
      /\ Continue(t, err) \in {"tick", "idle", "closeMachine"}
      /\ Continue(t, err) = "tick" <=> t = Grabber
      /\ Continue(t, err) = "closeMachine" <=> t # Grabber /\ call[t] = "Close" /\ err = "nil"
      /\ runningLock' \in {runningLock, Nobody}
      /\ runningLock = t => runningLock' = Nobody
  BY DEF Return, Continue
<1>2. promise' # "none" =>
        /\ ~running /\ pc[Grabber] = "off" /\ vm \in {"paused", "dead"}
        /\ \A u \in Movers : pc[u] # "before"
  <2>1. CASE promise' = promise
    BY <2>1
  <2>2. CASE promise' # promise
    <3>1. err = "nil" /\ (call[t] = "Suspend" \/ (call[t] = "FlushData" /\ since[t] # "none"))
      BY <2>2, ReturnPromise
    <3>2. t \in Movers /\ pc[Owner] \notin ResumeStages
      BY <3>1
    <3>3. ~running /\ pc[Grabber] = "off"
      BY <3>1, <3>2
    <3>4. \A u \in Movers : pc[u] # "before"
      BY <3>2
    <3>5. vm \in {"paused", "dead"}
      BY <3>2, <3>3
    <3> QED BY <3>3, <3>4, <3>5
  <2> QED BY <2>1, <2>2
<1>3. \A u \in Threads : u # t => pc'[u] = pc[u]
  BY <1>1
<1>4. pc'[t] = Continue(t, err) /\ pc'[t] \notin CallStages /\ pc'[t] \notin ResumeStages
  BY <1>1
<1>5. (pc[Owner] \in ResumeStages)' => pc[Owner] \in ResumeStages
  BY <1>3, <1>4
<1>6. pc'[Grabber] = "off" <=> pc[Grabber] = "off"
  BY <1>3, <1>4, <1>1
<1>7. \A u \in Movers : pc'[u] = "before" <=> pc[u] = "before"
  BY <1>3, <1>4, <1>1
<1>8. (\E u \in Threads : pc[u] = "waitGrabber") /\ pc[Grabber] # "off" =>
         \E u \in Threads : pc'[u] = "waitGrabber"
  BY <1>3
<1>9. \A u \in Threads :
       /\ pc'[u] = "snapshot" => vm' \in {"paused", "dead"}
       /\ runningLock' = u /\ pc'[u] \in {"waitGrabber", "memoryLock"} \cup GrabStages => ~running'
       /\ runningLock' = u /\ pc'[u] \in {"beforeSuspend", "pauseVM", "snapshot"} => running'
       /\ call'[u] = "Suspend" /\ pc'[u] \in {"memoryLock"} \cup GrabStages => pc'[Grabber] = "off"
       /\ since'[u] # "none" => promise' # "none"
  <2>1. promise # "none" => promise' # "none"
    BY DEF Return
  <2> QED BY <1>1, <1>3, <1>4, <1>6, <2>1, Nobody \notin Threads
<1>10. pc'[Owner] \in {"closeMachine", "closed"} /\ agent' # "none" => ~running' /\ pc'[Grabber] = "off"
  BY <1>1, <1>3, <1>4, <1>6
<1>11. pc'[Owner] = "closed" => vm' = "dead"
  BY <1>1, <1>3, <1>4
<1>12. /\ pc'[Owner] \in {"startAgent", "afterResume"} => running'
       /\ pc'[Owner] \in ResumeStages => agent' \in {"none", "open"} /\ promise' = "none"
  BY <1>2, <1>3, <1>4, <1>5
<1> QED BY <1>2, <1>6, <1>7, <1>8, <1>9, <1>10, <1>11, <1>12

\* Every step keeps what is left of the VM and of the grabber once it stopped running.
LEMMA StopStep == TypeOK /\ StageInv /\ LockInv /\ StopInv /\ [Next]_vars => StopInv'
<1> SUFFICES ASSUME TypeOK /\ StageInv /\ LockInv /\ StopInv, [Next]_vars PROVE StopInv'
  OBVIOUS
<1> USE ThreadsAssumption DEF TypeOK, StageInv, LockInv, StopInv, Goto, machineVars,
     memoryVars, providerVars, threadVars, historyVars
<1>1. ASSUME NEW b \in Blocks, GuestWrite(b) PROVE StopInv'
  BY <1>1 DEF GuestWrite
<1>2. CASE Exit
  BY <1>2 DEF Exit
<1>3. CASE LoadSnapshot
  BY <1>3 DEF LoadSnapshot
<1>4. CASE SetupDirectMemory
  BY <1>4 DEF SetupDirectMemory
<1>5. CASE SetRunning
  <2>1. CASE config.periodic
    BY <1>5, <2>1 DEF SetRunning
  <2>2. CASE ~config.periodic
    BY <1>5, <2>2 DEF SetRunning
  <2> QED BY <2>1, <2>2
<1>6. CASE StartAgent
  BY <1>6 DEF StartAgent
<1>7. CASE AfterResume
  BY <1>7 DEF AfterResume, Answers, Alive
<1>8. CASE CallClose
  BY <1>8 DEF CallClose, Begin
<1>9. CASE GrabberTick
  BY <1>9 DEF GrabberTick
<1>10. CASE GrabberStop
  BY <1>10 DEF GrabberStop
<1>11. CASE CloseMachine
  BY <1>11 DEF CloseMachine
<1>12. ASSUME NEW t \in Movers, CallSuspend(t) PROVE StopInv'
  BY <1>12 DEF CallSuspend, Begin
<1>13. ASSUME NEW t \in Movers, CallFlushData(t) PROVE StopInv'
  BY <1>13 DEF CallFlushData, Begin
<1>14. ASSUME NEW t \in Threads, SuspendLock(t) PROVE StopInv'
  <2>1. CASE running
    BY <1>14, <2>1 DEF SuspendLock
  <2>2. CASE ~running
    <3>1. pc[Grabber] = "off"
      BY <1>14, <2>2 DEF SuspendLock
    <3> QED BY <1>14, <2>2, <3>1, ReturnStop DEF SuspendLock
  <2> QED BY <2>1, <2>2
<1>15. ASSUME NEW t \in Threads, BeforeSuspend(t) PROVE StopInv'
  BY <1>15 DEF BeforeSuspend, Return, Continue, Answers, Alive
<1>16. ASSUME NEW t \in Threads, PauseVM(t) PROVE StopInv'
  BY <1>16 DEF PauseVM, Return, Continue, Answers, Alive
<1>17. ASSUME NEW t \in Threads, Snapshot(t) PROVE StopInv'
  <2>0. UNCHANGED <<machineVars, soft, memoryLock, grabMemory, agent, call, list, since, forgiven>>
    BY <1>17 DEF Snapshot
  <2>1. CASE TimesOut("snapshot") /\ Return(t, "error") /\ UNCHANGED <<missing, running>>
    BY <1>17, <2>1 DEF Snapshot, Return, Continue
  <2>2. CASE Answers /\ Goto(t, "snapshot", "waitGrabber") /\ Msync /\ running' = FALSE /\ UNCHANGED <<runningLock, promise>>
    <3>1. missing' \subseteq missing
      BY <2>2 DEF Msync
    <3>2. t # Grabber /\ running' \in BOOLEAN
      BY <2>2
    <3>3. pc' = [pc EXCEPT ![t] = "waitGrabber"] /\ pc[t] = "snapshot" /\ running' = FALSE
      BY <2>2
    <3> QED BY <2>0, <2>2, <3>1, <3>2, <3>3
  <2> QED BY <1>17, <2>1, <2>2 DEF Snapshot
<1>18. ASSUME NEW t \in Threads, WaitGrabber(t) PROVE StopInv'
  <2>1. CASE grabMemory
    BY <1>18, <2>1 DEF WaitGrabber, GrabberDone
  <2>2. CASE ~grabMemory
    BY <1>18, <2>2, ReturnStop DEF WaitGrabber, GrabberDone
  <2> QED BY <2>1, <2>2
<1>19. ASSUME NEW t \in Threads, FlushData(t) PROVE StopInv'
  BY <1>19 DEF FlushData
<1>20. ASSUME NEW t \in Threads, FlushMsync(t) PROVE StopInv'
  BY <1>20 DEF FlushMsync, Return, Continue, Msync
<1>21. ASSUME NEW t \in Threads, GrabLock(t) PROVE StopInv'
  BY <1>21 DEF GrabLock
<1>22. ASSUME NEW t \in Threads, PauseProcess(t) PROVE StopInv'
  BY <1>22 DEF PauseProcess, GrabReturn, Return, Continue
<1>23. ASSUME NEW t \in Threads, ReadSoftDirty(t) PROVE StopInv'
  BY <1>23 DEF ReadSoftDirty, GrabReturn, Return, Continue, Unlocked, UnlockFailed, Drop
<1>24. ASSUME NEW t \in Threads, Compare(t) PROVE StopInv'
  BY <1>24 DEF Compare, GrabReturn, Return, Continue
<1>25. ASSUME NEW t \in Threads, ResumeProcess(t) PROVE StopInv'
  BY <1>25 DEF ResumeProcess, GrabReturn, Return, Continue, Unlocked, UnlockFailed, Drop
<1>26. ASSUME NEW t \in Threads, Copy(t) PROVE StopInv'
  <2>1. CASE GrabReturn(t, "nil") \/ GrabReturn(t, "error")
    BY <1>26, <2>1, ReturnStop DEF Copy, GrabReturn
  <2>2. CASE UNCHANGED <<pc, memoryLock, runningLock, promise>>
    BY <1>26, <2>2 DEF Copy
  <2> QED BY <1>26, <2>1, <2>2 DEF Copy
<1>27. CASE UNCHANGED vars
  BY <1>27 DEF vars
<1> QED
  BY <1>1, <1>2, <1>3, <1>4, <1>5, <1>6, <1>7, <1>8, <1>9, <1>10, <1>11,
     <1>12, <1>13, <1>14, <1>15, <1>16, <1>17, <1>18, <1>19, <1>20, <1>21,
     <1>22, <1>23, <1>24, <1>25, <1>26, <1>27 DEF Next, Resume, Step, Suspend,
     Grab

\* Every step keeps each missing block where a grab will find it.
LEMMA DataStep == TypeOK /\ StageInv /\ LockInv /\ StopInv /\ DataInv /\ ReadsWhileStopped /\ [Next]_vars => DataInv'
<1> SUFFICES ASSUME TypeOK /\ StageInv /\ LockInv /\ StopInv /\ DataInv /\ ReadsWhileStopped, [Next]_vars PROVE DataInv'
  OBVIOUS
<1> USE ThreadsAssumption DEF TypeOK, StageInv, LockInv, StopInv, DataInv,
     ReadsWhileStopped, Goto, machineVars, memoryVars, providerVars, threadVars,
     historyVars
<1>1. ASSUME NEW b \in Blocks, GuestWrite(b) PROVE DataInv'
  <2>1. vm = "running" /\ process = "runs" /\ promise = "none"
    BY <1>1 DEF GuestWrite, Executing
  <2>2. /\ missing' = missing \cup {b} /\ soft' = soft \cup {b}
        /\ UNCHANGED <<machineVars, providerVars, threadVars, historyVars>>
    BY <1>1 DEF GuestWrite
  <2>3. \A t \in Threads : pc[t] # "cont" /\ since[t] = "none"
    BY <2>1
  <2> QED BY <2>1, <2>2, <2>3
<1>2. CASE Exit
  BY <1>2 DEF Exit
<1>3. CASE LoadSnapshot
  BY <1>3 DEF LoadSnapshot
<1>4. CASE SetupDirectMemory
  BY <1>4 DEF SetupDirectMemory
<1>5. CASE SetRunning
  <2>1. CASE config.periodic
    BY <1>5, <2>1 DEF SetRunning
  <2>2. CASE ~config.periodic
    BY <1>5, <2>2 DEF SetRunning
  <2> QED BY <2>1, <2>2
<1>6. CASE StartAgent
  BY <1>6 DEF StartAgent
<1>7. CASE AfterResume
  BY <1>7 DEF AfterResume
<1>8. CASE CallClose
  BY <1>8 DEF CallClose, Begin
<1>9. CASE GrabberTick
  BY <1>9 DEF GrabberTick
<1>10. CASE GrabberStop
  BY <1>10 DEF GrabberStop
<1>11. CASE CloseMachine
  BY <1>11 DEF CloseMachine
<1>12. ASSUME NEW t \in Movers, CallSuspend(t) PROVE DataInv'
  BY <1>12 DEF CallSuspend, Begin
<1>13. ASSUME NEW t \in Movers, CallFlushData(t) PROVE DataInv'
  BY <1>13 DEF CallFlushData, Begin
<1>14. ASSUME NEW t \in Threads, SuspendLock(t) PROVE DataInv'
  BY <1>14 DEF SuspendLock, Return, Continue
<1>15. ASSUME NEW t \in Threads, BeforeSuspend(t) PROVE DataInv'
  BY <1>15 DEF BeforeSuspend, Return, Continue
<1>16. ASSUME NEW t \in Threads, PauseVM(t) PROVE DataInv'
  BY <1>16 DEF PauseVM, Return, Continue
<1>17. ASSUME NEW t \in Threads, Snapshot(t) PROVE DataInv'
  <2>0. UNCHANGED <<machineVars, soft, memoryLock, grabMemory, agent, call, list, since, forgiven>>
    BY <1>17 DEF Snapshot
  <2>1. CASE TimesOut("snapshot") /\ Return(t, "error") /\ UNCHANGED <<missing, running>>
    BY <1>17, <2>1 DEF Snapshot, Return, Continue
  <2>2. CASE Answers /\ Goto(t, "snapshot", "waitGrabber") /\ Msync /\ running' = FALSE /\ UNCHANGED <<runningLock, promise>>
    <3>1. missing' \subseteq missing
      BY <2>2 DEF Msync
    <3>2. t # Grabber /\ running' \in BOOLEAN
      BY <2>2
    <3>3. pc' = [pc EXCEPT ![t] = "waitGrabber"] /\ pc[t] = "snapshot" /\ running' = FALSE
      BY <2>2
    <3> QED BY <2>0, <2>2, <3>1, <3>2, <3>3
  <2> QED BY <1>17, <2>1, <2>2 DEF Snapshot
<1>18. ASSUME NEW t \in Threads, WaitGrabber(t) PROVE DataInv'
  <2>1. CASE grabMemory
    BY <1>18, <2>1 DEF WaitGrabber, GrabberDone
  <2>2. CASE ~grabMemory
    BY <1>18, <2>2 DEF WaitGrabber, GrabberDone, Return, Continue
  <2> QED BY <2>1, <2>2
<1>19. ASSUME NEW t \in Threads, FlushData(t) PROVE DataInv'
  BY <1>19 DEF FlushData
<1>20. ASSUME NEW t \in Threads, FlushMsync(t) PROVE DataInv'
  BY <1>20 DEF FlushMsync, Return, Continue, Msync, Executing, Answers, Alive
<1>21. ASSUME NEW t \in Threads, GrabLock(t) PROVE DataInv'
  BY <1>21 DEF GrabLock
<1>22. ASSUME NEW t \in Threads, PauseProcess(t) PROVE DataInv'
  BY <1>22 DEF PauseProcess, GrabReturn, Return, Continue
<1>23. ASSUME NEW t \in Threads, ReadSoftDirty(t) PROVE DataInv'
  <2>0. /\ pc[t] = "read" /\ ~config.failsafe
        /\ UNCHANGED <<config, vm, missing, running, grabMemory, agent, call, since>>
    BY <1>23 DEF ReadSoftDirty
  <2>1. CASE /\ Goto(t, "read", "cont")
             /\ list' = [list EXCEPT ![t] = soft]
             /\ UNCHANGED <<process, soft, memoryLock, runningLock, promise, forgiven>>
    BY <2>0, <2>1
  <2>2. CASE (Unlocked \/ UnlockFailed(t)) /\ Drop(soft \ soft') /\ GrabReturn(t, "error")
    BY <2>0, <2>2 DEF Unlocked, UnlockFailed, Drop, GrabReturn, Return, Continue
  <2> QED BY <1>23, <2>1, <2>2 DEF ReadSoftDirty
<1>24. ASSUME NEW t \in Threads, Compare(t) PROVE DataInv'
  BY <1>24 DEF Compare, GrabReturn, Return, Continue
<1>25. ASSUME NEW t \in Threads, ResumeProcess(t) PROVE DataInv'
  <2>0. /\ pc[t] = "cont"
        /\ UNCHANGED <<config, vm, missing, running, grabMemory, agent, call, since>>
    BY <1>25 DEF ResumeProcess
  <2>1. CASE Unlocked /\ Goto(t, "cont", "copy") /\ UNCHANGED <<memoryLock, list, runningLock, promise, forgiven>>
    BY <2>0, <2>1 DEF Unlocked
  <2>2. CASE UnlockFailed(t) /\ Drop(soft \ soft') /\ GrabReturn(t, "error")
    BY <2>0, <2>2 DEF UnlockFailed, Drop, GrabReturn, Return, Continue
  <2> QED BY <1>25, <2>1, <2>2 DEF ResumeProcess
<1>26. ASSUME NEW t \in Threads, Copy(t) PROVE DataInv'
  <2>0. /\ pc[t] = "copy"
        /\ UNCHANGED <<machineVars, soft, running, grabMemory, agent, call, since>>
    BY <1>26 DEF Copy
  <2>1. CASE /\ list[t] = {} \/ config.updates = "nothing"
             /\ GrabReturn(t, "nil") /\ UNCHANGED <<missing, forgiven>>
    BY <2>0, <2>1 DEF GrabReturn, Return, Continue
  <2>2. CASE /\ missing' = missing \ list[t]
             /\ list' = [list EXCEPT ![t] = {}]
             /\ UNCHANGED <<pc, memoryLock, runningLock, promise, forgiven>>
    BY <2>0, <2>2
  <2>3. CASE /\ \E b \in list[t] :
                   /\ missing' = missing \ ({b} \ soft)
                   /\ list' = [list EXCEPT ![t] = @ \ {b}]
             /\ UNCHANGED <<pc, memoryLock, runningLock, promise, forgiven>>
    <3>1. PICK b \in list[t] : /\ missing' = missing \ ({b} \ soft)
                               /\ list' = [list EXCEPT ![t] = @ \ {b}]
      BY <2>3
    <3>2. UNCHANGED <<pc, memoryLock, runningLock, promise, forgiven>>
      BY <2>3
    <3>3. \A u \in Threads : u # t => pc[u] # "cont" /\ pc[u] # "copy"
      BY <2>0
    <3>4. CASE b \in soft
      BY <2>0, <3>1, <3>2, <3>3, <3>4
    <3>5. CASE b \notin soft
      BY <2>0, <3>1, <3>2, <3>3, <3>5
    <3> QED BY <3>4, <3>5
  <2>4. CASE Drop(list[t]) /\ GrabReturn(t, "error") /\ UNCHANGED missing
    BY <2>0, <2>4 DEF Drop, GrabReturn, Return, Continue
  <2> QED BY <1>26, <2>1, <2>2, <2>3, <2>4 DEF Copy
<1>27. CASE UNCHANGED vars
  BY <1>27 DEF vars
<1> QED
  BY <1>1, <1>2, <1>3, <1>4, <1>5, <1>6, <1>7, <1>8, <1>9, <1>10, <1>11,
     <1>12, <1>13, <1>14, <1>15, <1>16, <1>17, <1>18, <1>19, <1>20, <1>21,
     <1>22, <1>23, <1>24, <1>25, <1>26, <1>27 DEF Next, Resume, Step, Suspend,
     Grab

\* Every step keeps to what makes the runtime forget a change.
LEMMA ForgivenStep == TypeOK /\ StageInv /\ ForgivenInv /\ [Next]_vars => ForgivenInv'
<1> SUFFICES ASSUME TypeOK /\ StageInv, ForgivenInv, [Next]_vars PROVE ForgivenInv'
  OBVIOUS
<1> USE ThreadsAssumption DEF TypeOK, StageInv, ForgivenInv, Goto, machineVars, memoryVars,
     providerVars, threadVars, historyVars
<1>1. ASSUME NEW b \in Blocks, GuestWrite(b) PROVE ForgivenInv'
  BY <1>1 DEF GuestWrite
<1>2. CASE Exit
  BY <1>2 DEF Exit, Alive
<1>3. CASE LoadSnapshot
  BY <1>3 DEF LoadSnapshot
<1>4. CASE SetupDirectMemory
  BY <1>4 DEF SetupDirectMemory
<1>5. CASE SetRunning
  BY <1>5 DEF SetRunning
<1>6. CASE StartAgent
  BY <1>6 DEF StartAgent
<1>7. CASE AfterResume
  BY <1>7 DEF AfterResume
<1>8. CASE CallClose
  BY <1>8 DEF CallClose, Begin
<1>9. CASE GrabberTick
  BY <1>9 DEF GrabberTick
<1>10. CASE GrabberStop
  BY <1>10 DEF GrabberStop
<1>11. CASE CloseMachine
  BY <1>11 DEF CloseMachine
<1>12. ASSUME NEW t \in Movers, CallSuspend(t) PROVE ForgivenInv'
  BY <1>12 DEF CallSuspend, Begin
<1>13. ASSUME NEW t \in Movers, CallFlushData(t) PROVE ForgivenInv'
  BY <1>13 DEF CallFlushData, Begin
<1>14. ASSUME NEW t \in Threads, SuspendLock(t) PROVE ForgivenInv'
  BY <1>14 DEF SuspendLock, Return, Continue
<1>15. ASSUME NEW t \in Threads, BeforeSuspend(t) PROVE ForgivenInv'
  BY <1>15 DEF BeforeSuspend, Return, Continue
<1>16. ASSUME NEW t \in Threads, PauseVM(t) PROVE ForgivenInv'
  BY <1>16 DEF PauseVM, Return, Continue, Answers, Alive
<1>17. ASSUME NEW t \in Threads, Snapshot(t) PROVE ForgivenInv'
  BY <1>17 DEF Snapshot, Return, Continue, Msync
<1>18. ASSUME NEW t \in Threads, WaitGrabber(t) PROVE ForgivenInv'
  BY <1>18 DEF WaitGrabber, Return, Continue
<1>19. ASSUME NEW t \in Threads, FlushData(t) PROVE ForgivenInv'
  BY <1>19 DEF FlushData
<1>20. ASSUME NEW t \in Threads, FlushMsync(t) PROVE ForgivenInv'
  BY <1>20 DEF FlushMsync, Return, Continue, Msync
<1>21. ASSUME NEW t \in Threads, GrabLock(t) PROVE ForgivenInv'
  BY <1>21 DEF GrabLock
<1>22. ASSUME NEW t \in Threads, PauseProcess(t) PROVE ForgivenInv'
  BY <1>22 DEF PauseProcess, GrabReturn, Return, Continue
<1>23. ASSUME NEW t \in Threads, ReadSoftDirty(t) PROVE ForgivenInv'
  BY <1>23 DEF ReadSoftDirty, GrabReturn, Return, Continue, Unlocked, UnlockFailed, Drop, GrabFails, Fails
<1>24. ASSUME NEW t \in Threads, Compare(t) PROVE ForgivenInv'
  BY <1>24 DEF Compare, GrabReturn, Return, Continue
<1>25. ASSUME NEW t \in Threads, ResumeProcess(t) PROVE ForgivenInv'
  BY <1>25 DEF ResumeProcess, GrabReturn, Return, Continue, Unlocked, UnlockFailed, Drop, GrabFails, Fails
<1>26. ASSUME NEW t \in Threads, Copy(t) PROVE ForgivenInv'
  BY <1>26 DEF Copy, GrabReturn, Return, Continue, Drop, GrabFails, Fails
<1>27. CASE UNCHANGED vars
  BY <1>27 DEF vars
<1> QED
  BY <1>1, <1>2, <1>3, <1>4, <1>5, <1>6, <1>7, <1>8, <1>9, <1>10, <1>11,
     <1>12, <1>13, <1>14, <1>15, <1>16, <1>17, <1>18, <1>19, <1>20, <1>21,
     <1>22, <1>23, <1>24, <1>25, <1>26, <1>27 DEF Next, Resume, Step, Suspend,
     Grab

-----------------------------------------------------------------------------
\* The invariant holds at first.
LEMMA InitInv == Init => RuntimeInv
<1> SUFFICES ASSUME Init PROVE RuntimeInv
  OBVIOUS
<1> USE ThreadsAssumption DEF Init
<1>1. config \in AllConfigs /\ config.updates \in {"nothing", "copy", "mark"}
  BY ConfigsAssumption DEF AllConfigs
<1>2. \A t \in Threads : pc[t] = IF t = Owner THEN "load" ELSE IF t = Grabber THEN "off" ELSE "before"
  OBVIOUS
<1>3. \A t \in Threads : call[t] = IF t = Owner THEN "Resume" ELSE "none"
  OBVIOUS
<1>4. TypeOK
  <2>1. grabMemory \in BOOLEAN
    OBVIOUS
  <2>2. pc \in [Threads -> Stages]
    OBVIOUS
  <2>3. pc[Grabber] = "off"
    BY <1>2
  <2>4. /\ call \in [Threads -> {"none", "Resume", "Suspend", "FlushData", "Close"}]
        /\ list \in [Threads -> SUBSET Blocks]
        /\ since \in [Threads -> {"none", "suspended", "flushed"}]
    OBVIOUS
  <2> QED BY <1>1, <2>1, <2>2, <2>3, <2>4 DEF TypeOK
<1>5. StageInv
  BY <1>2, <1>3 DEF StageInv
<1>6. LockInv
  BY <1>2, <1>3 DEF LockInv
<1>7. StopInv
  BY <1>2, <1>3 DEF StopInv
<1>8. DataInv
  BY <1>1, <1>2, <1>3 DEF DataInv
<1>9. ReadsWhileStopped
  BY <1>2 DEF ReadsWhileStopped
<1>10. ForgivenInv
  BY DEF ForgivenInv
<1> QED BY <1>4, <1>5, <1>6, <1>7, <1>8, <1>9, <1>10 DEF RuntimeInv

\* Every step keeps the invariant.
LEMMA StepInv == RuntimeInv /\ [Next]_vars => RuntimeInv'
BY TypeStep, StageStep, LockStep, ReadsStep, StopStep, DataStep, ForgivenStep DEF RuntimeInv

\* The inductive invariant holds in every state: types, who may be at which stage
\* and hold which mutex, what is left of the VM and of the grabber once running is
\* unset, and where a block that is not on the device will be found.
THEOREM Invariance == Spec => []RuntimeInv
<1> QED BY InitInv, StepInv, PTL DEF Spec

\* The variables keep their types.
THEOREM TypeCorrect == Spec => []TypeOK
<1>1. RuntimeInv => TypeOK
  BY DEF RuntimeInv
<1> QED BY <1>1, Invariance, PTL

\* A grab looks at memory only while the process is stopped, whichever grabs,
\* suspends, flushes and Close run at the same time and whatever fails.
THEOREM GrabsReadStoppedMemory == Spec => []ReadsWhileStopped
<1>1. RuntimeInv => ReadsWhileStopped
  BY DEF RuntimeInv
<1> QED BY <1>1, Invariance, PTL

\* Once a Suspend has returned without an error the periodic grabber is gone.
THEOREM GrabberGoneAfterSuspend == Spec => []NoGrabAfterSuspend
<1>1. RuntimeInv => NoGrabAfterSuspend
  BY DEF RuntimeInv, StopInv, NoGrabAfterSuspend
<1> QED BY <1>1, Invariance, PTL

\* Once Close has returned without an error, after a Resume that got as far as the
\* agent, the process is dead and the periodic grabber gone.
THEOREM ClosedIsQuietAlways == Spec => []ClosedIsQuiet
<1>1. RuntimeInv => ClosedIsQuiet
  BY DEF RuntimeInv, StopInv, ClosedIsQuiet
<1> QED BY <1>1, Invariance, PTL

\* Until Close, a runtime that has flushed keeps nothing back, if its memory is mapped or
\* compared in full, whatever failed; and with soft-dirty bits if no grab failed.  So
\* the comment at runtime.go:274 is right but for a soft-dirty grab that fails.
THEOREM FlushedIsCompleteUnlessGrabFailed == Spec => []FlushedUnlessGrabFailed
<1>1. RuntimeInv => FlushedUnlessGrabFailed
  BY DEF RuntimeInv, DataInv, ForgivenInv, FlushedUnlessGrabFailed
<1> QED BY <1>1, Invariance, PTL

\* However many goroutines suspend, flush and grab at a time, none of them waits,
\* through the mutexes and the grabber, for itself.
THEOREM NoCircularWaitAlways == Spec => []NoCircularWait
<1>1. RuntimeInv => NoCircularWait
  <2> SUFFICES ASSUME RuntimeInv, NEW t \in Threads, Waits(t)
               PROVE  WaitsFor(t) \in Threads /\ Level(WaitsFor(t)) < Level(t)
    BY DEF NoCircularWait
  <2> USE ThreadsAssumption DEF RuntimeInv, TypeOK, LockInv
  <2>1. CASE pc[t] = "suspend"
    <3>1. runningLock \in Threads /\ pc[runningLock] # "suspend"
      BY <2>1 DEF Waits, StageInv
    <3>2. WaitsFor(t) = runningLock /\ Level(t) = 3 /\ Level(runningLock) < 3
      BY <2>1, <3>1 DEF WaitsFor, Level
    <3> QED
      BY <3>1, <3>2
  <2>2. CASE pc[t] = "waitGrabber"
    <3>1. WaitsFor(t) = Grabber /\ Grabber \in Threads /\ Level(t) = 2
      BY <2>2 DEF WaitsFor, Level
    <3>2. Level(Grabber) < 2
      BY DEF Level
    <3> QED
      BY <3>1, <3>2
  <2>3. CASE pc[t] = "memoryLock"
    <3>1. memoryLock \in Threads /\ pc[memoryLock] \in GrabStages
      BY <2>3 DEF Waits
    <3>2. WaitsFor(t) = memoryLock /\ Level(t) = 1 /\ Level(memoryLock) = 0
      BY <2>3, <3>1 DEF WaitsFor, Level
    <3> QED
      BY <3>1, <3>2
  <2> QED
    BY <2>1, <2>2, <2>3 DEF Waits
<1> QED BY <1>1, Invariance, PTL

\* A thread's step moves it on, or shortens its list, and leaves the other threads.
LEMMA StepGoesOn ==
  ASSUME TypeOK, NEW t \in Threads, Step(t)
  PROVE  /\ \/ Place(pc[t]) < Place(pc'[t])
            \/ /\ pc[t] = "copy" /\ pc'[t] = "copy"
               /\ list'[t] \subseteq list[t] /\ list'[t] # list[t]
         /\ \A u \in Threads \ {t} : pc'[u] = pc[u] /\ list'[u] = list[u]
<1> DEFINE Others == \A u \in Threads \ {t} : pc'[u] = pc[u] /\ list'[u] = list[u]
<1> USE DEF Goto, machineVars, memoryVars, providerVars, threadVars, historyVars
<1>0. pc \in [Threads -> Stages] /\ list \in [Threads -> SUBSET Blocks]
  BY DEF TypeOK
<1>1. \A err : Return(t, err) =>
         /\ pc'[t] \in {"tick", "closeMachine", "idle"}
         /\ \A u \in Threads \ {t} : pc'[u] = pc[u]
  BY <1>0 DEF Return, Continue
<1>2. ASSUME NEW from, NEW to, Goto(t, from, to)
      PROVE  pc[t] = from /\ pc'[t] = to /\ \A u \in Threads \ {t} : pc'[u] = pc[u]
  BY <1>0, <1>2
<1>3. CASE SuspendLock(t)
  BY <1>0, <1>1, <1>3 DEF SuspendLock, Place
<1>4. CASE BeforeSuspend(t)
  BY <1>0, <1>1, <1>4 DEF BeforeSuspend, Place
<1>5. CASE PauseVM(t)
  BY <1>0, <1>1, <1>5 DEF PauseVM, Place
<1>6. CASE Snapshot(t)
  BY <1>0, <1>1, <1>6 DEF Snapshot, Place
<1>7. CASE WaitGrabber(t)
  BY <1>0, <1>1, <1>7 DEF WaitGrabber, Place
<1>8. CASE FlushData(t)
  BY <1>0, <1>8 DEF FlushData, Place
<1>9. CASE FlushMsync(t)
  BY <1>0, <1>1, <1>9 DEF FlushMsync, Place
<1>10. CASE GrabLock(t)
  BY <1>0, <1>10 DEF GrabLock, Place
<1>11. CASE PauseProcess(t)
  BY <1>0, <1>1, <1>11 DEF PauseProcess, GrabReturn, Place
<1>12. CASE ReadSoftDirty(t)
  BY <1>0, <1>1, <1>12 DEF ReadSoftDirty, GrabReturn, Place
<1>13. CASE Compare(t)
  BY <1>0, <1>1, <1>13 DEF Compare, GrabReturn, Place
<1>14. CASE ResumeProcess(t)
  BY <1>0, <1>1, <1>14 DEF ResumeProcess, GrabReturn, Place
<1>15. CASE Copy(t)
  BY <1>0, <1>1, <1>15 DEF Copy, GrabReturn, Place
<1> QED
  BY <1>3, <1>4, <1>5, <1>6, <1>7, <1>8, <1>9, <1>10, <1>11, <1>12, <1>13, <1>14, <1>15
     DEF Step, Suspend, Grab

\* Nothing but its own steps moves a thread that is in a call.
LEMMA OthersLeaveIt ==
  ASSUME TypeOK, StageInv, [Next]_vars, NEW t \in Threads, pc[t] \in CallStages, ~Step(t)
  PROVE  pc'[t] = pc[t] /\ list'[t] = list[t]
<1> USE ThreadsAssumption DEF TypeOK, Goto, CallStages, GrabStages, machineVars, memoryVars,
     providerVars, threadVars, historyVars
<1>1. ASSUME NEW u \in Threads, Step(u) PROVE pc'[t] = pc[t] /\ list'[t] = list[t]
  BY <1>1, StepGoesOn
<1>2. CASE Resume
  BY <1>2 DEF Resume, LoadSnapshot, SetupDirectMemory, SetRunning, StartAgent, AfterResume,
     StageInv, ResumeStages
<1>3. CASE CallClose \/ \E u \in Movers : CallSuspend(u) \/ CallFlushData(u)
  BY <1>3 DEF CallClose, CallSuspend, CallFlushData, Begin
<1>4. CASE GrabberTick \/ GrabberStop \/ CloseMachine
  BY <1>4 DEF GrabberTick, GrabberStop, CloseMachine
<1>5. CASE Exit \/ UNCHANGED vars \/ \E b \in Blocks : GuestWrite(b)
  BY <1>5 DEF Exit, GuestWrite, vars
<1> QED
  BY <1>1, <1>2, <1>3, <1>4, <1>5 DEF Next

\* Every call goes forward, whoever else suspends, flushes and grabs and however much
\* the guest writes: with NoCircularWaitAlways, the safety half of SuspendReturns.
THEOREM CallsGoForwardAlways == Spec => CallsGoForward
<1>1. RuntimeInv /\ [Next]_vars => [CallForward]_vars
  BY StepGoesOn, OthersLeaveIt DEF RuntimeInv, CallForward
<1> QED
  BY <1>1, Invariance, PTL DEF Spec, CallsGoForward

-----------------------------------------------------------------------------
\* What a step may be for VMContract, in the terms of this module.

LEMMA AsSchedule ==
  promise = "none" /\ UNCHANGED <<missing, promise, forgiven>> => [C!Next]_(C!vars)
<1>1. (Executing)' \in BOOLEAN
  BY DEF Executing
<1> QED BY <1>1 DEF C!Next, C!Schedule

LEMMA AsSave ==
  missing' \subseteq missing /\ UNCHANGED <<vm, process, promise, forgiven>> => [C!Next]_(C!vars)
<1> SUFFICES ASSUME missing' \subseteq missing, UNCHANGED <<vm, process, promise, forgiven>>
             PROVE  C!Save
  BY DEF C!Next
<1>1. (Executing)' = Executing
  BY DEF Executing
<1>2. missing' = missing \ (missing \ missing') /\ missing \ missing' \in SUBSET missing
  OBVIOUS
<1> QED BY <1>1, <1>2 DEF C!Save

LEMMA AsForgive ==
  ASSUME UNCHANGED <<missing, promise>>, forgiven \subseteq forgiven', forgiven' \subseteq Blocks,
         promise = "none" \/ UNCHANGED <<vm, process>> \/ (vm # "running" /\ vm' # "running")
  PROVE  [C!Next]_(C!vars)
<1> SUFFICES C!Forgive
  BY DEF C!Next
<1>1. forgiven' \in SUBSET Blocks /\ forgiven' = forgiven \cup forgiven'
  OBVIOUS
<1>2. promise = "none" \/ (Executing)' = Executing
  BY DEF Executing
<1>3. (Executing)' \in BOOLEAN
  BY DEF Executing
<1> QED BY <1>1, <1>2, <1>3 DEF C!Forgive

LEMMA AsSuspended ==
  ASSUME promise = "none", promise' = "suspended", UNCHANGED <<missing, forgiven>>,
         vm # "running", vm' # "running"
  PROVE  [C!Next]_(C!vars)
<1>1. ~Executing /\ (Executing)' = Executing
  BY DEF Executing
<1> QED BY <1>1 DEF C!Next, C!SuspendReturns

LEMMA AsFlushed ==
  ASSUME promise = "suspended", promise' = "flushed", missing' \subseteq missing,
         missing' \subseteq forgiven, UNCHANGED forgiven, vm # "running", vm' # "running"
  PROVE  [C!Next]_(C!vars)
<1>1. (Executing)' = Executing
  BY DEF Executing
<1> QED BY <1>1 DEF C!Next, C!FlushReturns

LEMMA InitContract == Init => C!Init
BY DEF Init, C!Init, Executing


\* A Suspend that waits for the grabber, or grabs what it left, has stopped the VM.
LEMMA SuspendStopped ==
  ASSUME RuntimeInv, NEW t \in Threads, call[t] = "Suspend",
         pc[t] \in {"waitGrabber", "memoryLock"} \cup GrabStages
  PROVE  vm # "running"
<1> USE ThreadsAssumption DEF RuntimeInv, TypeOK, StageInv, LockInv
<1>1. t \in Movers
  OBVIOUS
<1>2. runningLock = t
  OBVIOUS
<1>3. ~running /\ \A u \in Movers : pc[u] # "before"
  BY <1>1, <1>2 DEF StopInv
<1> QED BY <1>1, <1>3 DEF StopInv

\* A return that reports no error: a Suspend has stopped the VM, a FlushData after
\* it leaves nothing missing but what is forgiven; others promise nothing.
LEMMA ReturnContract ==
  ASSUME RuntimeInv, NEW t \in Threads, Return(t, "nil"),
         UNCHANGED <<vm, process, forgiven>>, missing' \subseteq missing,
         call[t] = "Suspend" => vm # "running" /\ missing' = missing,
         call[t] = "FlushData" /\ since[t] # "none" => missing' \subseteq forgiven
  PROVE  [C!Next]_(C!vars)
<1>1. CASE promise' = promise
  BY <1>1, AsSave
<1>2. CASE promise' # promise /\ call[t] = "Suspend"
  <2>1. promise = "none" /\ promise' = "suspended"
    BY <1>2 DEF Return
  <2> QED BY <1>2, <2>1, AsSuspended
<1>3. CASE promise' # promise /\ call[t] # "Suspend"
  <2>1. call[t] = "FlushData" /\ since[t] # "none"
    BY <1>3, ReturnPromise
  <2>2. promise' = "flushed"
    BY <1>3, <2>1 DEF Return
  <2>3. promise = "suspended" /\ vm # "running"
    BY <1>3, <2>1, <2>2 DEF RuntimeInv, TypeOK, StopInv
  <2> QED BY <2>1, <2>2, <2>3, AsFlushed
<1> QED BY <1>1, <1>2, <1>3


\* Every step is a step of VMContract, or changes nothing it speaks of.
LEMMA ContractStep == RuntimeInv /\ [Next]_vars => [C!Next]_(C!vars)
<1> SUFFICES ASSUME RuntimeInv, [Next]_vars PROVE [C!Next]_(C!vars)
  OBVIOUS
<1> USE ThreadsAssumption DEF RuntimeInv, TypeOK, StageInv, StopInv, DataInv, Goto,
     machineVars, memoryVars, providerVars, threadVars, historyVars
<1>1. ASSUME NEW b \in Blocks, GuestWrite(b) PROVE [C!Next]_(C!vars)
  <2>1. Executing /\ (Executing)' = Executing /\ UNCHANGED <<promise, forgiven>>
    BY <1>1 DEF GuestWrite, Executing
  <2>2. missing' = missing \cup {b} /\ {b} \in SUBSET Blocks
    BY <1>1 DEF GuestWrite
  <2> QED BY <2>1, <2>2 DEF C!Next, C!Write
<1>2. CASE Exit
  BY AsSchedule, AsForgive, <1>2 DEF Exit
<1>3. CASE LoadSnapshot
  BY AsSchedule, <1>3 DEF LoadSnapshot
<1>4. CASE SetupDirectMemory
  BY AsSave, <1>4 DEF SetupDirectMemory
<1>5. CASE SetRunning
  BY AsSave, <1>5 DEF SetRunning
<1>6. CASE StartAgent
  BY AsSave, <1>6 DEF StartAgent
<1>7. CASE AfterResume
  BY AsSave, <1>7 DEF AfterResume
<1>8. CASE CallClose
  BY AsForgive, <1>8 DEF CallClose, Begin
<1>9. CASE GrabberTick
  BY AsSave, <1>9 DEF GrabberTick
<1>10. CASE GrabberStop
  BY AsSave, <1>10 DEF GrabberStop
<1>11. CASE CloseMachine
  BY AsForgive, AsSchedule, <1>11 DEF CloseMachine
<1>12. ASSUME NEW t \in Movers, CallSuspend(t) PROVE [C!Next]_(C!vars)
  BY AsSave, <1>12 DEF CallSuspend, Begin
<1>13. ASSUME NEW t \in Movers, CallFlushData(t) PROVE [C!Next]_(C!vars)
  BY AsSave, <1>13 DEF CallFlushData, Begin
<1>14. ASSUME NEW t \in Threads, SuspendLock(t) PROVE [C!Next]_(C!vars)
  BY AsSave, AsSuspended, <1>14 DEF SuspendLock, Return, Continue
<1>15. ASSUME NEW t \in Threads, BeforeSuspend(t) PROVE [C!Next]_(C!vars)
  BY AsSave, <1>15 DEF BeforeSuspend, Return, Continue
<1>16. ASSUME NEW t \in Threads, PauseVM(t) PROVE [C!Next]_(C!vars)
  BY AsSave, AsSchedule, AsForgive, <1>16 DEF PauseVM, Return, Continue
<1>17. ASSUME NEW t \in Threads, Snapshot(t) PROVE [C!Next]_(C!vars)
  BY AsSave, <1>17 DEF Snapshot, Return, Continue, Msync
<1>18. ASSUME NEW t \in Threads, WaitGrabber(t) PROVE [C!Next]_(C!vars)
  <2>1. CASE UNCHANGED promise
    BY <1>18, <2>1, AsSave DEF WaitGrabber
  <2>2. CASE Return(t, "nil")
    BY <1>18, <2>2, ReturnContract, SuspendStopped DEF WaitGrabber
  <2> QED BY <1>18, <2>1, <2>2 DEF WaitGrabber
<1>19. ASSUME NEW t \in Threads, FlushData(t) PROVE [C!Next]_(C!vars)
  BY AsSave, <1>19 DEF FlushData
<1>20. ASSUME NEW t \in Threads, FlushMsync(t) PROVE [C!Next]_(C!vars)
  <2>0. /\ pc[t] = "msync" /\ call[t] = "FlushData"
        /\ UNCHANGED <<vm, process, forgiven>>
    BY <1>20 DEF FlushMsync
  <2>1. CASE Msync /\ Return(t, "nil")
    <3>1. missing' \subseteq missing
      BY <2>1 DEF Msync
    <3>2. ASSUME since[t] # "none" PROVE missing' \subseteq forgiven
      <4>1. ~Executing /\ ~grabMemory
        BY <2>0, <3>2 DEF Executing
      <4>2. CASE config.updates = "nothing"
        BY <2>1, <4>1, <4>2 DEF Msync
      <4>3. CASE config.updates # "nothing"
        BY <3>1, <4>1, <4>3
      <4> QED BY <4>2, <4>3
    <3> QED BY <2>0, <2>1, <3>1, <3>2, ReturnContract
  <2>2. CASE Return(t, "error") /\ UNCHANGED missing
    BY <2>0, <2>2, AsSave DEF Return
  <2> QED BY <1>20, <2>1, <2>2 DEF FlushMsync
<1>21. ASSUME NEW t \in Threads, GrabLock(t) PROVE [C!Next]_(C!vars)
  BY AsSave, <1>21 DEF GrabLock
<1>22. ASSUME NEW t \in Threads, PauseProcess(t) PROVE [C!Next]_(C!vars)
  BY AsForgive, AsSchedule, <1>22 DEF PauseProcess, GrabReturn, Return, Continue
<1>23. ASSUME NEW t \in Threads, ReadSoftDirty(t) PROVE [C!Next]_(C!vars)
  BY AsSave, AsForgive, <1>23 DEF ReadSoftDirty, GrabReturn, Return, Continue,
       Unlocked, UnlockFailed, Drop
<1>24. ASSUME NEW t \in Threads, Compare(t) PROVE [C!Next]_(C!vars)
  BY AsSave, <1>24 DEF Compare, GrabReturn, Return, Continue
<1>25. ASSUME NEW t \in Threads, ResumeProcess(t) PROVE [C!Next]_(C!vars)
  BY AsForgive, AsSchedule, <1>25 DEF ResumeProcess, GrabReturn, Return, Continue,
       Unlocked, UnlockFailed, Drop
<1>26. ASSUME NEW t \in Threads, Copy(t) PROVE [C!Next]_(C!vars)
  <2>0. /\ pc[t] = "copy"
        /\ UNCHANGED <<machineVars, soft, running, grabMemory, agent, call, since>>
    BY <1>26 DEF Copy
  <2>1. CASE /\ list[t] = {} \/ config.updates = "nothing"
             /\ GrabReturn(t, "nil") /\ UNCHANGED <<missing, forgiven>>
    <3>1. call[t] = "Suspend" => vm # "running"
      BY <2>0, SuspendStopped
    <3>2. ASSUME call[t] = "FlushData", since[t] # "none" PROVE missing' \subseteq forgiven
      BY <2>0, <2>1, <3>2
    <3> QED BY <2>0, <2>1, <3>1, <3>2, ReturnContract DEF GrabReturn
  <2>2. CASE missing' \subseteq missing /\ UNCHANGED <<promise, forgiven>>
    BY <2>0, <2>2, AsSave
  <2>3. CASE Drop(list[t]) /\ GrabReturn(t, "error") /\ UNCHANGED missing
    BY <2>0, <2>3, AsForgive DEF Drop, GrabReturn, Return
  <2> QED BY <1>26, <2>1, <2>2, <2>3 DEF Copy
<1>27. CASE UNCHANGED vars
  BY AsSave, <1>27 DEF vars
<1> QED
  BY <1>1, <1>2, <1>3, <1>4, <1>5, <1>6, <1>7, <1>8, <1>9, <1>10, <1>11,
     <1>12, <1>13, <1>14, <1>15, <1>16, <1>17, <1>18, <1>19, <1>20, <1>21,
     <1>22, <1>23, <1>24, <1>25, <1>26, <1>27 DEF Next, Resume, Step, Suspend,
     Grab

\* The runtime keeps VMContract: once Suspend has returned without an error the
\* guest never executes again, and once a FlushData called after that has, every
\* block it wrote is on the device or is one that a failed grab, or Close, dropped.
THEOREM RuntimeImplementsContract == Spec => ImplementsContract
<1>1. Init => C!Init
  BY InitContract
<1>2. RuntimeInv /\ [Next]_vars => [C!Next]_(C!vars)
  BY ContractStep
<1> QED BY <1>1, <1>2, Invariance, PTL DEF Spec, ImplementsContract, C!Spec

=============================================================================
