----------------------- MODULE FirecrackerMachineProofs -----------------------
(***************************************************************************)
(* Proofs about FirecrackerMachine, for any number of callers of Close and *)
(* any ways in which the process may exit by itself.                       *)
(***************************************************************************)
EXTENDS FirecrackerMachine, TLAPS

\* Every step keeps the variables in their types.
LEMMA TypeStep == MachineInv /\ [Next]_vars => TypeOK'
<1> SUFFICES ASSUME MachineInv, [Next]_vars PROVE TypeOK'
  OBVIOUS
<1> USE ExitsAssumption DEF MachineInv, TypeOK, ExitValues
<1>1. CASE ExitItself
  BY <1>1 DEF ExitItself
<1>2. CASE CancelCtx
  BY <1>2 DEF CancelCtx
<1>3. CASE CommandContextKill
  BY <1>3 DEF CommandContextKill
<1>4. CASE Reap
  BY <1>4 DEF Reap
<1>5. CASE ReportExit
  BY <1>5 DEF ReportExit, ExitError, KilledByUs
<1>6. CASE SocketReady
  BY <1>6 DEF SocketReady
<1>7. CASE StartTimeout
  BY <1>7 DEF StartTimeout
<1>8. CASE StartExited
  BY <1>8 DEF StartExited
<1>9. ASSUME NEW c \in Closers, CloseCall(c) PROVE TypeOK'
  BY <1>9 DEF CloseCall
<1>10. ASSUME NEW c \in Closers, CloseKill(c) PROVE TypeOK'
  BY <1>10 DEF CloseKill, CloseReturn
<1>11. ASSUME NEW c \in Closers, CloseWait(c) PROVE TypeOK'
  BY <1>11 DEF CloseWait, CloseReturn
<1>12. CASE WaitReaped
  BY <1>12 DEF WaitReaped
<1>13. CASE Relay
  BY <1>13 DEF Relay, KilledByUs
<1>14. CASE UNCHANGED vars
  BY <1>14 DEF vars
<1> QED
  BY <1>1, <1>2, <1>3, <1>4, <1>5, <1>6, <1>7, <1>8, <1>9, <1>10, <1>11, <1>12, <1>13,
     <1>14 DEF Next

\* Every step keeps the exit, the wait for it and its reports in agreement.
LEMMA MachineStep == MachineInv /\ [Next]_vars => MachineInv'
<1> SUFFICES ASSUME MachineInv, [Next]_vars PROVE MachineInv'
  OBVIOUS
<1>0. TypeOK'
  BY TypeStep
<1> USE ExitsAssumption DEF MachineInv, TypeOK, ExitValues, ClosedIsGone, ReportsAgree, OwnKillIsNoError,
      NoWaitBeforeKill, NilErrorInv, KilledByUs
<1>1. CASE ExitItself
  BY <1>0, <1>1 DEF ExitItself
<1>2. CASE CancelCtx
  BY <1>0, <1>2 DEF CancelCtx
<1>3. CASE CommandContextKill
  BY <1>0, <1>3 DEF CommandContextKill
<1>4. CASE Reap
  BY <1>0, <1>4 DEF Reap
<1>5. CASE ReportExit
  BY <1>0, <1>5 DEF ReportExit, ExitError, KilledByUs
<1>6. CASE SocketReady
  BY <1>0, <1>6 DEF SocketReady
<1>7. CASE StartTimeout
  BY <1>0, <1>7 DEF StartTimeout
<1>8. CASE StartExited
  BY <1>0, <1>8 DEF StartExited
<1>9. ASSUME NEW c \in Closers, CloseCall(c) PROVE MachineInv'
  BY <1>0, <1>9 DEF CloseCall
<1>10. ASSUME NEW c \in Closers, CloseKill(c) PROVE MachineInv'
  BY <1>0, <1>10 DEF CloseKill, CloseReturn
<1>11. ASSUME NEW c \in Closers, CloseWait(c) PROVE MachineInv'
  BY <1>0, <1>11 DEF CloseWait, CloseReturn
<1>12. CASE WaitReaped
  BY <1>0, <1>12 DEF WaitReaped
<1>13. CASE Relay
  BY <1>0, <1>13 DEF Relay, KilledByUs
<1>14. CASE UNCHANGED vars
  BY <1>0, <1>14 DEF vars
<1> QED
  BY <1>1, <1>2, <1>3, <1>4, <1>5, <1>6, <1>7, <1>8, <1>9, <1>10, <1>11, <1>12, <1>13,
     <1>14 DEF Next

\* The invariant holds throughout.
THEOREM Invariance == Spec => []MachineInv
<1>1. Init => MachineInv
  BY DEF Init, MachineInv, TypeOK, ExitValues, ClosedIsGone, ReportsAgree, OwnKillIsNoError,
      NoWaitBeforeKill, NilErrorInv, KilledByUs
<1>2. MachineInv /\ [Next]_vars => MachineInv'
  BY MachineStep
<1> QED
  BY <1>1, <1>2, PTL DEF Spec

\* Every variable keeps its type.
THEOREM TypeCorrect == Spec => []TypeOK
<1>1. MachineInv => TypeOK
  BY DEF MachineInv
<1> QED
  BY <1>1, Invariance, PTL

\* When any Close has returned the process has exited and was waited for.
THEOREM CloseWaits == Spec => []ClosedIsGone
<1>1. MachineInv => ClosedIsGone
  BY DEF MachineInv
<1> QED
  BY <1>1, Invariance, PTL

\* What Close and the relay report is how the process exited: no failure is hidden or
\* made up, a kill by a Close is reported by nobody, one before any Close is relayed
\* (machine.go:182, 250-308).
THEOREM ReportsAreTrue == Spec => []ReportsAgree
<1>1. MachineInv => ReportsAgree
  BY DEF MachineInv
<1> QED
  BY <1>1, Invariance, PTL

\* Nothing takes the report of a failure away: when StartFirecrackerMachine has
\* returned, and the goroutine that it may have started to relay the exit is done,
\* one of them has reported it, whatever Close does meanwhile.  That they get there
\* is the liveness property FailureReported (machine.go:175-187, runtime.go:304-313).
THEOREM FailureIsNotDropped ==
  Spec => [](exit = "failed" /\ starter # "starting" /\ relay \in {"none", "done"}
               => starter = "error" \/ relayed = "failed")
<1>1. MachineInv => (exit = "failed" /\ starter # "starting" /\ relay \in {"none", "done"}
                       => starter = "error" \/ relayed = "failed")
  BY DEF MachineInv, TypeOK, ReportsAgree, NilErrorInv, KilledByUs
<1> QED
  BY <1>1, Invariance, PTL

\* The caller of StartFirecrackerMachine is left without a machine and without an
\* error only if the process exited with status 0, or if ctx was done and the process
\* killed for that (machine.go:175-199, 220-243).
THEOREM NothingOnlyIf ==
  Spec => [](starter = "nilnil" => exit = "ok" \/ (ctxDone /\ KilledByUs))
<1>1. MachineInv => (starter = "nilnil" => exit = "ok" \/ (ctxDone /\ KilledByUs))
  BY DEF MachineInv, NilErrorInv, KilledByUs
<1> QED
  BY <1>1, Invariance, PTL

\* So what the comment at machine.go:224 says is true of a process that never exits
\* with status 0 by itself, for as long as ctx is not done.
THEOREM MachineOrErrorUnlessDone ==
  ASSUME "ok" \notin Exits
  PROVE  Spec => [](ctxDone \/ StartGivesMachineOrError)
<1>1. MachineInv => (ctxDone \/ StartGivesMachineOrError)
  BY DEF MachineInv, NilErrorInv, KilledByUs, StartGivesMachineOrError
<1> QED
  BY <1>1, Invariance, PTL

\* However many close at once, none waits for a process that nobody has killed and that
\* still runs: with Reap's fairness, why every Close returns (machine.go:255-280).
THEOREM CloseWaitsForADyingProcess == Spec => []NoWaitBeforeKill
<1>1. MachineInv => NoWaitBeforeKill
  BY DEF MachineInv
<1> QED
  BY <1>1, Invariance, PTL

\* The program panics only on a process that exited with status 0, and only once that
\* was waited for (machine.go:182, 283).
PanicInv == panicked => process = "reaped" /\ exit = "ok"

\* Every step keeps to that.
LEMMA PanicStep == MachineInv /\ PanicInv /\ [Next]_vars => PanicInv'
<1> SUFFICES ASSUME MachineInv, PanicInv, [Next]_vars PROVE PanicInv'
  OBVIOUS
<1> USE DEF PanicInv
<1>1. CASE panicked
  <2>1. ASSUME Next PROVE FALSE
    BY <1>1, <2>1 DEF Next, ExitItself, CancelCtx, CommandContextKill, Reap, ReportExit,
       SocketReady, StartTimeout, StartExited, CloseCall, CloseKill, CloseWait, WaitReaped, Relay
  <2> QED
    BY <1>1, <2>1 DEF vars
<1>2. CASE ~panicked
  <2>1. CASE ReportExit
    BY <1>2, <2>1 DEF ReportExit, MachineInv, TypeOK
  <2>2. ASSUME NEW c \in Closers, CloseWait(c) PROVE PanicInv'
    BY <1>2, <2>2 DEF CloseWait
  <2>3. ASSUME [Next]_vars, ~ReportExit, \A c \in Closers : ~CloseWait(c) PROVE ~panicked'
    BY <1>2, <2>3 DEF Next, vars, ExitItself, CancelCtx, CommandContextKill, Reap,
       SocketReady, StartTimeout, StartExited, CloseCall, CloseKill, WaitReaped, Relay
  <2> QED
    BY <2>1, <2>2, <2>3
<1> QED
  BY <1>1, <1>2

\* The program panics here only over a process that exited with status 0, on whose
\* nil error Close and the relay call Error (machine.go:182, 283).
THEOREM PanicsOnlyOnStatusZero == Spec => []PanicInv
<1>1. Init => PanicInv
  BY DEF Init, PanicInv
<1> QED
  BY <1>1, PanicStep, Invariance, PTL DEF Spec

\* A program whose Firecracker never exits with status 0 by itself never panics here.
THEOREM NoPanic == ASSUME "ok" \notin Exits PROVE Spec => []~panicked
<1>1. MachineInv /\ PanicInv => ~panicked
  BY DEF MachineInv, NilErrorInv, PanicInv
<1> QED
  BY <1>1, Invariance, PanicsOnlyOnStatusZero, PTL
=============================================================================
