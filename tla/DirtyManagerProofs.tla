------------------------- MODULE DirtyManagerProofs -------------------------
(***************************************************************************)
(* Proofs about DirtyManager, for every set of devices and every cycle     *)
(* configuration.  One lemma shows each part of the inductive invariant    *)
(* IInv to be preserved; the properties follow from IInv, and IInv with a  *)
(* step gives the refinement of Handover.                                  *)
(***************************************************************************)
EXTENDS DirtyManager, FiniteSetTheorems, TLAPS

\* Every step keeps the variables in their types.
LEMMA TypeStep == TypeOK /\ [Next]_vars => TypeOK'
<1> SUFFICES ASSUME TypeOK, [Next]_vars PROVE TypeOK'
  OBVIOUS
<1> USE ConstantsAssumption DEF Goto, statusVars, managerVars, stateVars,
         dataVars, outcomeVars, TypeOK, Stages
<1>1. ASSUME NEW d \in Devices, Step(d) PROVE TypeOK'
  <2>1. CASE PreGetDirty(d)
    BY <2>1 DEF PreGetDirty
  <2>2. CASE PreMsync(d)
    BY <2>2 DEF PreMsync, MsyncFunc, Outcome
  <2>3. CASE PreReady(d)
    BY <2>3 DEF PreReady, AddReadyDevice
  <2>4. CASE GetDirty(d)
    BY <2>4 DEF GetDirty, LastList
  <2>5. CASE SendDirty(d)
    BY <2>5 DEF SendDirty, Outcome
  <2>6. CASE PostMigrateDirty(d)
    BY <2>6 DEF PostMigrateDirty, LastList
  <2>7. CASE CountCycle(d)
    BY <2>7 DEF CountCycle, Increment, Settled
  <2>8. CASE PostReady(d)
    BY <2>8 DEF PostReady, AddReadyDevice
  <2>9. CASE CheckReady(d)
    BY <2>9 DEF CheckReady, AllReady
  <2>10. CASE LockSuspend(d)
    BY <2>10 DEF LockSuspend, MustSuspend
  <2>11. CASE SuspendBegin(d)
    BY <2>11 DEF SuspendBegin
  <2>12. CASE SuspendVM(d)
    <3>1. pc' \in [Devices -> Stages]
      BY <2>12 DEF SuspendVM
    <3>2. vmRunning' \in BOOLEAN
      BY <2>12 DEF SuspendVM
    <3>3. suspendedLock' \in Devices \cup {Nobody}
      BY <2>12 DEF SuspendVM
    <3> QED
      BY <2>12, <3>1, <3>2, <3>3 DEF SuspendVM
  <2>13. CASE SuspendMsync(d)
    BY <2>13 DEF SuspendMsync, MsyncFunc, Outcome
  <2>14. CASE SuspendEnd(d)
    BY <2>14 DEF SuspendEnd
  <2>15. CASE MarkSentDirty(d)
    BY <2>15 DEF MarkSentDirty, AllSent
  <2>16. CASE CheckSuspendCompleted(d)
    BY <2>16 DEF CheckSuspendCompleted
  <2>17. CASE AuthorityTransfer(d)
    BY <2>17 DEF AuthorityTransfer, AfterTransfer, Outcome
  <2>18. QED
    BY <1>1, <2>1, <2>2, <2>3, <2>4, <2>5, <2>6, <2>7, <2>8, <2>9,
       <2>10, <2>11, <2>12, <2>13, <2>14, <2>15, <2>16, <2>17 DEF Step
<1>2. ASSUME NEW d \in Devices, NEW b \in Blocks, GuestWrite(d, b) PROVE TypeOK'
  BY <1>2 DEF GuestWrite
<1>3. CASE MigrateDirtyReturn
  BY <1>3 DEF MigrateDirtyReturn
<1>4. CASE Completed
  BY <1>4 DEF Completed, Outcome
<1>5. CASE Terminated \/ UNCHANGED vars
  BY <1>5 DEF Terminated, vars
<1>6. QED
  BY <1>1, <1>2, <1>3, <1>4, <1>5 DEF Next

\* Every step keeps the mutexes where the stages say: each Lock finds the mutex
\* free, and every way out of a critical section unlocks it.
LEMMA LockStep == TypeOK /\ LockInv /\ [Next]_vars => LockInv'
<1> SUFFICES ASSUME TypeOK, LockInv, [Next]_vars PROVE LockInv'
  OBVIOUS
<1> USE ConstantsAssumption DEF Goto, statusVars, managerVars, stateVars,
         dataVars, outcomeVars, TypeOK, LockInv, Suspending
<1>1. ASSUME NEW d \in Devices, Step(d) PROVE LockInv'
  <2>1. CASE PreGetDirty(d)
    BY <2>1 DEF PreGetDirty
  <2>2. CASE PreMsync(d)
    BY <2>2 DEF PreMsync, MsyncFunc, Outcome
  <2>3. CASE PreReady(d)
    BY <2>3 DEF PreReady, AddReadyDevice
  <2>4. CASE GetDirty(d)
    BY <2>4 DEF GetDirty, LastList
  <2>5. CASE SendDirty(d)
    BY <2>5 DEF SendDirty, Outcome
  <2>6. CASE PostMigrateDirty(d)
    BY <2>6 DEF PostMigrateDirty, LastList
  <2>7. CASE CountCycle(d)
    BY <2>7 DEF CountCycle, Increment, Settled
  <2>8. CASE PostReady(d)
    BY <2>8 DEF PostReady, AddReadyDevice
  <2>9. CASE CheckReady(d)
    BY <2>9 DEF CheckReady, AllReady
  <2>10. CASE LockSuspend(d)
    BY <2>10 DEF LockSuspend, MustSuspend
  <2>11. CASE SuspendBegin(d)
    BY <2>11 DEF SuspendBegin
  <2>12. CASE SuspendVM(d)
    BY <2>12 DEF SuspendVM
  <2>13. CASE SuspendMsync(d)
    BY <2>13 DEF SuspendMsync, MsyncFunc, Outcome
  <2>14. CASE SuspendEnd(d)
    BY <2>14 DEF SuspendEnd
  <2>15. CASE MarkSentDirty(d)
    BY <2>15 DEF MarkSentDirty, AllSent
  <2>16. CASE CheckSuspendCompleted(d)
    BY <2>16 DEF CheckSuspendCompleted
  <2>17. CASE AuthorityTransfer(d)
    BY <2>17 DEF AuthorityTransfer, AfterTransfer, Outcome
  <2>18. QED
    BY <1>1, <2>1, <2>2, <2>3, <2>4, <2>5, <2>6, <2>7, <2>8, <2>9,
       <2>10, <2>11, <2>12, <2>13, <2>14, <2>15, <2>16, <2>17 DEF Step
<1>2. ASSUME NEW d \in Devices, NEW b \in Blocks, GuestWrite(d, b) PROVE LockInv'
  BY <1>2 DEF GuestWrite
<1>3. CASE MigrateDirtyReturn
  BY <1>3 DEF MigrateDirtyReturn
<1>4. CASE Completed
  BY <1>4 DEF Completed, Outcome
<1>5. CASE Terminated \/ UNCHANGED vars
  BY <1>5 DEF Terminated, vars
<1>6. QED
  BY <1>1, <1>2, <1>3, <1>4, <1>5 DEF Next

\* Every step keeps what the suspension established; LockInv makes the
\* goroutine that suspends the only one.
LEMMA SuspendStep == TypeOK /\ LockInv /\ SuspendInv /\ [Next]_vars => SuspendInv'
<1> SUFFICES ASSUME TypeOK, LockInv, SuspendInv, [Next]_vars PROVE SuspendInv'
  OBVIOUS
<1> USE ConstantsAssumption DEF Goto, statusVars, managerVars, stateVars,
         dataVars, outcomeVars, TypeOK, LockInv, SuspendInv, Suspending
<1>1. ASSUME NEW d \in Devices, Step(d) PROVE SuspendInv'
  <2>1. CASE PreGetDirty(d)
    BY <2>1 DEF PreGetDirty
  <2>2. CASE PreMsync(d)
    BY <2>2 DEF PreMsync, MsyncFunc, Outcome
  <2>3. CASE PreReady(d)
    BY <2>3 DEF PreReady, AddReadyDevice
  <2>4. CASE GetDirty(d)
    BY <2>4 DEF GetDirty, LastList
  <2>5. CASE SendDirty(d)
    BY <2>5 DEF SendDirty, Outcome
  <2>6. CASE PostMigrateDirty(d)
    BY <2>6 DEF PostMigrateDirty, LastList
  <2>7. CASE CountCycle(d)
    BY <2>7 DEF CountCycle, Increment, Settled
  <2>8. CASE PostReady(d)
    BY <2>8 DEF PostReady, AddReadyDevice
  <2>9. CASE CheckReady(d)
    BY <2>9 DEF CheckReady, AllReady
  <2>10. CASE LockSuspend(d)
    BY <2>10 DEF LockSuspend, MustSuspend
  <2>11. CASE SuspendBegin(d)
    BY <2>11 DEF SuspendBegin
  <2>12. CASE SuspendVM(d)
    BY <2>12 DEF SuspendVM
  <2>13. CASE SuspendMsync(d)
    BY <2>13 DEF SuspendMsync, MsyncFunc, Outcome
  <2>14. CASE SuspendEnd(d)
    BY <2>14 DEF SuspendEnd
  <2>15. CASE MarkSentDirty(d)
    BY <2>15 DEF MarkSentDirty, AllSent
  <2>16. CASE CheckSuspendCompleted(d)
    BY <2>16 DEF CheckSuspendCompleted
  <2>17. CASE AuthorityTransfer(d)
    BY <2>17 DEF AuthorityTransfer, AfterTransfer, Outcome
  <2>18. QED
    BY <1>1, <2>1, <2>2, <2>3, <2>4, <2>5, <2>6, <2>7, <2>8, <2>9,
       <2>10, <2>11, <2>12, <2>13, <2>14, <2>15, <2>16, <2>17 DEF Step
<1>2. ASSUME NEW d \in Devices, NEW b \in Blocks, GuestWrite(d, b) PROVE SuspendInv'
  BY <1>2 DEF GuestWrite
<1>3. CASE MigrateDirtyReturn
  BY <1>3 DEF MigrateDirtyReturn
<1>4. CASE Completed
  BY <1>4 DEF Completed, Outcome
<1>5. CASE Terminated \/ UNCHANGED vars
  BY <1>5 DEF Terminated, vars
<1>6. QED
  BY <1>1, <1>2, <1>3, <1>4, <1>5 DEF Next

\* A goroutine goes on to suspend only when the ready devices are as many as
\* the devices, so only when they are all of them.
LEMMA ReadyStep == TypeOK /\ SuspendInv /\ ReadyInv /\ [Next]_vars => ReadyInv'
<1> SUFFICES ASSUME TypeOK, SuspendInv, ReadyInv, [Next]_vars PROVE ReadyInv'
  OBVIOUS
<1> USE ConstantsAssumption DEF Goto, statusVars, managerVars, stateVars,
         dataVars, outcomeVars, TypeOK, SuspendInv, ReadyInv, Suspending
<1>1. ASSUME NEW d \in Devices, Step(d) PROVE ReadyInv'
  <2>1. CASE PreGetDirty(d)
    BY <2>1 DEF PreGetDirty
  <2>2. CASE PreMsync(d)
    BY <2>2 DEF PreMsync, MsyncFunc, Outcome
  <2>3. CASE PreReady(d)
    BY <2>3 DEF PreReady, AddReadyDevice
  <2>4. CASE GetDirty(d)
    BY <2>4 DEF GetDirty, LastList
  <2>5. CASE SendDirty(d)
    BY <2>5 DEF SendDirty, Outcome
  <2>6. CASE PostMigrateDirty(d)
    BY <2>6 DEF PostMigrateDirty, LastList
  <2>7. CASE CountCycle(d)
    BY <2>7 DEF CountCycle, Increment, Settled
  <2>8. CASE PostReady(d)
    BY <2>8 DEF PostReady, AddReadyDevice
  <2>9. CASE CheckReady(d)
    <3>1. Cardinality(readyDevices) = Cardinality(Devices) => readyDevices = Devices
      BY FS_Subset
    <3>2. QED
      BY <2>9, <3>1 DEF CheckReady, AllReady
  <2>10. CASE LockSuspend(d)
    BY <2>10 DEF LockSuspend, MustSuspend
  <2>11. CASE SuspendBegin(d)
    BY <2>11 DEF SuspendBegin
  <2>12. CASE SuspendVM(d)
    BY <2>12 DEF SuspendVM
  <2>13. CASE SuspendMsync(d)
    BY <2>13 DEF SuspendMsync, MsyncFunc, Outcome
  <2>14. CASE SuspendEnd(d)
    BY <2>14 DEF SuspendEnd
  <2>15. CASE MarkSentDirty(d)
    BY <2>15 DEF MarkSentDirty, AllSent
  <2>16. CASE CheckSuspendCompleted(d)
    BY <2>16 DEF CheckSuspendCompleted
  <2>17. CASE AuthorityTransfer(d)
    BY <2>17 DEF AuthorityTransfer, AfterTransfer, Outcome
  <2>18. QED
    BY <1>1, <2>1, <2>2, <2>3, <2>4, <2>5, <2>6, <2>7, <2>8, <2>9,
       <2>10, <2>11, <2>12, <2>13, <2>14, <2>15, <2>16, <2>17 DEF Step
<1>2. ASSUME NEW d \in Devices, NEW b \in Blocks, GuestWrite(d, b) PROVE ReadyInv'
  BY <1>2 DEF GuestWrite
<1>3. CASE MigrateDirtyReturn
  BY <1>3 DEF MigrateDirtyReturn
<1>4. CASE Completed
  BY <1>4 DEF Completed, Outcome
<1>5. CASE Terminated \/ UNCHANGED vars
  BY <1>5 DEF Terminated, vars
<1>6. QED
  BY <1>1, <1>2, <1>3, <1>4, <1>5 DEF Next

\* A device that has seen the suspension fetches once more, and nothing is
\* written after that fetch.
LEMMA SentStep == TypeOK /\ SuspendInv /\ ReadyInv /\ SentInv /\ [Next]_vars => SentInv'
<1> SUFFICES ASSUME TypeOK, SuspendInv, ReadyInv, SentInv, [Next]_vars PROVE SentInv'
  OBVIOUS
<1> USE ConstantsAssumption DEF Goto, statusVars, managerVars, stateVars,
         dataVars, outcomeVars, TypeOK, SuspendInv, ReadyInv, SentInv,
         Suspending
<1>1. ASSUME NEW d \in Devices, Step(d) PROVE SentInv'
  <2>1. CASE PreGetDirty(d)
    BY <2>1 DEF PreGetDirty
  <2>2. CASE PreMsync(d)
    BY <2>2 DEF PreMsync, MsyncFunc, Outcome
  <2>3. CASE PreReady(d)
    BY <2>3 DEF PreReady, AddReadyDevice
  <2>4. CASE GetDirty(d)
    BY <2>4 DEF GetDirty, LastList
  <2>5. CASE SendDirty(d)
    BY <2>5 DEF SendDirty, Outcome
  <2>6. CASE PostMigrateDirty(d)
    BY <2>6 DEF PostMigrateDirty, LastList
  <2>7. CASE CountCycle(d)
    BY <2>7 DEF CountCycle, Increment, Settled
  <2>8. CASE PostReady(d)
    BY <2>8 DEF PostReady, AddReadyDevice
  <2>9. CASE CheckReady(d)
    BY <2>9 DEF CheckReady, AllReady
  <2>10. CASE LockSuspend(d)
    BY <2>10 DEF LockSuspend, MustSuspend
  <2>11. CASE SuspendBegin(d)
    BY <2>11 DEF SuspendBegin
  <2>12. CASE SuspendVM(d)
    BY <2>12 DEF SuspendVM
  <2>13. CASE SuspendMsync(d)
    BY <2>13 DEF SuspendMsync, MsyncFunc, Outcome
  <2>14. CASE SuspendEnd(d)
    BY <2>14 DEF SuspendEnd
  <2>15. CASE MarkSentDirty(d)
    BY <2>15 DEF MarkSentDirty, AllSent
  <2>16. CASE CheckSuspendCompleted(d)
    BY <2>16 DEF CheckSuspendCompleted
  <2>17. CASE AuthorityTransfer(d)
    BY <2>17 DEF AuthorityTransfer, AfterTransfer, Outcome
  <2>18. QED
    BY <1>1, <2>1, <2>2, <2>3, <2>4, <2>5, <2>6, <2>7, <2>8, <2>9,
       <2>10, <2>11, <2>12, <2>13, <2>14, <2>15, <2>16, <2>17 DEF Step
<1>2. ASSUME NEW d \in Devices, NEW b \in Blocks, GuestWrite(d, b) PROVE SentInv'
  BY <1>2 DEF GuestWrite
<1>3. CASE MigrateDirtyReturn
  BY <1>3 DEF MigrateDirtyReturn
<1>4. CASE Completed
  BY <1>4 DEF Completed, Outcome
<1>5. CASE Terminated \/ UNCHANGED vars
  BY <1>5 DEF Terminated, vars
<1>6. QED
  BY <1>1, <1>2, <1>3, <1>4, <1>5 DEF Next

\* The goroutine that reports the last list finds the suspension completed and
\* the transfer not yet made; if its transfer fails, its failure stays on record.
LEMMA AuthorityStep == TypeOK /\ LockInv /\ SuspendInv /\ ReadyInv /\ SentInv /\ AuthorityInv /\ [Next]_vars => AuthorityInv'
<1> SUFFICES ASSUME TypeOK, LockInv, SuspendInv, ReadyInv, SentInv, AuthorityInv, [Next]_vars PROVE AuthorityInv'
  OBVIOUS
<1> USE ConstantsAssumption DEF Goto, statusVars, managerVars, stateVars,
         dataVars, outcomeVars, TypeOK, LockInv, SuspendInv, ReadyInv, SentInv,
         AuthorityInv, Suspending
<1>1. ASSUME NEW d \in Devices, Step(d) PROVE AuthorityInv'
  <2>1. CASE PreGetDirty(d)
    BY <2>1 DEF PreGetDirty
  <2>2. CASE PreMsync(d)
    BY <2>2 DEF PreMsync, MsyncFunc, Outcome
  <2>3. CASE PreReady(d)
    BY <2>3 DEF PreReady, AddReadyDevice
  <2>4. CASE GetDirty(d)
    BY <2>4 DEF GetDirty, LastList
  <2>5. CASE SendDirty(d)
    BY <2>5 DEF SendDirty, Outcome
  <2>6. CASE PostMigrateDirty(d)
    BY <2>6 DEF PostMigrateDirty, LastList
  <2>7. CASE CountCycle(d)
    BY <2>7 DEF CountCycle, Increment, Settled
  <2>8. CASE PostReady(d)
    BY <2>8 DEF PostReady, AddReadyDevice
  <2>9. CASE CheckReady(d)
    BY <2>9 DEF CheckReady, AllReady
  <2>10. CASE LockSuspend(d)
    BY <2>10 DEF LockSuspend, MustSuspend
  <2>11. CASE SuspendBegin(d)
    BY <2>11 DEF SuspendBegin
  <2>12. CASE SuspendVM(d)
    BY <2>12 DEF SuspendVM
  <2>13. CASE SuspendMsync(d)
    BY <2>13 DEF SuspendMsync, MsyncFunc, Outcome
  <2>14. CASE SuspendEnd(d)
    BY <2>14 DEF SuspendEnd
  <2>15. CASE MarkSentDirty(d)
    BY <2>15 DEF MarkSentDirty, AllSent
  <2>16. CASE CheckSuspendCompleted(d)
    BY <2>16 DEF CheckSuspendCompleted
  <2>17. CASE AuthorityTransfer(d)
    BY <2>17 DEF AuthorityTransfer, AfterTransfer, Outcome
  <2>18. QED
    BY <1>1, <2>1, <2>2, <2>3, <2>4, <2>5, <2>6, <2>7, <2>8, <2>9,
       <2>10, <2>11, <2>12, <2>13, <2>14, <2>15, <2>16, <2>17 DEF Step
<1>2. ASSUME NEW d \in Devices, NEW b \in Blocks, GuestWrite(d, b) PROVE AuthorityInv'
  BY <1>2 DEF GuestWrite
<1>3. CASE MigrateDirtyReturn
  BY <1>3 DEF MigrateDirtyReturn
<1>4. CASE Completed
  BY <1>4 DEF Completed, Outcome
<1>5. CASE Terminated \/ UNCHANGED vars
  BY <1>5 DEF Terminated, vars
<1>6. QED
  BY <1>1, <1>2, <1>3, <1>4, <1>5 DEF Next

\* A cycle either makes the device ready, or is one more quiet cycle, or comes
\* before the MaxCycles-th.
LEMMA CycleStep == TypeOK /\ CycleInv /\ [Next]_vars => CycleInv'
<1> SUFFICES ASSUME TypeOK, CycleInv, [Next]_vars PROVE CycleInv'
  OBVIOUS
<1> USE ConstantsAssumption DEF Goto, statusVars, managerVars, stateVars,
         dataVars, outcomeVars, TypeOK, CycleInv
<1>1. ASSUME NEW d \in Devices, Step(d) PROVE CycleInv'
  <2>1. CASE PreGetDirty(d)
    BY <2>1 DEF PreGetDirty
  <2>2. CASE PreMsync(d)
    BY <2>2 DEF PreMsync, MsyncFunc, Outcome
  <2>3. CASE PreReady(d)
    BY <2>3 DEF PreReady, AddReadyDevice
  <2>4. CASE GetDirty(d)
    BY <2>4 DEF GetDirty, LastList
  <2>5. CASE SendDirty(d)
    BY <2>5 DEF SendDirty, Outcome
  <2>6. CASE PostMigrateDirty(d)
    BY <2>6 DEF PostMigrateDirty, LastList
  <2>7. CASE CountCycle(d)
    <3>0. maxCycles' = maxCycles
      BY <2>7 DEF CountCycle
    <3> SUFFICES ASSUME NEW e \in Devices, ~ready'[e]
                 PROVE  /\ cyclesBelow'[e] <= MinCycles[e]
                        /\ totalCycles'[e] <= cyclesBelow'[e]
                             + (IF maxCycles[e] = 0 THEN 0 ELSE maxCycles[e] - 1)
      BY <3>0
    <3>1. CASE e # d
      BY <2>7, <3>1 DEF CountCycle, Settled
    <3>2. CASE e = d
      <4> DEFINE few == Cardinality(fetched[d]) < MaxDirtyBlocks[d]
      <4>1. /\ totalCycles[d] \in Nat /\ cyclesBelow[d] \in Nat
            /\ MinCycles[d] \in Nat /\ maxCycles[d] \in Nat
            /\ MinCycles[d] + maxCycles[d] < CycleCap
        OBVIOUS
      <4>2. /\ cyclesBelow[d] <= MinCycles[d]
            /\ totalCycles[d] <= cyclesBelow[d]
                  + (IF maxCycles[d] = 0 THEN 0 ELSE maxCycles[d] - 1)
        BY <2>7, <3>2 DEF CountCycle, Settled
      <4>3. CASE few
        <5>1. /\ totalCycles'[d] = Increment(totalCycles[d])
              /\ cyclesBelow'[d] = Increment(cyclesBelow[d])
              /\ ~(Increment(cyclesBelow[d]) > MinCycles[d])
          BY <2>7, <3>2, <4>3 DEF CountCycle, Settled
        <5>2. QED
          BY <3>2, <4>1, <4>2, <5>1 DEF Increment
      <4>4. CASE ~few
        <5>1. /\ totalCycles'[d] = Increment(totalCycles[d])
              /\ cyclesBelow'[d] = 0
              /\ ~(Increment(totalCycles[d]) >= maxCycles[d])
          BY <2>7, <3>2, <4>4 DEF CountCycle, Settled
        <5>2. QED
          BY <3>2, <4>1, <4>2, <5>1 DEF Increment
      <4>5. QED
        BY <4>3, <4>4
    <3>3. QED
      BY <3>1, <3>2
  <2>8. CASE PostReady(d)
    BY <2>8 DEF PostReady, AddReadyDevice
  <2>9. CASE CheckReady(d)
    BY <2>9 DEF CheckReady, AllReady
  <2>10. CASE LockSuspend(d)
    BY <2>10 DEF LockSuspend, MustSuspend
  <2>11. CASE SuspendBegin(d)
    BY <2>11 DEF SuspendBegin
  <2>12. CASE SuspendVM(d)
    BY <2>12 DEF SuspendVM
  <2>13. CASE SuspendMsync(d)
    BY <2>13 DEF SuspendMsync, MsyncFunc, Outcome
  <2>14. CASE SuspendEnd(d)
    BY <2>14 DEF SuspendEnd
  <2>15. CASE MarkSentDirty(d)
    BY <2>15 DEF MarkSentDirty, AllSent
  <2>16. CASE CheckSuspendCompleted(d)
    BY <2>16 DEF CheckSuspendCompleted
  <2>17. CASE AuthorityTransfer(d)
    BY <2>17 DEF AuthorityTransfer, AfterTransfer, Outcome
  <2>18. QED
    BY <1>1, <2>1, <2>2, <2>3, <2>4, <2>5, <2>6, <2>7, <2>8, <2>9,
       <2>10, <2>11, <2>12, <2>13, <2>14, <2>15, <2>16, <2>17 DEF Step
<1>2. ASSUME NEW d \in Devices, NEW b \in Blocks, GuestWrite(d, b) PROVE CycleInv'
  BY <1>2 DEF GuestWrite
<1>3. CASE MigrateDirtyReturn
  BY <1>3 DEF MigrateDirtyReturn
<1>4. CASE Completed
  BY <1>4 DEF Completed, Outcome
<1>5. CASE Terminated \/ UNCHANGED vars
  BY <1>5 DEF Terminated, vars
<1>6. QED
  BY <1>1, <1>2, <1>3, <1>4, <1>5 DEF Next

-----------------------------------------------------------------------------
\* IInv holds when the dirty phase begins.
LEMMA InitIInv == Init => IInv
<1> SUFFICES ASSUME Init PROVE IInv
  OBVIOUS
<1> USE ConstantsAssumption DEF Init
<1>1. TypeOK
  <2>1. 0 \in 0..CycleCap
    OBVIOUS
  <2>2. QED
    BY <2>1 DEF TypeOK, Stages
<1>2. LockInv /\ SuspendInv /\ ReadyInv /\ SentInv
  BY DEF LockInv, SuspendInv, ReadyInv, SentInv, Suspending
<1>3. AuthorityInv
  BY DEF AuthorityInv
<1>4. CycleInv
  BY DEF CycleInv
<1>5. QED
  BY <1>1, <1>2, <1>3, <1>4 DEF IInv

\* A step preserves IInv.
LEMMA StepIInv == IInv /\ [Next]_vars => IInv'
  BY TypeStep, LockStep, SuspendStep, ReadyStep, SentStep, AuthorityStep, CycleStep
  DEF IInv

\* The inductive invariant of the dirty phase.
THEOREM Invariance == Spec => []IInv
  BY InitIInv, StepIInv, PTL DEF Spec

\* Every variable keeps its type.
THEOREM TypeCorrect == Spec => []TypeOK
<1>1. IInv => TypeOK
  BY DEF IInv
<1>2. QED
  BY <1>1, Invariance, PTL

\* In IInv, a device whose last list was sent has nothing the destination misses.
LEMMA SentIsComplete ==
  ASSUME IInv, NEW d \in Devices, sentDirty[d]
  PROVE  /\ suspended
         /\ \A x \in Behind : x[1] # d
<1>1. suspendedAtPre[d] /\ suspended
  BY DEF IInv, SentInv, SuspendInv
<1>2. dirty[d] = {} /\ fetched[d] = {} /\ unflushed = {}
  BY <1>1 DEF IInv, SentInv, SuspendInv
<1>3. QED
  BY <1>1, <1>2 DEF Behind

\* When the destination is given authority the VM has stopped, and no write to
\* any device is missing at the destination.
THEOREM HandoverLosesNothing == Spec => []NoLostWrites
<1>1. ASSUME IInv, delivered PROVE ~vmRunning /\ Behind = {}
  <2>1. \A d \in Devices : sentDirty[d]
    BY <1>1 DEF IInv, AuthorityInv
  <2>2. \A d \in Devices : suspended /\ \A x \in Behind : x[1] # d
    BY <1>1, <2>1, SentIsComplete
  <2>3. Behind = {}
    BY <2>2 DEF Behind
  <2>4. ~vmRunning
    BY <1>1, <2>2, ConstantsAssumption DEF IInv, SuspendInv
  <2>5. QED
    BY <2>3, <2>4
<1>2. IInv => NoLostWrites
  BY <1>1 DEF NoLostWrites
<1>3. QED
  BY <1>2, Invariance, PTL

\* A device reports its last list after the suspension, and it was its last.
THEOREM LastListIsLast == Spec => []SentAfterSuspend
<1>1. IInv => SentAfterSuspend
  BY SentIsComplete DEF SentAfterSuspend
<1>2. QED
  BY <1>1, Invariance, PTL

\* AuthorityTransfer is called at most once.
THEOREM TransferredOnce == Spec => []TransferOnce
<1>1. IInv => TransferOnce
  BY DEF IInv, AuthorityInv, TransferOnce
<1>2. QED
  BY <1>1, Invariance, PTL

\* MigrateToPipe succeeds only when the destination has authority.
THEOREM SuccessIsHandover == Spec => []SuccessMeansHandedOver
<1>1. ASSUME IInv, \A d \in Devices : pc[d] = "done" PROVE delivered
  <2>1. \A d \in Devices : sentDirty[d]
    BY <1>1 DEF IInv, SentInv
  <2>2. authorityCompleted
    BY <1>1, <2>1 DEF IInv, AuthorityInv
  <2>3. QED
    BY <1>1, <2>2 DEF IInv, AuthorityInv
<1>2. IInv => SuccessMeansHandedOver
  BY <1>1 DEF IInv, AuthorityInv, SuccessMeansHandedOver
<1>3. QED
  BY <1>2, Invariance, PTL

\* An unready device has run fewer than MaxCycles + MinCycles cycles.
THEOREM CyclesAreBounded == Spec => []ConvergenceBound
<1>1. IInv => ConvergenceBound
  <2> SUFFICES ASSUME IInv, NEW d \in Devices, ~ready[d]
               PROVE  totalCycles[d] <= MinCycles[d]
                        + (IF maxCycles[d] = 0 THEN 0 ELSE maxCycles[d] - 1)
    BY DEF ConvergenceBound
  <2>1. /\ totalCycles[d] \in Nat /\ cyclesBelow[d] \in Nat
        /\ MinCycles[d] \in Nat /\ maxCycles[d] \in Nat
    BY ConstantsAssumption DEF IInv, TypeOK
  <2>2. /\ cyclesBelow[d] <= MinCycles[d]
        /\ totalCycles[d] <= cyclesBelow[d]
              + (IF maxCycles[d] = 0 THEN 0 ELSE maxCycles[d] - 1)
    BY DEF IInv, CycleInv
  <2>3. QED
    BY <2>1, <2>2
<1>2. QED
  BY <1>1, Invariance, PTL

-----------------------------------------------------------------------------
\* The suspension is begun once, by one goroutine, with every device ready.
THEOREM SuspendedOnceWhenReady == Spec => SuspendOnceWhenReady
<1> DEFINE Once == \A d \in Devices : pc[d] # "suspendVM" /\ pc'[d] = "suspendVM" =>
                     /\ ~suspendCompleted
                     /\ \A e \in Devices : e # d => pc[e] \notin Suspending
                     /\ \A e \in Devices : ready[e]
<1>1. ASSUME IInv, [Next]_vars PROVE Once
  <2> SUFFICES ASSUME NEW d \in Devices, pc[d] # "suspendVM", pc'[d] = "suspendVM"
               PROVE  /\ ~suspendCompleted
                      /\ \A e \in Devices : e # d => pc[e] \notin Suspending
                      /\ \A e \in Devices : ready[e]
    OBVIOUS
  <2>1. pc[d] = "suspend"
    <3> USE DEF Goto, TypeOK, IInv
    <3>1. ASSUME NEW e \in Devices, Step(e) PROVE pc[d] = "suspend"
      BY <1>1, <3>1 DEF Step, PreGetDirty, PreMsync, PreReady, GetDirty, SendDirty,
         PostMigrateDirty, CountCycle, PostReady, CheckReady, LockSuspend,
         SuspendBegin, SuspendVM, SuspendMsync, SuspendEnd, MarkSentDirty,
         CheckSuspendCompleted, AuthorityTransfer, AfterTransfer
    <3>2. ~UNCHANGED pc
      OBVIOUS
    <3>3. QED
      BY <1>1, <3>1, <3>2 DEF Next, vars, GuestWrite, MigrateDirtyReturn, Completed,
         Terminated
  <2>2. QED
    BY <1>1, <2>1 DEF IInv, LockInv, SuspendInv, ReadyInv, Suspending
<1>2. QED
  BY <1>1, Invariance, PTL DEF Spec, SuspendOnceWhenReady

\* After an error was returned no goroutine makes the transfer: a transfer needs
\* the last list of every device, and a goroutine that failed either never sent
\* its own or was the one that made the transfer.
THEOREM NoLateTransfer == Spec => NoTransferAfterError
<1>1. ASSUME IInv, [Next]_vars, result = "error" PROVE authorityCalls' = authorityCalls
  <2>1. ASSUME NEW d \in Devices, AuthorityTransfer(d) PROVE FALSE
    <3>1. pc[d] = "transfer" /\ \A e \in Devices : sentDirty[e]
      BY <2>1, <1>1 DEF AuthorityTransfer, Goto, IInv, SentInv
    <3>2. PICK e \in Devices : pc[e] = "failed"
      BY <1>1, <3>1 DEF IInv, AuthorityInv
    <3>3. QED
      BY <1>1, <3>1, <3>2 DEF IInv, AuthorityInv
  <2>2. ASSUME NEW d \in Devices, Step(d), ~AuthorityTransfer(d)
        PROVE  authorityCalls' = authorityCalls
    BY <2>2 DEF Step, PreGetDirty, PreMsync, PreReady, GetDirty, SendDirty,
       PostMigrateDirty, CountCycle, PostReady, CheckReady, LockSuspend,
       SuspendBegin, SuspendVM, SuspendMsync, SuspendEnd, MarkSentDirty,
       CheckSuspendCompleted, outcomeVars
  <2>3. QED
    BY <1>1, <2>1, <2>2 DEF Next, vars, outcomeVars, GuestWrite,
       MigrateDirtyReturn, Completed, Terminated
<1>2. QED
  BY <1>1, Invariance, PTL DEF Spec, NoTransferAfterError

-----------------------------------------------------------------------------
\* A goroutine that holds one of the mutexes waits for no other: those of one that
\* suspends are free, or its own, and the suspension is over when every last list
\* is sent.
THEOREM HoldersNeverWait == Spec => []HoldersMove
<1>1. IInv => HoldersMove
  <2> SUFFICES ASSUME IInv, NEW d \in Devices, d \in {readyLock, suspendLock, suspendedLock}
               PROVE  ~Waits(d)
    BY DEF HoldersMove
  <2>1. pc[d] \in {"sentCheck", "transfer"} \cup Suspending
    BY ConstantsAssumption DEF IInv, LockInv, Suspending
  <2>2. ASSUME pc[d] = "suspend" PROVE suspendedLock = Nobody
    <3>1. suspendLock = d
      BY <2>2 DEF IInv, LockInv, Suspending
    <3>2. ASSUME NEW e \in Devices, suspendedLock = e PROVE FALSE
      <4>1. pc[e] \in {"suspendVM", "suspendMsync"} /\ suspendLock = e
        BY <3>2 DEF IInv, LockInv, Suspending
      <4> QED
        BY <2>2, <3>1, <4>1
    <3> QED
      BY <3>2 DEF IInv, TypeOK
  <2>3. ASSUME pc[d] = "sentCheck" PROVE suspendLock = Nobody
    <3>1. ASSUME NEW e \in Devices PROVE suspendLock # e
      <4>1. pc[e] \in {"sentCheck", "transfer", "done", "failed"}
        BY <2>3 DEF IInv, SentInv
      <4> QED
        BY <4>1 DEF IInv, LockInv, Suspending
    <3> QED
      BY <3>1 DEF IInv, TypeOK
  <2> QED
    BY <2>1, <2>2, <2>3 DEF Waits, Suspending
<1> QED
  BY <1>1, Invariance, PTL

\* Whoever finds every last list sent makes the transfer: the suspension has
\* completed, and nobody has made the transfer before.
THEOREM LastSenderAlwaysTransfers == Spec => []LastSenderTransfers
<1>1. IInv => LastSenderTransfers
  <2> SUFFICES ASSUME IInv, NEW d \in Devices, pc[d] = "sentCheck"
               PROVE  suspendCompleted /\ ~authorityCompleted
    BY DEF LastSenderTransfers
  <2>1. \A e \in Devices : pc[e] \in {"sentCheck", "transfer", "done", "failed"}
    BY DEF IInv, SentInv
  <2>2. suspendLock = Nobody
    BY <2>1 DEF IInv, TypeOK, LockInv, Suspending
  <2>3. suspended
    BY DEF IInv, SentInv, SuspendInv
  <2> QED
    BY <2>2, <2>3 DEF IInv, SuspendInv, AuthorityInv
<1> QED
  BY <1>1, Invariance, PTL

\* After it has seen the suspension a device goes through one more cycle only.
THEOREM OneMoreCycleOnly == Spec => OneMoreCycle
<1> DEFINE Onward == \A d \in Devices : suspendedAtPre[d] =>
                       /\ suspendedAtPre'[d]
                       /\ pc'[d] # pc[d] => LastCycle(pc[d]) < LastCycle(pc'[d])
<1>1. ASSUME IInv, [Next]_vars PROVE Onward
  <2> SUFFICES ASSUME NEW d \in Devices, suspendedAtPre[d]
               PROVE  /\ suspendedAtPre'[d]
                      /\ pc'[d] # pc[d] => LastCycle(pc[d]) < LastCycle(pc'[d])
    OBVIOUS
  <2>1. /\ pc[d] \in {"getDirty", "send", "postMigrate", "sentDirty", "sentCheck",
                      "transfer", "done", "failed"}
        /\ pc \in [Devices -> Stages] /\ suspendedAtPre \in [Devices -> BOOLEAN]
    BY <1>1 DEF IInv, SentInv, TypeOK
  <2>2. ASSUME NEW e \in Devices, Step(e)
        PROVE  /\ suspendedAtPre'[d]
               /\ \/ pc'[d] = pc[d]
                  \/ pc[d] = "getDirty" /\ pc'[d] \in {"send", "sentDirty"}
                  \/ pc[d] = "send" /\ pc'[d] \in {"postMigrate", "failed"}
                  \/ pc[d] = "postMigrate" /\ pc'[d] = "sentDirty"
                  \/ pc[d] = "sentDirty" /\ pc'[d] \in {"sentCheck", "done"}
                  \/ pc[d] = "sentCheck" /\ pc'[d] \in {"transfer", "done"}
                  \/ pc[d] = "transfer" /\ pc'[d] \in {"done", "failed"}
    <3>1. CASE e # d
      BY <2>1, <2>2, <3>1 DEF Step, Goto, statusVars, PreGetDirty, PreMsync, PreReady, GetDirty,
         SendDirty, PostMigrateDirty, CountCycle, PostReady, CheckReady, LockSuspend,
         SuspendBegin, SuspendVM, SuspendMsync, SuspendEnd, MarkSentDirty,
         CheckSuspendCompleted, AuthorityTransfer
    <3>2. CASE e = d
      BY <2>1, <2>2, <3>2 DEF Step, Goto, statusVars, PreGetDirty, PreMsync, PreReady, GetDirty,
         SendDirty, PostMigrateDirty, CountCycle, PostReady, CheckReady, LockSuspend,
         SuspendBegin, SuspendVM, SuspendMsync, SuspendEnd, MarkSentDirty,
         CheckSuspendCompleted, AuthorityTransfer, AfterTransfer, LastList
    <3> QED
      BY <3>1, <3>2
  <2>3. ASSUME ~\E e \in Devices : Step(e) PROVE suspendedAtPre'[d] /\ pc'[d] = pc[d]
    BY <1>1, <2>3 DEF Next, GuestWrite, MigrateDirtyReturn, Completed, Terminated, vars, statusVars
  <2>4. CASE \E e \in Devices : Step(e)
    <3>1. suspendedAtPre'[d]
      BY <2>2, <2>4
    <3>2. ASSUME pc'[d] # pc[d] PROVE LastCycle(pc[d]) < LastCycle(pc'[d])
      BY <2>2, <2>4, <3>2 DEF LastCycle
    <3> QED
      BY <3>1, <3>2
  <2> QED
    BY <2>3, <2>4
<1>2. QED
  BY <1>1, Invariance, PTL DEF Spec, OneMoreCycle

\* A migration fails only if some call did: no path of the dirty phase makes up an
\* error.
THEOREM ErrorMeansSomeFault == Spec => []ErrorMeansFault
<1> DEFINE Clean == /\ result = "error" => Faults # {}
                    /\ \A d \in Devices : pc[d] \in {"failed", "suspendError"} => Faults # {}
<1>1. Init => Clean
  BY DEF Init
<1>2. IInv /\ Clean /\ [Next]_vars => Clean'
  <2> SUFFICES ASSUME IInv, Faults = {}, Clean, [Next]_vars
               PROVE  result' # "error" /\ \A d \in Devices : pc'[d] \notin {"failed", "suspendError"}
    OBVIOUS
  <2> USE DEF Goto, Outcome
  <2>0. pc \in [Devices -> Stages]
    BY DEF IInv, TypeOK
  <2>1. ASSUME NEW e \in Devices, Step(e)
        PROVE  result' = result /\ \A d \in Devices : pc'[d] \notin {"failed", "suspendError"}
    BY <2>0, <2>1 DEF Step, outcomeVars, PreGetDirty, PreMsync, PreReady, GetDirty,
       SendDirty, PostMigrateDirty, CountCycle, PostReady, CheckReady, LockSuspend,
       SuspendBegin, SuspendVM, SuspendMsync, SuspendEnd, MarkSentDirty,
       CheckSuspendCompleted, AuthorityTransfer, AfterTransfer
  <2>2. CASE MigrateDirtyReturn
    BY <2>2 DEF MigrateDirtyReturn
  <2>3. CASE Completed
    BY <2>3 DEF Completed
  <2>4. ASSUME NEW d \in Devices, NEW b \in Blocks, GuestWrite(d, b)
        PROVE  result' = result /\ pc' = pc
    BY <2>4 DEF GuestWrite, outcomeVars
  <2>5. CASE Terminated \/ UNCHANGED vars
    BY <2>5 DEF Terminated, vars, outcomeVars
  <2> QED
    BY <2>1, <2>2, <2>3, <2>4, <2>5 DEF Next
<1>3. Clean => ErrorMeansFault
  BY DEF ErrorMeansFault
<1>4. QED
  BY <1>1, <1>2, <1>3, Invariance, PTL DEF Spec

-----------------------------------------------------------------------------
\* The dirty phase begins as the handover does.
LEMMA InitHandover == Init => H!Init
  BY DEF Init, H!Init, Behind

\* While the VM is stopped nothing new is missing at the destination.  In every
\* step but a guest's write, what is missing can only shrink.
LEMMA BehindShrinks ==
  ASSUME IInv, NEW d \in Devices, Step(d)
  PROVE  Behind' \subseteq Behind
<1> SUFFICES ASSUME NEW e \in Devices, NEW b \in Blocks, <<e, b>> \in Behind'
             PROVE  <<e, b>> \in Behind
  BY DEF Behind
<1> USE DEF IInv, TypeOK, Goto, statusVars, managerVars, stateVars, dataVars, outcomeVars
<1>1. \/ b \in dirty'[e]
      \/ e = Memory /\ b \in unflushed'
      \/ pc'[e] \in {"send", "failed"} /\ b \in fetched'[e]
  BY DEF Behind
<1>2. SUFFICES \/ b \in dirty[e]
               \/ e = Memory /\ b \in unflushed
               \/ pc[e] \in {"send", "failed"} /\ b \in fetched[e]
  BY DEF Behind
<1> USE DEF SentInv, Suspending
<1>3. CASE PreGetDirty(d) \/ PreReady(d) \/ PostReady(d) \/ CheckReady(d) \/ LockSuspend(d)
  <2>1. CASE PreGetDirty(d)
    BY <1>1, <2>1 DEF PreGetDirty
  <2>2. CASE PreReady(d) \/ PostReady(d)
    BY <1>1, <2>2 DEF PreReady, PostReady, AddReadyDevice
  <2>3. CASE CheckReady(d)
    BY <1>1, <2>3 DEF CheckReady
  <2>4. CASE LockSuspend(d)
    BY <1>1, <2>4 DEF LockSuspend
  <2> QED
    BY <1>3, <2>1, <2>2, <2>3, <2>4
<1>4. CASE PreMsync(d)
  BY <1>1, <1>4 DEF PreMsync, MsyncFunc, Outcome
<1>5. CASE GetDirty(d)
  BY <1>1, <1>5 DEF GetDirty, LastList
<1>6. CASE SendDirty(d) \/ PostMigrateDirty(d)
  BY <1>1, <1>6 DEF SendDirty, PostMigrateDirty, LastList, Outcome
<1>7. CASE CountCycle(d)
  BY <1>1, <1>7 DEF CountCycle
<1>8. CASE SuspendBegin(d) \/ SuspendVM(d) \/ SuspendEnd(d)
  BY <1>1, <1>8 DEF SuspendBegin, SuspendVM, SuspendEnd
<1>9. CASE SuspendMsync(d)
  BY <1>1, <1>9 DEF SuspendMsync, MsyncFunc, Outcome
<1>10. CASE MarkSentDirty(d) \/ CheckSuspendCompleted(d)
  BY <1>1, <1>10 DEF MarkSentDirty, CheckSuspendCompleted
<1>11. CASE AuthorityTransfer(d)
  BY <1>1, <1>11 DEF AuthorityTransfer, AfterTransfer, Outcome
<1>12. QED
  BY <1>3, <1>4, <1>5, <1>6, <1>7, <1>8, <1>9, <1>10, <1>11 DEF Step

\* Every step of the dirty phase is a step of the handover, or changes nothing
\* the handover speaks of.
LEMMA StepHandover == IInv /\ IInv' /\ [Next]_vars => [H!Next]_(H!vars)
<1> SUFFICES ASSUME IInv, IInv', [Next]_vars PROVE [H!Next]_(H!vars)
  OBVIOUS
<1> USE DEF H!Next, H!Write, H!CatchUp, H!Stop, H!Transfer, H!vars
<1>1. ASSUME NEW d \in Devices, Step(d), UNCHANGED <<vmRunning, delivered>>
      PROVE  H!CatchUp
  <2>1. Behind' \subseteq Behind
    BY <1>1, BehindShrinks
  <2>2. Behind \ Behind' \in SUBSET Behind /\ Behind' = Behind \ (Behind \ Behind')
    BY <2>1
  <2>3. QED
    BY <1>1, <2>2
<1>2. ASSUME NEW d \in Devices, SuspendVM(d) PROVE [H!Next]_(H!vars)
  <2>1. UNCHANGED <<Behind, delivered>>
    <3>1. \A e \in Devices : pc[e] \in {"send", "failed"} /\ fetched[e] # {} <=>
                             pc'[e] \in {"send", "failed"} /\ fetched[e] # {}
      BY <1>2 DEF SuspendVM, Goto, IInv, SentInv, TypeOK
    <3>2. UNCHANGED <<unflushed, dirty, fetched, delivered>>
      BY <1>2 DEF SuspendVM, outcomeVars
    <3>3. QED
      BY <3>1, <3>2 DEF Behind
  <2>2. vmRunning \in BOOLEAN /\ vmRunning' \in BOOLEAN
    BY DEF IInv, TypeOK
  <2>3. vmRunning
    <3>1. pc[d] = "suspendVM"
      BY <1>2 DEF SuspendVM, Goto
    <3>2. \A e \in Devices : pc[e] \in Suspending => e = d
      BY <3>1 DEF IInv, LockInv, Suspending
    <3>3. QED
      BY <3>1, <3>2 DEF IInv, SuspendInv, Suspending
  <2>4. CASE vmRunning = vmRunning'
    BY <2>1, <2>4
  <2>5. CASE vmRunning /\ vmRunning' = FALSE
    BY <2>1, <2>5
  <2>6. QED
    BY <2>2, <2>3, <2>4, <2>5
<1>3. ASSUME NEW d \in Devices, AuthorityTransfer(d) PROVE [H!Next]_(H!vars)
  <2>1. UNCHANGED <<unflushed, dirty, fetched, vmRunning>>
    BY <1>3 DEF AuthorityTransfer, dataVars
  <2>2. \A e \in Devices : sentDirty[e]
    BY <1>3 DEF AuthorityTransfer, Goto, IInv, SentInv
  <2>3. suspended /\ Behind = {}
    BY <2>2, SentIsComplete, ConstantsAssumption DEF Behind
  <2>4. ~vmRunning
    BY <2>3 DEF IInv, SuspendInv
  <2>5. Behind' = {}
    <3>1. Step(d)
      BY <1>3 DEF Step
    <3>2. QED
      BY <2>3, <3>1, BehindShrinks
  <2>6. delivered \in BOOLEAN /\ delivered' \in BOOLEAN
    BY DEF IInv, TypeOK
  <2>7. delivered => delivered'
    BY <1>3 DEF AuthorityTransfer
  <2>8. CASE delivered = delivered'
    BY <2>1, <2>3, <2>5, <2>8
  <2>9. CASE ~delivered /\ delivered'
    BY <2>1, <2>3, <2>4, <2>5, <2>9
  <2>10. QED
    BY <2>6, <2>7, <2>8, <2>9
<1>4. ASSUME NEW d \in Devices, NEW b \in Blocks, GuestWrite(d, b) PROVE H!Write
  <2>1. /\ vmRunning
        /\ UNCHANGED <<pc, vmRunning, fetched, delivered>>
    BY <1>4 DEF GuestWrite, outcomeVars
  <2>2. /\ \A e \in Devices : dirty[e] \subseteq dirty'[e]
        /\ unflushed \subseteq unflushed'
    BY <1>4 DEF GuestWrite, IInv, TypeOK
  <2>3. Behind \subseteq Behind'
    BY <2>1, <2>2 DEF Behind
  <2>4. Behind' \in SUBSET (Devices \X Blocks) /\ Behind' = Behind \cup Behind'
    BY <2>3 DEF Behind
  <2>5. QED
    BY <2>1, <2>4
<1>5. CASE MigrateDirtyReturn \/ Completed \/ Terminated \/ UNCHANGED vars
  BY <1>5 DEF MigrateDirtyReturn, Completed, Terminated, vars, dataVars, outcomeVars, Behind
<1>6. ASSUME NEW d \in Devices, Step(d), ~SuspendVM(d), ~AuthorityTransfer(d)
      PROVE  UNCHANGED <<vmRunning, delivered>>
  BY <1>6 DEF Step, PreGetDirty, PreMsync, PreReady, GetDirty, SendDirty,
     PostMigrateDirty, CountCycle, PostReady, CheckReady, LockSuspend, SuspendBegin,
     SuspendMsync, SuspendEnd, MarkSentDirty, CheckSuspendCompleted, dataVars, outcomeVars
<1>7. ASSUME NEW d \in Devices, Step(d) PROVE [H!Next]_(H!vars)
  BY <1>1, <1>2, <1>3, <1>6, <1>7
<1>8. ASSUME NEW d \in Devices, NEW b \in Blocks, GuestWrite(d, b)
      PROVE  [H!Next]_(H!vars)
  BY <1>4, <1>8
<1>9. QED
  BY <1>5, <1>7, <1>8 DEF Next

\* The dirty phase implements the handover the destination is promised.
THEOREM Refinement == Spec => ImplementsHandover
  BY InitHandover, StepHandover, Invariance, PTL DEF Spec, ImplementsHandover, H!Spec

=============================================================================
