-------------------------- MODULE MigrationProofs --------------------------
(***************************************************************************)
(* Proofs about Migration, for a chain of any length, any peers that wait  *)
(* for their data, and any calls that may fail.                            *)
(***************************************************************************)
EXTENDS Migration, TLAPS

USE DEF Peers, Stages, Gone, BeforeVM, WithVM, AfterVM

\* Every step keeps the variables in their types.
LEMMA TypeStep == TypeOK /\ StageInv /\ [Next]_vars => TypeOK'
<1> SUFFICES ASSUME TypeOK /\ StageInv, [Next]_vars PROVE TypeOK'
  OBVIOUS
<1> USE ConstantsAssumption DEF TypeOK, StageInv, Goto, Migrated, mainVars, vmVars,
     linkVars
<1>1. ASSUME NEW p \in Peers, NEW b \in Blocks, GuestWrite(p, b) PROVE TypeOK'
  BY <1>1 DEF GuestWrite
<1>2. ASSUME NEW p \in Peers, Exit(p) PROVE TypeOK'
  BY <1>2 DEF Exit
<1>3. ASSUME NEW p \in Peers, Break(p) PROVE TypeOK'
  BY <1>3 DEF Break
<1>4. ASSUME NEW p \in Peers, Interrupt(p) PROVE TypeOK'
  BY <1>4 DEF Interrupt
<1>5. ASSUME NEW p \in Peers, CancelOnError(p) PROVE TypeOK'
  BY <1>5 DEF CancelOnError
<1>6. ASSUME NEW p \in Peers, Start(p) PROVE TypeOK'
  BY <1>6 DEF Start
<1>7. ASSUME NEW p \in Peers, MigrateFromFS(p) PROVE TypeOK'
  BY <1>7 DEF MigrateFromFS
<1>8. ASSUME NEW p \in Peers, Connect(p) PROVE TypeOK'
  <2>1. stage' \in [Peers -> Stages]
    BY <1>8 DEF Connect
  <2>2. link' \in [Peers -> {"none", "open", "closed", "broken"}]
    BY <1>8 DEF Connect
  <2> QED
    BY <2>1, <2>2, <1>8 DEF Connect
<1>9. ASSUME NEW p \in Peers, p < N, Deliver(p) PROVE TypeOK'
  <2>1. got[p] \in 0 .. 3 /\ sent[p] \in 0 .. 3 /\ got[p] < sent[p]
    BY <1>9 DEF Deliver
  <2>2. got[p] + 1 \in 0 .. 3
    BY <2>1
  <2>3. got' = [got EXCEPT ![p] = got[p] + 1]
    BY <1>9 DEF Deliver
  <2>4. got' \in [Peers -> 0 .. 3]
    BY <2>2, <2>3
  <2> QED
    BY <2>4, <1>9 DEF Deliver
<1>10. ASSUME NEW p \in Peers, p > 1, AwaitDevices(p) PROVE TypeOK'
  BY <1>10 DEF AwaitDevices, Fails
<1>11. ASSUME NEW p \in Peers, p > 1, AwaitAuthority(p) PROVE TypeOK'
  <2>1. stage' \in [Peers -> Stages]
    BY <1>11 DEF AwaitAuthority
  <2>2. completion' \in [Peers -> {"none", "waiting", "done", "failed"}]
    BY <1>11 DEF AwaitAuthority
  <2> QED
    BY <2>1, <2>2, <1>11 DEF AwaitAuthority
<1>12. ASSUME NEW p \in Peers, p > 1, Completion(p) PROVE TypeOK'
  BY <1>12 DEF Completion, Fails
<1>13. ASSUME NEW p \in Peers, Wait(p) PROVE TypeOK'
  BY <1>13 DEF Wait
<1>14. ASSUME NEW p \in Peers, Load(p) PROVE TypeOK'
  <2>1. stage' \in [Peers -> Stages]
    BY <1>14 DEF Load
  <2>2. vm' \in [Peers -> {"none", "running", "stopped"} \cup Gone]
    BY <1>14 DEF Load
  <2> QED
    BY <2>1, <2>2, <1>14 DEF Load
<1>15. ASSUME NEW p \in Peers, AfterResume(p) PROVE TypeOK'
  BY <1>15 DEF AfterResume, Fails
<1>16. ASSUME NEW p \in Peers, Listen(p) PROVE TypeOK'
  BY <1>16 DEF Listen
<1>17. ASSUME NEW p \in Peers, p < N, StartMigrationTo(p) PROVE TypeOK'
  <2>1. stage[p] = "startMigration" /\ sent[p] = 0
    BY <1>17 DEF StartMigrationTo, Send
  <2>2. sent' = [sent EXCEPT ![p] = 1] \/ sent' = sent
    BY <2>1, <1>17 DEF StartMigrationTo, Send
  <2>3. sent' \in [Peers -> 0 .. 3]
    BY <2>2
  <2>4. stage' \in [Peers -> Stages]
    BY <1>17 DEF StartMigrationTo, Send
  <2> QED
    BY <2>3, <2>4, <1>17 DEF StartMigrationTo
<1>18. ASSUME NEW p \in Peers, p < N, MigrateAll(p) PROVE TypeOK'
  <2>1. stage' \in [Peers -> Stages]
    BY <1>18 DEF MigrateAll
  <2>2. behind' \in [Peers -> SUBSET Blocks]
    BY <1>18 DEF MigrateAll
  <2> QED
    BY <2>1, <2>2, <1>18 DEF MigrateAll
<1>19. ASSUME NEW p \in Peers, p < N, CatchUp(p) PROVE TypeOK'
  BY <1>19 DEF CatchUp, Dirty
<1>20. ASSUME NEW p \in Peers, p < N, Suspend(p) PROVE TypeOK'
  <2>1. vm' = vm \/ \E to \in {"stopped"} \cup Gone : vm' = [vm EXCEPT ![p] = to]
    BY <1>20 DEF Suspend
  <2>2. vm' \in [Peers -> {"none", "running", "stopped"} \cup Gone]
    BY <2>1
  <2>3. stage' \in [Peers -> Stages]
    BY <1>20 DEF Suspend
  <2> QED
    BY <2>2, <2>3, <1>20 DEF Suspend
<1>21. ASSUME NEW p \in Peers, p < N, Transfer(p) PROVE TypeOK'
  <2>1. stage[p] = "transfer" /\ sent[p] = 1
    BY <1>21 DEF Transfer, Send
  <2>2. sent' = [sent EXCEPT ![p] = 2] \/ sent' = sent
    BY <2>1, <1>21 DEF Transfer, Send
  <2>3. sent' \in [Peers -> 0 .. 3]
    BY <2>2
  <2>4. stage' \in [Peers -> Stages]
    BY <1>21 DEF Transfer, Send
  <2>5. host' \in Peers
    BY <1>21 DEF Transfer, Send
  <2> QED
    BY <2>3, <2>4, <2>5, <1>21 DEF Transfer, Send
<1>22. ASSUME NEW p \in Peers, p < N, Completed(p) PROVE TypeOK'
  <2>1. stage[p] = "completed" /\ sent[p] = 2
    BY <1>22 DEF Completed, Send
  <2>2. sent' = [sent EXCEPT ![p] = 3] \/ sent' = sent
    BY <2>1, <1>22 DEF Completed, Send
  <2>3. sent' \in [Peers -> 0 .. 3]
    BY <2>2
  <2>4. stage' \in [Peers -> Stages]
    BY <1>22 DEF Completed, Send
  <2>5. cancelled' \in [Peers -> BOOLEAN]
    BY <1>22 DEF Completed
  <2> QED
    BY <2>3, <2>4, <2>5, <1>22 DEF Completed
<1>23. ASSUME NEW p \in Peers, Done(p) PROVE TypeOK'
  BY <1>23 DEF Done
<1>24. ASSUME NEW p \in Peers, HangUp(p) PROVE TypeOK'
  BY <1>24 DEF HangUp, Closed
<1>25. ASSUME NEW p \in Peers, Close(p) PROVE TypeOK'
  BY <1>25 DEF Close, Closed
<1>26. CASE UNCHANGED vars
  BY <1>26 DEF vars
<1> QED
  BY <1>1, <1>2, <1>3, <1>4, <1>5, <1>6, <1>7, <1>8, <1>9, <1>10, <1>11, <1>12,
       <1>13, <1>14, <1>15, <1>16, <1>17, <1>18, <1>19, <1>20, <1>21, <1>22,
       <1>23, <1>24, <1>25, <1>26 DEF Next, Main, MigrateFrom, MigrateTo, Beside

\* Every step keeps what a peer has sent, and what is left of its VM, in line with
\* its stage.
LEMMA StageStep == TypeOK /\ StageInv /\ [Next]_vars => StageInv'
<1> SUFFICES ASSUME TypeOK /\ StageInv, [Next]_vars PROVE StageInv'
  OBVIOUS
<1> USE ConstantsAssumption DEF TypeOK, StageInv, Goto, Migrated, mainVars, vmVars,
     linkVars
<1>1. ASSUME NEW p \in Peers, NEW b \in Blocks, GuestWrite(p, b) PROVE StageInv'
  BY <1>1 DEF GuestWrite
<1>2. ASSUME NEW p \in Peers, Exit(p) PROVE StageInv'
  BY <1>2 DEF Exit
<1>3. ASSUME NEW p \in Peers, Break(p) PROVE StageInv'
  BY <1>3 DEF Break
<1>4. ASSUME NEW p \in Peers, Interrupt(p) PROVE StageInv'
  BY <1>4 DEF Interrupt
<1>5. ASSUME NEW p \in Peers, CancelOnError(p) PROVE StageInv'
  BY <1>5 DEF CancelOnError
<1>6. ASSUME NEW p \in Peers, Start(p) PROVE StageInv'
  BY <1>6 DEF Start
<1>7. ASSUME NEW p \in Peers, MigrateFromFS(p) PROVE StageInv'
  BY <1>7 DEF MigrateFromFS
<1>8. ASSUME NEW p \in Peers, Connect(p) PROVE StageInv'
  BY <1>8 DEF Connect, Fails
<1>9. ASSUME NEW p \in Peers, p < N, Deliver(p) PROVE StageInv'
  BY <1>9 DEF Deliver
<1>10. ASSUME NEW p \in Peers, p > 1, AwaitDevices(p) PROVE StageInv'
  BY <1>10 DEF AwaitDevices, Fails
<1>11. ASSUME NEW p \in Peers, p > 1, AwaitAuthority(p) PROVE StageInv'
  BY <1>11 DEF AwaitAuthority, HasAuthority
<1>12. ASSUME NEW p \in Peers, p > 1, Completion(p) PROVE StageInv'
  BY <1>12 DEF Completion, Fails
<1>13. ASSUME NEW p \in Peers, Wait(p) PROVE StageInv'
  BY <1>13 DEF Wait
<1>14. ASSUME NEW p \in Peers, Load(p) PROVE StageInv'
  BY <1>14 DEF Load, Fails
<1>15. ASSUME NEW p \in Peers, AfterResume(p) PROVE StageInv'
  BY <1>15 DEF AfterResume, Fails
<1>16. ASSUME NEW p \in Peers, Listen(p) PROVE StageInv'
  BY <1>16 DEF Listen
<1>17. ASSUME NEW p \in Peers, p < N, StartMigrationTo(p) PROVE StageInv'
  BY <1>17 DEF StartMigrationTo, Send, SendFails, Fails
<1>18. ASSUME NEW p \in Peers, p < N, MigrateAll(p) PROVE StageInv'
  BY <1>18 DEF MigrateAll, SendFails, Fails
<1>19. ASSUME NEW p \in Peers, p < N, CatchUp(p) PROVE StageInv'
  BY <1>19 DEF CatchUp, Dirty
<1>20. ASSUME NEW p \in Peers, p < N, Suspend(p) PROVE StageInv'
  BY <1>20 DEF Suspend, SendFails, Fails
<1>21. ASSUME NEW p \in Peers, p < N, Transfer(p) PROVE StageInv'
  BY <1>21 DEF Transfer, Send, SendFails, Fails
<1>22. ASSUME NEW p \in Peers, p < N, Completed(p) PROVE StageInv'
  BY <1>22 DEF Completed, Send, SendFails, Fails
<1>23. ASSUME NEW p \in Peers, Done(p) PROVE StageInv'
  BY <1>23 DEF Done
<1>24. ASSUME NEW p \in Peers, HangUp(p) PROVE StageInv'
  BY <1>24 DEF HangUp
<1>25. ASSUME NEW p \in Peers, Close(p) PROVE StageInv'
  BY <1>25 DEF Close
<1>26. CASE UNCHANGED vars
  BY <1>26 DEF vars
<1> QED
  BY <1>1, <1>2, <1>3, <1>4, <1>5, <1>6, <1>7, <1>8, <1>9, <1>10, <1>11, <1>12,
       <1>13, <1>14, <1>15, <1>16, <1>17, <1>18, <1>19, <1>20, <1>21, <1>22,
       <1>23, <1>24, <1>25, <1>26 DEF Next, Main, MigrateFrom, MigrateTo, Beside

\* Every step keeps the authority at host, with the peers before it behind on nothing.
LEMMA HostStep == TypeOK /\ StageInv /\ HostInv /\ [Next]_vars => HostInv'
<1> SUFFICES ASSUME TypeOK /\ StageInv /\ HostInv, [Next]_vars PROVE HostInv'
  OBVIOUS
<1> USE ConstantsAssumption DEF TypeOK, StageInv, HostInv, Goto, Migrated, mainVars,
     vmVars, linkVars
<1>1. ASSUME NEW p \in Peers, NEW b \in Blocks, GuestWrite(p, b) PROVE HostInv'
  BY <1>1 DEF GuestWrite
<1>2. ASSUME NEW p \in Peers, Exit(p) PROVE HostInv'
  BY <1>2 DEF Exit
<1>3. ASSUME NEW p \in Peers, Break(p) PROVE HostInv'
  BY <1>3 DEF Break
<1>4. ASSUME NEW p \in Peers, Interrupt(p) PROVE HostInv'
  BY <1>4 DEF Interrupt
<1>5. ASSUME NEW p \in Peers, CancelOnError(p) PROVE HostInv'
  BY <1>5 DEF CancelOnError
<1>6. ASSUME NEW p \in Peers, Start(p) PROVE HostInv'
  BY <1>6 DEF Start
<1>7. ASSUME NEW p \in Peers, MigrateFromFS(p) PROVE HostInv'
  BY <1>7 DEF MigrateFromFS
<1>8. ASSUME NEW p \in Peers, Connect(p) PROVE HostInv'
  BY <1>8 DEF Connect, Fails
<1>9. ASSUME NEW p \in Peers, p < N, Deliver(p) PROVE HostInv'
  <2>0. \A q \in Peers : got[q] \in Nat /\ sent[q] \in Nat /\ got[q] <= sent[q]
    BY DEF TypeOK, HostInv
  <2>1. got' = [got EXCEPT ![p] = got[p] + 1] /\ got[p] < sent[p]
    BY <1>9 DEF Deliver
  <2>2. \A q \in Peers : got'[q] \in Nat /\ got'[q] >= got[q]
    BY <2>0, <2>1
  <2>3. UNCHANGED <<stage, vm, behind, sent, host>>
    BY <1>9 DEF Deliver
  <2>4. \A q \in Peers : q < host' <=> sent'[q] >= 2
    BY <2>3
  <2>5. \A q \in Peers : q < host' => behind'[q] = {}
    BY <2>0, <2>1, <2>2, <2>3, <1>9 DEF Deliver
  <2>6. \A q \in Peers : got'[q] <= sent'[q]
    BY <2>0, <2>1, <2>2, <2>3, <1>9 DEF Deliver
  <2>7. ASSUME NEW q \in Peers \ {1},
                \/ stage'[q] \in {"wait", "load", "done"} \cup WithVM \cup AfterVM
                \/ vm'[q] \in {"running", "stopped"}
         PROVE  got'[q - 1] >= 2
    <3>1. q - 1 \in Peers
      OBVIOUS
    <3>2. got[q - 1] >= 2
      BY <2>7, <2>3
    <3>3. got[q - 1] \in Nat /\ got'[q - 1] \in Nat /\ got'[q - 1] >= got[q - 1]
      BY <3>1, <2>0, <2>1, <2>2
    <3> QED
      BY <3>2, <3>3
  <2> QED
    BY <2>4, <2>5, <2>6, <2>7
<1>10. ASSUME NEW p \in Peers, p > 1, AwaitDevices(p) PROVE HostInv'
  BY <1>10 DEF AwaitDevices, Fails
<1>11. ASSUME NEW p \in Peers, p > 1, AwaitAuthority(p) PROVE HostInv'
  BY <1>11 DEF AwaitAuthority, HasAuthority
<1>12. ASSUME NEW p \in Peers, p > 1, Completion(p) PROVE HostInv'
  BY <1>12 DEF Completion, Fails
<1>13. ASSUME NEW p \in Peers, Wait(p) PROVE HostInv'
  BY <1>13 DEF Wait
<1>14. ASSUME NEW p \in Peers, Load(p) PROVE HostInv'
  BY <1>14 DEF Load, Fails
<1>15. ASSUME NEW p \in Peers, AfterResume(p) PROVE HostInv'
  BY <1>15 DEF AfterResume, Fails
<1>16. ASSUME NEW p \in Peers, Listen(p) PROVE HostInv'
  BY <1>16 DEF Listen
<1>17. ASSUME NEW p \in Peers, p < N, StartMigrationTo(p) PROVE HostInv'
  <2>0. \A q \in Peers : got[q] \in Nat /\ sent[q] \in Nat /\ got[q] <= sent[q]
    BY DEF TypeOK, HostInv
  <2>1. stage[p] = "startMigration" /\ sent[p] = 0
    BY <1>17 DEF StartMigrationTo, Send
  <2>2. sent' = [sent EXCEPT ![p] = 1] \/ sent' = sent
    BY <2>1, <1>17 DEF StartMigrationTo, Send
  <2>3. stage' = [stage EXCEPT ![p] = "migrateAll"] \/ stage' = [stage EXCEPT ![p] = "hangUp"]
    BY <1>17 DEF StartMigrationTo, Send
  <2>4. UNCHANGED <<vm, behind, got, host>>
    BY <1>17 DEF StartMigrationTo
  <2>5. \A q \in Peers : q < host' <=> sent'[q] >= 2
    BY <2>0, <2>1, <2>2, <2>3, <2>4, <1>17 DEF StartMigrationTo
  <2>6. \A q \in Peers : q < host' => behind'[q] = {}
    BY <2>0, <2>1, <2>2, <2>3, <2>4, <1>17 DEF StartMigrationTo
  <2>7. \A q \in Peers : got'[q] <= sent'[q]
    BY <2>0, <2>1, <2>2, <2>4, SMTT(30)
  <2>8. \A q \in Peers \ {1} :
          \/ stage'[q] \in {"wait", "load", "done"} \cup WithVM \cup AfterVM
          \/ vm'[q] \in {"running", "stopped"}
          => got'[q - 1] >= 2
    BY <2>0, <2>1, <2>2, <2>3, <2>4, <1>17, SMTT(30) DEF StartMigrationTo
  <2> QED
    BY <2>5, <2>6, <2>7, <2>8
<1>18. ASSUME NEW p \in Peers, p < N, MigrateAll(p) PROVE HostInv'
  BY <1>18 DEF MigrateAll, SendFails, Fails
<1>19. ASSUME NEW p \in Peers, p < N, CatchUp(p) PROVE HostInv'
  BY <1>19 DEF CatchUp, Dirty
<1>20. ASSUME NEW p \in Peers, p < N, Suspend(p) PROVE HostInv'
  BY <1>20 DEF Suspend, SendFails, Fails
<1>21. ASSUME NEW p \in Peers, p < N, Transfer(p) PROVE HostInv'
  <2>0. \A q \in Peers : got[q] \in Nat /\ sent[q] \in Nat /\ got[q] <= sent[q]
    BY DEF TypeOK, HostInv
  <2>1. stage[p] = "transfer" /\ sent[p] = 1
    BY <1>21 DEF Transfer, Send
  <2>2. stage' = [stage EXCEPT ![p] = "completed"] \/ stage' = [stage EXCEPT ![p] = "hangUp"]
    BY <1>21 DEF Transfer, Send
  <2>3. UNCHANGED <<vm, behind, got>>
    BY <1>21 DEF Transfer, Send
  <2>4. p = host
    <3>1. ~(p < host)
      BY <2>1
    <3>2. CASE p = 1
      BY <3>1, <3>2
    <3>3. CASE p # 1
      <4>1. p - 1 \in Peers /\ got[p - 1] >= 2
        BY <2>1, <3>3
      <4>2. sent[p - 1] >= 2
        BY <2>0, <4>1
      <4>3. p - 1 < host
        BY <4>1, <4>2
      <4> QED
        BY <3>1, <4>3
    <3> QED
      BY <3>2, <3>3
  <2>5. CASE sent' = sent /\ host' = host
    BY <2>0, <2>1, <2>2, <2>3, <2>5, SMTT(30)
  <2>6. CASE behind[p] = {} /\ sent' = [sent EXCEPT ![p] = 2] /\ host' = p + 1
    <3>1. \A q \in Peers : q < host' <=> sent'[q] >= 2
      BY <2>0, <2>1, <2>2, <2>3, <2>4, <2>6
    <3>2. \A q \in Peers : q < host' => behind'[q] = {}
      BY <2>0, <2>1, <2>2, <2>3, <2>4, <2>6
    <3>3. \A q \in Peers : got'[q] <= sent'[q]
      BY <2>0, <2>1, <2>2, <2>3, <2>4, <2>6
    <3>4. \A q \in Peers \ {1} :
            \/ stage'[q] \in {"wait", "load", "done"} \cup WithVM \cup AfterVM
            \/ vm'[q] \in {"running", "stopped"}
            => got'[q - 1] >= 2
      BY <2>0, <2>1, <2>2, <2>3, <2>4, <2>6
    <3> QED
      BY <3>1, <3>2, <3>3, <3>4
  <2> QED
    BY <2>1, <2>5, <2>6, <1>21 DEF Transfer, Send
<1>22. ASSUME NEW p \in Peers, p < N, Completed(p) PROVE HostInv'
  <2>0. \A q \in Peers : got[q] \in Nat /\ sent[q] \in Nat /\ got[q] <= sent[q]
    BY DEF TypeOK, HostInv
  <2>1. stage[p] = "completed" /\ sent[p] = 2
    BY <1>22 DEF Completed, Send
  <2>2. sent' = [sent EXCEPT ![p] = 3] \/ sent' = sent
    BY <2>1, <1>22 DEF Completed, Send
  <2>3. stage' = [stage EXCEPT ![p] = "done"] \/ stage' = [stage EXCEPT ![p] = "hangUp"]
    BY <1>22 DEF Completed, Send
  <2>4. UNCHANGED <<vm, behind, got, host>>
    BY <1>22 DEF Completed
  <2>5. \A q \in Peers : q < host' <=> sent'[q] >= 2
    BY <2>0, <2>1, <2>2, <2>3, <2>4, <1>22 DEF Completed
  <2>6. \A q \in Peers : q < host' => behind'[q] = {}
    BY <2>0, <2>1, <2>2, <2>3, <2>4, <1>22 DEF Completed
  <2>7. \A q \in Peers : got'[q] <= sent'[q]
    BY <2>0, <2>1, <2>2, <2>4, SMTT(30)
  <2>8. \A q \in Peers \ {1} :
          \/ stage'[q] \in {"wait", "load", "done"} \cup WithVM \cup AfterVM
          \/ vm'[q] \in {"running", "stopped"}
          => got'[q - 1] >= 2
    BY <2>0, <2>1, <2>2, <2>3, <2>4, <1>22, SMTT(30) DEF Completed
  <2> QED
    BY <2>5, <2>6, <2>7, <2>8
<1>23. ASSUME NEW p \in Peers, Done(p) PROVE HostInv'
  BY <1>23 DEF Done
<1>24. ASSUME NEW p \in Peers, HangUp(p) PROVE HostInv'
  BY <1>24 DEF HangUp
<1>25. ASSUME NEW p \in Peers, Close(p) PROVE HostInv'
  BY <1>25 DEF Close
<1>26. CASE UNCHANGED vars
  BY <1>26 DEF vars
<1> QED
  BY <1>1, <1>2, <1>3, <1>4, <1>5, <1>6, <1>7, <1>8, <1>9, <1>10, <1>11, <1>12,
       <1>13, <1>14, <1>15, <1>16, <1>17, <1>18, <1>19, <1>20, <1>21, <1>22,
       <1>23, <1>24, <1>25, <1>26 DEF Next, Main, MigrateFrom, MigrateTo, Beside

\* Every step keeps a patient peer from resuming without its data.
LEMMA PatientStep == TypeOK /\ StageInv /\ PatientInv /\ [Next]_vars => PatientInv'
<1> SUFFICES ASSUME TypeOK /\ StageInv /\ PatientInv, [Next]_vars PROVE PatientInv'
  OBVIOUS
<1> USE ConstantsAssumption DEF TypeOK, StageInv, PatientInv, Goto, Migrated,
     mainVars, vmVars, linkVars
<1>1. ASSUME NEW p \in Peers, NEW b \in Blocks, GuestWrite(p, b) PROVE PatientInv'
  BY <1>1 DEF GuestWrite
<1>2. ASSUME NEW p \in Peers, Exit(p) PROVE PatientInv'
  BY <1>2 DEF Exit
<1>3. ASSUME NEW p \in Peers, Break(p) PROVE PatientInv'
  BY <1>3 DEF Break
<1>4. ASSUME NEW p \in Peers, Interrupt(p) PROVE PatientInv'
  BY <1>4 DEF Interrupt
<1>5. ASSUME NEW p \in Peers, CancelOnError(p) PROVE PatientInv'
  BY <1>5 DEF CancelOnError
<1>6. ASSUME NEW p \in Peers, Start(p) PROVE PatientInv'
  BY <1>6 DEF Start
<1>7. ASSUME NEW p \in Peers, MigrateFromFS(p) PROVE PatientInv'
  BY <1>7 DEF MigrateFromFS
<1>8. ASSUME NEW p \in Peers, Connect(p) PROVE PatientInv'
  BY <1>8 DEF Connect, Fails
<1>9. ASSUME NEW p \in Peers, p < N, Deliver(p) PROVE PatientInv'
  BY <1>9 DEF Deliver
<1>10. ASSUME NEW p \in Peers, p > 1, AwaitDevices(p) PROVE PatientInv'
  BY <1>10 DEF AwaitDevices, Fails
<1>11. ASSUME NEW p \in Peers, p > 1, AwaitAuthority(p) PROVE PatientInv'
  <2>1. vm[p] # "running" /\ UNCHANGED <<vm, cancelled>>
    BY <1>11 DEF AwaitAuthority
  <2>2. CASE Migrated(p, "authority") /\ completion' = [completion EXCEPT ![p] = "waiting"]
    <3>1. p \in Patient => stage'[p] = "wait"
      BY <2>2
    <3> QED
      BY <2>1, <2>2, <3>1
  <2>3. CASE Goto(p, "authority", "hangUp") /\ UNCHANGED completion
    BY <2>1, <2>3
  <2> QED
    BY <2>2, <2>3, <1>11 DEF AwaitAuthority
<1>12. ASSUME NEW p \in Peers, p > 1, Completion(p) PROVE PatientInv'
  BY <1>12 DEF Completion, Fails
<1>13. ASSUME NEW p \in Peers, Wait(p) PROVE PatientInv'
  BY <1>13 DEF Wait
<1>14. ASSUME NEW p \in Peers, Load(p) PROVE PatientInv'
  BY <1>14 DEF Load, Fails
<1>15. ASSUME NEW p \in Peers, AfterResume(p) PROVE PatientInv'
  BY <1>15 DEF AfterResume, Fails
<1>16. ASSUME NEW p \in Peers, Listen(p) PROVE PatientInv'
  BY <1>16 DEF Listen
<1>17. ASSUME NEW p \in Peers, p < N, StartMigrationTo(p) PROVE PatientInv'
  BY <1>17 DEF StartMigrationTo, Send, SendFails, Fails
<1>18. ASSUME NEW p \in Peers, p < N, MigrateAll(p) PROVE PatientInv'
  BY <1>18 DEF MigrateAll, SendFails, Fails
<1>19. ASSUME NEW p \in Peers, p < N, CatchUp(p) PROVE PatientInv'
  BY <1>19 DEF CatchUp, Dirty
<1>20. ASSUME NEW p \in Peers, p < N, Suspend(p) PROVE PatientInv'
  BY <1>20 DEF Suspend, SendFails, Fails
<1>21. ASSUME NEW p \in Peers, p < N, Transfer(p) PROVE PatientInv'
  BY <1>21 DEF Transfer, Send, SendFails, Fails
<1>22. ASSUME NEW p \in Peers, p < N, Completed(p) PROVE PatientInv'
  BY <1>22 DEF Completed, Send, SendFails, Fails
<1>23. ASSUME NEW p \in Peers, Done(p) PROVE PatientInv'
  BY <1>23 DEF Done
<1>24. ASSUME NEW p \in Peers, HangUp(p) PROVE PatientInv'
  BY <1>24 DEF HangUp
<1>25. ASSUME NEW p \in Peers, Close(p) PROVE PatientInv'
  BY <1>25 DEF Close
<1>26. CASE UNCHANGED vars
  BY <1>26 DEF vars
<1> QED
  BY <1>1, <1>2, <1>3, <1>4, <1>5, <1>6, <1>7, <1>8, <1>9, <1>10, <1>11, <1>12,
       <1>13, <1>14, <1>15, <1>16, <1>17, <1>18, <1>19, <1>20, <1>21, <1>22,
       <1>23, <1>24, <1>25, <1>26 DEF Next, Main, MigrateFrom, MigrateTo, Beside

\* Connections and stages keep in step.
LEMMA ConnectionStep ==
  TypeOK /\ StageInv /\ HostInv /\ ConnectionInv /\ [Next]_vars => ConnectionInv'
<1> SUFFICES ASSUME TypeOK /\ StageInv /\ HostInv /\ ConnectionInv, [Next]_vars
             PROVE  ConnectionInv'
  OBVIOUS
<1> USE ConstantsAssumption DEF TypeOK, StageInv, ConnectionInv, ConnectionFits, Sending, Goto, Migrated,
     mainVars, vmVars, linkVars
<1>1. ASSUME UNCHANGED <<stage, link, sent>> PROVE ConnectionInv'
  BY <1>1
<1>2. ASSUME NEW p \in Peers, Break(p) PROVE ConnectionInv'
  BY <1>2 DEF Break
<1>3. ASSUME NEW p \in Peers, Start(p) PROVE ConnectionInv'
  BY <1>3 DEF Start
<1>4. ASSUME NEW p \in Peers, MigrateFromFS(p) PROVE ConnectionInv'
  BY <1>4 DEF MigrateFromFS
<1>5. ASSUME NEW p \in Peers, Connect(p) PROVE ConnectionInv'
  <2> SUFFICES ASSUME NEW q \in 1 .. N - 1 PROVE ConnectionFits(q)'
    OBVIOUS
  <2>1. q \in Peers /\ q + 1 \in Peers /\ ConnectionFits(q)
    OBVIOUS
  <2>2. CASE q = p
    BY <1>5, <2>1, <2>2 DEF Connect, Fails
  <2>3. CASE q + 1 = p
    BY <1>5, <2>1, <2>3 DEF Connect, Fails
  <2>4. CASE q # p /\ q + 1 # p
    BY <1>5, <2>1, <2>4 DEF Connect, Fails
  <2> QED
    BY <2>2, <2>3, <2>4
<1>6. ASSUME NEW p \in Peers, p > 1, AwaitDevices(p) PROVE ConnectionInv'
  BY <1>6 DEF AwaitDevices, Fails
<1>7. ASSUME NEW p \in Peers, p > 1, AwaitAuthority(p) PROVE ConnectionInv'
  <2> SUFFICES ASSUME NEW q \in 1 .. N - 1 PROVE ConnectionFits(q)'
    OBVIOUS
  <2>1. q \in Peers /\ q + 1 \in Peers /\ ConnectionFits(q)
    OBVIOUS
  <2>2. CASE q = p
    BY <1>7, <2>1, <2>2 DEF AwaitAuthority
  <2>3. CASE q + 1 = p
    BY <1>7, <2>1, <2>3 DEF AwaitAuthority
  <2>4. CASE q # p /\ q + 1 # p
    BY <1>7, <2>1, <2>4 DEF AwaitAuthority
  <2> QED
    BY <2>2, <2>3, <2>4
<1>8. ASSUME NEW p \in Peers, Wait(p) PROVE ConnectionInv'
  BY <1>8 DEF Wait
<1>9. ASSUME NEW p \in Peers, Load(p) PROVE ConnectionInv'
  <2> SUFFICES ASSUME NEW q \in 1 .. N - 1 PROVE ConnectionFits(q)'
    OBVIOUS
  <2>1. q \in Peers /\ q + 1 \in Peers /\ ConnectionFits(q)
    OBVIOUS
  <2>2. CASE q = p
    BY <1>9, <2>1, <2>2 DEF Load, Fails
  <2>3. CASE q + 1 = p
    BY <1>9, <2>1, <2>3 DEF Load, Fails
  <2>4. CASE q # p /\ q + 1 # p
    BY <1>9, <2>1, <2>4 DEF Load, Fails
  <2> QED
    BY <2>2, <2>3, <2>4
<1>10. ASSUME NEW p \in Peers, AfterResume(p) PROVE ConnectionInv'
  <2> SUFFICES ASSUME NEW q \in 1 .. N - 1 PROVE ConnectionFits(q)'
    OBVIOUS
  <2>1. q \in Peers /\ q + 1 \in Peers /\ ConnectionFits(q)
    OBVIOUS
  <2>2. CASE q = p
    BY <1>10, <2>1, <2>2 DEF AfterResume, Fails
  <2>3. CASE q + 1 = p
    BY <1>10, <2>1, <2>3 DEF AfterResume, Fails
  <2>4. CASE q # p /\ q + 1 # p
    BY <1>10, <2>1, <2>4 DEF AfterResume, Fails
  <2> QED
    BY <2>2, <2>3, <2>4
<1>11. ASSUME NEW p \in Peers, Listen(p) PROVE ConnectionInv'
  BY <1>11 DEF Listen
<1>12. ASSUME NEW p \in Peers, p < N, StartMigrationTo(p) PROVE ConnectionInv'
  <2> SUFFICES ASSUME NEW q \in 1 .. N - 1 PROVE ConnectionFits(q)'
    OBVIOUS
  <2>1. q \in Peers /\ q + 1 \in Peers /\ ConnectionFits(q)
    OBVIOUS
  <2>2. CASE q = p
    BY <1>12, <2>1, <2>2 DEF StartMigrationTo, Send, SendFails, Fails
  <2>3. CASE q + 1 = p
    BY <1>12, <2>1, <2>3 DEF StartMigrationTo, Send, SendFails, Fails
  <2>4. CASE q # p /\ q + 1 # p
    BY <1>12, <2>1, <2>4 DEF StartMigrationTo, Send, SendFails, Fails
  <2> QED
    BY <2>2, <2>3, <2>4
<1>13. ASSUME NEW p \in Peers, p < N, MigrateAll(p) PROVE ConnectionInv'
  BY <1>13 DEF MigrateAll, Send, SendFails, Fails
<1>14. ASSUME NEW p \in Peers, p < N, Suspend(p) PROVE ConnectionInv'
  <2> SUFFICES ASSUME NEW q \in 1 .. N - 1 PROVE ConnectionFits(q)'
    OBVIOUS
  <2>1. q \in Peers /\ q + 1 \in Peers /\ ConnectionFits(q)
    OBVIOUS
  <2>2. CASE q = p
    BY <1>14, <2>1, <2>2 DEF Suspend, Send, SendFails, Fails
  <2>3. CASE q + 1 = p
    BY <1>14, <2>1, <2>3 DEF Suspend, Send, SendFails, Fails
  <2>4. CASE q # p /\ q + 1 # p
    BY <1>14, <2>1, <2>4 DEF Suspend, Send, SendFails, Fails
  <2> QED
    BY <2>2, <2>3, <2>4
<1>15. ASSUME NEW p \in Peers, p < N, Transfer(p) PROVE ConnectionInv'
  <2> SUFFICES ASSUME NEW q \in 1 .. N - 1 PROVE ConnectionFits(q)'
    OBVIOUS
  <2>1. q \in Peers /\ q + 1 \in Peers /\ ConnectionFits(q)
    OBVIOUS
  <2>2. CASE q = p
    BY <1>15, <2>1, <2>2 DEF Transfer, Send, SendFails, Fails
  <2>3. CASE q + 1 = p
    BY <1>15, <2>1, <2>3 DEF Transfer, Send, SendFails, Fails
  <2>4. CASE q # p /\ q + 1 # p
    BY <1>15, <2>1, <2>4 DEF Transfer, Send, SendFails, Fails
  <2> QED
    BY <2>2, <2>3, <2>4
<1>16. ASSUME NEW p \in Peers, p < N, Completed(p) PROVE ConnectionInv'
  <2> SUFFICES ASSUME NEW q \in 1 .. N - 1 PROVE ConnectionFits(q)'
    OBVIOUS
  <2>1. q \in Peers /\ q + 1 \in Peers /\ ConnectionFits(q)
    OBVIOUS
  <2>2. CASE q = p
    BY <1>16, <2>1, <2>2 DEF Completed, Send, SendFails, Fails
  <2>3. CASE q + 1 = p
    BY <1>16, <2>1, <2>3 DEF Completed, Send, SendFails, Fails
  <2>4. CASE q # p /\ q + 1 # p
    BY <1>16, <2>1, <2>4 DEF Completed, Send, SendFails, Fails
  <2> QED
    BY <2>2, <2>3, <2>4
<1>17. ASSUME NEW p \in Peers, Done(p) PROVE ConnectionInv'
  BY <1>17 DEF Done
<1>18. ASSUME NEW p \in Peers, HangUp(p) PROVE ConnectionInv'
  <2> SUFFICES ASSUME NEW q \in 1 .. N - 1 PROVE ConnectionFits(q)'
    OBVIOUS
  <2>1. q \in Peers /\ q + 1 \in Peers /\ ConnectionFits(q)
    OBVIOUS
  <2>2. CASE q = p
    BY <1>18, <2>1, <2>2 DEF HangUp, Closer, Closed
  <2>3. CASE q + 1 = p
    BY <1>18, <2>1, <2>3 DEF HangUp, Closer, Closed
  <2>4. CASE q # p /\ q + 1 # p
    BY <1>18, <2>1, <2>4 DEF HangUp, Closer, Closed
  <2> QED
    BY <2>2, <2>3, <2>4
<1>19. ASSUME NEW p \in Peers, Close(p) PROVE ConnectionInv'
  BY <1>19 DEF Close, Closed
<1>20. CASE UNCHANGED vars
  BY <1>1, <1>20 DEF vars
<1>21. ASSUME NEW p \in Peers, NEW b \in Blocks, GuestWrite(p, b) PROVE ConnectionInv'
  BY <1>1, <1>21 DEF GuestWrite
<1>22. ASSUME NEW p \in Peers, Exit(p) \/ Interrupt(p) \/ Beside(p) PROVE ConnectionInv'
  BY <1>1, <1>22 DEF Exit, Interrupt, Beside, CancelOnError, Deliver, Completion, CatchUp
<1> QED
  BY <1>2, <1>3, <1>4, <1>5, <1>6, <1>7, <1>8, <1>9, <1>10, <1>11, <1>12, <1>13, <1>14, <1>15, <1>16, <1>17, <1>18, <1>19, <1>20, <1>21, <1>22
     DEF Next, Main, MigrateFrom, MigrateTo

\* MigrationInv holds initially.
LEMMA InitInv == Init => MigrationInv
  BY ConstantsAssumption DEF Init, MigrationInv, TypeOK, StageInv, HostInv, PatientInv,
     ConnectionInv, ConnectionFits

\* MigrationInv is inductive, so it holds always.
THEOREM Invariance == Spec => []MigrationInv
<1>1. MigrationInv /\ [Next]_vars => MigrationInv'
  BY TypeStep, StageStep, HostStep, PatientStep, ConnectionStep DEF MigrationInv
<1> QED
  BY <1>1, InitInv, PTL DEF Spec

\* The variables keep their types, in a chain of any length.
THEOREM TypeCorrect == Spec => []TypeOK
<1>1. MigrationInv => TypeOK
  BY DEF MigrationInv
<1> QED
  BY <1>1, Invariance, PTL

\* Neighbours never wait for each other, and a wait that lasts for ever is one over a
\* connection that closed or broke: the safety half of Arrives, and what is left of the
\* comment at migrations.go:392.
THEOREM NeighboursAreBusy == Spec => []WaitsForTheBusy
<1>1. MigrationInv => WaitsForTheBusy
  BY ConstantsAssumption DEF MigrationInv, TypeOK, StageInv, ConnectionInv, ConnectionFits,
     WaitsForTheBusy, Sending
<1> QED
  BY <1>1, Invariance, PTL

\* Only the host has a VM that runs, or is about to resume it or to transfer it.
LEMMA AtHost ==
  ASSUME MigrationInv, NEW p \in Peers,
         vm[p] = "running" \/ stage[p] \in {"load", "transfer"} \cup WithVM
  PROVE  p = host
<1> USE ConstantsAssumption DEF MigrationInv, TypeOK, StageInv, HostInv
<1>1. ~(sent[p] >= 2)
  BY SMTT(30)
<1>2. ~(p < host)
  BY <1>1
<1>3. CASE p = 1
  BY <1>2, <1>3
<1>4. CASE p # 1
  <2>1. p - 1 \in Peers /\ got[p - 1] >= 2
    BY <1>4
  <2>2. \A q \in Peers : got[q] \in Nat /\ sent[q] \in Nat /\ got[q] <= sent[q]
    OBVIOUS
  <2>3. sent[p - 1] >= 2
    BY <2>1, <2>2
  <2>4. p - 1 < host
    BY <2>1, <2>3
  <2> QED
    BY <1>2, <2>4
<1> QED
  BY <1>3, <1>4

\* The VM executes at one peer at a time, in a chain of any length, whichever calls
\* fail, connections break or peers are interrupted (peer.go:193-477).
THEOREM OneVMAlways == Spec => []OneVM
<1>1. MigrationInv => OneVM
  BY AtHost DEF OneVM
<1> QED
  BY <1>1, Invariance, PTL

\* A resumed VM has everything that was written at the peer before it
\* (migrations.go:524-542, peer.go:245-255).
THEOREM NothingMissingAlways == Spec => []NothingMissing
<1>1. MigrationInv => NothingMissing
  <2> SUFFICES ASSUME MigrationInv, NEW p \in 1 .. N - 1, vm[p + 1] \in {"running", "stopped"}
               PROVE  behind[p] = {}
    BY ConstantsAssumption DEF NothingMissing, MigrationInv, TypeOK
  <2>1. p \in Peers /\ p + 1 \in Peers \ {1} /\ (p + 1) - 1 = p
    BY ConstantsAssumption
  <2>2. got[p] >= 2
    BY <2>1 DEF MigrationInv, HostInv
  <2>3. got[p] \in Nat /\ sent[p] \in Nat /\ got[p] <= sent[p]
    BY <2>1 DEF MigrationInv, HostInv, TypeOK
  <2>4. p < host
    BY <2>1, <2>2, <2>3 DEF MigrationInv, HostInv
  <2> QED
    BY <2>1, <2>4 DEF MigrationInv, HostInv
<1> QED
  BY <1>1, Invariance, PTL

\* A patient peer resumes the VM with its data only (main.go:273-283).
THEOREM ResumesWithDataAlways == Spec => []ResumesWithData
<1>1. MigrationInv => ResumesWithData
  BY DEF MigrationInv, PatientInv, ResumesWithData
<1> QED
  BY <1>1, Invariance, PTL

\* Every step is a step of MovingVM, or changes nothing of it.
LEMMA ContractStep == MigrationInv /\ [Next]_vars => [M!Next]_(M!vars)
<1> SUFFICES ASSUME MigrationInv, [Next]_vars PROVE [M!Next]_(M!vars)
  OBVIOUS
<1> USE ConstantsAssumption DEF MigrationInv, TypeOK, StageInv, Goto, Migrated,
     mainVars, vmVars, linkVars
<1>1. ASSUME NEW p \in Peers, NEW b \in Blocks, GuestWrite(p, b) PROVE [M!Next]_(M!vars)
  <2>1. p = host /\ {q \in Peers : vm[q] = "running"} = {host}
    BY <1>1, AtHost DEF GuestWrite
  <2>2. behind' = [behind EXCEPT ![host] = behind[host] \cup {b}] /\ {b} \in SUBSET Blocks
    BY <1>1, <2>1 DEF GuestWrite
  <2>3. UNCHANGED <<host, vm>>
    BY <1>1 DEF GuestWrite
  <2>4. M!Execute
    BY <2>1, <2>2, <2>3 DEF M!Execute
  <2> QED
    BY <2>4 DEF M!Next
<1>2. ASSUME NEW p \in Peers, Exit(p) PROVE [M!Next]_(M!vars)
  <2>1. UNCHANGED <<host, behind>> /\ \E exit \in Gone : vm' = [vm EXCEPT ![p] = exit]
    BY <1>2 DEF Exit
  <2>2. M!Stop
    BY <2>1 DEF M!Stop
  <2> QED
    BY <2>2 DEF M!Next
<1>3. ASSUME NEW p \in Peers, Break(p) PROVE [M!Next]_(M!vars)
  BY <1>3 DEF Break, M!vars
<1>4. ASSUME NEW p \in Peers, Interrupt(p) PROVE [M!Next]_(M!vars)
  BY <1>4 DEF Interrupt, M!vars
<1>5. ASSUME NEW p \in Peers, CancelOnError(p) PROVE [M!Next]_(M!vars)
  BY <1>5 DEF CancelOnError, M!vars
<1>6. ASSUME NEW p \in Peers, Start(p) PROVE [M!Next]_(M!vars)
  BY <1>6 DEF Start, M!vars
<1>7. ASSUME NEW p \in Peers, MigrateFromFS(p) PROVE [M!Next]_(M!vars)
  BY <1>7 DEF MigrateFromFS, M!vars
<1>8. ASSUME NEW p \in Peers, Connect(p) PROVE [M!Next]_(M!vars)
  BY <1>8 DEF Connect, Fails, M!vars
<1>9. ASSUME NEW p \in Peers, p < N, Deliver(p) PROVE [M!Next]_(M!vars)
  BY <1>9 DEF Deliver, M!vars
<1>10. ASSUME NEW p \in Peers, p > 1, AwaitDevices(p) PROVE [M!Next]_(M!vars)
  BY <1>10 DEF AwaitDevices, Fails, M!vars
<1>11. ASSUME NEW p \in Peers, p > 1, AwaitAuthority(p) PROVE [M!Next]_(M!vars)
  BY <1>11 DEF AwaitAuthority, HasAuthority, M!vars
<1>12. ASSUME NEW p \in Peers, p > 1, Completion(p) PROVE [M!Next]_(M!vars)
  BY <1>12 DEF Completion, Fails, M!vars
<1>13. ASSUME NEW p \in Peers, Wait(p) PROVE [M!Next]_(M!vars)
  BY <1>13 DEF Wait, M!vars
<1>14. ASSUME NEW p \in Peers, Load(p) PROVE [M!Next]_(M!vars)
  <2>1. CASE UNCHANGED vm
    BY <2>1, <1>14 DEF Load, M!vars
  <2>2. CASE vm[p] = "none" /\ vm' = [vm EXCEPT ![p] = "running"]
    <3>1. p = host
      BY <1>14, AtHost DEF Load
    <3>2. \A q \in Peers : vm[q] = "running" => q = host
      BY AtHost
    <3>3. {q \in Peers : vm'[q] = "running"} = {host}
      BY <2>2, <3>1, <3>2
    <3>4. {q \in Peers : vm'[q] \in {"stopped", "failed", "ended"}} = {q \in Peers : vm[q] \in {"stopped", "failed", "ended"}}
      BY <2>2
    <3>5. M!Start
      BY <2>2, <3>1, <3>3, <3>4, <1>14 DEF Load, M!Start
    <3> QED
      BY <3>5 DEF M!Next
  <2> QED
    BY <2>1, <2>2, <1>14 DEF Load
<1>15. ASSUME NEW p \in Peers, AfterResume(p) PROVE [M!Next]_(M!vars)
  BY <1>15 DEF AfterResume, Fails, M!vars
<1>16. ASSUME NEW p \in Peers, Listen(p) PROVE [M!Next]_(M!vars)
  BY <1>16 DEF Listen, M!vars
<1>17. ASSUME NEW p \in Peers, p < N, StartMigrationTo(p) PROVE [M!Next]_(M!vars)
  BY <1>17 DEF StartMigrationTo, Send, SendFails, Fails, M!vars
<1>18. ASSUME NEW p \in Peers, p < N, MigrateAll(p) PROVE [M!Next]_(M!vars)
  <2>1. p = host
    BY <1>18, AtHost DEF MigrateAll
  <2>2. CASE UNCHANGED behind
    BY <2>2, <1>18 DEF MigrateAll, M!vars
  <2>3. CASE behind' = [behind EXCEPT ![p] = {}]
    <3>1. behind' = [behind EXCEPT ![host] = behind[host] \ Blocks]
      BY <2>1, <2>3
    <3>2. M!CatchUp
      BY <3>1, <1>18 DEF MigrateAll, M!CatchUp
    <3> QED
      BY <3>2 DEF M!Next
  <2> QED
    BY <2>2, <2>3, <1>18 DEF MigrateAll
<1>19. ASSUME NEW p \in Peers, p < N, CatchUp(p) PROVE [M!Next]_(M!vars)
  <2>1. p = host
    BY <1>19, AtHost DEF CatchUp, Dirty
  <2>2. PICK b \in behind[p] : behind' = [behind EXCEPT ![p] = @ \ {b}]
    BY <1>19 DEF CatchUp
  <2>3. behind' = [behind EXCEPT ![host] = behind[host] \ {b}] /\ {b} \in SUBSET Blocks
    BY <2>1, <2>2
  <2>4. UNCHANGED <<host, vm>>
    BY <1>19 DEF CatchUp
  <2>5. M!CatchUp
    BY <2>3, <2>4 DEF M!CatchUp
  <2> QED
    BY <2>5 DEF M!Next
<1>20. ASSUME NEW p \in Peers, p < N, Suspend(p) PROVE [M!Next]_(M!vars)
  <2>1. CASE UNCHANGED vm
    BY <2>1, <1>20 DEF Suspend, M!vars
  <2>2. CASE \E to \in {"stopped", "failed", "ended"} : vm' = [vm EXCEPT ![p] = to]
    <3>1. {q \in Peers : vm'[q] = "running"} = {q \in Peers : vm[q] = "running"} \ {p}
      BY <2>2
    <3>2. {q \in Peers : vm'[q] \in {"stopped"} \cup Gone}
          = {q \in Peers : vm[q] \in {"stopped"} \cup Gone} \cup {p}
      BY <2>2
    <3>3. UNCHANGED <<host, behind>>
      BY <1>20 DEF Suspend
    <3>4. M!Stop
      BY <3>1, <3>2, <3>3 DEF M!Stop
    <3> QED
      BY <3>4 DEF M!Next
  <2> QED
    BY <2>1, <2>2, <1>20 DEF Suspend
<1>21. ASSUME NEW p \in Peers, p < N, Transfer(p) PROVE [M!Next]_(M!vars)
  <2>1. p = host /\ vm[p] \in {"stopped", "failed", "ended"}
    BY <1>21, AtHost DEF Transfer, Send
  <2>2. CASE UNCHANGED host
    BY <2>2, <1>21 DEF Transfer, Send, M!vars
  <2>3. CASE behind[p] = {} /\ host' = p + 1
    <3>1. {q \in Peers : vm[q] = "running"} = {}
      BY <2>1, AtHost
    <3>2. M!Move
      BY <2>1, <2>3, <3>1, <1>21 DEF Transfer, Send, M!Move
    <3> QED
      BY <3>2 DEF M!Next
  <2> QED
    BY <2>2, <2>3, <1>21 DEF Transfer, Send
<1>22. ASSUME NEW p \in Peers, p < N, Completed(p) PROVE [M!Next]_(M!vars)
  BY <1>22 DEF Completed, Send, SendFails, Fails, M!vars
<1>23. ASSUME NEW p \in Peers, Done(p) PROVE [M!Next]_(M!vars)
  BY <1>23 DEF Done, M!vars
<1>24. ASSUME NEW p \in Peers, HangUp(p) PROVE [M!Next]_(M!vars)
  BY <1>24 DEF HangUp, M!vars
<1>25. ASSUME NEW p \in Peers, Close(p) PROVE [M!Next]_(M!vars)
  <2>1. CASE UNCHANGED vm
    BY <2>1, <1>25 DEF Close, M!vars
  <2>2. CASE \E to \in {"stopped", "failed", "ended"} : vm' = [vm EXCEPT ![p] = to]
    <3>1. {q \in Peers : vm'[q] = "running"} = {q \in Peers : vm[q] = "running"} \ {p}
      BY <2>2
    <3>2. {q \in Peers : vm'[q] \in {"stopped"} \cup Gone}
          = {q \in Peers : vm[q] \in {"stopped"} \cup Gone} \cup {p}
      BY <2>2
    <3>3. UNCHANGED <<host, behind>>
      BY <1>25 DEF Close
    <3>4. M!Stop
      BY <3>1, <3>2, <3>3 DEF M!Stop
    <3> QED
      BY <3>4 DEF M!Next
  <2> QED
    BY <2>1, <2>2, <1>25 DEF Close
<1>26. CASE UNCHANGED vars
  BY <1>26 DEF vars, M!vars
<1> QED
  BY <1>1, <1>2, <1>3, <1>4, <1>5, <1>6, <1>7, <1>8, <1>9, <1>10, <1>11, <1>12,
       <1>13, <1>14, <1>15, <1>16, <1>17, <1>18, <1>19, <1>20, <1>21, <1>22,
       <1>23, <1>24, <1>25, <1>26 DEF Next, Main, MigrateFrom, MigrateTo, Beside

\* The chain implements the abstract VM that moves along it: it starts only where
\* the authority is, and moves only once it stopped and the next peer knows all of it
\* (peer.go:405-477, migrations.go:370-448, 524-542).
THEOREM MigrationImplementsMovingVM == Spec => ImplementsMovingVM
<1>1. Init => M!Init
  BY DEF Init, M!Init
<1> QED
  BY <1>1, ContractStep, Invariance, PTL DEF Spec, ImplementsMovingVM, M!Spec

\* Every step of MovingVM is, for each two neighbours, one of their handover, or
\* changes nothing of it.
LEMMA LinkStep ==
  ASSUME MigrationInv, [M!Next]_(M!vars), NEW p \in 1 .. N - 1
  PROVE  [Link(p)!Next]_(Link(p)!vars)
<1> USE ConstantsAssumption
<1>0. /\ p \in Peers /\ p \in Nat /\ host \in Nat
      /\ host \in Peers /\ behind \in [Peers -> SUBSET Blocks]
  BY DEF MigrationInv, TypeOK
<1> DEFINE stopped == {q \in Peers : vm[q] \in {"stopped"} \cup Gone}
<1>1. /\ vm[p] \notin {"stopped"} \cup Gone <=> p \notin stopped
      /\ vm'[p] \notin {"stopped"} \cup Gone <=> p \notin stopped'
  BY <1>0
<1>2. ASSUME UNCHANGED <<host, behind, stopped>> PROVE [Link(p)!Next]_(Link(p)!vars)
  BY <1>1, <1>2 DEF Link!vars
<1>3. CASE M!Start
  BY <1>2, <1>3 DEF M!Start
<1>4. CASE M!Execute
  <2>1. UNCHANGED <<host, stopped>>
    BY <1>4 DEF M!Execute
  <2>2. CASE p = host
    <3>1. vm[p] \notin {"stopped"} \cup Gone
      BY <1>0, <1>4, <2>2 DEF M!Execute, Gone
    <3>2. PICK new \in SUBSET Blocks : behind' = [behind EXCEPT ![host] = @ \cup new]
      BY <1>4 DEF M!Execute
    <3>3. behind'[p] = behind[p] \cup new
      BY <1>0, <2>2, <3>2
    <3>4. Link(p)!Write
      BY <1>1, <2>1, <3>1, <3>3 DEF Link!Write
    <3> QED
      BY <3>4 DEF Link!Next
  <2>3. CASE p # host
    <3>1. behind'[p] = behind[p]
      BY <1>0, <1>4, <2>3 DEF M!Execute
    <3> QED
      BY <1>1, <2>1, <3>1 DEF Link!vars
  <2> QED
    BY <2>2, <2>3
<1>5. CASE M!CatchUp
  <2>1. UNCHANGED <<host, stopped>>
    BY <1>5 DEF M!CatchUp
  <2>2. PICK told \in SUBSET Blocks : behind' = [behind EXCEPT ![host] = @ \ told]
    BY <1>5 DEF M!CatchUp
  <2>3. behind'[p] = behind[p] \/ behind'[p] = behind[p] \ (told \cap behind[p])
    BY <1>0, <2>2
  <2>4. told \cap behind[p] \in SUBSET behind[p] /\ {} \in SUBSET behind[p]
    OBVIOUS
  <2>5. Link(p)!CatchUp
    BY <1>1, <2>1, <2>3, <2>4 DEF Link!CatchUp
  <2> QED
    BY <2>5 DEF Link!Next
<1>6. CASE M!Stop
  <2>1. UNCHANGED <<host, behind>>
    BY <1>6 DEF M!Stop
  <2>2. PICK q \in Peers : stopped' = stopped \cup {q}
    BY <1>6 DEF M!Stop
  <2>3. CASE p = q /\ p \notin stopped
    <3>1. Link(p)!Stop
      BY <1>1, <2>1, <2>2, <2>3 DEF Link!Stop
    <3> QED
      BY <3>1 DEF Link!Next
  <2>4. CASE p # q \/ p \in stopped
    <3>1. p \in stopped' <=> p \in stopped
      BY <2>2, <2>4
    <3> QED
      BY <1>1, <2>1, <3>1 DEF Link!vars
  <2> QED
    BY <2>3, <2>4
<1>7. CASE M!Move
  <2>1. UNCHANGED <<behind, stopped>> /\ host' = host + 1
    BY <1>7 DEF M!Move
  <2>2. CASE p = host
    <3>1. /\ p \in stopped /\ behind[p] = {} /\ ~(p < host) /\ p < host'
      BY <1>0, <1>7, <2>1, <2>2 DEF M!Move
    <3>2. Link(p)!Transfer
      BY <1>1, <2>1, <3>1 DEF Link!Transfer
    <3> QED
      BY <3>2 DEF Link!Next
  <2>3. CASE p # host
    <3>1. p < host' <=> p < host
      BY <1>0, <2>1, <2>3
    <3> QED
      BY <1>1, <2>1, <3>1 DEF Link!vars
  <2> QED
    BY <2>2, <2>3
<1>8. CASE UNCHANGED M!vars
  BY <1>2, <1>8 DEF M!vars
<1> QED
  BY <1>3, <1>4, <1>5, <1>6, <1>7, <1>8 DEF M!Next

\* Whatever fails at other peers, between any two neighbours the authority passes
\* once, for a VM that is stopped for good and of which nothing is missing: each link
\* of the chain implements the handover that DirtyManager implements
\* (peer.go:405-477, migrations.go:370-448).
THEOREM EveryLinkHandsOver == Spec => LinksHandOver
<1>1. Init => \A p \in 1 .. N - 1 : Link(p)!Init
  BY ConstantsAssumption DEF Init, Link!Init, Gone
<1>2. MigrationInv /\ [Next]_vars
        => [\A p \in 1 .. N - 1 : [Link(p)!Next]_(Link(p)!vars)]_vars
  BY ContractStep, LinkStep
<1> QED
  BY <1>1, <1>2, Invariance, PTL DEF Spec, LinksHandOver

\* The order in which a main program comes to its stages.
Place(s) ==
  CASE s = "start" -> 1 [] s = "migrateFrom" -> 2 [] s = "devices" -> 3
    [] s = "authority" -> 4 [] s = "wait" -> 5 [] s = "load" -> 6
    [] s = "afterResume" -> 7 [] s = "listen" -> 8 [] s = "startMigration" -> 9
    [] s = "migrateAll" -> 10 [] s = "suspend" -> 11 [] s = "transfer" -> 12
    [] s = "completed" -> 13 [] s = "done" -> 14 [] s = "hangUp" -> 15
    [] s = "close" -> 16
    [] OTHER -> 17

\* A step to a stage is one forward if that is later in the order.
LEMMA Forward ==
  ASSUME TypeOK, NEW p \in Peers, NEW from, NEW to, Goto(p, from, to), Place(from) < Place(to)
  PROVE  /\ Place(stage[p]) < Place(stage'[p])
         /\ \A q \in Peers \ {p} : stage'[q] = stage[q]
  BY DEF TypeOK, Goto

\* Every step of a main program takes it to a later stage, and leaves the others at
\* theirs, but for a peer that it connects to.
LEMMA MainStep ==
  ASSUME TypeOK, NEW p \in Peers, Main(p)
  PROVE  /\ Place(stage[p]) < Place(stage'[p])
         /\ \A q \in Peers : stage'[q] # stage[q] => Place(stage[q]) < Place(stage'[q])
<1> DEFINE Goes == \E from, to : Goto(p, from, to) /\ Place(from) < Place(to)
<1>1. CASE Goes
  BY <1>1, Forward
<1>2. CASE Connect(p)
  <2>1. CASE stage[p - 1] = "listen" /\ stage' = [stage EXCEPT ![p] = "devices", ![p - 1] = "startMigration"]
    <3>1. p # 1 /\ p - 1 \in Peers /\ p - 1 # p /\ stage[p] = "migrateFrom"
      BY <1>2, ConstantsAssumption DEF Connect
    <3>2. stage'[p] = "devices" /\ stage'[p - 1] = "startMigration"
      BY <2>1, <3>1 DEF TypeOK
    <3>3. \A q \in Peers \ {p, p - 1} : stage'[q] = stage[q]
      BY <2>1, <3>1 DEF TypeOK
    <3>4. Place("migrateFrom") < Place("devices") /\ Place("listen") < Place("startMigration")
      BY DEF Place
    <3> QED
      BY <2>1, <3>1, <3>2, <3>3, <3>4
  <2>2. CASE Goto(p, "migrateFrom", "hangUp")
    BY <1>1, <2>2 DEF Place
  <2> QED
    BY <1>2, <2>1, <2>2 DEF Connect
<1>3. CASE Start(p)
  BY <1>1, <1>3 DEF Start, Place
<1>4. CASE MigrateFromFS(p)
  BY <1>1, <1>4 DEF MigrateFromFS, Migrated, Place
<1>5. CASE AwaitDevices(p)
  BY <1>1, <1>5 DEF AwaitDevices, Place
<1>6. CASE AwaitAuthority(p)
  BY <1>1, <1>6 DEF AwaitAuthority, Migrated, Place
<1>7. CASE Wait(p)
  BY <1>1, <1>7 DEF Wait, Place
<1>8. CASE Load(p)
  BY <1>1, <1>8 DEF Load, Place
<1>9. CASE AfterResume(p)
  BY <1>1, <1>9 DEF AfterResume, Place
<1>10. CASE Listen(p)
  BY <1>1, <1>10 DEF Listen, Place
<1>11. CASE StartMigrationTo(p)
  BY <1>1, <1>11 DEF StartMigrationTo, Send, Place
<1>12. CASE MigrateAll(p)
  BY <1>1, <1>12 DEF MigrateAll, Place
<1>13. CASE Suspend(p)
  BY <1>1, <1>13 DEF Suspend, Place
<1>14. CASE Transfer(p)
  BY <1>1, <1>14 DEF Transfer, Send, Place
<1>15. CASE Completed(p)
  BY <1>1, <1>15 DEF Completed, Send, Place
<1>16. CASE Done(p)
  BY <1>1, <1>16 DEF Done, Place
<1>17. CASE HangUp(p)
  BY <1>1, <1>17 DEF HangUp, Place
<1>18. CASE Close(p)
  BY <1>1, <1>18 DEF Close, Place
<1> QED
  BY <1>2, <1>3, <1>4, <1>5, <1>6, <1>7, <1>8, <1>9, <1>10, <1>11, <1>12, <1>13, <1>14,
     <1>15, <1>16, <1>17, <1>18 DEF Main, MigrateFrom, MigrateTo

\* No main program comes back to a stage, whatever fails and whatever other peers do:
\* each of its steps takes it further, so that it takes at most 16.  That it is not
\* kept waiting for ever is the liveness property Stops (main.go:176-394).
NeverBack ==
  [][\A p \in Peers :
       /\ Main(p) => Place(stage[p]) < Place(stage'[p])
       /\ stage'[p] # stage[p] => Place(stage[p]) < Place(stage'[p])]_vars

\* In a chain of any length a program's main function never comes back to a call: each
\* of its steps, and no other's, moves it forward (main.go:176-394).
THEOREM MainMovesForward == Spec => NeverBack
<1>1. ASSUME TypeOK, Next, NEW p \in Peers
      PROVE  /\ Main(p) => Place(stage[p]) < Place(stage'[p])
             /\ stage'[p] # stage[p] => Place(stage[p]) < Place(stage'[p])
  <2>1. PICK q \in Peers :
          \/ \E b \in Blocks : GuestWrite(q, b)
          \/ Exit(q) \/ Break(q) \/ Interrupt(q) \/ Main(q) \/ Beside(q)
    BY <1>1 DEF Next
  <2>2. CASE Main(q)
    BY <1>1, <2>2, MainStep
  <2>3. CASE ~Main(q)
    <3>1. UNCHANGED stage
      BY <2>1, <2>3 DEF GuestWrite, Exit, Break, Interrupt, Beside, CancelOnError, Deliver,
         Completion, CatchUp, mainVars
    <3> QED
      BY <1>1, <3>1, MainStep
  <2> QED
    BY <2>2, <2>3
<1>2. TypeOK /\ [Next]_vars =>
        [\A p \in Peers :
           /\ Main(p) => Place(stage[p]) < Place(stage'[p])
           /\ stage'[p] # stage[p] => Place(stage[p]) < Place(stage'[p])]_vars
  BY <1>1
<1> QED
  BY <1>2, TypeCorrect, PTL DEF Spec, NeverBack

=============================================================================
