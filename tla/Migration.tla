------------------------------ MODULE Migration ------------------------------
(***************************************************************************)
(* A VM that is live migrated along a chain of peers, each of which runs   *)
(* cmd/drafter-peer/main.go: it starts a peer (pkg/peer/peer.go), takes    *)
(* the VM's devices from the local files or from the peer before it        *)
(* (MigrateFromFS and MigrateFromPipe in pkg/common/migrations.go),        *)
(* resumes the VM, waits for the next peer to connect, migrates the VM to  *)
(* it (MigrateToPipe) and closes.                                          *)
(*                                                                         *)
(* The dirty phase is Handover's, which DirtyManager is shown to implement;*)
(* the runtime's calls are as VMContract has them.  A step is a call of    *)
(* the main program, or what one of the goroutines beside it does: the     *)
(* protocol handler, the wait for the devices' completion, the relay of    *)
(* background errors.  Any call may fail, a connection may break with what *)
(* is on it, and a peer may be interrupted, at any time.                   *)
(***************************************************************************)
EXTENDS Naturals

CONSTANTS
  N,                  \* the number of peers
  Blocks,             \* blocks of the VM's devices and memory
  Patient,            \* peers started with --disable-postcopy-migration
  Faults              \* what may fail at which peer: a call, or "link", "exit", "interrupt"

Peers == 1 .. N

Calls == {"start", "fs", "connect", "devices", "complete", "load", "afterResume", "listen",
          "send", "suspend", "close", "link", "exit", "interrupt"}

ASSUME ConstantsAssumption ==
  N \in Nat \ {0} /\ Patient \subseteq Peers /\ Faults \subseteq Peers \X Calls

VARIABLES
  stage,              \* where each peer's main program is
  cancelled,          \* its context is done
  vm,                 \* "none", "running", "stopped" at each peer; "failed" or
                      \* "ended" once the machine exited with or without an error
  behind,             \* blocks of peer p's VM that p + 1 does not know of
  \* the connection between peer p and p + 1
  link,               \* "none", "open", "closed" in order, or "broken"
  sent,               \* events peer p has sent: "devices", "authority" and
                      \* "completed", in this order
  got,                \* events that peer p + 1 has taken from it
  completion,         \* the goroutine that waits for the incoming devices:
                      \* "none", "waiting", "done", "failed"
  host                \* history: the peer that may run the VM

mainVars == <<stage, cancelled>>
vmVars   == <<vm, behind>>
linkVars == <<link, sent, got>>
vars == <<mainVars, vmVars, linkVars, completion, host>>

Stages == {"start", "migrateFrom", "devices", "authority", "wait", "load", "afterResume",
           "listen", "startMigration", "migrateAll", "suspend", "transfer", "completed",
           "done", "hangUp", "close", "exited"}

Gone == {"failed", "ended"}

\* MigrateTo, from when the dirty phase may begin to when it may end.
Dirty == {"suspend", "transfer"}

Init ==
  /\ stage = [p \in Peers |-> "start"]
  /\ cancelled = [p \in Peers |-> FALSE]
  /\ vm = [p \in Peers |-> "none"]
  /\ behind = [p \in Peers |-> Blocks]
  /\ link = [p \in Peers |-> "none"]
  /\ sent = [p \in Peers |-> 0]
  /\ got = [p \in Peers |-> 0]
  /\ completion = [p \in Peers |-> "none"]
  /\ host = 1

Goto(p, from, to) == stage[p] = from /\ stage' = [stage EXCEPT ![p] = to]

\* A call that is given the context fails when that is done.
Fails(p, call) == <<p, call>> \in Faults \/ cancelled[p]

-----------------------------------------------------------------------------
\* The VM, and what can happen to it, to a connection and to a peer.

GuestWrite(p, b) ==
  /\ vm[p] = "running"
  /\ b \notin behind[p]
  /\ behind' = [behind EXCEPT ![p] = @ \cup {b}]
  /\ UNCHANGED <<mainVars, vm, linkVars, completion, host>>

\* The machine exits.
Exit(p) ==
  /\ <<p, "exit">> \in Faults
  /\ vm[p] \notin Gone
  /\ stage[p] # "start"
  /\ \E exit \in Gone : vm' = [vm EXCEPT ![p] = exit]
  /\ UNCHANGED <<mainVars, behind, linkVars, completion, host>>

\* What was sent and not yet taken is lost.
Break(p) ==
  /\ <<p, "link">> \in Faults
  /\ link[p] = "open"
  /\ link' = [link EXCEPT ![p] = "broken"]
  /\ UNCHANGED <<mainVars, vmVars, sent, got, completion, host>>

Interrupt(p) ==
  /\ <<p, "interrupt">> \in Faults
  /\ stage[p] # "exited"
  /\ ~cancelled[p]
  /\ cancelled' = [cancelled EXCEPT ![p] = TRUE]
  /\ UNCHANGED <<stage, vmVars, linkVars, completion, host>>

\* The relay of the machine's error, or of the devices', has put it into
\* backgroundErr; main's goroutine takes the first and cancels the context.  Of a
\* machine that exits without an error nothing is relayed.
CancelOnError(p) ==
  /\ vm[p] = "failed" \/ completion[p] = "failed"
  /\ stage[p] # "exited"
  /\ ~cancelled[p]
  /\ cancelled' = [cancelled EXCEPT ![p] = TRUE]
  /\ UNCHANGED <<stage, vmVars, linkVars, completion, host>>

-----------------------------------------------------------------------------
\* StartPeer, and MigrateFrom.

Start(p) ==
  /\ \/ Goto(p, "start", "migrateFrom")
     \/ <<p, "start">> \in Faults /\ Goto(p, "start", "exited")
  /\ UNCHANGED <<cancelled, vmVars, linkVars, completion, host>>

\* With --disable-postcopy-migration the main program waits for the completion.
Migrated(p, from) == Goto(p, from, IF p \in Patient THEN "wait" ELSE "load")

\* The first peer has its devices as files, and is completed at once.
MigrateFromFS(p) ==
  /\ p = 1
  /\ \/ /\ Migrated(p, "migrateFrom")
        /\ completion' = [completion EXCEPT ![p] = "done"]
     \/ /\ <<p, "fs">> \in Faults
        /\ Goto(p, "migrateFrom", "hangUp")
        /\ UNCHANGED completion
  /\ UNCHANGED <<cancelled, vmVars, linkVars, host>>

\* connectAddr and the other peer's listenAddr.
Connect(p) ==
  /\ p > 1
  /\ stage[p] = "migrateFrom"
  /\ \/ /\ stage[p - 1] = "listen"
        /\ stage' = [stage EXCEPT ![p] = "devices", ![p - 1] = "startMigration"]
        /\ link' = [link EXCEPT ![p - 1] = "open"]
     \/ /\ Fails(p, "connect")
        /\ Goto(p, "migrateFrom", "hangUp")
        /\ UNCHANGED link
  /\ UNCHANGED <<cancelled, vmVars, sent, got, completion, host>>

\* The protocol handler takes the next event of the connection.
Deliver(p) ==
  /\ link[p] \in {"open", "closed"}
  /\ got[p] < sent[p]
  /\ stage[p + 1] # "exited"
  /\ got' = [got EXCEPT ![p] = @ + 1]
  /\ UNCHANGED <<mainVars, vmVars, link, sent, completion, host>>

\* NewFromProtocol, and exposing the devices.
AwaitDevices(p) ==
  /\ \/ /\ got[p - 1] >= 1
        /\ Goto(p, "devices", "authority")
     \/ /\ Fails(p, "devices") \/ link[p - 1] = "broken"
        /\ Goto(p, "devices", "hangUp")
  /\ UNCHANGED <<cancelled, vmVars, linkVars, completion, host>>

\* Mutant: the devices are taken for the authority.
HasDevices(p) == got[p - 1] >= 1

\* The rest of MigrateFrom: wait for the authority, or the context; keep the
\* device group, and start to wait for its completion.
HasAuthority(p) == got[p - 1] >= 2

\* Mutant: the wait does not listen to the context.
AwaitForEver(p) ==
  /\ HasAuthority(p)
  /\ Migrated(p, "authority")
  /\ completion' = [completion EXCEPT ![p] = "waiting"]
  /\ UNCHANGED <<cancelled, vmVars, linkVars, host>>

AwaitAuthority(p) ==
  /\ \/ /\ HasAuthority(p)
        /\ Migrated(p, "authority")
        /\ completion' = [completion EXCEPT ![p] = "waiting"]
     \/ /\ cancelled[p]
        /\ Goto(p, "authority", "hangUp")
        /\ UNCHANGED completion
  /\ UNCHANGED <<cancelled, vmVars, linkVars, host>>

\* WaitForCompletion and WaitForReady, then OnCompletion; or a background error.
Completion(p) ==
  /\ completion[p] = "waiting"
  /\ stage[p] # "exited"
  /\ \/ /\ got[p - 1] >= 3
        /\ completion' = [completion EXCEPT ![p] = "done"]
     \/ /\ Fails(p, "complete") \/ link[p - 1] = "broken"
        /\ completion' = [completion EXCEPT ![p] = "failed"]
  /\ UNCHANGED <<mainVars, vmVars, linkVars, host>>

\* The main program waits for that, or for the context, and in either case goes on.
Wait(p) ==
  /\ cancelled[p] \/ completion[p] = "done"
  /\ Goto(p, "wait", "load")
  /\ UNCHANGED <<cancelled, vmVars, linkVars, completion, host>>

-----------------------------------------------------------------------------
\* Resume.  It may fail with the VM running.

\* Mutant: the context is not looked at.
LoadAnyway(p) ==
  /\ Goto(p, "load", "afterResume")
  /\ vm' = [vm EXCEPT ![p] = "running"]
  /\ UNCHANGED <<cancelled, behind, linkVars, completion, host>>

Load(p) ==
  /\ \/ /\ ~cancelled[p] /\ vm[p] = "none"
        /\ Goto(p, "load", "afterResume")
        /\ vm' = [vm EXCEPT ![p] = "running"]
     \/ /\ Fails(p, "load") \/ vm[p] \in Gone
        /\ Goto(p, "load", "hangUp")
        /\ UNCHANGED vm
  /\ UNCHANGED <<cancelled, behind, linkVars, completion, host>>

\* The last peer listens for nobody.
AfterResume(p) ==
  /\ \/ /\ vm[p] = "running"
        /\ Goto(p, "afterResume", IF p = N THEN "done" ELSE "listen")
     \/ /\ Fails(p, "afterResume") \/ vm[p] # "running"
        /\ Goto(p, "afterResume", "hangUp")
  /\ UNCHANGED <<cancelled, vmVars, linkVars, completion, host>>

\* listenAddr without a connection: interrupted, main is at its end, and otherwise it
\* panics.  Either way its closer is nil now (main.go:295), and what was deferred for
\* the incoming connection panics on it and closes nothing.
Listen(p) ==
  /\ Fails(p, "listen")
  /\ Goto(p, "listen", "close")
  /\ UNCHANGED <<cancelled, vmVars, linkVars, completion, host>>

-----------------------------------------------------------------------------
\* MigrateTo.  Each of its calls fails if it cannot send; main then panics.

SendFails(p) == Fails(p, "send") \/ link[p] # "open"

\* What fails to be sent may have reached the other peer all the same.
Send(p, from, to) ==
  \/ /\ link[p] = "open"
     /\ Goto(p, from, to) \/ (SendFails(p) /\ Goto(p, from, "hangUp"))
     /\ sent' = [sent EXCEPT ![p] = @ + 1]
  \/ /\ SendFails(p)
     /\ Goto(p, from, "hangUp")
     /\ UNCHANGED sent

StartMigrationTo(p) ==
  /\ Send(p, "startMigration", "migrateAll")
  /\ UNCHANGED <<cancelled, vmVars, link, got, completion, host>>

\* Every block once, while the guest writes on.
MigrateAll(p) ==
  /\ \/ /\ link[p] = "open"
        /\ Goto(p, "migrateAll", "suspend")
        /\ behind' = [behind EXCEPT ![p] = {}]
     \/ /\ SendFails(p)
        /\ Goto(p, "migrateAll", "hangUp")
        /\ UNCHANGED behind
  /\ UNCHANGED <<cancelled, vm, linkVars, completion, host>>

\* MigrateDirty: Handover's CatchUp, Stop and Transfer, which one step may fail.
CatchUp(p) ==
  /\ stage[p] \in Dirty
  /\ link[p] = "open"
  /\ \E b \in behind[p] : behind' = [behind EXCEPT ![p] = @ \ {b}]
  /\ UNCHANGED <<mainVars, vm, linkVars, completion, host>>

\* Mutant: the error of the suspension is not looked at.
SuspendOrNot(p) ==
  /\ Goto(p, "suspend", "transfer")
  /\ vm' \in {vm, [vm EXCEPT ![p] = IF @ = "running" THEN "stopped" ELSE @]}
  /\ UNCHANGED <<cancelled, behind, linkVars, completion, host>>

Suspend(p) ==
  /\ \/ /\ vm[p] = "running"
        /\ Goto(p, "suspend", "transfer")
        /\ vm' = [vm EXCEPT ![p] = "stopped"]
     \/ /\ Fails(p, "suspend") \/ SendFails(p) \/ vm[p] \in Gone
        /\ Goto(p, "suspend", "hangUp")
        /\ vm' \in {vm, [vm EXCEPT ![p] = IF @ = "running" THEN "stopped" ELSE @]}
  /\ UNCHANGED <<cancelled, behind, linkVars, completion, host>>

\* Mutant: the authority is passed on without the last lists.
TransferEarly(p) ==
  /\ link[p] = "open"
  /\ Goto(p, "transfer", "completed")
  /\ sent' = [sent EXCEPT ![p] = @ + 1]
  /\ host' = p + 1
  /\ UNCHANGED <<cancelled, vmVars, link, got, completion>>

Transfer(p) ==
  /\ Send(p, "transfer", "completed")
  /\ \/ behind[p] = {} /\ sent'[p] # sent[p] /\ host' = p + 1
     \/ UNCHANGED <<sent, host>>
  /\ UNCHANGED <<cancelled, vmVars, link, got, completion>>

\* Mutant: main does not cancel its context.
CompletedOnly(p) ==
  /\ Send(p, "completed", "done")
  /\ UNCHANGED <<cancelled, vmVars, link, got, completion, host>>

\* dg.Completed; main then cancels the context itself.
Completed(p) ==
  /\ Send(p, "completed", "done")
  /\ cancelled' = [cancelled EXCEPT ![p] = @ \/ stage'[p] = "done"]
  /\ UNCHANGED <<vmVars, link, got, completion, host>>

-----------------------------------------------------------------------------
\* The end of main, at its end or by a panic: the deferred calls close a connection
\* and then the peer.

Done(p) ==
  /\ cancelled[p]
  /\ Goto(p, "done", "hangUp")
  /\ UNCHANGED <<cancelled, vmVars, linkVars, completion, host>>

\* Both deferred calls close main's one closer, which the second connection takes over
\* (main.go:230, 295): the incoming one is then left to the end of the program.
Closer(p) == IF link[p] # "none" THEN p ELSE p - 1

Closed(ends) == [q \in Peers |-> IF q \in ends /\ link[q] = "open" THEN "closed" ELSE link[q]]

HangUp(p) ==
  /\ Goto(p, "hangUp", "close")
  /\ link' = Closed({Closer(p)})
  /\ UNCHANGED <<cancelled, vmVars, sent, got, completion, host>>

\* Closing the runtime kills the machine, unless it fails: then the program ends
\* and leaves the machine as it is.  The end of the program closes what is open.
Close(p) ==
  /\ Goto(p, "close", "exited")
  /\ link' = Closed({p - 1, p})
  /\ \/ vm' = [vm EXCEPT ![p] = "ended"]
     \/ /\ <<p, "close">> \in Faults
        /\ vm' \in {vm, [vm EXCEPT ![p] = IF @ = "running" THEN "stopped" ELSE @]}
  /\ UNCHANGED <<cancelled, behind, sent, got, completion, host>>

-----------------------------------------------------------------------------
MigrateFrom(p) ==
  MigrateFromFS(p) \/ Connect(p) \/ (p > 1 /\ (AwaitDevices(p) \/ AwaitAuthority(p)))

MigrateTo(p) ==
  p < N /\ (StartMigrationTo(p) \/ MigrateAll(p) \/ Suspend(p) \/ Transfer(p) \/ Completed(p))

Main(p) ==
  Start(p) \/ MigrateFrom(p) \/ Wait(p) \/ Load(p) \/ AfterResume(p) \/ Listen(p)
  \/ MigrateTo(p) \/ Done(p) \/ HangUp(p) \/ Close(p)

Beside(p) ==
  CancelOnError(p) \/ (p < N /\ Deliver(p)) \/ (p > 1 /\ Completion(p)) \/ (p < N /\ CatchUp(p))

Next ==
  \E p \in Peers :
    \/ \E b \in Blocks : GuestWrite(p, b)
    \/ Exit(p) \/ Break(p) \/ Interrupt(p)
    \/ Main(p) \/ Beside(p)

Spec == Init /\ [][Next]_vars

\* The main program runs until it waits, the goroutines beside it run, and the
\* dirty phase catches up with a VM that no longer writes.
Fairness == \A p \in Peers : WF_vars(Main(p)) /\ WF_vars(Beside(p))

FairSpec == Spec /\ Fairness

-----------------------------------------------------------------------------
TypeOK ==
  /\ stage \in [Peers -> Stages]
  /\ cancelled \in [Peers -> BOOLEAN]
  /\ vm \in [Peers -> {"none", "running", "stopped"} \cup Gone]
  /\ behind \in [Peers -> SUBSET Blocks]
  /\ link \in [Peers -> {"none", "open", "closed", "broken"}]
  /\ sent \in [Peers -> 0 .. 3]
  /\ got \in [Peers -> 0 .. 3]
  /\ completion \in [Peers -> {"none", "waiting", "done", "failed"}]
  /\ host \in Peers

\* The VM executes at one peer at a time, whatever fails, breaks, or is
\* interrupted, and although a peer that could not close leaves its machine behind
\* (peer.go:193-477, migrations.go:440-447, 524-542).
OneVM == \A p, q \in Peers : vm[p] = "running" /\ vm[q] = "running" => p = q

\* A VM that was resumed knows of everything it wrote at the peer it came from
\* (migrations.go:524-542, peer.go:245-255).
NothingMissing == \A p \in 1 .. N - 1 : vm[p + 1] \in {"running", "stopped"} => behind[p] = {}

\* With --disable-postcopy-migration the VM is not resumed "before all data is
\* locally available" (README.md:1163, main.go:273-283).
ResumesWithData == \A p \in Patient : vm[p] = "running" => completion[p] = "done"

\* A peer that is interrupted, or hears of a background error, ends: whatever its
\* main program waits for, and whatever the other peers do (main.go:104-114,
\* 186-197, 390).
Stops == \A p \in Peers : cancelled[p] ~> stage[p] = "exited"

\* The VM reaches the last peer, to stay there, and the other peers end; or some
\* peer ends early; or the VM ended, or a connection broke: the chain never stands
\* still of itself (main.go:176-394).
Arrives ==
  \/ <>[](vm[N] = "running" /\ stage[N] = "done" /\ \A p \in 1 .. N - 1 : stage[p] = "exited")
  \/ <>(\E p \in Peers : \/ link[p] = "broken"
                         \/ stage[p] = "exited" /\ sent[p] < 3
                         \/ stage[p] # "exited" /\ vm[p] = "ended")

\* "... will result in other errors being returned so can be ignored here"
\* (migrations.go:392-393): when the connection breaks before the authority came,
\* MigrateFrom returns.
ProtocolErrorReturns ==
  \A p \in 2 .. N :
    stage[p] = "authority" /\ link[p - 1] = "broken" ~> stage[p] # "authority"

-----------------------------------------------------------------------------
\* The inductive invariant behind the safety properties.

BeforeVM == {"start", "migrateFrom", "devices", "authority", "wait", "load"}
WithVM   == {"afterResume", "listen", "startMigration", "migrateAll", "suspend"}
AfterVM  == {"transfer", "completed"}

\* What a peer has sent, and what is left of its VM, at each stage.
StageInv ==
  \A p \in Peers :
    /\ stage[p] \in BeforeVM => vm[p] \in {"none"} \cup Gone
    /\ stage[p] \in WithVM => vm[p] \in {"running"} \cup Gone
    /\ stage[p] \in AfterVM => vm[p] \in {"stopped"} \cup Gone
    /\ stage[p] \in BeforeVM \cup {"afterResume", "listen", "startMigration"} => sent[p] = 0
    /\ stage[p] \in {"migrateAll", "suspend", "transfer"} => sent[p] = 1
    /\ stage[p] = "completed" => sent[p] = 2
    /\ sent[p] >= 2 => vm[p] \in {"stopped"} \cup Gone
    /\ sent[p] # 0 => p < N

\* The authority has passed from the peers before host, who are behind on nothing;
\* the peers that may have a VM are those it has reached.
HostInv ==
  /\ \A p \in Peers : p < host <=> sent[p] >= 2
  /\ \A p \in Peers : p < host => behind[p] = {}
  /\ \A p \in Peers : got[p] <= sent[p]
  /\ \A p \in Peers \ {1} :
       \/ stage[p] \in {"wait", "load", "done"} \cup WithVM \cup AfterVM
       \/ vm[p] \in {"running", "stopped"}
       => got[p - 1] >= 2

\* A patient peer goes on to Resume with its data, or with its context done.
PatientInv ==
  \A p \in Patient :
    /\ stage[p] = "load" => cancelled[p] \/ completion[p] = "done"
    /\ vm[p] = "running" => completion[p] = "done"

\* Until the authority is sent, or given up.
Sending == {"startMigration", "migrateAll", "suspend", "transfer", "hangUp"}

\* There is a connection from when the next peer was accepted; it is open as long as
\* MigrateTo goes on, or has done all it had to.
ConnectionFits(p) ==
  /\ stage[p] \in BeforeVM \cup {"afterResume", "listen"} => link[p] = "none"
  /\ link[p] = "none" => stage[p + 1] \in {"start", "migrateFrom", "hangUp", "close", "exited"}
  /\ (link[p] = "open" /\ stage[p] \notin Sending \cup {"completed"}) =>
       (stage[p] = "done" /\ sent[p] = 3)

ConnectionInv == \A p \in 1 .. N - 1 : ConnectionFits(p)

MigrationInv == TypeOK /\ StageInv /\ HostInv /\ PatientInv /\ ConnectionInv

-----------------------------------------------------------------------------
\* Two neighbours never wait for each other: one that waits for its devices, for the
\* authority or for the completion has it under way, or the other peer is at work on
\* it or is about to hang up; and one that listens is waited for by nobody.  So it is
\* only over a connection that closed or broke that a wait lasts for ever
\* (migrations.go:391-446, main.go:246-390).
WaitsForTheBusy ==
  \A p \in 1 .. N - 1 :
    /\ stage[p] = "listen" =>
         stage[p + 1] \in {"start", "migrateFrom", "hangUp", "close", "exited"}
    /\ stage[p + 1] \in {"devices", "authority"} =>
         \/ link[p] \in {"closed", "broken"}
         \/ link[p] = "open" /\ (sent[p] >= 2 \/ stage[p] \in Sending)
    /\ (completion[p + 1] = "waiting" /\ link[p] = "open") =>
         (sent[p] = 3 \/ stage[p] \in Sending \cup {"completed"})

-----------------------------------------------------------------------------
\* One VM, moving along the chain.
M == INSTANCE MovingVM WITH
       Data <- Blocks,
       executing <- {p \in Peers : vm[p] = "running"},
       stopped <- {p \in Peers : vm[p] \in {"stopped"} \cup Gone}

ImplementsMovingVM == M!Spec

\* Each two neighbours of the chain, as a handover of their own.
Link(p) == INSTANCE Handover WITH
             Data <- Blocks,
             running <- vm[p] \notin {"stopped"} \cup Gone,
             behind <- behind[p],
             authority <- IF p < host THEN "destination" ELSE "source"

\* Between any two neighbours the authority passes once, for a VM that is stopped
\* and never starts again there, when nothing that it wrote is missing, whatever
\* happens at the other peers (peer.go:405-477, migrations.go:370-448).
LinksHandOver ==
  /\ \A p \in 1 .. N - 1 : Link(p)!Init
  /\ [][\A p \in 1 .. N - 1 : [Link(p)!Next]_(Link(p)!vars)]_vars

=============================================================================
