----------------------------- MODULE VMContract -----------------------------
(***************************************************************************)
(* What a migration expects of a runtime (pkg/runtimes/runtime_provider.go)*)
(* when VMStateMgr suspends the VM and flushes its data: once Suspend has  *)
(* returned without an error the VM never executes again, and once a       *)
(* FlushData called after that has returned without an error, everything   *)
(* the VM wrote can be read from the memory device, or has been marked in  *)
(* its dirty tracker, but for the blocks the runtime is forgiven.          *)
(***************************************************************************)
EXTENDS FiniteSets

CONSTANT Data         \* the blocks of guest memory

VARIABLES
  executing,          \* the guest executes
  missing,            \* blocks written and not yet on the device
  promise,            \* "none", "suspended", "flushed": what has been returned
  forgiven            \* blocks the runtime no longer answers for

vars == <<executing, missing, promise, forgiven>>

Init ==
  /\ executing = FALSE
  /\ missing = {}
  /\ promise = "none"
  /\ forgiven = {}

\* Until it is suspended the guest starts and stops as the runtime likes.
Schedule ==
  /\ promise = "none"
  /\ executing' \in BOOLEAN
  /\ UNCHANGED <<missing, promise, forgiven>>

Write ==
  /\ executing
  /\ \E new \in SUBSET Data : missing' = missing \cup new
  /\ UNCHANGED <<executing, promise, forgiven>>

Save ==
  /\ \E saved \in SUBSET missing : missing' = missing \ saved
  /\ UNCHANGED <<executing, promise, forgiven>>

SuspendReturns ==
  /\ promise = "none"
  /\ ~executing
  /\ promise' = "suspended"
  /\ UNCHANGED <<executing, missing, forgiven>>

\* The flush may save the last blocks itself.
FlushReturns ==
  /\ promise = "suspended"
  /\ missing' \in SUBSET missing
  /\ missing' \subseteq forgiven
  /\ promise' = "flushed"
  /\ UNCHANGED <<executing, forgiven>>

\* Blocks are given up, perhaps as the guest is let go on.
Forgive ==
  /\ \E more \in SUBSET Data : forgiven' = forgiven \cup more
  /\ executing' \in IF promise = "none" THEN BOOLEAN ELSE {executing}
  /\ UNCHANGED <<missing, promise>>

Next == Schedule \/ Write \/ Save \/ SuspendReturns \/ FlushReturns \/ Forgive

Spec == Init /\ [][Next]_vars

=============================================================================
