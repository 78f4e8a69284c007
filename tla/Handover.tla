------------------------------ MODULE Handover ------------------------------
(***************************************************************************)
(* What a live migration promises its destination, whatever the devices,   *)
(* cycles and locks that carry it out.  The source VM writes blocks; the   *)
(* destination is told about them; the VM is stopped; and authority over   *)
(* the VM passes to the destination once, when the VM has stopped and the  *)
(* destination knows of every block that was written.  DirtyManager        *)
(* implements it from when all blocks were sent once; each link of         *)
(* Migration does so from the start, when none was.                        *)
(***************************************************************************)
EXTENDS FiniteSets

CONSTANT Data         \* what the VM writes: (device, block) pairs

VARIABLES
  running,            \* the source VM executes
  behind,             \* written at the source, not yet known to the destination
  authority           \* who may run the VM: "source" or "destination"

vars == <<running, behind, authority>>

TypeOK ==
  /\ running \in BOOLEAN
  /\ behind \subseteq Data
  /\ authority \in {"source", "destination"}

\* The destination has all, some or none of the blocks.
Init ==
  /\ running = TRUE
  /\ behind \in SUBSET Data
  /\ authority = "source"

\* A running VM dirties blocks.
Write ==
  /\ running
  /\ \E new \in SUBSET Data : behind' = behind \cup new
  /\ UNCHANGED <<running, authority>>

\* The destination learns of some of the blocks it is behind on.
CatchUp ==
  /\ \E told \in SUBSET behind : behind' = behind \ told
  /\ UNCHANGED <<running, authority>>

\* The VM is suspended, and is not started again at the source.
Stop ==
  /\ running
  /\ running' = FALSE
  /\ UNCHANGED <<behind, authority>>

\* Authority passes: only for a stopped VM, only when nothing is missing.
Transfer ==
  /\ ~running
  /\ behind = {}
  /\ authority = "source"
  /\ authority' = "destination"
  /\ UNCHANGED <<running, behind>>

Next == Write \/ CatchUp \/ Stop \/ Transfer

Spec == Init /\ [][Next]_vars

=============================================================================
