------------------------------ MODULE MovingVM ------------------------------
(***************************************************************************)
(* What a chain of live migrations is for: there is one VM.  It executes   *)
(* at one peer at a time; it moves to the next peer only once it is        *)
(* stopped for good, and only when that peer knows of everything it wrote. *)
(***************************************************************************)
EXTENDS Naturals

CONSTANTS
  Peers,              \* the peers' numbers, in the order of the chain
  Data                \* the blocks of the VM

VARIABLES
  host,               \* the peer that may run the VM
  executing,          \* the peers where it executes
  stopped,            \* the peers where it has executed and never will again
  behind              \* blocks the next peer does not know of, for each peer

vars == <<host, executing, stopped, behind>>

Init ==
  /\ host = 1
  /\ executing = {}
  /\ stopped = {}
  /\ behind = [p \in Peers |-> Data]

Start ==
  /\ host \notin stopped
  /\ executing' = {host}
  /\ UNCHANGED <<host, stopped, behind>>

\* It executes, and what it writes the next peer does not know; or blocks are
\* passed on.
Execute ==
  /\ executing = {host}
  /\ \E new \in SUBSET Data : behind' = [behind EXCEPT ![host] = @ \cup new]
  /\ UNCHANGED <<host, executing, stopped>>

CatchUp ==
  /\ \E told \in SUBSET Data : behind' = [behind EXCEPT ![host] = @ \ told]
  /\ UNCHANGED <<host, executing, stopped>>

Stop ==
  /\ \E p \in Peers : /\ stopped' = stopped \cup {p}
                      /\ executing' = executing \ {p}
  /\ UNCHANGED <<host, behind>>

Move ==
  /\ executing = {}
  /\ host \in stopped
  /\ behind[host] = {}
  /\ host + 1 \in Peers
  /\ host' = host + 1
  /\ UNCHANGED <<executing, stopped, behind>>

Next == Start \/ Execute \/ CatchUp \/ Stop \/ Move

Spec == Init /\ [][Next]_vars

=============================================================================
