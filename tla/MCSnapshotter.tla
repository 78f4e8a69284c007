--------------------------- MODULE MCSnapshotter ---------------------------
(* A small instance of Snapshotter for TLC. *)
EXTENDS Snapshotter

\* A disk one byte short of a multiple of 1 MiB, a memory of exactly 1 MiB and a
\* configuration of a few bytes.
ThreeDevices == <<"disk", "memory", "config">>
Disk  == {"disk"}
Sizes == [d \in Names |-> CASE d = "disk" -> MiB - 1 [] d = "memory" -> MiB [] OTHER -> 25]
=============================================================================
