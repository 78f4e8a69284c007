--------------------------- MODULE MCDirtyManager ---------------------------
(* A small instance of DirtyManager for TLC. *)
EXTENDS DirtyManager

\* One disk and the guest memory.
OneDisk == {"disk", "memory"}

\* One quiet cycle is not enough to be ready.
Once == [d \in Devices |-> 1]

\* The memory is msynced and counted for two cycles, or only waits for the
\* disk, whose cycles are then counted longer.
MemoryTwice == [d \in Devices |-> IF d = "memory" THEN 2 ELSE 1]
MemoryWaits == [d \in Devices |-> IF d = "memory" THEN 0 ELSE 2]

EitherLimit == {MemoryTwice, MemoryWaits}
=============================================================================
