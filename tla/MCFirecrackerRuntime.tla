------------------------ MODULE MCFirecrackerRuntime ------------------------
(* Small instances of FirecrackerRuntime for TLC. *)
EXTENDS FirecrackerRuntime

\* Mapped memory; private memory whose changes are copied, by soft-dirty bits or
\* by comparison, or marked; always with the periodic grabber.
Config(updates, failsafe) == [updates |-> updates, failsafe |-> failsafe, periodic |-> TRUE]

EveryConfig == {Config("nothing", FALSE), Config("copy", FALSE), Config("copy", TRUE),
                Config("mark", FALSE)}

SoftDirtyCopy == {Config("copy", FALSE)}
=============================================================================
