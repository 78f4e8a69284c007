------------------------- MODULE FirecrackerMachine -------------------------
(***************************************************************************)
(* The life of a Firecracker process: StartFirecrackerMachine, Close and   *)
(* Wait of pkg/runtimes/firecracker/machine.go, with the goroutine of      *)
(* FirecrackerRuntimeProvider.Start that relays the exit to the peer.      *)
(*                                                                         *)
(* A section under closeLock never blocks, so it is one step.  A process   *)
(* that has exited is a zombie until cmd.Wait reaps it.  A panic ends the  *)
(* program.                                                                *)
(***************************************************************************)
EXTENDS Naturals

CONSTANTS
  Owners,             \* callers of Close
  Exits               \* how the process can exit by itself: "ok", "failed", "killed"

ASSUME ExitsAssumption == Exits \subseteq {"ok", "failed", "killed"}

CtxWatcher == "ctx"                     \* the goroutine that closes when ctx is done
Closers == Owners \cup {CtxWatcher}

VARIABLES
  process,            \* "running", "zombie", "reaped"
  exit,               \* "none", or how it exited; cmdErr once it is reaped
  ctxDone,            \* ctx is cancelled
  closed,             \* fs.closed
  closeKilled,        \* history: the process was killed by a Close; no guard reads it
  waiter,             \* the goroutine at machine.go:177: "wait", "report", "done"
  cmdErrCh,           \* "empty", or the error in it ("nil" for none)
  starter,            \* StartFirecrackerMachine: "starting", "server", "error", "nilnil"
  closer,             \* each Close: "idle", "close", "wait", "returned"
  closeErr,           \* its result: "nil" or an error
  relay,              \* the relaying goroutine: "none", "wait", "check", "done"
  relayed,            \* what it put on errChan: "nothing" or an error
  panicked            \* a goroutine called Error() on a nil error

vars == <<process, exit, ctxDone, closed, closeKilled, waiter, cmdErrCh, starter,
          closer, closeErr, relay, relayed, panicked>>

\* The process has been started (machine.go:170) and the goroutines too.
Init ==
  /\ process = "running"
  /\ exit = "none"
  /\ ctxDone = FALSE
  /\ closed = FALSE
  /\ closeKilled = FALSE
  /\ waiter = "wait"
  /\ cmdErrCh = "empty"
  /\ starter = "starting"
  /\ closer = [c \in Closers |-> "idle"]
  /\ closeErr = [c \in Closers |-> "nil"]
  /\ relay = "none"
  /\ relayed = "nothing"
  /\ panicked = FALSE

KilledByUs == closed /\ exit = "killed"

-----------------------------------------------------------------------------
\* The process.

ExitItself ==
  /\ ~panicked
  /\ process = "running"
  /\ process' = "zombie"
  /\ exit' \in Exits
  /\ UNCHANGED <<ctxDone, closed, closeKilled, waiter, cmdErrCh, starter, closer, closeErr,
                 relay, relayed, panicked>>

CancelCtx ==
  /\ ~panicked
  /\ ~ctxDone
  /\ ctxDone' = TRUE
  /\ UNCHANGED <<process, exit, closed, closeKilled, waiter, cmdErrCh, starter, closer,
                 closeErr, relay, relayed, panicked>>

\* exec.CommandContext kills the process too when ctx is done.
CommandContextKill ==
  /\ ~panicked
  /\ ctxDone
  /\ process = "running"
  /\ process' = "zombie"
  /\ exit' = "killed"
  /\ UNCHANGED <<ctxDone, closed, closeKilled, waiter, cmdErrCh, starter, closer, closeErr,
                 relay, relayed, panicked>>

-----------------------------------------------------------------------------
\* The goroutine that waits for the command.

\* cmd.Wait makes the end of ctx the error of a command that succeeded.
Reap ==
  /\ ~panicked
  /\ waiter = "wait"
  /\ process = "zombie"
  /\ process' = "reaped"
  /\ exit' \in {exit} \cup (IF exit = "ok" /\ ctxDone THEN {"failed"} ELSE {})
  /\ waiter' = "report"
  /\ UNCHANGED <<ctxDone, closed, closeKilled, cmdErrCh, starter, closer, closeErr,
                 relay, relayed, panicked>>

ExitError == IF exit = "ok" \/ KilledByUs THEN "nil" ELSE exit

ReportExit ==
  /\ ~panicked
  /\ waiter = "report"
  /\ waiter' = "done"
  /\ IF closed /\ exit = "ok"
     THEN panicked' = TRUE /\ UNCHANGED cmdErrCh
     ELSE cmdErrCh' = ExitError /\ UNCHANGED panicked
  /\ UNCHANGED <<process, exit, ctxDone, closed, closeKilled, starter, closer, closeErr,
                 relay, relayed>>

-----------------------------------------------------------------------------
\* StartFirecrackerMachine after it started the goroutines, and its caller.

\* The socket answers; Start starts the relay.
SocketReady ==
  /\ ~panicked
  /\ starter = "starting"
  /\ process = "running"
  /\ starter' = "server"
  /\ relay' = "wait"
  /\ UNCHANGED <<process, exit, ctxDone, closed, closeKilled, waiter, cmdErrCh, closer,
                 closeErr, relayed, panicked>>

\* Ten seconds pass, or ctx is done.
StartTimeout ==
  /\ ~panicked
  /\ starter = "starting"
  /\ starter' = "error"
  /\ UNCHANGED <<process, exit, ctxDone, closed, closeKilled, waiter, cmdErrCh, closer,
                 closeErr, relay, relayed, panicked>>

\* The error of a command that exited is returned as it is, nil included.
StartExited ==
  /\ ~panicked
  /\ starter = "starting"
  /\ cmdErrCh # "empty"
  /\ starter' = IF cmdErrCh = "nil" THEN "nilnil" ELSE "error"
  /\ cmdErrCh' = "empty"
  /\ UNCHANGED <<process, exit, ctxDone, closed, closeKilled, waiter, closer, closeErr,
                 relay, relayed, panicked>>

-----------------------------------------------------------------------------
\* Close, by the owners of a started server and by the goroutine at 194.

CloseCall(c) ==
  /\ ~panicked
  /\ closer[c] = "idle"
  /\ IF c = CtxWatcher THEN ctxDone ELSE starter = "server"
  /\ closer' = [closer EXCEPT ![c] = "close"]
  /\ UNCHANGED <<process, exit, ctxDone, closed, closeKilled, waiter, cmdErrCh, starter,
                 closeErr, relay, relayed, panicked>>

CloseReturn(c, err) ==
  /\ closer' = [closer EXCEPT ![c] = "returned"]
  /\ closeErr' = [closeErr EXCEPT ![c] = err]

\* Mutant: a second Close does not wait for the first.
CloseKillOnce(c) ==
  /\ ~panicked
  /\ closer[c] = "close"
  /\ closed' = TRUE
  /\ IF closed \/ process = "reaped"
     THEN /\ CloseReturn(c, "nil")
          /\ UNCHANGED <<process, exit, closeKilled>>
     ELSE /\ process' = "zombie"
          /\ exit' = IF process = "running" THEN "killed" ELSE exit
          /\ closeKilled' = (closeKilled \/ process = "running")
          /\ closer' = [closer EXCEPT ![c] = "wait"]
          /\ UNCHANGED closeErr
  /\ UNCHANGED <<ctxDone, waiter, cmdErrCh, starter, relay, relayed, panicked>>

\* Mutant: the sense of the flag inverted, only a second Close kills.
CloseKillSecond(c) ==
  /\ ~panicked
  /\ closer[c] = "close"
  /\ closed' = TRUE
  /\ closer' = [closer EXCEPT ![c] = "wait"]
  /\ IF closed /\ process = "running"
     THEN process' = "zombie" /\ exit' = "killed" /\ closeKilled' = TRUE
     ELSE UNCHANGED <<process, exit, closeKilled>>
  /\ UNCHANGED <<ctxDone, waiter, cmdErrCh, starter, closeErr, relay, relayed, panicked>>

\* The first caller kills the process; a reaped process cannot be signalled.
CloseKill(c) ==
  /\ ~panicked
  /\ closer[c] = "close"
  /\ closed' = TRUE
  /\ IF ~closed /\ process = "reaped"
     THEN CloseReturn(c, "done")
     ELSE closer' = [closer EXCEPT ![c] = "wait"] /\ UNCHANGED closeErr
  /\ IF ~closed /\ process = "running"
     THEN process' = "zombie" /\ exit' = "killed" /\ closeKilled' = TRUE
     ELSE UNCHANGED <<process, exit, closeKilled>>
  /\ UNCHANGED <<ctxDone, waiter, cmdErrCh, starter, relay, relayed, panicked>>

\* Once the command has been waited for, its error is compared by its text.
CloseWait(c) ==
  /\ ~panicked
  /\ closer[c] = "wait"
  /\ process = "reaped"
  /\ CloseReturn(c, IF exit \in {"ok", "killed"} THEN "nil" ELSE exit)
  /\ panicked' = (panicked \/ exit = "ok")
  /\ UNCHANGED <<process, exit, ctxDone, closed, closeKilled, waiter, cmdErrCh, starter,
                 relay, relayed>>

-----------------------------------------------------------------------------
\* Machine.Wait, called by the relaying goroutine, and its send to errChan.

WaitReaped ==
  /\ ~panicked
  /\ relay = "wait"
  /\ process = "reaped"
  /\ relay' = IF exit = "ok" THEN "done" ELSE "check"
  /\ UNCHANGED <<process, exit, ctxDone, closed, closeKilled, waiter, cmdErrCh, starter,
                 closer, closeErr, relayed, panicked>>

\* Mutant: closed alone decides what is relayed, before the error is looked at.
RelayUnlessClosed ==
  /\ ~panicked
  /\ relay = "check"
  /\ relay' = "done"
  /\ relayed' = IF closed THEN "nothing" ELSE exit
  /\ UNCHANGED <<process, exit, ctxDone, closed, closeKilled, waiter, cmdErrCh, starter,
                 closer, closeErr, panicked>>

\* Mutant: Wait does not test closed, a kill is a kill.
RelayEveryKill ==
  /\ ~panicked
  /\ relay = "check"
  /\ relay' = "done"
  /\ relayed' = exit
  /\ UNCHANGED <<process, exit, ctxDone, closed, closeKilled, waiter, cmdErrCh, starter,
                 closer, closeErr, panicked>>

Relay ==
  /\ ~panicked
  /\ relay = "check"
  /\ relay' = "done"
  /\ relayed' = IF KilledByUs THEN "nothing" ELSE exit
  /\ UNCHANGED <<process, exit, ctxDone, closed, closeKilled, waiter, cmdErrCh, starter,
                 closer, closeErr, panicked>>

-----------------------------------------------------------------------------
Next ==
  \/ ExitItself \/ CancelCtx \/ CommandContextKill
  \/ Reap \/ ReportExit
  \/ SocketReady \/ StartTimeout \/ StartExited
  \/ \E c \in Closers : CloseCall(c) \/ CloseKill(c) \/ CloseWait(c)
  \/ WaitReaped \/ Relay

Spec == Init /\ [][Next]_vars

\* The goroutines run.  Nothing makes the process exit by itself, ctx be done or
\* an owner call Close.
Fairness ==
  /\ WF_vars(Reap) /\ WF_vars(ReportExit)
  /\ WF_vars(StartTimeout \/ StartExited)
  /\ \A c \in Closers : WF_vars(CloseKill(c)) /\ WF_vars(CloseWait(c))
  /\ WF_vars(CloseCall(CtxWatcher))
  /\ WF_vars(WaitReaped) /\ WF_vars(Relay)

FairSpec == Spec /\ Fairness

-----------------------------------------------------------------------------
ExitValues == {"ok", "failed", "killed"}

TypeOK ==
  /\ process \in {"running", "zombie", "reaped"}
  /\ exit \in {"none"} \cup ExitValues
  /\ ctxDone \in BOOLEAN /\ closed \in BOOLEAN
  /\ closeKilled \in BOOLEAN /\ panicked \in BOOLEAN
  /\ waiter \in {"wait", "report", "done"}
  /\ cmdErrCh \in {"empty", "nil", "failed", "killed"}
  /\ starter \in {"starting", "server", "error", "nilnil"}
  /\ closer \in [Closers -> {"idle", "close", "wait", "returned"}]
  /\ closeErr \in [Closers -> {"nil", "done", "failed"}]
  /\ relay \in {"none", "wait", "check", "done"}
  /\ relayed \in {"nothing", "failed", "killed"}

\* Whoever calls Close, and however many do at once, the process has exited and
\* been waited for when it returns (machine.go:255-288): a caller may then remove
\* the VM's directory.
ClosedIsGone ==
  \A c \in Closers : closer[c] = "returned" => process = "reaped"

\* "Don't treat killed errors as errors if we killed the process" (machine.go:182,
\* 302): a kill by Close is reported by nobody, not by the Close itself, nor by
\* start-up, nor by the relay.
OwnKillIsNoError ==
  closeKilled => /\ cmdErrCh \notin {"failed", "killed"}
                 /\ relayed = "nothing"
                 /\ \A c \in Closers : closer[c] = "returned" => closeErr[c] = "nil"

\* What Close and the relay report is how the process exited, whatever the others do
\* meanwhile (machine.go:250-308): no failure is taken for a kill, nor a kill for a
\* failure, and a kill before any Close is relayed, the cancelled context's too.
ReportsAgree ==
  /\ OwnKillIsNoError
  /\ \A c \in Closers : closer[c] = "returned" /\ closeErr[c] = "failed" => exit = "failed"
  /\ \A c \in Closers : closer[c] = "returned" /\ exit = "failed" => closeErr[c] # "nil"
  /\ relayed # "nothing" => relay = "done" /\ relayed = exit
  /\ relay = "done" /\ exit = "failed" => relayed = "failed"
  /\ relay = "done" /\ exit = "killed" /\ ~closed => relayed = "killed"

\* Whoever waits in Close, whichever Close it is, waits for a process that was killed
\* before or ended by itself: nobody relies on a kill that is still to come
\* (machine.go:255-280).
NoWaitBeforeKill == closed \/ (\E c \in Closers : closer[c] = "wait") => process # "running"

\* Why a Close was called and the process is taken for killed, and what a nil error
\* of the command stands for: an exit with status 0, or a kill by a Close, which
\* before there is a machine only the end of ctx brings about (machine.go:175-199,
\* 220-243).
NilErrorInv ==
  /\ \A c \in Closers : closer[c] # "idle" => IF c = CtxWatcher THEN ctxDone ELSE starter = "server"
  /\ closed => ctxDone \/ starter = "server"
  /\ cmdErrCh # "empty" \/ starter = "nilnil" => waiter = "done"
  /\ cmdErrCh = "nil" \/ starter = "nilnil" => exit = "ok" \/ KilledByUs
  /\ exit = "ok" => "ok" \in Exits

\* What the steps keep true of the exit, the wait for it and its reports, from
\* which ClosedIsGone and ReportsAgree follow (machine.go:175-187, 250-308).
MachineInv ==
  /\ TypeOK
  /\ process = "running" <=> exit = "none"
  /\ process = "reaped" <=> waiter # "wait"
  /\ relay \in {"check", "done"} => process = "reaped"
  /\ relay = "none" <=> starter # "server"
  /\ relay = "check" => exit # "ok"
  /\ closeKilled => closed /\ exit = "killed"
  /\ ClosedIsGone
  /\ ReportsAgree
  /\ NoWaitBeforeKill
  /\ NilErrorInv

\* A process that failed is reported: by StartFirecrackerMachine, or to errChan,
\* whatever Close does meanwhile (machine.go:175-187, runtime.go:304-313).
FailureReported ==
  (exit = "failed") ~> (starter = "error" \/ relayed = "failed" \/ panicked)

\* "The cmd exited already. Return it as an error here." (machine.go:224): the
\* caller of StartFirecrackerMachine gets a machine or an error (machine.go:220-243).
StartGivesMachineOrError == starter # "nilnil"

\* Every Close returns.
CloseReturns ==
  \A c \in Closers : closer[c] = "close" ~> (closer[c] = "returned" \/ panicked)

=============================================================================
