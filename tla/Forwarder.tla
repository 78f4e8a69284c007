------------------------------ MODULE Forwarder ------------------------------
(***************************************************************************)
(* The port forwarder: ForwardPorts and concurrentMap of                   *)
(* pkg/network/forwarder/forward_ports.go, as drafter-forwarder uses them. *)
(*                                                                         *)
(* ForwardPorts sets up every requested forward in a goroutine of its own. *)
(* Each appends iptables rules one by one and notes how to undo each.  Its *)
(* notes are published, the WaitGroup is told, and only then is its error  *)
(* joined with the others'.  When all are done ForwardPorts either returns *)
(* the forwards, or undoes them and fails.  Close runs the notes, last one *)
(* first: those of a forward are its first rules, as many as were appended,*)
(* and then the hook, if it came so far, so that it is enough to count     *)
(* them.                                                                   *)
(*                                                                         *)
(* Of the iptables rules of the host there may be several copies: the same *)
(* rule can be appended again, and a deletion takes away one copy.         *)
(***************************************************************************)
EXTENDS Naturals, FiniteSets, Sequences, SequencesExt

CONSTANTS
  Ports,       \* the forwards asked for
  Loopback,    \* those whose external address is a loopback address
  Address,     \* protocol, external host and port of each forward
  Veth,        \* address of the host's veth in each forward's namespace
  Target,      \* protocol, that address and the internal port
  Others,      \* the copies of each rule that other programs have appended
  Faults       \* the calls that may fail

Calls == {"iptables", "lookup", "append", "delete"}

ASSUME ConstantsAssumption ==
  /\ IsFiniteSet(Ports)
  /\ Loopback \subseteq Ports
  /\ Faults \subseteq Calls

\* The rules of a forward, in the order they are appended.
RulesOf(p) ==
  IF p \in Loopback
  THEN <<<<"OUTPUT", Address[p], Target[p]>>, <<"PREROUTING", Address[p], Target[p]>>,
         <<"POSTROUTING", Target[p]>>>>
  ELSE <<<<"FORWARD -d", Veth[p]>>, <<"FORWARD -s", Veth[p]>>,
         <<"OUTPUT", Address[p], Target[p]>>, <<"PREROUTING", Address[p], Target[p]>>,
         <<"POSTROUTING", Target[p]>>>>

\* The rules that let the forward's packets through come before the NAT's.
ForwardRules(p) == IF p \in Loopback THEN 0 ELSE 2

Rules == DOMAIN Others

ASSUME RulesAssumption ==
  /\ Others \in [Rules -> Nat]
  /\ \A p \in Ports : \A k \in DOMAIN RulesOf(p) : RulesOf(p)[k] \in Rules

VARIABLES
  pc,          \* where each forward's goroutine is
  notes,       \* how many of its notes there are: one for each rule, then the hook's
  failed,      \* it returned an error
  table,       \* the copies of each iptables rule
  defers,      \* concurrentMap's defers: whose notes were published
  errs,        \* concurrentMap's errs
  main,        \* where the caller of ForwardPorts is
  deferFuncs,  \* ForwardPorts' deferFuncs: whose notes concurrentMap returned
  cancelled,   \* ctx is done
  reported,    \* announced by OnAfterPortForward, not by OnBeforePortUnforward
  stuck        \* history: the rules that could not be deleted

goroutineVars == <<pc, notes, failed>>
mapVars       == <<defers, errs>>
closeVars     == <<main, deferFuncs>>
vars == <<goroutineVars, mapVars, closeVars, table, cancelled, reported, stuck>>

Stages == {"begin", "lookup", "second", "forward", "third", "nat", "report",
           "leave", "done", "joined"}

Init ==
  /\ pc = [p \in Ports |-> "begin"]
  /\ notes = [p \in Ports |-> 0]
  /\ failed = [p \in Ports |-> FALSE]
  /\ table = Others
  /\ defers = <<>>
  /\ errs = FALSE
  /\ main = "start"
  /\ deferFuncs = <<>>
  /\ cancelled = FALSE
  /\ reported = {}
  /\ stuck = {}

Goto(p, from, to) == pc[p] = from /\ pc' = [pc EXCEPT ![p] = to]

\* A call that may fail: what it can return.
Outcome(call) == {ok \in BOOLEAN : ok \/ call \in Faults}

\* iptables.New; without it ForwardPorts fails and there is nothing to close.
Start ==
  /\ main = "start"
  /\ \E ok \in Outcome("iptables") : main' = IF ok THEN "mapping" ELSE "failed"
  /\ UNCHANGED <<goroutineVars, mapVars, deferFuncs, table, cancelled, reported, stuck>>

-----------------------------------------------------------------------------
\* The callback of one forward.

\* The next stage, or the return with an error.
Continue(p, from, ok, to) ==
  /\ Goto(p, from, IF ok THEN to ELSE "leave")
  /\ failed' = [failed EXCEPT ![p] = ~ok]

\* The context is looked at three times.
CheckContext(p) ==
  /\ main = "mapping"
  /\ \/ Continue(p, "begin", ~cancelled, "lookup")
     \/ Continue(p, "second", ~cancelled, IF p \in Loopback THEN "third" ELSE "forward")
     \/ Continue(p, "third", ~cancelled, "nat")
  /\ UNCHANGED <<notes, table, mapVars, closeVars, cancelled, reported, stuck>>

\* The address is split and resolved, local routing allowed for a loopback
\* address, and the veth's address found in the namespace.
LookUp(p) ==
  /\ \E ok \in Outcome("lookup") : Continue(p, "lookup", ok, "second")
  /\ UNCHANGED <<notes, table, mapVars, closeVars, cancelled, reported, stuck>>

\* Mutant: the last rule but one is taken for the last.
AfterRuleEarly(p) ==
  IF notes[p] + 2 = Len(RulesOf(p)) THEN "report"
  ELSE IF notes[p] + 1 = ForwardRules(p) THEN "third" ELSE pc[p]

\* Where an appended rule leads: the checks are before the first and after the
\* second of the two groups.
AfterRule(p) ==
  IF notes[p] + 1 = Len(RulesOf(p)) THEN "report"
  ELSE IF notes[p] + 1 = ForwardRules(p) THEN "third" ELSE pc[p]

\* Mutant: addDefer comes before the error is looked at.
NotedFirst(p) ==
  /\ pc[p] \in {"forward", "nat"}
  /\ \E ok \in Outcome("append") :
       /\ Continue(p, pc[p], ok, AfterRule(p))
       /\ table' = IF ok THEN [table EXCEPT ![RulesOf(p)[notes[p] + 1]] = @ + 1] ELSE table
  /\ notes' = [notes EXCEPT ![p] = @ + 1]
  /\ UNCHANGED <<mapVars, closeVars, cancelled, reported, stuck>>

\* One iptables.Append, and addDefer if it worked.
AppendRule(p) ==
  /\ pc[p] \in {"forward", "nat"}
  /\ \E ok \in Outcome("append") :
       /\ Continue(p, pc[p], ok, AfterRule(p))
       /\ table' = IF ok THEN [table EXCEPT ![RulesOf(p)[notes[p] + 1]] = @ + 1] ELSE table
       /\ notes' = [notes EXCEPT ![p] = IF ok THEN @ + 1 ELSE @]
  /\ UNCHANGED <<mapVars, closeVars, cancelled, reported, stuck>>

\* OnAfterPortForward, and addDefer for OnBeforePortUnforward.
Report(p) ==
  /\ Goto(p, "report", "leave")
  /\ notes' = [notes EXCEPT ![p] = @ + 1]
  /\ reported' = reported \cup {p}
  /\ UNCHANGED <<failed, table, mapVars, closeVars, cancelled, stuck>>

-----------------------------------------------------------------------------
\* concurrentMap around the callbacks.

\* The deferred function publishes the notes and then calls wg.Done.
Publish(p) ==
  /\ Goto(p, "leave", "done")
  /\ defers' = Append(defers, p)
  /\ UNCHANGED <<notes, failed, table, errs, closeVars, cancelled, reported, stuck>>

\* The error is joined after wg.Done, perhaps after wg.Wait has returned.
JoinError(p) ==
  /\ Goto(p, "done", "joined")
  /\ errs' = (errs \/ failed[p])
  /\ UNCHANGED <<notes, failed, table, defers, closeVars, cancelled, reported, stuck>>

\* Mutant: wg.Done before the notes are published.
DoneBeforePublished(p) == pc[p] \in {"leave", "done", "joined"}

\* Has the goroutine called wg.Done?
Done(p) == pc[p] \in {"done", "joined"}

-----------------------------------------------------------------------------
\* Close.

\* wg.Wait returns.  The error read is what has been joined by then.
MapReturns ==
  /\ main = "mapping"
  /\ \A p \in Ports : Done(p)
  /\ main' = IF errs THEN "undoing" ELSE "forwarding"
  /\ deferFuncs' = defers
  /\ UNCHANGED <<goroutineVars, mapVars, table, cancelled, reported, stuck>>

\* Close of the returned ForwardedPorts: at the end of the program, or earlier.
Close ==
  /\ main = "forwarding"
  /\ main' = "closing"
  /\ UNCHANGED <<goroutineVars, mapVars, deferFuncs, table, cancelled, reported, stuck>>

\* Mutant: only a complete forwarder is undone.
ClosingFinished == main = "closing"

Closing == main \in {"undoing", "closing"}

\* The deferred calls of Close run last one first, and all of them whatever
\* fails: the next is one of p's.
Turn(p) ==
  /\ notes[p] > 0
  /\ \E i \in DOMAIN deferFuncs :
       /\ deferFuncs[i] = p
       /\ \A j \in DOMAIN deferFuncs : j > i => notes[deferFuncs[j]] = 0

\* It is the hook, OnBeforePortUnforward,
Unforward(p) ==
  /\ Closing /\ Turn(p)
  /\ notes[p] > Len(RulesOf(p))
  /\ reported' = reported \ {p}
  /\ notes' = [notes EXCEPT ![p] = @ - 1]
  /\ UNCHANGED <<pc, failed, mapVars, closeVars, table, cancelled, stuck>>

\* or deletes one copy of a rule; iptables fails if there is none.
DeleteRule(p) ==
  /\ Closing /\ Turn(p)
  /\ notes[p] <= Len(RulesOf(p))
  /\ \E ok \in Outcome("delete") :
       LET rule == RulesOf(p)[notes[p]]
           deleted == ok /\ table[rule] > 0
       IN /\ table' = IF deleted THEN [table EXCEPT ![rule] = @ - 1] ELSE table
          /\ stuck' = IF deleted THEN stuck ELSE stuck \cup {<<p, notes[p]>>}
  /\ notes' = [notes EXCEPT ![p] = @ - 1]
  /\ UNCHANGED <<pc, failed, mapVars, closeVars, cancelled, reported>>

\* ForwardPorts panics with the error, or Close returns.
CloseReturns ==
  /\ \A i \in DOMAIN deferFuncs : notes[deferFuncs[i]] = 0
  /\ \/ main = "undoing" /\ main' = "failed"
     \/ main = "closing" /\ main' = "closed"
  /\ UNCHANGED <<goroutineVars, mapVars, deferFuncs, table, cancelled, reported, stuck>>

\* An interrupt.
Cancel ==
  /\ ~cancelled
  /\ main \in {"start", "mapping", "forwarding"}
  /\ cancelled' = TRUE
  /\ UNCHANGED <<goroutineVars, mapVars, closeVars, table, reported, stuck>>

Goroutine(p) ==
  \/ CheckContext(p) \/ LookUp(p) \/ AppendRule(p) \/ Report(p)
  \/ Publish(p) \/ JoinError(p)

Main ==
  Start \/ MapReturns \/ CloseReturns \/ \E p \in Ports : Unforward(p) \/ DeleteRule(p)

Next ==
  \/ \E p \in Ports : Goroutine(p)
  \/ Main
  \/ Close
  \/ Cancel

Spec == Init /\ [][Next]_vars

\* Goroutines run.  The program closes once it is interrupted; nothing
\* interrupts it.
FairSpec ==
  /\ Spec
  /\ \A p \in Ports : WF_vars(Goroutine(p))
  /\ WF_vars(Main)
  /\ WF_vars(cancelled /\ Close)

-----------------------------------------------------------------------------
TypeOK ==
  /\ pc \in [Ports -> Stages]
  /\ notes \in [Ports -> 0..6]
  /\ failed \in [Ports -> BOOLEAN]
  /\ table \in [Rules -> Nat]
  /\ defers \in Seq(Ports)
  /\ errs \in BOOLEAN
  /\ main \in {"start", "mapping", "undoing", "forwarding", "closing", "failed", "closed"}
  /\ deferFuncs \in Seq(Ports)
  /\ cancelled \in BOOLEAN
  /\ reported \subseteq Ports
  /\ stuck \subseteq Ports \X (1..5)

\* The rules appended and not yet deleted, as (forward, number of the rule).
Standing ==
  {x \in Ports \X (1..5) : x[2] <= notes[x[1]] /\ x[2] <= Len(RulesOf(x[1]))} \cup stuck

Copies(rule, standing) == Cardinality({x \in standing : RulesOf(x[1])[x[2]] = rule})

\* The table holds what others put there, and one copy for each rule that a
\* forward still has to answer for, however the goroutines interleave and
\* however many forwards share a rule (forward_ports.go:190-257).
Accounted == \A rule \in Rules : table[rule] = Others[rule] + Copies(rule, Standing)

\* How many notes a forward has at each stage: the hook's is the last.
NotesFit(p) ==
  /\ pc[p] \in {"begin", "lookup", "second"} => notes[p] = 0
  /\ pc[p] = "forward" => notes[p] < ForwardRules(p)
  /\ pc[p] = "third" => notes[p] = ForwardRules(p)
  /\ pc[p] = "nat" => ForwardRules(p) <= notes[p] /\ notes[p] < Len(RulesOf(p))
  /\ pc[p] = "report" => notes[p] = Len(RulesOf(p))
  /\ notes[p] <= Len(RulesOf(p)) + 1
  /\ p \in reported <=> notes[p] > Len(RulesOf(p))

StageNotes == \A p \in Ports : NotesFit(p)

\* Every forward is done, and its notes published, before any is undone.
MapFirst ==
  /\ main = "start" => \A p \in Ports : pc[p] = "begin"
  /\ \A p \in Ports : Done(p) => p \in ToSet(defers)
  /\ main \in {"undoing", "forwarding", "closing", "closed"} =>
       \A p \in Ports : Done(p) /\ p \in ToSet(deferFuncs)
  /\ main = "failed" => \A p \in Ports : Done(p) \/ pc[p] = "begin"
  /\ main \in {"failed", "closed"} => \A p \in Ports : notes[p] = 0
  /\ main \in {"start", "mapping", "forwarding"} => stuck = {}
  /\ \A x \in stuck : x[2] > notes[x[1]]

\* Has the callback of the forward returned?
Left(p) == pc[p] \in {"leave", "done", "joined"}

\* Why a forward fails, and what becomes of it: it has left, is not announced,
\* and its error is among the joined ones once its goroutine has joined it.
FailureFits(p) ==
  /\ failed[p] => Left(p)
  /\ failed[p] => cancelled \/ Faults \cap {"lookup", "append"} # {}
  /\ failed[p] /\ pc[p] = "joined" => errs
  /\ main \in {"start", "mapping", "forwarding"} =>
       (p \in reported <=> Left(p) /\ ~failed[p])

\* ForwardPorts fails for a reason (forward_ports.go:306-331).
Failures ==
  /\ \A p \in Ports : FailureFits(p)
  /\ errs => \E p \in Ports : failed[p]
  /\ main = "undoing" => errs
  /\ main = "failed" => errs \/ "iptables" \in Faults

\* The inductive invariant.
ForwarderInv == TypeOK /\ Accounted /\ StageNotes /\ MapFirst /\ Failures

\* "Make sure that we schedule the `deferFuncs` even if we get an error during
\* setup" (forward_ports.go:294): when ForwardPorts has failed, or Close has
\* returned, every announcement is taken back and, if no deletion failed, the
\* host's rules are what they were.  That needs every goroutine's notes, of
\* those that failed half way too.
NothingLeft ==
  main \in {"failed", "closed"} => reported = {} /\ (stuck = {} => table = Others)

\* A forward that was announced, and whose end was not, is in place: of each of
\* its rules there is a copy beyond those of other programs, also while other
\* forwards fail or are undone (forward_ports.go:235-257).
AnnouncedWorks ==
  \A p \in reported : \A k \in 1..Len(RulesOf(p)) :
    table[RulesOf(p)[k]] > Others[RulesOf(p)[k]]

\* ForwardPorts returns, and an interrupted program has closed what it set up.
Ends ==
  /\ <>(main \in {"failed", "forwarding", "closed"})
  /\ cancelled ~> main \in {"failed", "closed"}

\* "in this return close on any errors" (forward_ports.go:291): when
\* ForwardPorts returns the forwards without an error, every one is in place.
SuccessMeansForwarded == main = "forwarding" => reported = Ports

\* What does hold (forward_ports.go:291): ForwardPorts returns without a forward
\* only if that one failed, and its goroutine had told the WaitGroup but not yet
\* joined its error when wg.Wait returned.
LostInTheGap ==
  [][main = "mapping" /\ main' = "forwarding" =>
       \A p \in Ports : p \notin reported => failed[p] /\ pc[p] = "done"]_vars

\* ForwardPorts fails only because a call failed or its context is done.
FailsForAReason ==
  main \in {"undoing", "failed"} => cancelled \/ Faults \cap {"iptables", "lookup", "append"} # {}

\* How many steps a forward's goroutine has left.
StepsLeft(p) ==
  CASE pc[p] = "begin"   -> 12
    [] pc[p] = "lookup"  -> 11
    [] pc[p] = "second"  -> 10
    [] pc[p] = "forward" -> 9 - notes[p]
    [] pc[p] = "third"   -> 7
    [] pc[p] = "nat"     -> 6 + ForwardRules(p) - notes[p]
    [] pc[p] = "report"  -> 3
    [] pc[p] = "leave"   -> 2
    [] pc[p] = "done"    -> 1
    [] pc[p] = "joined"  -> 0

\* No step gives a goroutine more to do, and its own steps less.
FewerStepsLeft ==
  \A p \in Ports : /\ StepsLeft(p) \in 0..12
                  /\ StepsLeft(p)' <= StepsLeft(p)
                  /\ Goroutine(p) => StepsLeft(p)' < StepsLeft(p)

\* A goroutine takes at most twelve steps, whatever the others do: none goes
\* round (forward_ports.go:60-270).
GoroutinesEnd == [][FewerStepsLeft]_vars

=============================================================================
