-------------------------------- MODULE NAT --------------------------------
(***************************************************************************)
(* The pool of network namespaces: CreateNAT of pkg/network/nat/nat.go,    *)
(* the Namespaces it returns, the address tables it draws from and the     *)
(* program drafter-nat around it.                                          *)
(*                                                                         *)
(* The main goroutine creates the namespaces one after the other.  A       *)
(* background goroutine closes them all when the creation fails, or else   *)
(* when the caller's context is cancelled; the caller also calls Close.    *)
(* The process may be started again: the kernel keeps what was left in it. *)
(* Clients of the returned object claim and release namespaces.            *)
(***************************************************************************)
EXTENDS Namespace, FiniteSets, FiniteSetsExt, Functions

CONSTANTS
  MaxCreated,  \* maxCreated: 256 in drafter-nat
  Pairs,       \* the /30 networks of the host CIDR
  Addresses,   \* the usable addresses of the namespace CIDR
  Clients,     \* goroutines that claim namespaces
  Others,      \* copies of the host's NAT rules that other programs have made
  None,        \* no pair, no address or no namespace
  MaxRuns,     \* bound: starts of the process
  MaxFaults    \* bound: calls into the kernel or the tables that fail

\* availableIPs, after it was reduced to maxCreated.
Available == Min({MaxCreated, Cardinality(Addresses)})

Ids == 0 .. Available - 1
Closers == {"background", "caller"}
NATRules == {"masquerade", "established"}

ASSUME NATAssumption ==
  /\ MaxCreated \in Nat \ {0} /\ MaxRuns \in Nat \ {0} /\ MaxFaults \in Nat
  /\ Pairs \subseteq Nat /\ Addresses \subseteq Nat /\ Addresses # {}
  /\ IsFiniteSet(Pairs) /\ IsFiniteSet(Addresses)
  /\ Others \subseteq Nat
  /\ None \notin Nat

VARIABLES
  main,            \* where the main goroutine is
  next,            \* i of the loop
  given,           \* the pair and the address the loop took for each namespace
  ready,           \* ready is closed
  stage,           \* where each closer is
  closed,          \* closed
  cancelled,       \* ctx is done
  freePairs, freeAddresses,      \* what the two tables have left
  hostVeths, namespaceVeths,     \* hostVeths, namespaceVeths
  ids,             \* the keys of claimableNamespaces
  claimed,         \* those whose claimed is set
  holds,           \* what each client has claimed
  kernel,          \* what is in the kernel for each namespace
  veth,            \* the pair and the address it was opened with
  rules,           \* copies of the host's two NAT rules
  rulesBefore,     \* history: rules when this process was started
  runs, faults     \* bounds: starts, failed calls

loopVars == <<main, next, given, ready>>
poolVars == <<freePairs, freeAddresses, hostVeths, namespaceVeths>>
mapVars == <<ids, claimed, holds>>
kernelVars == <<kernel, veth, rules>>
vars == <<loopVars, stage, closed, cancelled, poolVars, mapVars, kernelVars,
          rulesBefore, runs, faults>>

Nothing == [pair |-> None, address |-> None]

Veths == [pair : Pairs \cup {None}, address : Addresses \cup {None}]

TypeOK ==
  /\ main \in {"start", "tables", "pair", "address", "open", "opening", "add", "ready",
               "return", "ok", "failed", "closing", "exited"}
  /\ next \in 0 .. Available
  /\ given \in [Ids -> Veths] /\ veth \in [Ids -> Veths]
  /\ ready \in BOOLEAN /\ closed \in BOOLEAN /\ cancelled \in BOOLEAN
  /\ stage \in [Closers -> {"none", "new", "waiting", "ready", "lock", "addresses",
                            "namespaces", "done"}]
  /\ freePairs \subseteq Pairs /\ hostVeths \subseteq Pairs
  /\ freeAddresses \subseteq Addresses /\ namespaceVeths \subseteq Addresses
  /\ ids \subseteq Ids /\ claimed \subseteq ids
  /\ holds \in [Clients -> Ids \cup {None}]
  /\ kernel \in [Ids -> SUBSET Resources]
  /\ rules \in [NATRules -> Nat] /\ rulesBefore \in [NATRules -> Nat]
  /\ runs \in 1 .. MaxRuns /\ faults \in 0 .. MaxFaults

Init ==
  /\ main = "start" /\ next = 0 /\ ready = FALSE
  /\ given = [i \in Ids |-> Nothing]
  /\ stage = [c \in Closers |-> "none"] /\ closed = FALSE
  /\ cancelled = FALSE
  /\ freePairs = Pairs /\ freeAddresses = Addresses
  /\ hostVeths = {} /\ namespaceVeths = {}
  /\ ids = {} /\ claimed = {} /\ holds = [c \in Clients |-> None]
  /\ kernel = [i \in Ids |-> {}] /\ veth = [i \in Ids |-> Nothing]
  /\ \E n \in Others : rules = [r \in NATRules |-> n]
  /\ rulesBefore = rules
  /\ runs = 1 /\ faults = 0

-----------------------------------------------------------------------------

Fault == faults < MaxFaults /\ faults' = faults + 1

Alive == main # "exited"

\* goroutineManager.Context() is done: it ends with ctx, with a panic in the
\* loop and with the return of CreateNAT.
InternalDone == cancelled \/ main \in {"ok", "failed", "closing", "exited"}

\* A goroutine that waits in the select is taken by the channel that is closed.
WokenBy(channel) ==
  IF stage["background"] # "waiting" THEN stage
  ELSE [stage EXCEPT !["background"] = IF channel = "ready" THEN "ready" ELSE "lock"]

\* Mutant: Close returns without unlocking hostVethsLock.
HostVethsKept == \E c \in Closers : stage[c] \in {"addresses", "namespaces", "done"}

\* Close holds hostVethsLock and, once it has come to the namespaces, also the
\* locks of namespaceVeths and of the map, until it returns.  Between taking
\* the last two it only touches what the first of them protects.
HostVethsLocked == \E c \in Closers : stage[c] \in {"addresses", "namespaces"}
MapLocked == \E c \in Closers : stage[c] = "namespaces"

\* A panic in the loop, or an error before it: CreateNAT returns the error.
FailWith(newFaults) ==
  /\ main' = "failed" /\ stage' = WokenBy("context") /\ faults' = newFaults
  /\ UNCHANGED <<next, given, ready, closed, cancelled, poolVars, mapVars, rulesBefore, runs>>

\* network.CreateNAT: the two rules are appended one after the other.
Start ==
  /\ main = "start"
  /\ rulesBefore' = rules
  /\ \/ /\ rules' = [r \in NATRules |-> rules[r] + 1]
        /\ main' = "tables"
        /\ UNCHANGED faults
     \/ /\ Fault
        /\ \E n \in {0, 1} : rules' = [rules EXCEPT !["masquerade"] = @ + n]
        /\ main' = "failed"
  /\ UNCHANGED <<next, given, ready, stage, closed, cancelled, poolVars, mapVars,
                 kernel, veth, runs>>

\* The two tables are opened and compared; the background goroutine starts.
OpenTables ==
  /\ main = "tables"
  /\ \/ /\ Cardinality(Addresses) <= Cardinality(Pairs)
        /\ main' = "pair"
        /\ stage' = [stage EXCEPT !["background"] = "new"]
        /\ UNCHANGED <<next, given, ready, closed, cancelled, poolVars, mapVars,
                       rulesBefore, runs, faults>>
     \/ Cardinality(Addresses) > Cardinality(Pairs) /\ FailWith(faults)
     \/ faults < MaxFaults /\ FailWith(faults + 1)
  /\ UNCHANGED kernelVars

\* The tables hand out the first that is free.
First(table) == {x \in table : \A y \in table : x <= y}

\* GetPair under hostVethsLock.
GetPair ==
  /\ main = "pair" /\ ~HostVethsLocked
  /\ \/ /\ ~cancelled /\ freePairs # {}
        /\ \E p \in First(freePairs) :
             /\ freePairs' = freePairs \ {p}
             /\ hostVeths' = hostVeths \cup {p}
             /\ given' = [given EXCEPT ![next].pair = p]
        /\ main' = "address"
        /\ UNCHANGED <<next, ready, stage, closed, cancelled, freeAddresses, namespaceVeths,
                       mapVars, rulesBefore, runs, faults>>
     \/ (cancelled \/ freePairs = {}) /\ FailWith(faults)
     \/ faults < MaxFaults /\ FailWith(faults + 1)
  /\ UNCHANGED kernelVars

\* GetIP under namespaceVethsLock.
GetIP ==
  /\ main = "address" /\ ~MapLocked
  /\ \/ /\ ~cancelled /\ freeAddresses # {}
        /\ \E a \in First(freeAddresses) :
             /\ freeAddresses' = freeAddresses \ {a}
             /\ namespaceVeths' = namespaceVeths \cup {a}
             /\ given' = [given EXCEPT ![next].address = a]
        /\ main' = "open"
        /\ UNCHANGED <<next, ready, stage, closed, cancelled, freePairs, hostVeths,
                       mapVars, rulesBefore, runs, faults>>
     \/ (cancelled \/ freeAddresses = {}) /\ FailWith(faults)
     \/ faults < MaxFaults /\ FailWith(faults + 1)
  /\ UNCHANGED kernelVars

\* The last look at the context before a namespace is opened.
CheckContext ==
  /\ main = "open"
  /\ \/ /\ ~cancelled
        /\ main' = "opening"
        /\ UNCHANGED <<next, given, ready, stage, closed, cancelled, poolVars, mapVars,
                       rulesBefore, runs, faults>>
     \/ cancelled /\ FailWith(faults)
  /\ UNCHANGED kernelVars

OpenNamespace ==
  /\ main = "opening" /\ OpenWorks(kernel[next])
  /\ kernel' = [kernel EXCEPT ![next] = Opened]
  /\ veth' = [veth EXCEPT ![next] = given[next]]
  /\ main' = "add"
  /\ UNCHANGED <<next, given, ready, stage, closed, cancelled, poolVars, mapVars, rules,
                 rulesBefore, runs, faults>>

\* Open fails and Close follows.  Where the name was free, Close stops at the
\* rule it deletes first, the one Open adds last but one.  Where the name was
\* taken, it closes what a former process has left if that has the same pair
\* and address, by which Close names the rules.
OpenFails ==
  /\ main = "opening"
  /\ \/ /\ OpenWorks(kernel[next]) /\ faults < MaxFaults
        /\ \E left \in FailedOpens : kernel' = [kernel EXCEPT ![next] = Closed(left)]
        /\ veth' = [veth EXCEPT ![next] = given[next]]
        /\ FailWith(faults + 1)
     \/ /\ ~OpenWorks(kernel[next])
        /\ \/ /\ veth[next] = given[next]
              /\ \/ /\ kernel' = [kernel EXCEPT ![next] = Closed(@)]
                    /\ FailWith(faults)
                 \/ /\ faults < MaxFaults
                    /\ \E left \in FailedCloses(kernel[next]) :
                         kernel' = [kernel EXCEPT ![next] = left]
                    /\ FailWith(faults + 1)
           \/ /\ veth[next] # given[next]
              /\ FailWith(faults) /\ UNCHANGED kernel
        /\ UNCHANGED veth
  /\ UNCHANGED rules

AddNamespace ==
  /\ main = "add" /\ ~MapLocked
  /\ ids' = ids \cup {next}
  /\ claimed' = claimed \ {next}
  /\ next' = next + 1
  /\ main' = IF next + 1 < Available THEN "pair" ELSE "ready"
  /\ UNCHANGED <<given, ready, stage, closed, cancelled, poolVars, holds, kernelVars,
                 rulesBefore, runs, faults>>

\* close(ready)
CloseReady ==
  /\ main = "ready"
  /\ ready' = TRUE
  /\ stage' = WokenBy("ready")
  /\ main' = "return"
  /\ UNCHANGED <<next, given, closed, cancelled, poolVars, mapVars, kernelVars,
                 rulesBefore, runs, faults>>

\* CreateNAT returns.  A Close that the background goroutine has made before
\* always has an error to report (ReleasePair never returns nil), but it may
\* come too late to be seen.
Return ==
  /\ main = "return"
  /\ main' \in {"ok"} \cup (IF stage["background"] = "done" THEN {"failed"} ELSE {})
  /\ UNCHANGED <<next, given, ready, stage, closed, cancelled, poolVars, mapVars, kernelVars,
                 rulesBefore, runs, faults>>

-----------------------------------------------------------------------------
\* The background goroutine, up to its call of Close.

Background(from, guard, to) ==
  /\ Alive /\ stage["background"] = from /\ guard
  /\ stage' = [stage EXCEPT !["background"] = to]
  /\ UNCHANGED <<loopVars, closed, cancelled, poolVars, mapVars, kernelVars, rulesBefore,
                 runs, faults>>

\* It comes to the select: with both channels closed either may be taken.
Select ==
  \/ Background("new", ~ready /\ ~InternalDone, "waiting")
  \/ Background("new", ready, "ready")
  \/ Background("new", InternalDone, "lock")

SeeCancelled == Background("ready", cancelled, "lock")

-----------------------------------------------------------------------------
\* Close, called by the background goroutine and by the caller of CreateNAT.

CallClose ==
  /\ main = "ok"
  /\ main' = "closing"
  /\ stage' = [stage EXCEPT !["caller"] = "lock"]
  /\ UNCHANGED <<next, given, ready, closed, cancelled, poolVars, mapVars, kernelVars,
                 rulesBefore, runs, faults>>

\* Mutant: hostVeths is not emptied.
ReleasePairsOnly(c) ==
  /\ Alive /\ stage[c] = "lock" /\ ~HostVethsLocked
  /\ freePairs' = freePairs \cup hostVeths
  /\ stage' = [stage EXCEPT ![c] = "addresses"]
  /\ UNCHANGED <<loopVars, closed, cancelled, freeAddresses, hostVeths, namespaceVeths,
                 mapVars, kernelVars, rulesBefore, runs, faults>>

ReleasePairs(c) ==
  /\ Alive /\ stage[c] = "lock" /\ ~HostVethsLocked
  /\ freePairs' = freePairs \cup hostVeths
  /\ hostVeths' = {}
  /\ stage' = [stage EXCEPT ![c] = "addresses"]
  /\ UNCHANGED <<loopVars, closed, cancelled, freeAddresses, namespaceVeths, mapVars,
                 kernelVars, rulesBefore, runs, faults>>

ReleaseIPs(c) ==
  /\ Alive /\ stage[c] = "addresses"
  /\ freeAddresses' = freeAddresses \cup namespaceVeths
  /\ namespaceVeths' = {}
  /\ stage' = [stage EXCEPT ![c] = "namespaces"]
  /\ UNCHANGED <<loopVars, closed, cancelled, freePairs, hostVeths, mapVars, kernelVars,
                 rulesBefore, runs, faults>>

\* One turn of the loop over the map, in any order; nobody else sees the map
\* until it has been emptied.  The loop goes on after an error.
CloseNamespace(c) ==
  /\ Alive /\ stage[c] = "namespaces"
  /\ \E i \in ids :
       /\ \/ /\ kernel' = [kernel EXCEPT ![i] = Closed(@)]
             /\ UNCHANGED faults
          \/ /\ Fault
             /\ \E left \in FailedCloses(kernel[i]) : kernel' = [kernel EXCEPT ![i] = left]
       /\ ids' = ids \ {i}
       /\ claimed' = claimed \ {i}
  /\ UNCHANGED <<loopVars, stage, closed, cancelled, poolVars, holds, veth, rules,
                 rulesBefore, runs>>

\* network.RemoveNAT gives up the second rule if it cannot delete the first.
RemovedNAT ==
  IF rules["established"] = 0 THEN rules
  ELSE [rules EXCEPT !["established"] = @ - 1,
                     !["masquerade"] = IF @ > 0 THEN @ - 1 ELSE @]

HalfRemovedNAT ==
  {rules, [rules EXCEPT !["established"] = IF @ > 0 THEN @ - 1 ELSE @]}

\* Mutant: closed is not looked at.
RemoveNATAgain(c) ==
  /\ Alive /\ stage[c] = "namespaces" /\ ids = {}
  /\ closed' = TRUE
  /\ rules' = RemovedNAT
  /\ stage' = [stage EXCEPT ![c] = "done"]
  /\ UNCHANGED <<loopVars, cancelled, poolVars, mapVars, kernel, veth, rulesBefore, runs, faults>>

RemoveNAT(c) ==
  /\ Alive /\ stage[c] = "namespaces" /\ ids = {}
  /\ closed' = TRUE
  /\ \/ closed /\ UNCHANGED <<rules, faults>>
     \/ ~closed /\ rules' = RemovedNAT /\ UNCHANGED faults
     \/ ~closed /\ Fault /\ rules' \in HalfRemovedNAT
  /\ stage' = [stage EXCEPT ![c] = "done"]
  /\ UNCHANGED <<loopVars, cancelled, poolVars, mapVars, kernel, veth, rulesBefore, runs>>

-----------------------------------------------------------------------------

\* Mutant: claimed is not set.
ClaimUnmarked(c) ==
  /\ main \in {"ok", "closing"} /\ ~MapLocked /\ holds[c] = None
  /\ \E i \in ids \ claimed : holds' = [holds EXCEPT ![c] = i]
  /\ UNCHANGED <<loopVars, stage, closed, cancelled, poolVars, ids, claimed, kernelVars,
                 rulesBefore, runs, faults>>

\* ClaimNamespace: any namespace that is not claimed.
ClaimNamespace(c) ==
  /\ main \in {"ok", "closing"} /\ ~MapLocked /\ holds[c] = None
  /\ \E i \in ids \ claimed :
       claimed' = claimed \cup {i} /\ holds' = [holds EXCEPT ![c] = i]
  /\ UNCHANGED <<loopVars, stage, closed, cancelled, poolVars, ids, kernelVars,
                 rulesBefore, runs, faults>>

\* ReleaseNamespace: nothing happens if the map has lost the namespace.
ReleaseNamespace(c) ==
  /\ main \in {"ok", "closing"} /\ ~MapLocked /\ holds[c] # None
  /\ claimed' = claimed \ {holds[c]}
  /\ holds' = [holds EXCEPT ![c] = None]
  /\ UNCHANGED <<loopVars, stage, closed, cancelled, poolVars, ids, kernelVars,
                 rulesBefore, runs, faults>>

\* An interrupt, any time.
Cancel ==
  /\ Alive /\ ~cancelled
  /\ cancelled' = TRUE
  /\ stage' = WokenBy("context")
  /\ UNCHANGED <<loopVars, closed, poolVars, mapVars, kernelVars, rulesBefore, runs, faults>>

\* drafter-nat panics as soon as CreateNAT returns an error, and otherwise
\* returns after its Close: neither waits for the background goroutine.
Exit ==
  /\ main = "failed" \/ (main = "closing" /\ stage["caller"] = "done")
  /\ main' = "exited"
  /\ UNCHANGED <<next, given, ready, stage, closed, cancelled, poolVars, mapVars, kernelVars,
                 rulesBefore, runs, faults>>

\* A new process starts as in Init; only the kernel is as it was.
Restart ==
  /\ main = "exited" /\ runs < MaxRuns
  /\ runs' = runs + 1
  /\ main' = "start" /\ next' = 0 /\ ready' = FALSE
  /\ given' = [i \in Ids |-> Nothing]
  /\ stage' = [c \in Closers |-> "none"] /\ closed' = FALSE
  /\ cancelled' = FALSE
  /\ freePairs' = Pairs /\ freeAddresses' = Addresses
  /\ hostVeths' = {} /\ namespaceVeths' = {}
  /\ ids' = {} /\ claimed' = {} /\ holds' = [c \in Clients |-> None]
  /\ UNCHANGED <<kernelVars, rulesBefore, faults>>

Loop ==
  \/ Start \/ OpenTables \/ GetPair \/ GetIP \/ CheckContext \/ OpenNamespace \/ OpenFails
  \/ AddNamespace \/ CloseReady \/ Return

Close(c) == ReleasePairs(c) \/ ReleaseIPs(c) \/ CloseNamespace(c) \/ RemoveNAT(c)

Next ==
  \/ Loop \/ Select \/ SeeCancelled \/ CallClose \/ Cancel \/ Exit \/ Restart
  \/ \E c \in Closers : Close(c)
  \/ \E c \in Clients : ClaimNamespace(c) \/ ReleaseNamespace(c)

\* Every goroutine goes on while it can; a caller that was told of an
\* interrupt calls Close.  Nothing makes clients release what they hold.
Fairness ==
  /\ WF_vars(Loop) /\ WF_vars(Exit)
  /\ WF_vars(cancelled /\ CallClose)
  /\ \A c \in Closers : WF_vars(Close(c))

Spec == Init /\ [][Next]_vars
FairSpec == Spec /\ Fairness

-----------------------------------------------------------------------------

\* Only one of the two calls of Close is past hostVethsLock, and what the loop
\* has taken out of the tables is in hostVeths and namespaceVeths.
TablesAccounted ==
  /\ \A c, d \in Closers : {stage[c], stage[d]} \subseteq {"addresses", "namespaces"} => c = d
  /\ freePairs \cap hostVeths = {} /\ freePairs \cup hostVeths = Pairs
  /\ freeAddresses \cap namespaceVeths = {}
  /\ freeAddresses \cup namespaceVeths = Addresses

\* Where the loop has come to.
Opening == {"pair", "address", "open", "opening", "add"}
Creating == {"start", "tables", "ready", "return", "ok"} \cup Opening

\* A Close has not begun until it has given back the addresses.
Begun == \E c \in Closers : stage[c] \in {"addresses", "namespaces", "done"}

\* How far the loop is; and nobody closes anything while it goes on, unless the
\* context is done.
Course ==
  /\ main \in {"start", "tables"} => next = 0 /\ stage["background"] = "none" /\ ~closed
  /\ main \in Opening => next \in Ids
  /\ main \in {"ready", "return", "ok", "closing"} => next = Available
  /\ ids \subseteq 0 .. next - 1
  /\ stage["caller"] \in {"none", "lock", "addresses", "namespaces", "done"}
  /\ stage["caller"] # "none" => main \in {"closing", "exited"}
  /\ stage["caller"] = "done" => ids = {}
  /\ stage["background"] \in {"lock", "addresses", "namespaces", "done"} => InternalDone

\* CreateNAT's success means what it says: until a Close begins, every namespace
\* the loop has passed, in the end every one up to the limit, is in the map and
\* all its interfaces, routes and rules are in the kernel, under the pair and the
\* address taken for it.
WorksUntilClosed ==
  /\ main = "add" => kernel[next] = Resources /\ veth[next] = given[next]
  /\ main \in Creating \cup {"closing"} /\ ~Begun
       => /\ ids = 0 .. next - 1
          /\ \A i \in ids : kernel[i] = Resources /\ veth[i] = given[i]

\* A namespace that somebody holds is marked in the map, if it is still there.
HeldIsClaimed ==
  /\ main \notin {"ok", "closing", "exited"} => \A c \in Clients : holds[c] = None
  /\ \A c \in Clients : holds[c] \in ids => holds[c] \in claimed

\* The order in which a table hands out what it has.
Rank(table, x) == Cardinality({y \in table : y < x})

Has(i, pair, address) ==
  /\ pair => given[i].pair \in Pairs /\ Rank(Pairs, given[i].pair) = i
  /\ address => given[i].address \in Addresses /\ Rank(Addresses, given[i].address) = i

\* A table from which n were taken since it was full.
Taken(free, held, n) ==
  Cardinality(held) = n /\ \A x \in held, y \in free : x < y

\* What is in the kernel for a namespace has the pair and the address of its turn.
KernelInOrder ==
  \A i \in Ids : kernel[i] # {} =>
    /\ veth[i].pair \in Pairs /\ Rank(Pairs, veth[i].pair) = i
    /\ veth[i].address \in Addresses /\ Rank(Addresses, veth[i].address) = i

\* So has what the loop is about to open.
LoopInOrder ==
  main \in Opening \ {"add"} =>
    Has(next, main \in {"address", "open", "opening"}, main \in {"open", "opening"})

\* The tables hand out the smallest first while the loop goes on.
TablesInOrder ==
  main \in Opening \cup {"start", "tables"} /\ ~Begun =>
    /\ Taken(freePairs, hostVeths,
             IF main \in {"start", "tables", "pair"} THEN next ELSE next + 1)
    /\ Taken(freeAddresses, namespaceVeths,
             IF main \in {"start", "tables", "pair", "address"} THEN next ELSE next + 1)

\* Every process hands out pairs and addresses in the same order, so that the
\* namespace of one name has the same ones in every process: those a former
\* process has left in the kernel can only be met by their own names.
SameEveryTime == KernelInOrder /\ LoopInOrder /\ TablesInOrder

\* If no call fails, what is in the kernel is what the map still has, and the
\* host's rules are there once until a Close has gone all the way.
Undone ==
  faults = 0 =>
    /\ main \in (Creating \ {"start", "tables"}) \cup {"closing"} =>
         \A i \in 0 .. next - 1 : kernel[i] = IF i \in ids THEN Resources ELSE {}
    /\ main = "exited" /\ stage["caller"] = "done" => \A i \in Ids : kernel[i] = {}
    /\ main # "start" =>
         rules = IF closed THEN rulesBefore ELSE [r \in NATRules |-> rulesBefore[r] + 1]
    /\ \A c \in Closers : stage[c] = "done" => closed

\* Nothing is used twice, although namespaces are released to the tables before
\* they are removed and while the loop may still be opening one: no two clients
\* hold one namespace, and no two namespaces in the kernel, those a former
\* process left included, have a pair or an address in common.
ExclusiveUse ==
  /\ \A c, d \in Clients : c # d /\ holds[c] # None => holds[c] # holds[d]
  /\ \A i, j \in Ids : i # j /\ kernel[i] # {} /\ kernel[j] # {} =>
       veth[i].pair # veth[j].pair /\ veth[i].address # veth[j].address

\* What every step keeps true of the pool, from which ExclusiveUse and CleanExit
\* follow: the tables' accounts, the loop's course and what closes beside it,
\* complete namespaces until a Close begins, claims, and the order of addresses.
NATInv ==
  /\ TypeOK
  /\ TablesAccounted
  /\ Course
  /\ WorksUntilClosed
  /\ HeldIsClaimed
  /\ SameEveryTime
  /\ Undone
  /\ ExclusiveUse

\* A process that ends after its Close has taken everything out of the kernel
\* that it put there, whoever of the two closers came first and whatever was
\* interrupted, if no call failed: no namespace is left and the host's rules
\* are as many as before.
CleanExit ==
  main = "exited" /\ stage["caller"] = "done" /\ faults = 0
    => (\A i \in Ids : kernel[i] = {}) /\ rules = rulesBefore

\* After an interrupt the process ends: neither the loop nor the caller's Close
\* waits for ever for a lock the background goroutine holds.
Ends == cancelled ~> main = "exited"

-----------------------------------------------------------------------------
\* What else a caller of the pool can count on.

\* What a client claims is ready for use: until a Close begins, every namespace a
\* client holds is complete in the kernel, under the pair and the address that were
\* taken for it (nat.go:208-262, namespaces.go:48-71).
ClaimedWorks ==
  main \in {"ok", "closing"} /\ ~Begun =>
    \A c \in Clients : holds[c] # None =>
      kernel[holds[c]] = Resources /\ veth[holds[c]] = given[holds[c]]

\* The tables do not run out while the loop goes on: their sizes are compared
\* before it starts, and it ends at the smaller of maxCreated and the number of
\* addresses (nat.go:61-75, 182-206).
TablesSuffice ==
  /\ main \in Opening => Cardinality(Addresses) <= Cardinality(Pairs)
  /\ main \in Opening /\ ~cancelled =>
       (main = "pair" => freePairs # {}) /\ (main = "address" => freeAddresses # {})

\* How many steps CreateNAT has left, at five for each namespace.
LoopLeft(place, n) ==
  IF place \notin Creating \ {"ok"} THEN 0
  ELSE 5 * (Available - n) +
         CASE place = "start" -> 4 [] place = "tables" -> 3 [] place = "pair" -> 2
           [] place = "address" -> 1 [] place = "open" -> 0 [] place = "opening" -> -1
           [] place = "add" -> -2 [] place = "ready" -> 2 [] place = "return" -> 1

\* CreateNAT goes forward only: in a process each step of the loop leaves it fewer
\* steps, and nothing else that runs beside it gives it more (nat.go:42-262).
LoopForward ==
  /\ LoopLeft(main, next) \in Nat
  /\ Loop => LoopLeft(main', next') < LoopLeft(main, next)
  /\ ~Loop /\ main' # "start" => next' = next /\ (main' = main \/ main' \notin Creating)

CreationEnds == [][LoopForward]_vars

\* How many steps a closer has left from the lock on, with one for each namespace.
CloseLeft(c) ==
  CASE stage[c] = "lock"       -> Available + 3
    [] stage[c] = "addresses"  -> Available + 2
    [] stage[c] = "namespaces" -> Cardinality(ids) + 1
    [] OTHER                   -> 0

\* A Close that has begun goes forward only, whatever the loop, the clients and the
\* other Close do: they can neither add a namespace to the map it empties nor hold
\* a lock it needs (nat.go:104-158).
CloseForward ==
  Alive => \A c \in Closers :
    /\ CloseLeft(c) \in Nat
    /\ Close(c) => CloseLeft(c)' < CloseLeft(c)
    /\ stage[c] \in {"lock", "addresses", "namespaces"} /\ ~Close(c) => CloseLeft(c)' <= CloseLeft(c)

ClosesEnd == [][CloseForward]_vars

=============================================================================
