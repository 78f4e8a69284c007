----------------------------- MODULE NATProofs -----------------------------
(***************************************************************************)
(* What NAT keeps true of the pool of namespaces, for every number of      *)
(* pairs, addresses, clients, restarts and failing calls.                  *)
(***************************************************************************)
EXTENDS NAT, FiniteSetTheorems, TLAPS

-----------------------------------------------------------------------------
\* The orders of Open and Close as sets.

Deletes == {"drop inbound", "drop outbound", "forward accept", "route", "dnat", "snat",
            "default route", "veth", "tap", "netns"}

\* The elements of a sequence of ten.
LEMMA TenElements ==
  ASSUME NEW s, DOMAIN s = 1 .. 10
  PROVE  ToSet(s) = {s[1], s[2], s[3], s[4], s[5], s[6], s[7], s[8], s[9], s[10]}
<1>1. 1 .. 10 = {1, 2, 3, 4, 5, 6, 7, 8, 9, 10}
  BY SMT
<1>2. DOMAIN s = {1, 2, 3, 4, 5, 6, 7, 8, 9, 10}
  BY <1>1
<1>3. ASSUME NEW x \in ToSet(s)
      PROVE  x \in {s[1], s[2], s[3], s[4], s[5], s[6], s[7], s[8], s[9], s[10]}
  <2>1. PICK k \in DOMAIN s : x = s[k]
    BY DEF ToSet
  <2> QED
    BY <2>1, <1>2
<1>4. ASSUME NEW x \in {s[1], s[2], s[3], s[4], s[5], s[6], s[7], s[8], s[9], s[10]}
      PROVE  x \in ToSet(s)
  BY <1>2 DEF ToSet
<1> QED
  BY <1>3, <1>4, Zenon

\* The elements of a sequence of twelve.
LEMMA TwelveElements ==
  ASSUME NEW s, DOMAIN s = 1 .. 12
  PROVE  ToSet(s) = {s[1], s[2], s[3], s[4], s[5], s[6], s[7], s[8], s[9], s[10], s[11], s[12]}
<1>1. 1 .. 12 = {1, 2, 3, 4, 5, 6, 7, 8, 9, 10, 11, 12}
  BY SMT
<1>2. DOMAIN s = {1, 2, 3, 4, 5, 6, 7, 8, 9, 10, 11, 12}
  BY <1>1
<1>3. ASSUME NEW x \in ToSet(s)
      PROVE  x \in {s[1], s[2], s[3], s[4], s[5], s[6], s[7], s[8], s[9], s[10], s[11], s[12]}
  <2>1. PICK k \in DOMAIN s : x = s[k]
    BY DEF ToSet
  <2> QED
    BY <2>1, <1>2
<1>4. ASSUME NEW x \in {s[1], s[2], s[3], s[4], s[5], s[6], s[7], s[8], s[9], s[10], s[11], s[12]}
      PROVE  x \in ToSet(s)
  BY <1>2 DEF ToSet
<1> QED
  BY <1>3, <1>4, Zenon

\* What Close deletes.
LEMMA CloseSet == ToSet(CloseOrder) = Deletes
<1>1. DOMAIN CloseOrder = 1 .. 10
  BY SMT DEF CloseOrder
<1>2. /\ CloseOrder[1] = "drop inbound" /\ CloseOrder[2] = "drop outbound"
      /\ CloseOrder[3] = "forward accept" /\ CloseOrder[4] = "route"
      /\ CloseOrder[5] = "dnat" /\ CloseOrder[6] = "snat"
      /\ CloseOrder[7] = "default route" /\ CloseOrder[8] = "veth"
      /\ CloseOrder[9] = "tap" /\ CloseOrder[10] = "netns"
  BY SMT DEF CloseOrder
<1>3. ToSet(CloseOrder) =
        {CloseOrder[1], CloseOrder[2], CloseOrder[3], CloseOrder[4], CloseOrder[5],
         CloseOrder[6], CloseOrder[7], CloseOrder[8], CloseOrder[9], CloseOrder[10]}
  BY <1>1, TenElements
<1> QED
  BY <1>2, <1>3, Zenon DEF Deletes

\* What Open adds beyond that goes with the namespace.
LEMMA OpenSet == Deletes \subseteq Resources /\ Resources \subseteq Deletes \cup Inside
<1>1. CASE AllowIncoming
  <2>1. DOMAIN OpenOrder = 1 .. 12
    BY <1>1, SMT DEF OpenOrder
  <2>2. /\ OpenOrder[1] = "netns" /\ OpenOrder[2] = "tap" /\ OpenOrder[3] = "veth"
        /\ OpenOrder[4] = "default route" /\ OpenOrder[5] = "snat" /\ OpenOrder[6] = "dnat"
        /\ OpenOrder[7] = "incoming dnat" /\ OpenOrder[8] = "incoming masquerade"
        /\ OpenOrder[9] = "route" /\ OpenOrder[10] = "forward accept"
        /\ OpenOrder[11] = "drop inbound" /\ OpenOrder[12] = "drop outbound"
    BY <1>1, SMT DEF OpenOrder
  <2>3. Resources =
          {OpenOrder[1], OpenOrder[2], OpenOrder[3], OpenOrder[4], OpenOrder[5], OpenOrder[6],
           OpenOrder[7], OpenOrder[8], OpenOrder[9], OpenOrder[10], OpenOrder[11], OpenOrder[12]}
    BY <2>1, TwelveElements DEF Resources
  <2>4. Resources = Deletes \cup {"incoming dnat", "incoming masquerade"}
    BY <2>2, <2>3, Zenon DEF Deletes
  <2> QED
    BY <2>4 DEF Inside
<1>2. CASE ~AllowIncoming
  <2>1. DOMAIN OpenOrder = 1 .. 10
    BY <1>2, SMT DEF OpenOrder
  <2>2. /\ OpenOrder[1] = "netns" /\ OpenOrder[2] = "tap" /\ OpenOrder[3] = "veth"
        /\ OpenOrder[4] = "default route" /\ OpenOrder[5] = "snat" /\ OpenOrder[6] = "dnat"
        /\ OpenOrder[7] = "route" /\ OpenOrder[8] = "forward accept"
        /\ OpenOrder[9] = "drop inbound" /\ OpenOrder[10] = "drop outbound"
    BY <1>2, SMT DEF OpenOrder
  <2>3. Resources =
          {OpenOrder[1], OpenOrder[2], OpenOrder[3], OpenOrder[4], OpenOrder[5],
           OpenOrder[6], OpenOrder[7], OpenOrder[8], OpenOrder[9], OpenOrder[10]}
    BY <2>1, TenElements DEF Resources
  <2>4. Resources = Deletes
    BY <2>2, <2>3, Zenon DEF Deletes
  <2> QED
    BY <2>4
<1> QED
  BY <1>1, <1>2

\* A step before another one is a step of the same order.
LEMMA BeforeWithin ==
  /\ \A r : Before(CloseOrder, r) \subseteq Deletes
  /\ \A r : Before(OpenOrder, r) \subseteq Resources
<1>1. \A r : Before(CloseOrder, r) \subseteq ToSet(CloseOrder)
  BY DEF Before, ToSet
<1>2. \A r : Before(OpenOrder, r) \subseteq ToSet(OpenOrder)
  BY DEF Before, ToSet
<1> QED
  BY <1>1, <1>2, CloseSet DEF Resources

\* Close takes away and adds nothing, and of a namespace whose Open worked it
\* leaves nothing, although it does not undo the rules for incoming traffic.
LEMMA CloseTakesAway ==
  /\ \A present : Closed(present) \subseteq present
  /\ \A present : \A left \in FailedCloses(present) : left \subseteq present
  /\ \A left \in FailedOpens : left \subseteq Resources
  /\ Closed(Resources) = {}
<1>1. /\ \A present : Closed(present) \subseteq present
      /\ \A present : \A left \in FailedCloses(present) : left \subseteq present
  BY DEF Closed, FailedCloses, AfterDeleting
<1>2. \A left \in FailedOpens : left \subseteq Resources
  BY BeforeWithin DEF FailedOpens
<1>3. Deletable(Resources) = Deletes
  <2>1. ASSUME NEW r \in Deletes PROVE Before(CloseOrder, r) \cup {r} \subseteq Resources
    BY BeforeWithin, OpenSet
  <2> QED
    BY <2>1, CloseSet DEF Deletable
<1>4. "netns" \in Deletes
  BY DEF Deletes
<1> QED
  BY <1>1, <1>2, <1>3, <1>4, OpenSet DEF Closed, AfterDeleting

-----------------------------------------------------------------------------
\* The loop creates at least one namespace.
LEMMA AvailableType == Available \in Nat \ {0} /\ Available <= Cardinality(Addresses)
<1>1. Cardinality(Addresses) \in Nat \ {0}
  BY NATAssumption, FS_CardinalityType, FS_EmptySet
<1> DEFINE two == {MaxCreated, Cardinality(Addresses)}
<1>2. Available = CHOOSE x \in two : \A y \in two : x <= y
  BY DEF Available, Min
<1>3. \E x \in two : \A y \in two : x <= y
  <2>1. MaxCreated \in Nat
    BY NATAssumption
  <2>2. CASE MaxCreated <= Cardinality(Addresses)
    BY <2>1, <2>2, <1>1
  <2>3. CASE ~(MaxCreated <= Cardinality(Addresses))
    BY <2>1, <2>3, <1>1
  <2> QED
    BY <2>2, <2>3
<1>4. Available \in two /\ \A y \in two : Available <= y
  BY <1>2, <1>3
<1> QED
  BY <1>1, <1>4, NATAssumption

\* What the proofs below need to know of the arithmetic.
LEMMA LoopArithmetic ==
  /\ 0 \in 0 .. Available /\ Available \in Nat /\ Ids \subseteq Nat
  /\ \A n \in Ids : n + 1 \in 0 .. Available /\ n \in 0 .. Available
  /\ \A n \in Ids : 0 .. (n + 1) - 1 = (0 .. n - 1) \cup {n} /\ n \notin 0 .. n - 1
  /\ \A n \in 0 .. Available : 0 .. n - 1 \subseteq Ids
  /\ \A n \in Ids : n + 1 < Available => n + 1 \in Ids
  /\ \A n \in Ids : ~(n + 1 < Available) => n + 1 = Available
  /\ \A n \in 0 .. Available : n # Available => n \in Ids
  /\ 0 .. 0 - 1 = {} /\ Ids = 0 .. Available - 1 /\ 0 \in Ids
<1>1. Available \in Nat /\ Available >= 1
  BY AvailableType
<1> QED
  BY <1>1 DEF Ids

\* Neither a namespace nor a pair nor an address is None.
LEMMA NoneType == None \notin Ids /\ None \notin Pairs /\ None \notin Addresses
  BY NATAssumption, LoopArithmetic

-----------------------------------------------------------------------------
\* Each part of the invariant is preserved by each action.

\* Types.
LEMMA InitType == Init => TypeOK
<1> SUFFICES ASSUME Init PROVE TypeOK
  OBVIOUS
<1>1. \A n \in Others : n \in Nat
  BY NATAssumption
<1>2. runs \in 1 .. MaxRuns /\ faults \in 0 .. MaxFaults
  BY NATAssumption DEF Init
<1>3. FALSE \in BOOLEAN
  OBVIOUS
<1>4. next \in 0 .. Available
  BY AvailableType DEF Init
<1>5. rules \in [NATRules -> Nat] /\ rulesBefore \in [NATRules -> Nat]
  BY <1>1 DEF Init
<1> QED
  BY <1>2, <1>3, <1>4, <1>5 DEF Init, TypeOK, Veths, Nothing

\* Types.
LEMMA TypeStep ==
  TypeOK /\ Course /\ [Next]_vars => TypeOK'
<1> SUFFICES ASSUME TypeOK, Course, [Next]_vars
             PROVE  TypeOK'
  OBVIOUS
<1> USE DEF loopVars, poolVars, mapVars, kernelVars, Alive, TypeOK, Opening
<1>a. /\ faults < MaxFaults => faults + 1 \in 0 .. MaxFaults
      /\ runs < MaxRuns => runs + 1 \in 1 .. MaxRuns
      /\ TRUE \in BOOLEAN /\ FALSE \in BOOLEAN
  <2>1. MaxFaults \in Nat /\ MaxRuns \in Nat
    BY NATAssumption
  <2> QED
    BY <2>1
<1>b. FailWith(faults + 1) /\ faults < MaxFaults => faults' \in 0 .. MaxFaults
  BY <1>a DEF FailWith
<1>1. CASE Start
  <2>1. rules' \in [NATRules -> Nat] /\ rulesBefore' \in [NATRules -> Nat]
    BY <1>1 DEF Start, NATRules
  <2>2. faults' \in 0 .. MaxFaults
    BY <1>1, <1>a DEF Start, Fault
  <2> QED
    BY <1>1, <2>1, <2>2 DEF Start
<1>2. CASE OpenTables
  <2>1. faults' \in 0 .. MaxFaults
    BY <1>2, <1>b DEF OpenTables, FailWith
  <2> QED
    BY <1>2, <2>1 DEF OpenTables, FailWith, WokenBy
<1>3. CASE GetPair
  <2>1. faults' \in 0 .. MaxFaults
    BY <1>3, <1>b DEF GetPair, FailWith
  <2>2. given' \in [Ids -> Veths] /\ freePairs' \subseteq Pairs /\ hostVeths' \subseteq Pairs
    BY <1>3 DEF GetPair, FailWith, First, Veths
  <2>3. stage' \in [Closers -> {"none", "new", "waiting", "ready", "lock", "addresses",
                               "namespaces", "done"}]
    BY <1>3 DEF GetPair, FailWith, WokenBy
  <2> QED
    BY <1>3, <2>1, <2>2, <2>3 DEF GetPair, FailWith
<1>4. CASE GetIP
  <2>1. faults' \in 0 .. MaxFaults
    BY <1>4, <1>b DEF GetIP, FailWith
  <2>2. /\ given' \in [Ids -> Veths]
        /\ freeAddresses' \subseteq Addresses /\ namespaceVeths' \subseteq Addresses
    BY <1>4 DEF GetIP, FailWith, First, Veths
  <2>3. stage' \in [Closers -> {"none", "new", "waiting", "ready", "lock", "addresses",
                               "namespaces", "done"}]
    BY <1>4 DEF GetIP, FailWith, WokenBy
  <2> QED
    BY <1>4, <2>1, <2>2, <2>3 DEF GetIP, FailWith
<1>5. CASE CheckContext
  BY <1>5 DEF CheckContext, FailWith, WokenBy
<1>6. CASE OpenNamespace
  <2>1. next \in Ids
    BY <1>6 DEF OpenNamespace, Course
  <2> QED
    BY <1>6, <2>1 DEF OpenNamespace, Opened
<1>7. CASE OpenFails
  <2>1. faults' \in 0 .. MaxFaults
    BY <1>7, <1>b DEF OpenFails, FailWith
  <2>2. kernel' \in [Ids -> SUBSET Resources] /\ veth' \in [Ids -> Veths]
    <3>1. next \in Ids /\ given[next] \in Veths /\ kernel[next] \subseteq Resources
      BY <1>7 DEF OpenFails, Course
    <3>2. \A left \in FailedOpens : Closed(left) \subseteq Resources
      BY CloseTakesAway
    <3>3. /\ Closed(kernel[next]) \subseteq Resources
          /\ \A left \in FailedCloses(kernel[next]) : left \subseteq Resources
      BY <3>1, CloseTakesAway
    <3> QED
      BY <1>7, <3>1, <3>2, <3>3 DEF OpenFails
  <2>3. stage' \in [Closers -> {"none", "new", "waiting", "ready", "lock", "addresses",
                               "namespaces", "done"}]
    BY <1>7 DEF OpenFails, FailWith, WokenBy
  <2> QED
    BY <1>7, <2>1, <2>2, <2>3 DEF OpenFails, FailWith
<1>8. CASE AddNamespace
  <2>1. next \in Ids /\ next + 1 \in 0 .. Available
    BY <1>8, LoopArithmetic DEF AddNamespace, Course
  <2>2. ids' \subseteq Ids /\ claimed' \subseteq ids'
    BY <1>8, <2>1 DEF AddNamespace
  <2>3. main' \in {"pair", "ready"}
    BY <1>8 DEF AddNamespace
  <2> QED
    BY <1>8, <2>1, <2>2, <2>3 DEF AddNamespace
<1>9. CASE CloseReady
  BY <1>9 DEF CloseReady, WokenBy
<1>10. CASE Return
  BY <1>10 DEF Return
<1>11. CASE Select
  BY <1>11 DEF Select, Background, InternalDone
<1>12. CASE SeeCancelled
  BY <1>12 DEF SeeCancelled, Background
<1>13. CASE CallClose
  BY <1>13 DEF CallClose
<1>14. CASE Cancel
  BY <1>14 DEF Cancel, WokenBy
<1>15. CASE Exit
  BY <1>15 DEF Exit
<1>16. CASE Restart
  <2>1. runs' \in 1 .. MaxRuns
    BY <1>16, <1>a DEF Restart
  <2>2. 0 \in 0 .. Available
    BY LoopArithmetic
  <2>3. ready' \in BOOLEAN /\ closed' \in BOOLEAN /\ cancelled' \in BOOLEAN
    BY <1>16, <1>a DEF Restart
  <2> QED
    BY <1>16, <2>1, <2>2, <2>3 DEF Restart, Veths, Nothing
<1>17. ASSUME NEW c \in Closers, ReleasePairs(c) PROVE TypeOK'
  BY <1>17 DEF ReleasePairs, HostVethsLocked
<1>18. ASSUME NEW c \in Closers, ReleaseIPs(c) PROVE TypeOK'
  BY <1>18 DEF ReleaseIPs
<1>19. ASSUME NEW c \in Closers, CloseNamespace(c) PROVE TypeOK'
  <2>1. faults' \in 0 .. MaxFaults
    BY <1>19, <1>a DEF CloseNamespace, Fault
  <2>2. kernel' \in [Ids -> SUBSET Resources]
    <3>1. \A i \in ids : i \in Ids /\ kernel[i] \subseteq Resources
      OBVIOUS
    <3>2. \A i \in ids : /\ Closed(kernel[i]) \subseteq Resources
                         /\ \A left \in FailedCloses(kernel[i]) : left \subseteq Resources
      BY <3>1, CloseTakesAway
    <3> QED
      BY <1>19, <3>1, <3>2 DEF CloseNamespace
  <2> QED
    BY <1>19, <2>1, <2>2 DEF CloseNamespace
<1>20. ASSUME NEW c \in Closers, RemoveNAT(c) PROVE TypeOK'
  <2>1. faults' \in 0 .. MaxFaults
    BY <1>20, <1>a DEF RemoveNAT, Fault
  <2>2. rules' \in [NATRules -> Nat]
    <3>1. RemovedNAT \in [NATRules -> Nat] /\ HalfRemovedNAT \subseteq [NATRules -> Nat]
      BY DEF RemovedNAT, HalfRemovedNAT, NATRules
    <3> QED
      BY <1>20, <3>1 DEF RemoveNAT
  <2>3. closed' \in BOOLEAN
    BY <1>20, <1>a DEF RemoveNAT
  <2> QED
    BY <1>20, <2>1, <2>2, <2>3 DEF RemoveNAT
<1>21. ASSUME NEW c \in Clients, ClaimNamespace(c) PROVE TypeOK'
  BY <1>21 DEF ClaimNamespace
<1>22. ASSUME NEW c \in Clients, ReleaseNamespace(c) PROVE TypeOK'
  BY <1>22 DEF ReleaseNamespace
<1>23. CASE UNCHANGED vars
  BY <1>23 DEF vars
<1> QED
  BY <1>1, <1>2, <1>3, <1>4, <1>5, <1>6, <1>7, <1>8, <1>9, <1>10, <1>11, <1>12, <1>13,
     <1>14, <1>15, <1>16, <1>17, <1>18, <1>19, <1>20, <1>21, <1>22, <1>23 DEF Next, Loop,
     Close

\* What the tables have and what they have handed out.
LEMMA TablesStep ==
  TypeOK /\ TablesAccounted /\ [Next]_vars => TablesAccounted'
<1> SUFFICES ASSUME TypeOK, TablesAccounted, [Next]_vars
             PROVE  TablesAccounted'
  OBVIOUS
<1> USE DEF loopVars, poolVars, mapVars, kernelVars, Alive, TablesAccounted
<1>1. CASE Start
  BY <1>1 DEF Start, Fault
<1>2. CASE OpenTables
  BY <1>2 DEF OpenTables, FailWith, WokenBy, TypeOK
<1>3. CASE GetPair
  BY <1>3 DEF GetPair, FailWith, WokenBy, First, TypeOK
<1>4. CASE GetIP
  BY <1>4 DEF GetIP, FailWith, WokenBy, First, TypeOK
<1>5. CASE CheckContext
  BY <1>5 DEF CheckContext, FailWith, WokenBy, TypeOK
<1>6. CASE OpenNamespace
  BY <1>6 DEF OpenNamespace
<1>7. CASE OpenFails
  BY <1>7 DEF OpenFails, FailWith, WokenBy, TypeOK
<1>8. CASE AddNamespace
  BY <1>8 DEF AddNamespace
<1>9. CASE CloseReady
  BY <1>9 DEF CloseReady, WokenBy, TypeOK
<1>10. CASE Return
  BY <1>10 DEF Return
<1>11. CASE Select
  BY <1>11 DEF Select, Background, InternalDone, TypeOK
<1>12. CASE SeeCancelled
  BY <1>12 DEF SeeCancelled, Background, TypeOK
<1>13. CASE CallClose
  BY <1>13 DEF CallClose, TypeOK
<1>14. CASE Cancel
  BY <1>14 DEF Cancel, WokenBy, TypeOK
<1>15. CASE Exit
  BY <1>15 DEF Exit
<1>16. CASE Restart
  BY <1>16 DEF Restart, Closers
<1>17. ASSUME NEW c \in Closers, ReleasePairs(c) PROVE TablesAccounted'
  BY <1>17 DEF ReleasePairs, HostVethsLocked, TypeOK
<1>18. ASSUME NEW c \in Closers, ReleaseIPs(c) PROVE TablesAccounted'
  BY <1>18 DEF ReleaseIPs, TypeOK
<1>19. ASSUME NEW c \in Closers, CloseNamespace(c) PROVE TablesAccounted'
  BY <1>19 DEF CloseNamespace, Fault
<1>20. ASSUME NEW c \in Closers, RemoveNAT(c) PROVE TablesAccounted'
  BY <1>20 DEF RemoveNAT, Fault, TypeOK
<1>21. ASSUME NEW c \in Clients, ClaimNamespace(c) PROVE TablesAccounted'
  BY <1>21 DEF ClaimNamespace
<1>22. ASSUME NEW c \in Clients, ReleaseNamespace(c) PROVE TablesAccounted'
  BY <1>22 DEF ReleaseNamespace
<1>23. CASE UNCHANGED vars
  BY <1>23 DEF vars
<1> QED
  BY <1>1, <1>2, <1>3, <1>4, <1>5, <1>6, <1>7, <1>8, <1>9, <1>10, <1>11, <1>12, <1>13,
     <1>14, <1>15, <1>16, <1>17, <1>18, <1>19, <1>20, <1>21, <1>22, <1>23 DEF Next, Loop,
     Close

\* How far the loop is.
LEMMA CourseStep ==
  TypeOK /\ Course /\ [Next]_vars => Course'
<1> SUFFICES ASSUME TypeOK, Course, [Next]_vars
             PROVE  Course'
  OBVIOUS
<1> USE DEF loopVars, poolVars, mapVars, kernelVars, Alive, Course, Opening, InternalDone
<1>1. CASE Start
  BY <1>1 DEF Start, Fault
<1>2. CASE OpenTables
  <2>1. 0 \in Ids
    BY LoopArithmetic
  <2> QED
    BY <1>2, <2>1 DEF OpenTables, FailWith, WokenBy, TypeOK, Closers
<1>3. CASE GetPair
  BY <1>3 DEF GetPair, FailWith, WokenBy, TypeOK, Closers
<1>4. CASE GetIP
  BY <1>4 DEF GetIP, FailWith, WokenBy, TypeOK, Closers
<1>5. CASE CheckContext
  BY <1>5 DEF CheckContext, FailWith, WokenBy, TypeOK, Closers
<1>6. CASE OpenNamespace
  BY <1>6 DEF OpenNamespace
<1>7. CASE OpenFails
  BY <1>7 DEF OpenFails, FailWith, WokenBy, TypeOK, Closers
<1>8. CASE AddNamespace
  <2>1. next \in Ids
    BY <1>8 DEF AddNamespace
  <2>2. /\ next + 1 < Available => next + 1 \in Ids
        /\ ~(next + 1 < Available) => next + 1 = Available
        /\ 0 .. (next + 1) - 1 = (0 .. next - 1) \cup {next}
    BY <2>1, LoopArithmetic
  <2>3. ids' \subseteq 0 .. next' - 1
    BY <1>8, <2>2 DEF AddNamespace
  <2>4. main' = (IF next + 1 < Available THEN "pair" ELSE "ready") /\ next' = next + 1
    BY <1>8 DEF AddNamespace
  <2> QED
    BY <1>8, <2>2, <2>3, <2>4 DEF AddNamespace
<1>9. CASE CloseReady
  BY <1>9 DEF CloseReady, WokenBy, TypeOK, Closers
<1>10. CASE Return
  BY <1>10 DEF Return
<1>11. CASE Select
  BY <1>11 DEF Select, Background, InternalDone, TypeOK, Closers
<1>12. CASE SeeCancelled
  BY <1>12 DEF SeeCancelled, Background, TypeOK, Closers
<1>13. CASE CallClose
  BY <1>13 DEF CallClose, TypeOK, Closers
<1>14. CASE Cancel
  BY <1>14 DEF Cancel, WokenBy, TypeOK, Closers
<1>15. CASE Exit
  BY <1>15 DEF Exit
<1>16. CASE Restart
  BY <1>16 DEF Restart, TypeOK, Closers
<1>17. ASSUME NEW c \in Closers, ReleasePairs(c) PROVE Course'
  BY <1>17 DEF ReleasePairs, HostVethsLocked, TypeOK, Closers
<1>18. ASSUME NEW c \in Closers, ReleaseIPs(c) PROVE Course'
  BY <1>18 DEF ReleaseIPs, TypeOK, Closers
<1>19. ASSUME NEW c \in Closers, CloseNamespace(c) PROVE Course'
  BY <1>19 DEF CloseNamespace, Fault
<1>20. ASSUME NEW c \in Closers, RemoveNAT(c) PROVE Course'
  BY <1>20 DEF RemoveNAT, Fault, TypeOK, Closers
<1>21. ASSUME NEW c \in Clients, ClaimNamespace(c) PROVE Course'
  BY <1>21 DEF ClaimNamespace
<1>22. ASSUME NEW c \in Clients, ReleaseNamespace(c) PROVE Course'
  BY <1>22 DEF ReleaseNamespace
<1>23. CASE UNCHANGED vars
  BY <1>23 DEF vars
<1> QED
  BY <1>1, <1>2, <1>3, <1>4, <1>5, <1>6, <1>7, <1>8, <1>9, <1>10, <1>11, <1>12, <1>13,
     <1>14, <1>15, <1>16, <1>17, <1>18, <1>19, <1>20, <1>21, <1>22, <1>23 DEF Next, Loop,
     Close

\* Complete namespaces until a Close begins.
LEMMA WorksStep ==
  TypeOK /\ Course /\ WorksUntilClosed /\ [Next]_vars => WorksUntilClosed'
<1> SUFFICES ASSUME TypeOK, Course, WorksUntilClosed, [Next]_vars
             PROVE  WorksUntilClosed'
  OBVIOUS
<1> USE DEF loopVars, poolVars, mapVars, kernelVars, Alive, WorksUntilClosed, Course,
   Opening, Creating, Begun
<1>1. CASE Start
  BY <1>1 DEF Start, Fault, TypeOK, Closers
<1>2. CASE OpenTables
  <2>1. \A c \in Closers : ~Begun' => stage[c] \notin {"addresses", "namespaces", "done"}
    BY <1>2 DEF OpenTables, FailWith, WokenBy, TypeOK, Closers
  <2> QED
    BY <1>2, <2>1 DEF OpenTables, FailWith
<1>3. CASE GetPair
  <2>0. next \in Ids /\ next \notin 0 .. next - 1
    BY <1>3, LoopArithmetic DEF GetPair
  <2> QED
    BY <1>3, <2>0 DEF GetPair, FailWith, WokenBy, TypeOK, Closers
<1>4. CASE GetIP
  <2>0. next \in Ids /\ next \notin 0 .. next - 1
    BY <1>4, LoopArithmetic DEF GetIP
  <2> QED
    BY <1>4, <2>0 DEF GetIP, FailWith, WokenBy, TypeOK, Closers
<1>5. CASE CheckContext
  BY <1>5 DEF CheckContext, FailWith, WokenBy, TypeOK, Closers
<1>6. CASE OpenNamespace
  <2>0. next \in Ids /\ next \notin 0 .. next - 1
    BY <1>6, LoopArithmetic DEF OpenNamespace
  <2> QED
    BY <1>6, <2>0 DEF OpenNamespace, Opened, TypeOK, Closers
<1>7. CASE OpenFails
  BY <1>7 DEF OpenFails, FailWith
<1>8. CASE AddNamespace
  <2>0. /\ next \in Ids /\ next \notin 0 .. next - 1
        /\ 0 .. (next + 1) - 1 = (0 .. next - 1) \cup {next}
    BY <1>8, LoopArithmetic DEF AddNamespace
  <2>1. main' # "add"
    BY <1>8 DEF AddNamespace
  <2> QED
    BY <1>8, <2>0, <2>1 DEF AddNamespace
<1>9. CASE CloseReady
  BY <1>9 DEF CloseReady, WokenBy, TypeOK, Closers
<1>10. CASE Return
  BY <1>10 DEF Return, TypeOK, Closers
<1>11. CASE Select
  BY <1>11 DEF Select, Background, InternalDone, TypeOK, Closers
<1>12. CASE SeeCancelled
  BY <1>12 DEF SeeCancelled, Background, TypeOK, Closers
<1>13. CASE CallClose
  BY <1>13 DEF CallClose, TypeOK, Closers
<1>14. CASE Cancel
  BY <1>14 DEF Cancel, WokenBy, TypeOK, Closers
<1>15. CASE Exit
  BY <1>15 DEF Exit, TypeOK, Closers
<1>16. CASE Restart
  <2>1. 0 .. 0 - 1 = {}
    BY LoopArithmetic
  <2> QED
    BY <1>16, <2>1 DEF Restart
<1>17. ASSUME NEW c \in Closers, ReleasePairs(c) PROVE WorksUntilClosed'
  BY <1>17 DEF ReleasePairs, HostVethsLocked, TypeOK, Closers
<1>18. ASSUME NEW c \in Closers, ReleaseIPs(c) PROVE WorksUntilClosed'
  BY <1>18 DEF ReleaseIPs, TypeOK, Closers
<1>19. ASSUME NEW c \in Closers, CloseNamespace(c) PROVE WorksUntilClosed'
  <2>1. Begun'
    BY <1>19 DEF CloseNamespace
  <2>2. main = "add" => next \in Ids /\ next \notin ids
    BY LoopArithmetic
  <2>3. main = "add" => kernel'[next] = kernel[next]
    BY <1>19, <2>2 DEF CloseNamespace, TypeOK
  <2> QED
    BY <1>19, <2>1, <2>2, <2>3 DEF CloseNamespace
<1>20. ASSUME NEW c \in Closers, RemoveNAT(c) PROVE WorksUntilClosed'
  BY <1>20 DEF RemoveNAT, Fault, TypeOK, Closers
<1>21. ASSUME NEW c \in Clients, ClaimNamespace(c) PROVE WorksUntilClosed'
  BY <1>21 DEF ClaimNamespace
<1>22. ASSUME NEW c \in Clients, ReleaseNamespace(c) PROVE WorksUntilClosed'
  BY <1>22 DEF ReleaseNamespace
<1>23. CASE UNCHANGED vars
  BY <1>23 DEF vars
<1> QED
  BY <1>1, <1>2, <1>3, <1>4, <1>5, <1>6, <1>7, <1>8, <1>9, <1>10, <1>11, <1>12, <1>13,
     <1>14, <1>15, <1>16, <1>17, <1>18, <1>19, <1>20, <1>21, <1>22, <1>23 DEF Next, Loop,
     Close

\* Held namespaces are marked.
LEMMA HeldStep ==
  TypeOK /\ Course /\ HeldIsClaimed /\ ExclusiveUse /\ [Next]_vars => HeldIsClaimed'
<1> SUFFICES ASSUME TypeOK, Course, HeldIsClaimed, ExclusiveUse, [Next]_vars
             PROVE  HeldIsClaimed'
  OBVIOUS
<1> USE DEF loopVars, poolVars, mapVars, kernelVars, Alive, HeldIsClaimed
<1>1. CASE Start
  BY <1>1 DEF Start, Fault
<1>2. CASE OpenTables
  BY <1>2 DEF OpenTables, FailWith
<1>3. CASE GetPair
  BY <1>3 DEF GetPair, FailWith
<1>4. CASE GetIP
  BY <1>4 DEF GetIP, FailWith
<1>5. CASE CheckContext
  BY <1>5 DEF CheckContext, FailWith
<1>6. CASE OpenNamespace
  BY <1>6 DEF OpenNamespace
<1>7. CASE OpenFails
  BY <1>7 DEF OpenFails, FailWith
<1>8. CASE AddNamespace
  <2>1. next \in Ids /\ None \notin Ids
    BY <1>8, NoneType DEF AddNamespace, Course, Opening
  <2> QED
    BY <1>8, <2>1 DEF AddNamespace, TypeOK
<1>9. CASE CloseReady
  BY <1>9 DEF CloseReady, WokenBy
<1>10. CASE Return
  BY <1>10 DEF Return
<1>11. CASE Select
  BY <1>11 DEF Select, Background, InternalDone
<1>12. CASE SeeCancelled
  BY <1>12 DEF SeeCancelled, Background
<1>13. CASE CallClose
  BY <1>13 DEF CallClose
<1>14. CASE Cancel
  BY <1>14 DEF Cancel, WokenBy
<1>15. CASE Exit
  BY <1>15 DEF Exit
<1>16. CASE Restart
  BY <1>16 DEF Restart
<1>17. ASSUME NEW c \in Closers, ReleasePairs(c) PROVE HeldIsClaimed'
  BY <1>17 DEF ReleasePairs, HostVethsLocked
<1>18. ASSUME NEW c \in Closers, ReleaseIPs(c) PROVE HeldIsClaimed'
  BY <1>18 DEF ReleaseIPs
<1>19. ASSUME NEW c \in Closers, CloseNamespace(c) PROVE HeldIsClaimed'
  BY <1>19 DEF CloseNamespace, Fault
<1>20. ASSUME NEW c \in Closers, RemoveNAT(c) PROVE HeldIsClaimed'
  BY <1>20 DEF RemoveNAT, Fault
<1>21. ASSUME NEW c \in Clients, ClaimNamespace(c) PROVE HeldIsClaimed'
  BY <1>21 DEF ClaimNamespace, TypeOK
<1>22. ASSUME NEW c \in Clients, ReleaseNamespace(c) PROVE HeldIsClaimed'
  <2>1. None \notin ids
    BY NoneType DEF TypeOK
  <2> QED
    BY <1>22, <2>1 DEF ReleaseNamespace, TypeOK, ExclusiveUse
<1>23. CASE UNCHANGED vars
  BY <1>23 DEF vars
<1> QED
  BY <1>1, <1>2, <1>3, <1>4, <1>5, <1>6, <1>7, <1>8, <1>9, <1>10, <1>11, <1>12, <1>13,
     <1>14, <1>15, <1>16, <1>17, <1>18, <1>19, <1>20, <1>21, <1>22, <1>23 DEF Next, Loop,
     Close

\* The first of what a table has left, when as many were taken as the loop has
\* passed namespaces, is the next in the table's order.
LEMMA FirstIsNext ==
  ASSUME NEW table, table \subseteq Nat, IsFiniteSet(table), NEW free, NEW held, NEW n \in Nat,
         free \cup held = table, Taken(free, held, n), NEW x \in First(free)
  PROVE  Rank(table, x) = n
<1>1. x \in free /\ \A y \in free : x <= y
  BY DEF First
<1>2. x \in Nat /\ x \in table
  BY <1>1
<1>3. ASSUME NEW h \in held PROVE h \in Nat /\ h < x
  BY <1>1 DEF Taken
<1>4. ASSUME NEW y \in free PROVE y \in Nat /\ x <= y
  BY <1>1
<1>5. {y \in table : y < x} = held
  <2>1. ASSUME NEW y \in table, y < x PROVE y \in held
    <3>1. y \in free => FALSE
      BY <1>2, <1>4, <2>1
    <3> QED
      BY <3>1
  <2> QED
    BY <1>3, <2>1
<1> QED
  BY <1>5 DEF Rank, Taken

\* With it, one more was taken in order.
LEMMA FirstTaken ==
  ASSUME NEW table, table \subseteq Nat, IsFiniteSet(table), NEW free, NEW held, NEW n \in Nat,
         free \cup held = table, Taken(free, held, n), NEW x \in First(free)
  PROVE  Taken(free \ {x}, held \cup {x}, n + 1)
<1>1. x \in free /\ \A y \in free : x <= y
  BY DEF First
<1>2. x \in Nat /\ x \notin held
  <2>1. x \in Nat
    BY <1>1
  <2>2. x \in held => x < x
    BY <1>1 DEF Taken
  <2> QED
    BY <2>1, <2>2
<1>3. IsFiniteSet(held)
  BY FS_Subset
<1>4. Cardinality(held \cup {x}) = n + 1
  BY <1>2, <1>3, FS_AddElement DEF Taken
<1>5. ASSUME NEW y \in free \ {x} PROVE x < y
  BY <1>1, <1>2
<1>6. \A h \in held \cup {x}, y \in free \ {x} : h < y
  BY <1>5 DEF Taken
<1> QED
  BY <1>4, <1>6 DEF Taken

\* So it is with the pairs.
LEMMA PairIsNext ==
  ASSUME TablesAccounted, NEW n \in Nat, Taken(freePairs, hostVeths, n),
         NEW p \in First(freePairs)
  PROVE  p \in Pairs /\ Rank(Pairs, p) = n /\ Taken(freePairs \ {p}, hostVeths \cup {p}, n + 1)
<1>1. Pairs \subseteq Nat /\ IsFiniteSet(Pairs)
  BY NATAssumption
<1>2. freePairs \cup hostVeths = Pairs
  BY DEF TablesAccounted
<1>3. p \in Pairs
  BY <1>2 DEF First
<1>4. Rank(Pairs, p) = n
  BY <1>1, <1>2, FirstIsNext
<1>5. Taken(freePairs \ {p}, hostVeths \cup {p}, n + 1)
  BY <1>1, <1>2, FirstTaken
<1> QED
  BY <1>3, <1>4, <1>5

\* And with the addresses.
LEMMA AddressIsNext ==
  ASSUME TablesAccounted, NEW n \in Nat, Taken(freeAddresses, namespaceVeths, n),
         NEW a \in First(freeAddresses)
  PROVE  /\ a \in Addresses /\ Rank(Addresses, a) = n
         /\ Taken(freeAddresses \ {a}, namespaceVeths \cup {a}, n + 1)
<1>1. Addresses \subseteq Nat /\ IsFiniteSet(Addresses)
  BY NATAssumption
<1>2. freeAddresses \cup namespaceVeths = Addresses
  BY DEF TablesAccounted
<1>3. a \in Addresses
  BY <1>2 DEF First
<1>4. Rank(Addresses, a) = n
  BY <1>1, <1>2, FirstIsNext
<1>5. Taken(freeAddresses \ {a}, namespaceVeths \cup {a}, n + 1)
  BY <1>1, <1>2, FirstTaken
<1> QED
  BY <1>3, <1>4, <1>5

\* A Close of the background goroutine that has begun says that the context is
\* done, as long as the loop goes on.
LEMMA BegunCancelled == TypeOK /\ Course /\ main \in Opening /\ Begun => cancelled
  BY DEF TypeOK, Course, Opening, Begun, InternalDone, Closers

\* What is in the kernel.
LEMMA KernelStep ==
  TypeOK /\ Course /\ KernelInOrder /\ LoopInOrder /\ [Next]_vars => KernelInOrder'
<1> SUFFICES ASSUME TypeOK, Course, KernelInOrder, LoopInOrder, [Next]_vars
             PROVE  KernelInOrder'
  OBVIOUS
<1> USE DEF loopVars, poolVars, mapVars, kernelVars, Alive, Opening, KernelInOrder
<1>1. CASE Start
  BY <1>1 DEF Start, Fault
<1>2. CASE OpenTables
  BY <1>2 DEF OpenTables, FailWith
<1>3. CASE GetPair
  BY <1>3 DEF GetPair, FailWith
<1>4. CASE GetIP
  BY <1>4 DEF GetIP, FailWith
<1>5. CASE CheckContext
  BY <1>5 DEF CheckContext, FailWith
<1>6. CASE OpenNamespace
  <2>1. next \in Ids /\ Has(next, TRUE, TRUE)
    BY <1>6 DEF OpenNamespace, Course, LoopInOrder
  <2> QED
    BY <1>6, <2>1 DEF OpenNamespace, Has, TypeOK
<1>7. CASE OpenFails
  <2>1. next \in Ids /\ Has(next, TRUE, TRUE)
    BY <1>7 DEF OpenFails, Course, LoopInOrder
  <2>2. CASE veth' = [veth EXCEPT ![next] = given[next]]
    <3>1. \A i \in Ids \ {next} : kernel'[i] = kernel[i]
      BY <1>7 DEF OpenFails, TypeOK
    <3> QED
      BY <2>1, <2>2, <3>1 DEF Has, TypeOK
  <2>3. CASE UNCHANGED veth /\ \A i \in Ids : kernel'[i] \subseteq kernel[i]
    BY <2>3
  <2>4. OpenWorks(kernel[next]) => veth' = [veth EXCEPT ![next] = given[next]]
    BY <1>7 DEF OpenFails
  <2>5. ~OpenWorks(kernel[next]) => UNCHANGED veth /\ \A i \in Ids : kernel'[i] \subseteq kernel[i]
    BY <1>7, <2>1, CloseTakesAway DEF OpenFails, TypeOK
  <2> QED
    BY <2>2, <2>3, <2>4, <2>5
<1>8. CASE AddNamespace
  BY <1>8 DEF AddNamespace
<1>9. CASE CloseReady
  BY <1>9 DEF CloseReady, WokenBy
<1>10. CASE Return
  BY <1>10 DEF Return
<1>11. CASE Select
  BY <1>11 DEF Select, Background, InternalDone
<1>12. CASE SeeCancelled
  BY <1>12 DEF SeeCancelled, Background
<1>13. CASE CallClose
  BY <1>13 DEF CallClose
<1>14. CASE Cancel
  BY <1>14 DEF Cancel, WokenBy
<1>15. CASE Exit
  BY <1>15 DEF Exit
<1>16. CASE Restart
  BY <1>16 DEF Restart
<1>17. ASSUME NEW c \in Closers, ReleasePairs(c) PROVE KernelInOrder'
  BY <1>17 DEF ReleasePairs, HostVethsLocked
<1>18. ASSUME NEW c \in Closers, ReleaseIPs(c) PROVE KernelInOrder'
  BY <1>18 DEF ReleaseIPs
<1>19. ASSUME NEW c \in Closers, CloseNamespace(c) PROVE KernelInOrder'
  <2>1. \A i \in Ids : kernel'[i] \subseteq kernel[i]
    BY <1>19, CloseTakesAway DEF CloseNamespace, TypeOK
  <2>2. UNCHANGED veth
    BY <1>19 DEF CloseNamespace
  <2> QED
    BY <2>1, <2>2
<1>20. ASSUME NEW c \in Closers, RemoveNAT(c) PROVE KernelInOrder'
  BY <1>20 DEF RemoveNAT, Fault
<1>21. ASSUME NEW c \in Clients, ClaimNamespace(c) PROVE KernelInOrder'
  BY <1>21 DEF ClaimNamespace
<1>22. ASSUME NEW c \in Clients, ReleaseNamespace(c) PROVE KernelInOrder'
  BY <1>22 DEF ReleaseNamespace
<1>23. CASE UNCHANGED vars
  BY <1>23 DEF vars
<1> QED
  BY <1>1, <1>2, <1>3, <1>4, <1>5, <1>6, <1>7, <1>8, <1>9, <1>10, <1>11, <1>12, <1>13,
     <1>14, <1>15, <1>16, <1>17, <1>18, <1>19, <1>20, <1>21, <1>22, <1>23 DEF Next, Loop,
     Close

\* What the loop is about to open.
LEMMA LoopStep ==
  TypeOK /\ Course /\ TablesAccounted /\ TablesInOrder /\ LoopInOrder /\ [Next]_vars => LoopInOrder'
<1> SUFFICES ASSUME TypeOK, Course, TablesAccounted, TablesInOrder, LoopInOrder, [Next]_vars
             PROVE  LoopInOrder'
  OBVIOUS
<1> USE DEF loopVars, poolVars, mapVars, kernelVars, Alive, Opening, LoopInOrder, Has
<1>1. CASE Start
  BY <1>1 DEF Start, Fault
<1>2. CASE OpenTables
  BY <1>2 DEF OpenTables, FailWith
<1>3. CASE GetPair
  <2>1. CASE main' = "failed"
    BY <2>1
  <2>2. CASE main' # "failed"
    <3>1. PICK p \in First(freePairs) : given' = [given EXCEPT ![next].pair = p]
      BY <1>3, <2>2 DEF GetPair, FailWith
    <3>2. ~cancelled /\ UNCHANGED next /\ main' = "address"
      BY <1>3, <2>2 DEF GetPair, FailWith
    <3>3. next \in Ids /\ next \in Nat /\ Taken(freePairs, hostVeths, next)
      BY <1>3, <3>2, BegunCancelled, LoopArithmetic DEF GetPair, Course, TablesInOrder
    <3>4. p \in Pairs /\ Rank(Pairs, p) = next
      BY <3>3, PairIsNext
    <3>5. given'[next].pair = p
      BY <3>1, <3>3 DEF TypeOK, Veths
    <3> QED
      BY <3>2, <3>4, <3>5
  <2> QED
    BY <2>1, <2>2
<1>4. CASE GetIP
  <2>1. CASE main' = "failed"
    BY <2>1
  <2>2. CASE main' # "failed"
    <3>1. PICK a \in First(freeAddresses) : given' = [given EXCEPT ![next].address = a]
      BY <1>4, <2>2 DEF GetIP, FailWith
    <3>2. ~cancelled /\ UNCHANGED next /\ main' = "open"
      BY <1>4, <2>2 DEF GetIP, FailWith
    <3>3. next \in Ids /\ next \in Nat /\ Taken(freeAddresses, namespaceVeths, next)
      BY <1>4, <3>2, BegunCancelled, LoopArithmetic DEF GetIP, Course, TablesInOrder
    <3>4. a \in Addresses /\ Rank(Addresses, a) = next
      BY <3>3, AddressIsNext
    <3>5. given'[next].address = a /\ given'[next].pair = given[next].pair
      BY <3>1, <3>3 DEF TypeOK, Veths
    <3> QED
      BY <1>4, <3>2, <3>4, <3>5 DEF GetIP
  <2> QED
    BY <2>1, <2>2
<1>5. CASE CheckContext
  BY <1>5 DEF CheckContext, FailWith
<1>6. CASE OpenNamespace
  BY <1>6 DEF OpenNamespace
<1>7. CASE OpenFails
  BY <1>7 DEF OpenFails, FailWith
<1>8. CASE AddNamespace
  BY <1>8 DEF AddNamespace
<1>9. CASE CloseReady
  BY <1>9 DEF CloseReady, WokenBy
<1>10. CASE Return
  BY <1>10 DEF Return
<1>11. CASE Select
  BY <1>11 DEF Select, Background, InternalDone
<1>12. CASE SeeCancelled
  BY <1>12 DEF SeeCancelled, Background
<1>13. CASE CallClose
  BY <1>13 DEF CallClose
<1>14. CASE Cancel
  BY <1>14 DEF Cancel, WokenBy
<1>15. CASE Exit
  BY <1>15 DEF Exit
<1>16. CASE Restart
  BY <1>16 DEF Restart
<1>17. ASSUME NEW c \in Closers, ReleasePairs(c) PROVE LoopInOrder'
  BY <1>17 DEF ReleasePairs, HostVethsLocked
<1>18. ASSUME NEW c \in Closers, ReleaseIPs(c) PROVE LoopInOrder'
  BY <1>18 DEF ReleaseIPs
<1>19. ASSUME NEW c \in Closers, CloseNamespace(c) PROVE LoopInOrder'
  BY <1>19 DEF CloseNamespace, Fault
<1>20. ASSUME NEW c \in Closers, RemoveNAT(c) PROVE LoopInOrder'
  BY <1>20 DEF RemoveNAT, Fault
<1>21. ASSUME NEW c \in Clients, ClaimNamespace(c) PROVE LoopInOrder'
  BY <1>21 DEF ClaimNamespace
<1>22. ASSUME NEW c \in Clients, ReleaseNamespace(c) PROVE LoopInOrder'
  BY <1>22 DEF ReleaseNamespace
<1>23. CASE UNCHANGED vars
  BY <1>23 DEF vars
<1> QED
  BY <1>1, <1>2, <1>3, <1>4, <1>5, <1>6, <1>7, <1>8, <1>9, <1>10, <1>11, <1>12, <1>13,
     <1>14, <1>15, <1>16, <1>17, <1>18, <1>19, <1>20, <1>21, <1>22, <1>23 DEF Next, Loop,
     Close

\* The order of the tables.
LEMMA TablesOrderStep ==
  TypeOK /\ Course /\ TablesAccounted /\ TablesInOrder /\ [Next]_vars => TablesInOrder'
<1> SUFFICES ASSUME TypeOK, Course, TablesAccounted, TablesInOrder, [Next]_vars
             PROVE  TablesInOrder'
  OBVIOUS
<1> USE DEF loopVars, poolVars, mapVars, kernelVars, Alive, Opening, TablesInOrder, Begun
<1>1. CASE Start
  BY <1>1 DEF Start, Fault
<1>2. CASE OpenTables
  <2>1. CASE main' = "failed"
    BY <2>1
  <2>2. CASE main' # "failed"
    <3>1. stage' = [stage EXCEPT !["background"] = "new"] /\ main = "tables" /\ main' = "pair"
      BY <1>2, <2>2 DEF OpenTables, FailWith
    <3>2. Begun => Begun'
      BY <3>1 DEF TypeOK, Closers, Course
    <3> QED
      BY <1>2, <3>1, <3>2 DEF OpenTables, FailWith
  <2> QED
    BY <2>1, <2>2
<1>3. CASE GetPair
  <2>1. CASE main' = "failed"
    BY <2>1
  <2>2. CASE main' # "failed"
    <3>1. PICK p \in First(freePairs) : freePairs' = freePairs \ {p} /\ hostVeths' = hostVeths \cup {p}
      BY <1>3, <2>2 DEF GetPair, FailWith
    <3>2. ~cancelled /\ UNCHANGED <<next, freeAddresses, namespaceVeths>> /\ main' = "address"
      BY <1>3, <2>2 DEF GetPair, FailWith
    <3>3. /\ next \in Nat /\ Taken(freePairs, hostVeths, next)
          /\ Taken(freeAddresses, namespaceVeths, next)
      BY <1>3, <3>2, BegunCancelled, LoopArithmetic DEF GetPair, Course
    <3>4. Taken(freePairs', hostVeths', next + 1)
      BY <3>1, <3>3, PairIsNext
    <3> QED
      BY <3>2, <3>3, <3>4
  <2> QED
    BY <2>1, <2>2
<1>4. CASE GetIP
  <2>1. CASE main' = "failed"
    BY <2>1
  <2>2. CASE main' # "failed"
    <3>1. PICK a \in First(freeAddresses) : /\ freeAddresses' = freeAddresses \ {a}
                                            /\ namespaceVeths' = namespaceVeths \cup {a}
      BY <1>4, <2>2 DEF GetIP, FailWith
    <3>2. ~cancelled /\ UNCHANGED <<next, freePairs, hostVeths>> /\ main' = "open"
      BY <1>4, <2>2 DEF GetIP, FailWith
    <3>3. /\ next \in Nat /\ Taken(freePairs, hostVeths, next + 1)
          /\ Taken(freeAddresses, namespaceVeths, next)
      BY <1>4, <3>2, BegunCancelled, LoopArithmetic DEF GetIP, Course
    <3>4. Taken(freeAddresses', namespaceVeths', next + 1)
      BY <3>1, <3>3, AddressIsNext
    <3> QED
      BY <3>2, <3>3, <3>4
  <2> QED
    BY <2>1, <2>2
<1>5. CASE CheckContext
  BY <1>5 DEF CheckContext, FailWith
<1>6. CASE OpenNamespace
  BY <1>6 DEF OpenNamespace
<1>7. CASE OpenFails
  BY <1>7 DEF OpenFails, FailWith
<1>8. CASE AddNamespace
  BY <1>8 DEF AddNamespace
<1>9. CASE CloseReady
  BY <1>9 DEF CloseReady
<1>10. CASE Return
  BY <1>10 DEF Return
<1>11. CASE Select
  BY <1>11 DEF Select, Background, InternalDone, TypeOK, Closers
<1>12. CASE SeeCancelled
  BY <1>12 DEF SeeCancelled, Background, TypeOK, Closers
<1>13. CASE CallClose
  BY <1>13 DEF CallClose
<1>14. CASE Cancel
  BY <1>14 DEF Cancel, WokenBy, TypeOK, Closers
<1>15. CASE Exit
  BY <1>15 DEF Exit
<1>16. CASE Restart
  <2>1. Cardinality({}) = 0
    BY FS_EmptySet
  <2> QED
    BY <1>16, <2>1 DEF Restart, Taken
<1>17. ASSUME NEW c \in Closers, ReleasePairs(c) PROVE TablesInOrder'
  <2>1. Begun'
    BY <1>17 DEF ReleasePairs, TypeOK
  <2> QED
    BY <2>1
<1>18. ASSUME NEW c \in Closers, ReleaseIPs(c) PROVE TablesInOrder'
  <2>1. Begun'
    BY <1>18 DEF ReleaseIPs, TypeOK
  <2> QED
    BY <2>1
<1>19. ASSUME NEW c \in Closers, CloseNamespace(c) PROVE TablesInOrder'
  BY <1>19 DEF CloseNamespace, Fault
<1>20. ASSUME NEW c \in Closers, RemoveNAT(c) PROVE TablesInOrder'
  <2>1. Begun'
    BY <1>20 DEF RemoveNAT, TypeOK
  <2> QED
    BY <2>1
<1>21. ASSUME NEW c \in Clients, ClaimNamespace(c) PROVE TablesInOrder'
  BY <1>21 DEF ClaimNamespace
<1>22. ASSUME NEW c \in Clients, ReleaseNamespace(c) PROVE TablesInOrder'
  BY <1>22 DEF ReleaseNamespace
<1>23. CASE UNCHANGED vars
  BY <1>23 DEF vars
<1> QED
  BY <1>1, <1>2, <1>3, <1>4, <1>5, <1>6, <1>7, <1>8, <1>9, <1>10, <1>11, <1>12, <1>13,
     <1>14, <1>15, <1>16, <1>17, <1>18, <1>19, <1>20, <1>21, <1>22, <1>23 DEF Next, Loop,
     Close

-----------------------------------------------------------------------------
\* A failed call stays counted.
LEMMA FaultsGrow == TypeOK /\ [Next]_vars => (faults' = 0 => faults = 0)
<1> SUFFICES ASSUME TypeOK, [Next]_vars, faults' = 0 PROVE faults = 0
  OBVIOUS
<1>1. faults \in Nat
  BY NATAssumption DEF TypeOK
<1>2. faults + 1 # 0
  BY <1>1
<1> HIDE DEF TypeOK
<1> USE DEF loopVars, poolVars, mapVars, kernelVars
<1>3. CASE UNCHANGED vars
  BY <1>3 DEF vars
<1>4. CASE Start \/ OpenTables \/ GetPair \/ GetIP \/ CheckContext \/ OpenFails
  BY <1>2, <1>4 DEF Start, OpenTables, GetPair, GetIP, CheckContext, OpenFails, FailWith, Fault
<1>5. CASE OpenNamespace \/ AddNamespace \/ CloseReady \/ Return
  BY <1>5 DEF OpenNamespace, AddNamespace, CloseReady, Return
<1>6. CASE Select \/ SeeCancelled \/ CallClose \/ Cancel \/ Exit \/ Restart
  BY <1>6 DEF Select, SeeCancelled, Background, CallClose, Cancel, Exit, Restart
<1>7. ASSUME NEW c \in Closers, Close(c) PROVE faults = 0
  BY <1>2, <1>7 DEF Close, ReleasePairs, ReleaseIPs, CloseNamespace, RemoveNAT, Fault
<1>8. ASSUME NEW c \in Clients, ClaimNamespace(c) \/ ReleaseNamespace(c) PROVE faults = 0
  BY <1>8 DEF ClaimNamespace, ReleaseNamespace
<1> QED
  BY <1>3, <1>4, <1>5, <1>6, <1>7, <1>8 DEF Next, Loop

\* What is left when no call failed.
LEMMA UndoneStep ==
  TypeOK /\ Course /\ WorksUntilClosed /\ Undone /\ [Next]_vars => Undone'
<1> SUFFICES ASSUME TypeOK, Course, WorksUntilClosed, Undone, [Next]_vars
             PROVE  Undone'
  OBVIOUS
<1> USE DEF loopVars, poolVars, mapVars, kernelVars, Alive, Undone, Opening, Creating
<1> SUFFICES ASSUME faults' = 0
             PROVE  /\ main' \in (Creating \ {"start", "tables"}) \cup {"closing"} =>
                         \A i \in 0 .. next' - 1 :
                           kernel'[i] = IF i \in ids' THEN Resources ELSE {}
                    /\ main' = "exited" /\ stage'["caller"] = "done" =>
                         \A i \in Ids : kernel'[i] = {}
                    /\ main' # "start" =>
                         rules' = IF closed' THEN rulesBefore'
                                  ELSE [r \in NATRules |-> rulesBefore'[r] + 1]
                    /\ \A c \in Closers : stage'[c] = "done" => closed'
  BY DEF Undone
<1>a. faults = 0
  BY FaultsGrow
<1>b. faults + 1 # 0
  BY <1>a
<1>c. ~Fault
  BY <1>a DEF Fault
<1>1. CASE Start
  <2>1. /\ main' = "tables" /\ rulesBefore' = rules
        /\ rules' = [r \in NATRules |-> rules[r] + 1] /\ UNCHANGED <<closed, stage>>
    BY <1>1, <1>c DEF Start
  <2>2. ~closed /\ \A c \in Closers : stage[c] # "done"
    BY <1>1 DEF Start, Course, Closers
  <2> QED
    BY <2>1, <2>2
<1>2. CASE OpenTables
  <2>1. 0 .. next' - 1 = {}
    BY <1>2, LoopArithmetic DEF OpenTables, FailWith, Course
  <2>2. stage' \in {[stage EXCEPT !["background"] = "new"], WokenBy("context")}
    BY <1>2 DEF OpenTables, FailWith
  <2>3. \A c \in Closers : stage'[c] = "done" => stage[c] = "done"
    BY <2>2 DEF WokenBy, TypeOK, Closers
  <2> QED
    BY <1>2, <1>a, <2>1, <2>3 DEF OpenTables, FailWith, Course
<1>3. CASE GetPair
  <2>1. \A c \in Closers : stage'[c] = "done" => stage[c] = "done"
    BY <1>3 DEF GetPair, FailWith, WokenBy, TypeOK, Closers
  <2> QED
    BY <1>3, <1>a, <2>1 DEF GetPair, FailWith
<1>4. CASE GetIP
  <2>1. \A c \in Closers : stage'[c] = "done" => stage[c] = "done"
    BY <1>4 DEF GetIP, FailWith, WokenBy, TypeOK, Closers
  <2> QED
    BY <1>4, <1>a, <2>1 DEF GetIP, FailWith
<1>5. CASE CheckContext
  <2>1. \A c \in Closers : stage'[c] = "done" => stage[c] = "done"
    BY <1>5 DEF CheckContext, FailWith, WokenBy, TypeOK, Closers
  <2> QED
    BY <1>5, <1>a, <2>1 DEF CheckContext, FailWith
<1>6. CASE OpenNamespace
  <2>1. next \in Ids /\ next \notin 0 .. next - 1
    BY <1>6, LoopArithmetic DEF OpenNamespace, Course
  <2> QED
    BY <1>6, <1>a, <2>1 DEF OpenNamespace, TypeOK
<1>7. CASE OpenFails
  <2>1. \A c \in Closers : stage'[c] = "done" => stage[c] = "done"
    BY <1>7 DEF OpenFails, FailWith, WokenBy, TypeOK, Closers
  <2> QED
    BY <1>7, <1>a, <2>1 DEF OpenFails, FailWith
<1>8. CASE AddNamespace
  <2>1. /\ next \in Ids /\ next \notin 0 .. next - 1
        /\ 0 .. (next + 1) - 1 = (0 .. next - 1) \cup {next}
    BY <1>8, LoopArithmetic DEF AddNamespace, Course
  <2>2. kernel[next] = Resources
    BY <1>8 DEF AddNamespace, WorksUntilClosed
  <2> QED
    BY <1>8, <1>a, <2>1, <2>2 DEF AddNamespace
<1>9. CASE CloseReady
  <2>1. \A c \in Closers : stage'[c] = "done" => stage[c] = "done"
    BY <1>9 DEF CloseReady, WokenBy, Background, TypeOK, Closers
  <2>2. main' = "exited" => main = "exited" /\ stage'["caller"] = stage["caller"]
    BY <1>9 DEF CloseReady, WokenBy, Background, TypeOK, Closers
  <2> QED
    BY <1>9, <1>a, <2>1, <2>2 DEF CloseReady, Background
<1>10. CASE Return
  BY <1>10, <1>a DEF Return
<1>11. CASE Select
  <2>1. \A c \in Closers : stage'[c] = "done" => stage[c] = "done"
    BY <1>11 DEF Select, WokenBy, Background, TypeOK, Closers
  <2>2. main' = "exited" => main = "exited" /\ stage'["caller"] = stage["caller"]
    BY <1>11 DEF Select, WokenBy, Background, TypeOK, Closers
  <2> QED
    BY <1>11, <1>a, <2>1, <2>2 DEF Select, Background
<1>12. CASE SeeCancelled
  <2>1. \A c \in Closers : stage'[c] = "done" => stage[c] = "done"
    BY <1>12 DEF SeeCancelled, WokenBy, Background, TypeOK, Closers
  <2>2. main' = "exited" => main = "exited" /\ stage'["caller"] = stage["caller"]
    BY <1>12 DEF SeeCancelled, WokenBy, Background, TypeOK, Closers
  <2> QED
    BY <1>12, <1>a, <2>1, <2>2 DEF SeeCancelled, Background
<1>13. CASE CallClose
  <2>1. \A c \in Closers : stage'[c] = "done" => stage[c] = "done"
    BY <1>13 DEF CallClose, WokenBy, Background, TypeOK, Closers
  <2>2. main' = "exited" => main = "exited" /\ stage'["caller"] = stage["caller"]
    BY <1>13 DEF CallClose, WokenBy, Background, TypeOK, Closers
  <2> QED
    BY <1>13, <1>a, <2>1, <2>2 DEF CallClose, Background
<1>14. CASE Cancel
  <2>1. \A c \in Closers : stage'[c] = "done" => stage[c] = "done"
    BY <1>14 DEF Cancel, WokenBy, Background, TypeOK, Closers
  <2>2. main' = "exited" => main = "exited" /\ stage'["caller"] = stage["caller"]
    BY <1>14 DEF Cancel, WokenBy, Background, TypeOK, Closers
  <2> QED
    BY <1>14, <1>a, <2>1, <2>2 DEF Cancel, Background
<1>15. CASE Exit
  <2>1. main = "closing" /\ stage["caller"] = "done" => ids = {} /\ next = Available
    BY DEF Course
  <2>2. main = "failed" => stage["caller"] # "done"
    BY DEF Course
  <2>3. Ids = 0 .. Available - 1
    BY LoopArithmetic
  <2> QED
    BY <1>15, <1>a, <2>1, <2>2, <2>3 DEF Exit
<1>16. CASE Restart
  <2>1. main' = "start" /\ \A c \in Closers : stage'[c] # "done"
    BY <1>16 DEF Restart
  <2> QED
    BY <2>1
<1>17. ASSUME NEW c \in Closers, ReleasePairs(c) PROVE Undone'
  <2>1. \A d \in Closers : stage'[d] = "done" => stage[d] = "done"
    BY <1>17 DEF ReleasePairs, TypeOK
  <2> QED
    BY <1>17, <1>a, <2>1 DEF ReleasePairs
<1>18. ASSUME NEW c \in Closers, ReleaseIPs(c) PROVE Undone'
  <2>1. \A d \in Closers : stage'[d] = "done" => stage[d] = "done"
    BY <1>18 DEF ReleaseIPs, TypeOK
  <2> QED
    BY <1>18, <1>a, <2>1 DEF ReleaseIPs
<1>19. ASSUME NEW c \in Closers, CloseNamespace(c) PROVE Undone'
  <2>1. PICK i \in ids : kernel' = [kernel EXCEPT ![i] = Closed(kernel[i])] /\ ids' = ids \ {i}
    BY <1>19, <1>c DEF CloseNamespace
  <2>2. /\ UNCHANGED <<main, next, stage, closed, rules, rulesBefore>>
        /\ main # "exited"
    BY <1>19 DEF CloseNamespace
  <2>3. i \in 0 .. next - 1 /\ i \in Ids
    BY DEF Course, TypeOK
  <2>4. \A j \in 0 .. next - 1 : j \in Ids
    BY LoopArithmetic DEF TypeOK
  <2>5. \A j \in 0 .. next - 1 : kernel'[j] = IF j = i THEN Closed(kernel[i]) ELSE kernel[j]
    BY <2>1, <2>3, <2>4 DEF TypeOK
  <2>6. Closed(Resources) = {}
    BY CloseTakesAway
  <2> QED
    BY <1>a, <2>1, <2>2, <2>3, <2>5, <2>6
<1>20. ASSUME NEW c \in Closers, RemoveNAT(c) PROVE Undone'
  <2>1. /\ UNCHANGED <<main, next, kernel, ids, rulesBefore>> /\ closed' = TRUE
        /\ main # "exited"
    BY <1>20 DEF RemoveNAT
  <2>2. main # "start"
    BY <1>20 DEF RemoveNAT, Course, Closers
  <2>3. rules' = IF closed THEN rules ELSE RemovedNAT
    BY <1>20, <1>c DEF RemoveNAT
  <2>4. CASE closed
    BY <1>a, <2>1, <2>2, <2>3, <2>4
  <2>5. CASE ~closed
    <3>1. rules = [r \in NATRules |-> rulesBefore[r] + 1] /\ rulesBefore \in [NATRules -> Nat]
      BY <1>a, <2>2, <2>5 DEF TypeOK
    <3>2. RemovedNAT = rulesBefore
      BY <3>1 DEF RemovedNAT, NATRules
    <3> QED
      BY <1>a, <2>1, <2>3, <2>5, <3>2
  <2> QED
    BY <2>4, <2>5
<1>21. ASSUME NEW c \in Clients, ClaimNamespace(c) PROVE Undone'
  BY <1>21, <1>a DEF ClaimNamespace
<1>22. ASSUME NEW c \in Clients, ReleaseNamespace(c) PROVE Undone'
  BY <1>22, <1>a DEF ReleaseNamespace
<1>23. CASE UNCHANGED vars
  BY <1>23, <1>a DEF vars
<1> QED
  BY <1>1, <1>2, <1>3, <1>4, <1>5, <1>6, <1>7, <1>8, <1>9, <1>10, <1>11, <1>12, <1>13,
     <1>14, <1>15, <1>16, <1>17, <1>18, <1>19, <1>20, <1>21, <1>22, <1>23 DEF Next, Loop,
     Close

-----------------------------------------------------------------------------
\* Two namespaces in the kernel have different pairs and addresses since they
\* have different turns.
LEMMA InOrderExclusive ==
  KernelInOrder => \A i, j \in Ids : i # j /\ kernel[i] # {} /\ kernel[j] # {} =>
                     veth[i].pair # veth[j].pair /\ veth[i].address # veth[j].address
  BY DEF KernelInOrder

\* A namespace is held once.
LEMMA ClaimStep ==
  TypeOK /\ HeldIsClaimed /\ ExclusiveUse /\ [Next]_vars =>
    \A c, d \in Clients : c # d /\ holds'[c] # None => holds'[c] # holds'[d]
<1> SUFFICES ASSUME TypeOK, HeldIsClaimed, ExclusiveUse, [Next]_vars
             PROVE  \A c, d \in Clients : c # d /\ holds'[c] # None => holds'[c] # holds'[d]
  OBVIOUS
<1>1. CASE UNCHANGED holds
  BY <1>1 DEF ExclusiveUse
<1>2. CASE Restart
  BY <1>2 DEF Restart
<1>3. ASSUME NEW c \in Clients, ClaimNamespace(c)
      PROVE  \A a, b \in Clients : a # b /\ holds'[a] # None => holds'[a] # holds'[b]
  <2>1. PICK i \in ids \ claimed : holds' = [holds EXCEPT ![c] = i]
    BY <1>3 DEF ClaimNamespace
  <2>2. \A d \in Clients : holds[d] # i
    BY DEF HeldIsClaimed
  <2> QED
    BY <2>1, <2>2 DEF TypeOK, ExclusiveUse
<1>4. ASSUME NEW c \in Clients, ReleaseNamespace(c)
      PROVE  \A a, b \in Clients : a # b /\ holds'[a] # None => holds'[a] # holds'[b]
  BY <1>4 DEF ReleaseNamespace, TypeOK, ExclusiveUse
<1>5. (Loop \/ Select \/ SeeCancelled \/ CallClose \/ Cancel \/ Exit \/ \E c \in Closers : Close(c))
        => UNCHANGED holds
  <2> USE DEF mapVars
  <2>1. Loop => UNCHANGED holds
    BY DEF Loop, Start, OpenTables, GetPair, GetIP, CheckContext, OpenNamespace, OpenFails,
           AddNamespace, CloseReady, Return, FailWith
  <2>2. Select \/ SeeCancelled \/ CallClose \/ Cancel \/ Exit => UNCHANGED holds
    BY DEF Select, SeeCancelled, Background, CallClose, Cancel, Exit
  <2>3. ASSUME NEW c \in Closers, Close(c) PROVE UNCHANGED holds
    BY <2>3 DEF Close, ReleasePairs, ReleaseIPs, CloseNamespace, RemoveNAT
  <2> QED
    BY <2>1, <2>2, <2>3
<1>6. CASE UNCHANGED vars
  BY <1>1, <1>6 DEF vars, mapVars
<1> QED
  BY <1>1, <1>2, <1>3, <1>4, <1>5, <1>6 DEF Next

\* The invariant holds at first,
LEMMA InitInv == Init => NATInv
<1> SUFFICES ASSUME Init PROVE NATInv
  OBVIOUS
<1>1. TypeOK
  BY InitType
<1>2. TablesAccounted /\ HeldIsClaimed
  BY DEF Init, TablesAccounted, HeldIsClaimed, Closers
<1>3. main = "start" /\ next = 0 /\ 0 .. next - 1 = {}
  BY LoopArithmetic DEF Init
<1>4. Course
  BY <1>3 DEF Init, Course, Closers, Opening
<1>5. WorksUntilClosed
  BY <1>3 DEF Init, WorksUntilClosed
<1>6. KernelInOrder /\ LoopInOrder
  BY <1>3 DEF Init, KernelInOrder, LoopInOrder, Opening
<1>7. TablesInOrder
  BY <1>3, FS_EmptySet DEF Init, TablesInOrder, Taken
<1>8. Undone
  BY <1>3 DEF Init, Undone, Creating, Opening, Closers
<1>9. ExclusiveUse
  BY <1>6, InOrderExclusive DEF Init, ExclusiveUse
<1> QED
  BY <1>1, <1>2, <1>4, <1>5, <1>6, <1>7, <1>8, <1>9 DEF NATInv, SameEveryTime

\* and every step keeps it.
LEMMA StepInv == NATInv /\ [Next]_vars => NATInv'
<1> SUFFICES ASSUME NATInv, [Next]_vars PROVE NATInv'
  OBVIOUS
<1>1. /\ TypeOK /\ TablesAccounted /\ Course /\ WorksUntilClosed /\ HeldIsClaimed
      /\ KernelInOrder /\ LoopInOrder /\ TablesInOrder /\ Undone /\ ExclusiveUse
  BY DEF NATInv, SameEveryTime
<1>2. TypeOK' /\ TablesAccounted' /\ Course' /\ WorksUntilClosed'
  BY <1>1, TypeStep, TablesStep, CourseStep, WorksStep
<1>3. HeldIsClaimed' /\ Undone'
  BY <1>1, HeldStep, UndoneStep
<1>4. KernelInOrder' /\ LoopInOrder' /\ TablesInOrder'
  BY <1>1, KernelStep, LoopStep, TablesOrderStep
<1>5. \A i, j \in Ids : i # j /\ kernel'[i] # {} /\ kernel'[j] # {} =>
        veth'[i].pair # veth'[j].pair /\ veth'[i].address # veth'[j].address
  BY <1>4 DEF KernelInOrder
<1>6. ExclusiveUse'
  BY <1>1, <1>5, ClaimStep DEF ExclusiveUse
<1> QED
  BY <1>2, <1>3, <1>4, <1>6 DEF NATInv, SameEveryTime

-----------------------------------------------------------------------------
\* The pool's invariant: the tables' accounts, the loop's course and what closes
\* beside it, complete namespaces until a Close begins, claims, the order of the
\* addresses, and what is left when no call failed (nat.go:104-291).
THEOREM NATInvariance == Spec => []NATInv
<1>1. Spec => Init /\ [][Next]_vars
  BY DEF Spec
<1> QED
  BY <1>1, InitInv, StepInv, PTL

\* Nothing is used twice: no namespace is held by two clients, and no pair and no
\* address belongs to two namespaces in the kernel, whatever fails, whoever
\* closes, and whatever a former process has left (nat.go:104-291,
\* namespaces.go:48-93).
THEOREM NothingIsUsedTwice == Spec => []ExclusiveUse
<1>1. NATInv => ExclusiveUse
  BY DEF NATInv
<1> QED
  BY <1>1, NATInvariance, PTL

\* A process that ends after its Close, and in which no call failed, leaves no
\* namespace and the host's rules as it found them (nat.go:104-158,
\* cmd/drafter-nat/main.go:86-95).
THEOREM ExitsAreClean == Spec => []CleanExit
<1>1. NATInv => CleanExit
  BY DEF NATInv, Undone, CleanExit, Closers
<1> QED
  BY <1>1, NATInvariance, PTL

-----------------------------------------------------------------------------
\* Until a Close begins, what a client holds is complete, under the pair and the
\* address taken for it (nat.go:182-262, namespaces.go:48-71).
THEOREM ClaimsAreComplete == Spec => []ClaimedWorks
<1>1. NATInv => ClaimedWorks
  <2> SUFFICES ASSUME NATInv, main \in {"ok", "closing"}, ~Begun,
                      NEW c \in Clients, holds[c] # None
               PROVE  kernel[holds[c]] = Resources /\ veth[holds[c]] = given[holds[c]]
    BY DEF ClaimedWorks
  <2>1. holds[c] \in Ids
    BY DEF NATInv, TypeOK
  <2>2. ids = 0 .. Available - 1 /\ \A i \in ids : kernel[i] = Resources /\ veth[i] = given[i]
    BY DEF NATInv, Course, WorksUntilClosed, Creating
  <2> QED
    BY <2>1, <2>2 DEF Ids
<1> QED
  BY <1>1, NATInvariance, PTL

-----------------------------------------------------------------------------
\* The tables suffice.

\* Their sizes were compared before the loop.
Compared == main \in Opening => Cardinality(Addresses) <= Cardinality(Pairs)

LEMMA ComparedStep == Compared /\ [Next]_vars => Compared'
<1> SUFFICES ASSUME Compared, [Next]_vars, main' \in Opening, main \notin Opening
             PROVE  Cardinality(Addresses) <= Cardinality(Pairs)
  BY DEF Compared
<1>1. OpenTables
  BY DEF Opening, Next, vars, loopVars, Loop, Start, GetPair, GetIP, CheckContext, OpenNamespace,
     OpenFails, AddNamespace, CloseReady, Return, FailWith, Select, Background, SeeCancelled,
     CallClose, Cancel, Exit, Restart, Close, ReleasePairs, ReleaseIPs, CloseNamespace,
     RemoveNAT, ClaimNamespace, ReleaseNamespace
<1> QED
  BY <1>1 DEF OpenTables, FailWith, Opening

\* A table from which fewer were taken than it had still has some.
LEMMA SomeAreFree ==
  ASSUME NEW table, IsFiniteSet(table), NEW free, NEW held, free \cup held = table,
         NEW n \in Nat, Taken(free, held, n), n < Cardinality(table)
  PROVE  free # {}
<1> SUFFICES ASSUME free = {} PROVE FALSE
  OBVIOUS
<1>1. Cardinality(table) = n
  BY DEF Taken
<1> QED
  BY <1>1

\* While the loop goes on and nothing interrupts it the tables do not run out: the
\* only errors they give are those of their own calls (nat.go:61-75, 182-206).
THEOREM TablesNeverRunOut == Spec => []TablesSuffice
<1>1. Init => Compared
  BY DEF Init, Compared, Opening
<1>2. NATInv /\ Compared => TablesSuffice
  <2> SUFFICES ASSUME NATInv, Compared, main \in {"pair", "address"}, ~cancelled
               PROVE  (main = "pair" => freePairs # {}) /\ (main = "address" => freeAddresses # {})
    BY DEF TablesSuffice, Compared, Opening
  <2>1. TypeOK /\ Course /\ TablesAccounted /\ TablesInOrder /\ main \in Opening
    BY DEF NATInv, SameEveryTime, Opening
  <2>2. ~Begun
    BY <2>1, BegunCancelled
  <2>3. next \in Ids
    BY <2>1 DEF Course
  <2>4. /\ IsFiniteSet(Pairs) /\ IsFiniteSet(Addresses)
        /\ Cardinality(Pairs) \in Nat /\ Cardinality(Addresses) \in Nat
    BY NATAssumption, FS_CardinalityType
  <2>5. next \in Nat /\ next < Cardinality(Addresses) /\ next < Cardinality(Pairs)
    <3>1. Cardinality(Addresses) <= Cardinality(Pairs)
      BY <2>1 DEF Compared
    <3> QED
      BY <2>3, <2>4, <3>1, AvailableType DEF Ids
  <2>6. main = "pair" => Taken(freePairs, hostVeths, next)
    BY <2>1, <2>2 DEF TablesInOrder
  <2>7. main = "address" => Taken(freeAddresses, namespaceVeths, next)
    BY <2>1, <2>2 DEF TablesInOrder
  <2>8. freePairs \cup hostVeths = Pairs /\ freeAddresses \cup namespaceVeths = Addresses
    BY <2>1 DEF TablesAccounted
  <2> QED
    BY <2>4, <2>5, <2>6, <2>7, <2>8, SomeAreFree
<1> QED
  BY <1>1, <1>2, ComparedStep, NATInvariance, PTL DEF Spec

-----------------------------------------------------------------------------
\* The loop and a Close go forward.

\* What is left at each place of the loop.
LEMMA LoopLeftAt ==
  ASSUME NEW m, NEW n,
         m \in {"start", "tables"} => n = 0,
         m \in Opening => n \in Ids,
         m \in {"ready", "return"} => n = Available
  PROVE  /\ m = "start" => LoopLeft(m, n) = 5 * Available + 4
         /\ m = "tables" => LoopLeft(m, n) = 5 * Available + 3
         /\ m = "pair" => LoopLeft(m, n) = 5 * (Available - n) + 2
         /\ m = "address" => LoopLeft(m, n) = 5 * (Available - n) + 1
         /\ m = "open" => LoopLeft(m, n) = 5 * (Available - n)
         /\ m = "opening" => LoopLeft(m, n) = 5 * (Available - n) - 1
         /\ m = "add" => LoopLeft(m, n) = 5 * (Available - n) - 2
         /\ m = "ready" => LoopLeft(m, n) = 2
         /\ m = "return" => LoopLeft(m, n) = 1
         /\ m \in {"ok", "failed", "closing", "exited"} => LoopLeft(m, n) = 0
         /\ m \in {"start", "tables"} \cup Opening => LoopLeft(m, n) \in Nat \ {0}
<1>1. Available \in Nat
  BY LoopArithmetic
<1>2. CASE m \in {"start", "tables"}
  BY <1>1, <1>2 DEF LoopLeft, Creating, Opening
<1>3. CASE m \in Opening
  <2> DEFINE left == Available - n
  <2>1. left \in Nat \ {0}
    <3>1. \A i \in Ids : Available - i \in Nat \ {0}
      BY <1>1 DEF Ids
    <3> QED
      BY <1>3, <3>1
  <2>2. /\ m = "pair" => LoopLeft(m, n) = 5 * left + 2
        /\ m = "address" => LoopLeft(m, n) = 5 * left + 1
        /\ m = "open" => LoopLeft(m, n) = 5 * left + 0
        /\ m = "opening" => LoopLeft(m, n) = 5 * left + -1
        /\ m = "add" => LoopLeft(m, n) = 5 * left + -2
    BY <1>3 DEF LoopLeft, Creating, Opening
  <2> HIDE DEF left
  <2>3. LoopLeft(m, n) \in Nat \ {0}
    BY <1>3, <2>1, <2>2 DEF Opening
  <2>4. /\ m = "open" => LoopLeft(m, n) = 5 * left
        /\ m = "opening" => LoopLeft(m, n) = 5 * left - 1
        /\ m = "add" => LoopLeft(m, n) = 5 * left - 2
    BY <2>1, <2>2
  <2> QED
    BY <1>3, <2>2, <2>3, <2>4 DEF Opening, left
<1>4. CASE m \in {"ready", "return"}
  <2>1. 5 * (Available - n) = 0
    BY <1>1, <1>4
  <2> QED
    BY <1>4, <2>1 DEF LoopLeft, Creating, Opening
<1>5. CASE m \in {"ok", "failed", "closing", "exited"}
  BY <1>5 DEF LoopLeft, Creating, Opening
<1> QED
  BY <1>2, <1>3, <1>4, <1>5 DEF Opening

\* Where a step of the loop leads to.
LEMMA LoopGoesTo ==
  ASSUME TypeOK, Course, Loop
  PROVE  \/ main \in {"start", "tables"} \cup Opening /\ main' = "failed"
         \/ main = "start" /\ main' = "tables" /\ next' = next
         \/ main = "tables" /\ main' = "pair" /\ next' = next
         \/ main = "pair" /\ main' = "address" /\ next' = next
         \/ main = "address" /\ main' = "open" /\ next' = next
         \/ main = "open" /\ main' = "opening" /\ next' = next
         \/ main = "opening" /\ main' = "add" /\ next' = next
         \/ main = "add" /\ main' = "pair" /\ next' = next + 1
         \/ main = "add" /\ main' = "ready" /\ next' = next + 1
         \/ main = "ready" /\ main' = "return"
         \/ main = "return" /\ main' \in {"ok", "failed"}
  BY DEF Loop, Start, OpenTables, GetPair, GetIP, CheckContext, OpenNamespace, OpenFails,
     AddNamespace, CloseReady, Return, FailWith, Opening

\* CreateNAT takes at most 5 * Available + 4 steps: the safety half of that it
\* returns (nat.go:42-262).
THEOREM CreationGoesForward == Spec => CreationEnds
<1>1. NATInv /\ NATInv' /\ [Next]_vars => [LoopForward]_vars
  <2> SUFFICES ASSUME NATInv, NATInv', Next PROVE LoopForward
    OBVIOUS
  <2>1. TypeOK /\ Course
    BY DEF NATInv
  <2>2. /\ main \in {"start", "tables"} => next = 0
        /\ main \in Opening => next \in Ids
        /\ main \in {"ready", "return"} => next = Available
    BY <2>1 DEF Course
  <2>3. /\ main' \in {"start", "tables"} => next' = 0
        /\ main' \in Opening => next' \in Ids
        /\ main' \in {"ready", "return"} => next' = Available
    BY DEF NATInv, Course, Opening
  <2>4. Available \in Nat /\ \A i \in Ids : i \in Nat
    BY LoopArithmetic
  <2>5. LoopLeft(main, next) \in Nat
    <3>1. main \in {"start", "tables", "ready", "return", "ok", "failed", "closing", "exited"} \cup Opening
      BY <2>1 DEF TypeOK, Opening
    <3> QED
      BY <2>2, <3>1, LoopLeftAt
  <2>6. ASSUME Loop PROVE LoopLeft(main', next') < LoopLeft(main, next)
    <3> DEFINE l == LoopLeft(main, next)
               k == LoopLeft(main', next')
    <3>1. CASE main \in {"start", "tables"} \cup Opening /\ main' = "failed"
      BY <2>2, <2>3, <3>1, LoopLeftAt
    <3>2. CASE main = "start" /\ main' = "tables" /\ next' = next
      <4>1. l = 5 * Available + 4 /\ k = 5 * Available + 3
        BY <2>2, <2>3, <3>2, LoopLeftAt
      <4> QED
        BY <2>4, <4>1
    <3>3. CASE main = "tables" /\ main' = "pair" /\ next' = next
      <4>1. l = 5 * Available + 3 /\ k = 5 * (Available - next) + 2 /\ next = 0
        BY <2>2, <2>3, <3>3, LoopLeftAt DEF Opening
      <4> QED
        BY <2>4, <4>1
    <3>4. CASE main \in {"pair", "address", "open", "opening"} /\ next' = next
               /\ main' = (CASE main = "pair" -> "address" [] main = "address" -> "open"
                             [] main = "open" -> "opening" [] main = "opening" -> "add")
      <4>1. next \in Nat
        BY <2>2, <2>4, <3>4 DEF Opening
      <4>2. \/ l = 5 * (Available - next) + 2 /\ k = 5 * (Available - next) + 1
            \/ l = 5 * (Available - next) + 1 /\ k = 5 * (Available - next)
            \/ l = 5 * (Available - next) /\ k = 5 * (Available - next) - 1
            \/ l = 5 * (Available - next) - 1 /\ k = 5 * (Available - next) - 2
        BY <2>2, <2>3, <3>4, LoopLeftAt DEF Opening
      <4> QED
        BY <2>4, <4>1, <4>2
    <3>5. CASE main = "add" /\ main' = "pair" /\ next' = next + 1
      <4>1. l = 5 * (Available - next) - 2 /\ next \in Nat
        BY <2>2, <2>4, <3>5, LoopLeftAt DEF Opening
      <4>2. k = 5 * (Available - (next + 1)) + 2
        BY <2>3, <3>5, LoopLeftAt DEF Opening
      <4> QED
        BY <2>4, <4>1, <4>2
    <3>6. CASE main = "add" /\ main' = "ready" /\ next' = next + 1
      <4>1. l = 5 * (Available - next) - 2 /\ next \in Nat
        BY <2>2, <2>4, <3>6, LoopLeftAt DEF Opening
      <4>2. k = 2 /\ next + 1 = Available
        BY <2>3, <3>6, LoopLeftAt
      <4> QED
        BY <2>4, <4>1, <4>2
    <3>7. CASE main = "ready" /\ main' = "return"
      BY <2>2, <2>3, <3>7, LoopLeftAt
    <3>8. CASE main = "return" /\ main' \in {"ok", "failed"}
      BY <2>2, <2>3, <3>8, LoopLeftAt
    <3> QED
      BY <2>1, <2>6, <3>1, <3>2, <3>3, <3>4, <3>5, <3>6, <3>7, <3>8, LoopGoesTo
  <2>7. ASSUME ~Loop, main' # "start" PROVE next' = next /\ (main' = main \/ main' \notin Creating)
    BY <2>7 DEF Next, loopVars, Select, Background, SeeCancelled, CallClose, Cancel, Exit, Restart,
       Close, ReleasePairs, ReleaseIPs, CloseNamespace, RemoveNAT, ClaimNamespace,
       ReleaseNamespace, Creating, Opening
  <2> QED
    BY <2>5, <2>6, <2>7 DEF LoopForward
<1>2. NATInv /\ [Next]_vars => NATInv'
  BY StepInv
<1> QED
  BY <1>1, <1>2, NATInvariance, PTL DEF Spec, CreationEnds

\* The map never has more namespaces than the loop may create.
LEMMA IdsCount ==
  ASSUME TypeOK
  PROVE  /\ IsFiniteSet(ids) /\ Cardinality(ids) \in Nat /\ Cardinality(ids) <= Available
         /\ \A i \in ids : Cardinality(ids \ {i}) = Cardinality(ids) - 1
<1>1. Available \in Nat /\ Ids = 0 .. Available - 1
  BY LoopArithmetic
<1>2. IsFiniteSet(Ids) /\ Cardinality(Ids) = Available
  <2>1. 0 \in Int /\ Available - 1 \in Int
    BY <1>1
  <2>2. IsFiniteSet(0 .. Available - 1)
        /\ Cardinality(0 .. Available - 1) = IF 0 > Available - 1 THEN 0 ELSE (Available - 1) - 0 + 1
    BY <2>1, FS_Interval
  <2>3. (IF 0 > Available - 1 THEN 0 ELSE (Available - 1) - 0 + 1) = Available
    BY <1>1
  <2> QED
    BY <1>1, <2>2, <2>3
<1>3. ids \subseteq Ids
  BY DEF TypeOK
<1> QED
  BY <1>2, <1>3, FS_Subset, FS_CardinalityType, FS_RemoveElement

\* What a step that is not c's own does to a closer that has begun.
LEMMA OtherSteps ==
  ASSUME TypeOK, Course, TablesAccounted, Next, Alive, NEW c \in Closers, ~Close(c),
         stage[c] \in {"lock", "addresses", "namespaces"}
  PROVE  /\ stage'[c] = stage[c]
         /\ stage[c] = "namespaces" => ids' = ids
<1> USE DEF loopVars, poolVars, mapVars, kernelVars
<1>a. stage \in [Closers -> {"none", "new", "waiting", "ready", "lock", "addresses",
                             "namespaces", "done"}]
  BY DEF TypeOK
<1>1. WokenBy("ready")[c] = stage[c] /\ WokenBy("context")[c] = stage[c]
  BY <1>a DEF WokenBy, Closers
<1>2. CASE Loop
  <2>1. stage'[c] = stage[c]
    BY <1>1, <1>2, <1>a DEF Loop, Start, OpenTables, GetPair, GetIP, CheckContext, OpenNamespace,
       OpenFails, AddNamespace, CloseReady, Return, FailWith, Course, Closers
  <2>2. stage[c] = "namespaces" => ids' = ids
    BY <1>2 DEF Loop, Start, OpenTables, GetPair, GetIP, CheckContext, OpenNamespace,
       OpenFails, AddNamespace, CloseReady, Return, FailWith, MapLocked
  <2> QED
    BY <2>1, <2>2
<1>3. CASE Select \/ SeeCancelled
  BY <1>3, <1>a DEF Select, SeeCancelled, Background, Closers
<1>4. CASE CallClose
  BY <1>4, <1>a DEF CallClose, Course, Closers
<1>5. CASE Cancel
  BY <1>1, <1>5 DEF Cancel
<1>6. CASE Exit
  BY <1>6 DEF Exit
<1>7. CASE Restart
  BY <1>7 DEF Restart, Alive
<1>8. ASSUME NEW d \in Closers, Close(d), d # c PROVE stage'[c] = stage[c]
  BY <1>8, <1>a DEF Close, ReleasePairs, ReleaseIPs, CloseNamespace, RemoveNAT
<1>9. ASSUME NEW d \in Closers, Close(d), d # c, stage[c] = "namespaces" PROVE ids' = ids
  <2>1. stage[d] \notin {"addresses", "namespaces"}
    BY <1>9 DEF TablesAccounted
  <2> QED
    BY <1>9, <2>1 DEF Close, ReleasePairs, ReleaseIPs, CloseNamespace, RemoveNAT
<1>10. ASSUME NEW d \in Clients, ClaimNamespace(d) \/ ReleaseNamespace(d)
       PROVE  stage' = stage /\ ids' = ids
  BY <1>10 DEF ClaimNamespace, ReleaseNamespace
<1> QED
  BY <1>2, <1>3, <1>4, <1>5, <1>6, <1>7, <1>8, <1>9, <1>10 DEF Next

\* A Close that has begun takes at most Available + 3 steps, and nobody gives it
\* more: the safety half of that it returns (nat.go:104-158).
THEOREM ClosesGoForward == Spec => ClosesEnd
<1>1. NATInv /\ [Next]_vars => [CloseForward]_vars
  <2> SUFFICES ASSUME NATInv, Next, Alive, NEW c \in Closers
               PROVE  /\ CloseLeft(c) \in Nat
                      /\ Close(c) => CloseLeft(c)' < CloseLeft(c)
                      /\ stage[c] \in {"lock", "addresses", "namespaces"} /\ ~Close(c) =>
                           CloseLeft(c)' <= CloseLeft(c)
    BY DEF CloseForward
  <2>1. TypeOK /\ Course /\ TablesAccounted
    BY DEF NATInv
  <2>2. /\ Available \in Nat /\ Cardinality(ids) \in Nat /\ Cardinality(ids) <= Available
        /\ \A i \in ids : Cardinality(ids \ {i}) = Cardinality(ids) - 1
    BY <2>1, IdsCount, LoopArithmetic
  <2>3. stage \in [Closers -> {"none", "new", "waiting", "ready", "lock", "addresses",
                               "namespaces", "done"}]
    BY <2>1 DEF TypeOK
  <2>4. CloseLeft(c) \in Nat
    BY <2>2, <2>3 DEF CloseLeft
  <2>5. ASSUME Close(c) PROVE CloseLeft(c)' < CloseLeft(c)
    <3>1. CASE ReleasePairs(c)
      <4>1. CloseLeft(c) = Available + 3
        BY <3>1 DEF ReleasePairs, CloseLeft
      <4>2. CloseLeft(c)' = Available + 2
        BY <2>3, <3>1 DEF ReleasePairs, CloseLeft, Available
      <4> QED
        BY <2>2, <4>1, <4>2
    <3>2. CASE ReleaseIPs(c)
      <4>1. CloseLeft(c) = Available + 2
        BY <3>2 DEF ReleaseIPs, CloseLeft
      <4>2. CloseLeft(c)' = Cardinality(ids) + 1
        BY <2>3, <3>2 DEF ReleaseIPs, CloseLeft, mapVars
      <4> QED
        BY <2>2, <4>1, <4>2
    <3>3. CASE CloseNamespace(c)
      <4>1. CloseLeft(c) = Cardinality(ids) + 1
        BY <3>3 DEF CloseNamespace, CloseLeft
      <4>2. PICK i \in ids : ids' = ids \ {i}
        BY <3>3 DEF CloseNamespace
      <4>3. CloseLeft(c)' = Cardinality(ids \ {i}) + 1
        BY <3>3, <4>2 DEF CloseNamespace, CloseLeft
      <4> QED
        BY <2>2, <4>1, <4>3
    <3>4. CASE RemoveNAT(c)
      <4>1. CloseLeft(c) = Cardinality(ids) + 1
        BY <3>4 DEF RemoveNAT, CloseLeft
      <4>2. CloseLeft(c)' = 0
        BY <2>3, <3>4 DEF RemoveNAT, CloseLeft
      <4> QED
        BY <2>2, <4>1, <4>2
    <3> QED
      BY <2>5, <3>1, <3>2, <3>3, <3>4 DEF Close
  <2>6. ASSUME stage[c] \in {"lock", "addresses", "namespaces"}, ~Close(c)
        PROVE  CloseLeft(c)' <= CloseLeft(c)
    <3>1. stage'[c] = stage[c] /\ (stage[c] = "namespaces" => ids' = ids)
      BY <2>1, <2>6, OtherSteps
    <3>2. CloseLeft(c)' = CloseLeft(c)
      BY <2>6, <3>1 DEF CloseLeft, Available
    <3> QED
      BY <2>4, <3>2
  <2> QED
    BY <2>4, <2>5, <2>6
<1> QED
  BY <1>1, NATInvariance, PTL DEF Spec, ClosesEnd

=============================================================================
