--------------------------- MODULE ForwarderProofs ---------------------------
(***************************************************************************)
(* That the port forwarder leaves nothing behind and announces only what   *)
(* works, for any number of forwards that share rules with each other and  *)
(* with other programs, and with any calls failing.                        *)
(***************************************************************************)
EXTENDS Forwarder, FiniteSetTheorems, TLAPS

-----------------------------------------------------------------------------
\* Rules and copies.

\* How many rules a forward has.
LEMMA RulesLength ==
  /\ \A p : /\ Len(RulesOf(p)) = IF p \in Loopback THEN 3 ELSE 5
            /\ ForwardRules(p) = IF p \in Loopback THEN 0 ELSE 2
  /\ \A p \in Ports : \A k \in 1 .. Len(RulesOf(p)) : RulesOf(p)[k] \in Rules
<1>1. ASSUME NEW p, p \in Loopback
      PROVE  Len(RulesOf(p)) = 3 /\ DOMAIN RulesOf(p) = 1 .. 3 /\ ForwardRules(p) = 0
  <2>1. Len(RulesOf(p)) = 3
    BY <1>1, SMT DEF RulesOf
  <2>2. DOMAIN RulesOf(p) = 1 .. 3
    BY <1>1, SMT DEF RulesOf
  <2> QED
    BY <1>1, <2>1, <2>2 DEF ForwardRules
<1>2. ASSUME NEW p, p \notin Loopback
      PROVE  Len(RulesOf(p)) = 5 /\ DOMAIN RulesOf(p) = 1 .. 5 /\ ForwardRules(p) = 2
  <2>1. Len(RulesOf(p)) = 5
    BY <1>2, SMT DEF RulesOf
  <2>2. DOMAIN RulesOf(p) = 1 .. 5
    BY <1>2, SMT DEF RulesOf
  <2> QED
    BY <1>2, <2>1, <2>2 DEF ForwardRules
<1>3. \A p : DOMAIN RulesOf(p) = 1 .. Len(RulesOf(p))
  BY <1>1, <1>2
<1> QED
  BY <1>1, <1>2, <1>3, RulesAssumption

\* The rules that stand are finitely many.
LEMMA StandingFinite == TypeOK => Standing \subseteq Ports \X (1..5) /\ IsFiniteSet(Standing)
<1> SUFFICES ASSUME TypeOK PROVE Standing \subseteq Ports \X (1..5) /\ IsFiniteSet(Standing)
  OBVIOUS
<1>1. Standing \subseteq Ports \X (1..5)
  BY DEF TypeOK, Standing
<1>2. IsFiniteSet(1..5)
  <2>1. 1 \in Int /\ 5 \in Int
    OBVIOUS
  <2> QED
    BY <2>1, FS_Interval
<1>3. IsFiniteSet(Ports \X (1..5))
  BY <1>2, FS_Product, ConstantsAssumption
<1> QED
  BY <1>1, <1>3, FS_Subset

\* One more rule is one more copy of it.
LEMMA CopiesAdd ==
  ASSUME NEW S, IsFiniteSet(S), NEW x, x \notin S
  PROVE  \A rule : Copies(rule, S \cup {x}) =
                     Copies(rule, S) + (IF RulesOf(x[1])[x[2]] = rule THEN 1 ELSE 0)
<1> TAKE rule
<1> DEFINE T == {y \in S : RulesOf(y[1])[y[2]] = rule}
<1>1. IsFiniteSet(T) /\ Cardinality(T) \in Nat
  BY FS_Subset, FS_CardinalityType
<1>2. CASE RulesOf(x[1])[x[2]] = rule
  <2>1. {y \in S \cup {x} : RulesOf(y[1])[y[2]] = rule} = T \cup {x}
    BY <1>2
  <2>2. x \notin T
    OBVIOUS
  <2>3. Cardinality(T \cup {x}) = Cardinality(T) + 1
    BY <1>1, <2>2, FS_AddElement
  <2> QED
    BY <1>2, <2>1, <2>3 DEF Copies
<1>3. CASE RulesOf(x[1])[x[2]] # rule
  <2>1. {y \in S \cup {x} : RulesOf(y[1])[y[2]] = rule} = T
    BY <1>3
  <2>2. Copies(rule, S \cup {x}) = Copies(rule, S)
    BY <2>1 DEF Copies
  <2>3. Copies(rule, S) \in Nat
    BY <1>1 DEF Copies
  <2> QED
    BY <1>3, <2>2, <2>3
<1> QED
  BY <1>2, <1>3

\* Copies of a set of rules are a natural number, and of no rule none.
LEMMA CopiesOfRules ==
  /\ \A S, rule : IsFiniteSet(S) => Copies(rule, S) \in Nat
  /\ \A S, rule : (\A x \in S : RulesOf(x[1])[x[2]] # rule) => Copies(rule, S) = 0
<1>1. ASSUME NEW S, NEW rule, IsFiniteSet(S) PROVE Copies(rule, S) \in Nat
  BY <1>1, FS_Subset, FS_CardinalityType DEF Copies
<1>2. ASSUME NEW S, NEW rule, \A x \in S : RulesOf(x[1])[x[2]] # rule
      PROVE  Copies(rule, S) = 0
  <2>1. {x \in S : RulesOf(x[1])[x[2]] = rule} = {}
    BY <1>2
  <2> QED
    BY <2>1, FS_EmptySet DEF Copies
<1> QED
  BY <1>1, <1>2

-----------------------------------------------------------------------------
\* What a step of one forward does to the rest.

\* How many notes a forward has, and the lengths of its two groups of rules.
LEMMA Numbers ==
  ASSUME TypeOK, NEW p \in Ports
  PROVE  /\ notes[p] \in 0 .. 6
         /\ \/ p \in Loopback /\ Len(RulesOf(p)) = 3 /\ ForwardRules(p) = 0
            \/ p \notin Loopback /\ Len(RulesOf(p)) = 5 /\ ForwardRules(p) = 2
  BY RulesLength DEF TypeOK

\* There is a rule left to append in the stages that append.
LEMMA RuleLeft ==
  ASSUME TypeOK, StageNotes, NEW p \in Ports, pc[p] \in {"forward", "nat"}
  PROVE  /\ notes[p] + 1 \in 1 .. Len(RulesOf(p)) /\ notes[p] + 1 \in 1 .. 5
         /\ RulesOf(p)[notes[p] + 1] \in Rules
<1>1. notes[p] < ForwardRules(p) \/ notes[p] < Len(RulesOf(p))
  BY DEF StageNotes, NotesFit
<1>2. notes[p] \in 0 .. 6
  BY Numbers
<1>3. CASE p \in Loopback
  <2>1. Len(RulesOf(p)) = 3 /\ ForwardRules(p) = 0
    BY <1>3, RulesLength
  <2>2. notes[p] + 1 \in 1 .. 3
    BY <1>1, <1>2, <2>1
  <2>3. notes[p] + 1 \in 1 .. 5
    BY <2>2
  <2> QED
    BY <2>1, <2>2, <2>3, RulesLength
<1>4. CASE p \notin Loopback
  <2>1. Len(RulesOf(p)) = 5 /\ ForwardRules(p) = 2
    BY <1>4, RulesLength
  <2>2. notes[p] + 1 \in 1 .. 5
    BY <1>1, <1>2, <2>1
  <2> QED
    BY <2>1, <2>2, RulesLength
<1> QED
  BY <1>3, <1>4

-----------------------------------------------------------------------------
\* Each part of the invariant is preserved by each action.

\* Types.
LEMMA TypeStep ==
  TypeOK /\ StageNotes /\ [Next]_vars => TypeOK'
<1> SUFFICES ASSUME TypeOK, StageNotes, [Next]_vars
             PROVE  TypeOK'
  OBVIOUS
<1> USE DEF goroutineVars, mapVars, closeVars, TypeOK, Stages
<1>1. CASE Start
  BY <1>1 DEF Start
<1>2. CASE MapReturns
  BY <1>2 DEF MapReturns
<1>3. CASE CloseReturns
  BY <1>3 DEF CloseReturns
<1>4. CASE Close
  BY <1>4 DEF Close
<1>5. CASE Cancel
  <2>1. cancelled' \in BOOLEAN
    BY <1>5 DEF Cancel
  <2> QED
    BY <1>5, <2>1 DEF Cancel
<1>6. ASSUME NEW p \in Ports, CheckContext(p) PROVE TypeOK'
  <2>1. pc' \in [Ports -> Stages]
    BY <1>6 DEF CheckContext, Continue, Goto
  <2>2. failed' \in [Ports -> BOOLEAN]
    BY <1>6 DEF CheckContext, Continue
  <2> QED
    BY <1>6, <2>1, <2>2 DEF CheckContext
<1>7. ASSUME NEW p \in Ports, LookUp(p) PROVE TypeOK'
  <2>1. pc' \in [Ports -> Stages]
    BY <1>7 DEF LookUp, Continue, Goto
  <2>2. failed' \in [Ports -> BOOLEAN]
    BY <1>7 DEF LookUp, Continue
  <2> QED
    BY <1>7, <2>1, <2>2 DEF LookUp
<1>8. ASSUME NEW p \in Ports, AppendRule(p) PROVE TypeOK'
  <2>1. AfterRule(p) \in Stages
    BY <1>8 DEF AfterRule
  <2>2. pc' \in [Ports -> Stages]
    BY <1>8, <2>1 DEF AppendRule, Continue, Goto
  <2>3. failed' \in [Ports -> BOOLEAN]
    BY <1>8 DEF AppendRule, Continue, Outcome
  <2>5. notes[p] + 1 \in 1 .. 5 /\ RulesOf(p)[notes[p] + 1] \in Rules
    BY <1>8, RuleLeft DEF AppendRule
  <2>4. table' \in [Rules -> Nat]
    BY <1>8, <2>5 DEF AppendRule
  <2>6. notes' \in [Ports -> 0 .. 6]
    BY <1>8, <2>5 DEF AppendRule
  <2> QED
    BY <1>8, <2>2, <2>3, <2>4, <2>6 DEF AppendRule
<1>9. ASSUME NEW p \in Ports, Report(p) PROVE TypeOK'
  <2>a. /\ notes[p] \in 0 .. 6
        /\ \/ p \in Loopback /\ Len(RulesOf(p)) = 3 /\ ForwardRules(p) = 0
           \/ p \notin Loopback /\ Len(RulesOf(p)) = 5 /\ ForwardRules(p) = 2
    BY Numbers
  <2>b. notes[p] = Len(RulesOf(p))
    BY <1>9 DEF Report, Goto, StageNotes, NotesFit
  <2>1. notes[p] + 1 \in 0 .. 6
    BY <2>a, <2>b
  <2>2. notes' \in [Ports -> 0 .. 6] /\ reported' \subseteq Ports
    BY <1>9, <2>1 DEF Report
  <2> QED
    BY <1>9, <2>2 DEF Report, Goto
<1>10. ASSUME NEW p \in Ports, Publish(p) PROVE TypeOK'
  <2>1. defers' \in Seq(Ports)
    BY <1>10 DEF Publish
  <2> QED
    BY <1>10, <2>1 DEF Publish, Goto
<1>11. ASSUME NEW p \in Ports, JoinError(p) PROVE TypeOK'
  <2>1. errs' \in BOOLEAN
    BY <1>11 DEF JoinError
  <2> QED
    BY <1>11, <2>1 DEF JoinError, Goto
<1>12. ASSUME NEW p \in Ports, Unforward(p) PROVE TypeOK'
  <2>1. notes[p] - 1 \in 0 .. 6
    BY <1>12 DEF Unforward, Turn
  <2> QED
    BY <1>12, <2>1 DEF Unforward
<1>13. ASSUME NEW p \in Ports, DeleteRule(p) PROVE TypeOK'
  <2>a. /\ notes[p] \in 0 .. 6
        /\ \/ p \in Loopback /\ Len(RulesOf(p)) = 3 /\ ForwardRules(p) = 0
           \/ p \notin Loopback /\ Len(RulesOf(p)) = 5 /\ ForwardRules(p) = 2
    BY Numbers
  <2>1. notes[p] - 1 \in 0 .. 6 /\ notes[p] \in 1 .. 5
    BY <1>13, <2>a DEF DeleteRule, Turn
  <2>2. table' \in [Rules -> Nat]
    <3>1. \A n \in Nat : n > 0 => n - 1 \in Nat
      OBVIOUS
    <3>2. notes[p] \in 1 .. Len(RulesOf(p))
      BY <1>13, <2>1 DEF DeleteRule
    <3>3. RulesOf(p)[notes[p]] \in Rules
      BY <3>2, RulesLength
    <3> QED
      BY <1>13, <3>1, <3>3 DEF DeleteRule
  <2>3. stuck' \subseteq Ports \X (1 .. 5)
    BY <1>13, <2>1 DEF DeleteRule
  <2> QED
    BY <1>13, <2>1, <2>2, <2>3 DEF DeleteRule
<1>14. CASE UNCHANGED vars
  BY <1>14 DEF vars
<1> QED
  BY <1>1, <1>2, <1>3, <1>4, <1>5, <1>6, <1>7, <1>8, <1>9, <1>10, <1>11, <1>12, <1>13,
     <1>14 DEF Next, Goroutine, Main

\* Notes and stages: what happens to one forward.
LEMMA StageOfOne ==
  ASSUME StageNotes, NEW p \in Ports, NotesFit(p)',
         \A q \in Ports \ {p} : /\ pc'[q] = pc[q] /\ notes'[q] = notes[q]
                                /\ q \in reported' <=> q \in reported
  PROVE  StageNotes'
<1> SUFFICES ASSUME NEW q \in Ports, q # p PROVE NotesFit(q)'
  BY DEF StageNotes
<1>1. NotesFit(q)
  BY DEF StageNotes
<1>2. q \in Ports \ {p}
  OBVIOUS
<1>3. pc'[q] = pc[q] /\ notes'[q] = notes[q]
  BY <1>2
<1>4. q \in reported' <=> q \in reported
  BY <1>2
<1> QED
  BY <1>1, <1>3, <1>4 DEF NotesFit

LEMMA StageStep ==
  TypeOK /\ StageNotes /\ MapFirst /\ [Next]_vars => StageNotes'
<1> SUFFICES ASSUME TypeOK, StageNotes, MapFirst, [Next]_vars
             PROVE  StageNotes'
  OBVIOUS
<1> USE DEF goroutineVars, mapVars, closeVars
<1>1. CASE Start
  BY <1>1 DEF Start, StageNotes, NotesFit
<1>2. CASE MapReturns
  BY <1>2 DEF MapReturns, StageNotes, NotesFit
<1>3. CASE CloseReturns
  BY <1>3 DEF CloseReturns, StageNotes, NotesFit
<1>4. CASE Close
  BY <1>4 DEF Close, StageNotes, NotesFit
<1>5. CASE Cancel
  BY <1>5 DEF Cancel, StageNotes, NotesFit
<1>6. ASSUME NEW p \in Ports, CheckContext(p) PROVE StageNotes'
  <2>1. NotesFit(p) /\ pc[p] \in Stages /\ pc \in [Ports -> Stages] /\ notes \in [Ports -> 0 .. 6]
    BY DEF StageNotes, TypeOK
  <2>2. \A q \in Ports \ {p} : /\ pc'[q] = pc[q] /\ notes'[q] = notes[q]
                               /\ q \in reported' <=> q \in reported
    BY <1>6, <2>1 DEF CheckContext, Continue, Goto
  <2> SUFFICES NotesFit(p)'
    BY <2>2, StageOfOne
  <2>3. \/ pc[p] = "begin" /\ pc'[p] \in {"lookup", "leave"}
        \/ pc[p] = "second" /\ p \in Loopback /\ pc'[p] \in {"third", "leave"}
        \/ pc[p] = "second" /\ p \notin Loopback /\ pc'[p] \in {"forward", "leave"}
        \/ pc[p] = "third" /\ pc'[p] \in {"nat", "leave"}
    BY <1>6, <2>1 DEF CheckContext, Continue, Goto
  <2>4. notes'[p] = notes[p] /\ (p \in reported' <=> p \in reported)
    BY <1>6 DEF CheckContext
  <2>6. /\ p \in Loopback => ForwardRules(p) = 0 /\ Len(RulesOf(p)) = 3
        /\ p \notin Loopback => ForwardRules(p) = 2 /\ Len(RulesOf(p)) = 5
    BY RulesLength
  <2>7. CASE pc[p] = "third"
    <3>1. pc'[p] \in {"nat", "leave"} /\ notes[p] = ForwardRules(p)
      BY <2>1, <2>3, <2>7 DEF NotesFit
    <3>2. ForwardRules(p) <= notes[p] /\ notes[p] < Len(RulesOf(p))
      BY <3>1, <2>6
    <3> QED
      BY <2>1, <2>4, <3>1, <3>2 DEF NotesFit
  <2>8. CASE pc[p] # "third"
    <3>1. notes[p] = 0
      BY <2>1, <2>3, <2>8 DEF NotesFit
    <3>2. p \in Loopback => notes[p] = ForwardRules(p)
      BY <3>1, <2>6
    <3>3. p \notin Loopback => notes[p] < ForwardRules(p)
      BY <3>1, <2>6
    <3> QED
      BY <2>1, <2>3, <2>4, <2>8, <3>1, <3>2, <3>3 DEF NotesFit
  <2> QED
    BY <2>7, <2>8
<1>7. ASSUME NEW p \in Ports, LookUp(p) PROVE StageNotes'
  <2>1. NotesFit(p) /\ pc[p] \in Stages /\ pc \in [Ports -> Stages] /\ notes \in [Ports -> 0 .. 6]
    BY DEF StageNotes, TypeOK
  <2>2. \A q \in Ports \ {p} : /\ pc'[q] = pc[q] /\ notes'[q] = notes[q]
                               /\ q \in reported' <=> q \in reported
    BY <1>7, <2>1 DEF LookUp, Continue, Goto
  <2> SUFFICES NotesFit(p)'
    BY <2>2, StageOfOne
  <2>3. pc[p] = "lookup" /\ pc'[p] \in {"second", "leave"}
    BY <1>7, <2>1 DEF LookUp, Continue, Goto
  <2>4. notes'[p] = notes[p] /\ (p \in reported' <=> p \in reported)
    BY <1>7 DEF LookUp
  <2> QED
    BY <2>1, <2>3, <2>4 DEF NotesFit
<1>8. ASSUME NEW p \in Ports, AppendRule(p) PROVE StageNotes'
  <2>1. NotesFit(p) /\ pc[p] \in Stages /\ pc \in [Ports -> Stages] /\ notes \in [Ports -> 0 .. 6]
    BY DEF StageNotes, TypeOK
  <2>2. \A q \in Ports \ {p} : /\ pc'[q] = pc[q] /\ notes'[q] = notes[q]
                               /\ q \in reported' <=> q \in reported
    BY <1>8, <2>1 DEF AppendRule, Continue, Goto
  <2> SUFFICES NotesFit(p)'
    BY <2>2, StageOfOne
  <2>3. \/ pc'[p] = "leave" /\ notes'[p] = notes[p]
        \/ pc'[p] = AfterRule(p) /\ notes'[p] = notes[p] + 1
    BY <1>8, <2>1 DEF AppendRule, Continue, Goto
  <2>4. pc[p] \in {"forward", "nat"} /\ (p \in reported' <=> p \in reported)
    BY <1>8 DEF AppendRule
  <2>6. notes[p] \in Nat /\ notes[p] <= Len(RulesOf(p)) /\ p \notin reported'
    <3>1. notes[p] + 1 \in 1 .. Len(RulesOf(p)) /\ notes[p] \in 0 .. 6 /\ Len(RulesOf(p)) \in Nat
      BY <2>4, RuleLeft, Numbers
    <3>2. notes[p] \in Nat /\ notes[p] <= Len(RulesOf(p)) /\ ~(notes[p] > Len(RulesOf(p)))
      BY <3>1
    <3> QED
      BY <2>1, <2>4, <3>2 DEF NotesFit
  <2>7. CASE pc'[p] = "leave" /\ notes'[p] = notes[p]
    BY <2>1, <2>4, <2>7 DEF NotesFit
  <2>8. CASE pc'[p] = AfterRule(p) /\ notes'[p] = notes[p] + 1
    <3>1. CASE p \in Loopback
      <4>1. ForwardRules(p) = 0 /\ Len(RulesOf(p)) = 3
        BY <3>1, RulesLength
      <4>2. pc[p] = "nat" /\ notes[p] < 3
        BY <2>1, <2>4, <2>6, <4>1 DEF NotesFit
      <4> QED
        BY <2>6, <2>8, <4>1, <4>2 DEF NotesFit, AfterRule
    <3>2. CASE p \notin Loopback
      <4>1. ForwardRules(p) = 2 /\ Len(RulesOf(p)) = 5
        BY <3>2, RulesLength
      <4>2. \/ pc[p] = "nat" /\ 2 <= notes[p] /\ notes[p] < 5
            \/ pc[p] = "forward" /\ notes[p] < 2
        <5>1. CASE pc[p] = "nat"
          BY <2>1, <4>1, <5>1 DEF NotesFit
        <5>2. CASE pc[p] = "forward"
          BY <2>1, <4>1, <5>2 DEF NotesFit
        <5> QED
          BY <2>4, <5>1, <5>2
      <4> QED
        BY <2>6, <2>8, <4>1, <4>2 DEF NotesFit, AfterRule
    <3> QED
      BY <3>1, <3>2
  <2> QED
    BY <2>3, <2>7, <2>8
<1>9. ASSUME NEW p \in Ports, Report(p) PROVE StageNotes'
  <2>1. NotesFit(p) /\ pc[p] \in Stages /\ pc \in [Ports -> Stages] /\ notes \in [Ports -> 0 .. 6]
    BY DEF StageNotes, TypeOK
  <2>2. \A q \in Ports \ {p} : /\ pc'[q] = pc[q] /\ notes'[q] = notes[q]
                               /\ q \in reported' <=> q \in reported
    BY <1>9, <2>1 DEF Report, Goto
  <2> SUFFICES NotesFit(p)'
    BY <2>2, StageOfOne
  <2>3. /\ pc[p] = "report" /\ pc'[p] = "leave"
        /\ notes'[p] = notes[p] + 1 /\ p \in reported'
    BY <1>9, <2>1 DEF Report, Goto
  <2> QED
    BY <2>1, <2>3, Numbers DEF NotesFit
<1>10. ASSUME NEW p \in Ports, Publish(p) PROVE StageNotes'
  <2>1. NotesFit(p) /\ pc[p] \in Stages /\ pc \in [Ports -> Stages] /\ notes \in [Ports -> 0 .. 6]
    BY DEF StageNotes, TypeOK
  <2>2. \A q \in Ports \ {p} : /\ pc'[q] = pc[q] /\ notes'[q] = notes[q]
                               /\ q \in reported' <=> q \in reported
    BY <1>10, <2>1 DEF Publish, Goto
  <2> SUFFICES NotesFit(p)'
    BY <2>2, StageOfOne
  <2>3. /\ pc'[p] = "done" /\ notes'[p] = notes[p]
        /\ p \in reported' <=> p \in reported
    BY <1>10, <2>1 DEF Publish, Goto
  <2> QED
    BY <2>1, <2>3 DEF NotesFit
<1>11. ASSUME NEW p \in Ports, JoinError(p) PROVE StageNotes'
  <2>1. NotesFit(p) /\ pc[p] \in Stages /\ pc \in [Ports -> Stages] /\ notes \in [Ports -> 0 .. 6]
    BY DEF StageNotes, TypeOK
  <2>2. \A q \in Ports \ {p} : /\ pc'[q] = pc[q] /\ notes'[q] = notes[q]
                               /\ q \in reported' <=> q \in reported
    BY <1>11, <2>1 DEF JoinError, Goto
  <2> SUFFICES NotesFit(p)'
    BY <2>2, StageOfOne
  <2>3. /\ pc'[p] = "joined" /\ notes'[p] = notes[p]
        /\ p \in reported' <=> p \in reported
    BY <1>11, <2>1 DEF JoinError, Goto
  <2> QED
    BY <2>1, <2>3 DEF NotesFit
<1>12. ASSUME NEW p \in Ports, Unforward(p) PROVE StageNotes'
  <2>1. NotesFit(p) /\ pc[p] \in Stages /\ pc \in [Ports -> Stages] /\ notes \in [Ports -> 0 .. 6]
    BY DEF StageNotes, TypeOK
  <2>2. \A q \in Ports \ {p} : /\ pc'[q] = pc[q] /\ notes'[q] = notes[q]
                               /\ q \in reported' <=> q \in reported
    BY <1>12, <2>1 DEF Unforward
  <2> SUFFICES NotesFit(p)'
    BY <2>2, StageOfOne
  <2>3. pc'[p] \in {"done", "joined"}
    BY <1>12 DEF Unforward, Closing, MapFirst, Done
  <2>4. /\ notes[p] > 0 /\ notes'[p] = notes[p] - 1
        /\ notes[p] > Len(RulesOf(p)) /\ p \notin reported'
    BY <1>12, <2>1 DEF Unforward, Turn
  <2> QED
    BY <2>1, <2>3, <2>4, Numbers DEF NotesFit
<1>13. ASSUME NEW p \in Ports, DeleteRule(p) PROVE StageNotes'
  <2>1. NotesFit(p) /\ pc[p] \in Stages /\ pc \in [Ports -> Stages] /\ notes \in [Ports -> 0 .. 6]
    BY DEF StageNotes, TypeOK
  <2>2. \A q \in Ports \ {p} : /\ pc'[q] = pc[q] /\ notes'[q] = notes[q]
                               /\ q \in reported' <=> q \in reported
    BY <1>13, <2>1 DEF DeleteRule
  <2> SUFFICES NotesFit(p)'
    BY <2>2, StageOfOne
  <2>3. pc'[p] \in {"done", "joined"}
    BY <1>13 DEF DeleteRule, Closing, MapFirst, Done
  <2>4. /\ notes[p] > 0 /\ notes'[p] = notes[p] - 1
        /\ notes[p] <= Len(RulesOf(p)) /\ (p \in reported' <=> p \in reported)
    BY <1>13, <2>1 DEF DeleteRule, Turn
  <2> QED
    BY <2>1, <2>3, <2>4, Numbers DEF NotesFit
<1>14. CASE UNCHANGED vars
  BY <1>14 DEF vars, StageNotes, NotesFit
<1> QED
  BY <1>1, <1>2, <1>3, <1>4, <1>5, <1>6, <1>7, <1>8, <1>9, <1>10, <1>11, <1>12, <1>13,
     <1>14 DEF Next, Goroutine, Main

\* A forward that still appends or reports is not undone: nothing is stuck.
LEMMA NotYetUndone ==
  ASSUME TypeOK, MapFirst, NEW p \in Ports, ~Done(p), pc[p] # "begin"
  PROVE  main = "mapping" /\ stuck = {}
<1>1. main \notin {"start", "failed", "undoing", "forwarding", "closing", "closed"}
  BY DEF MapFirst
<1> QED
  BY <1>1 DEF TypeOK, MapFirst

\* The order of the goroutines and of their caller.
LEMMA MapStep ==
  TypeOK /\ StageNotes /\ MapFirst /\ [Next]_vars => MapFirst'
<1> SUFFICES ASSUME TypeOK, StageNotes, MapFirst, [Next]_vars
             PROVE  MapFirst'
  OBVIOUS
<1> USE DEF goroutineVars, mapVars, closeVars
<1>a. pc \in [Ports -> Stages] /\ notes \in [Ports -> 0 .. 6] /\ defers \in Seq(Ports)
  BY DEF TypeOK
<1>1. CASE Start
  <2>1. \A p \in Ports : pc[p] = "begin" /\ notes[p] = 0
    BY <1>1 DEF Start, MapFirst, StageNotes, NotesFit
  <2>2. stuck = {} /\ main' \in {"mapping", "failed"}
    BY <1>1 DEF Start, MapFirst
  <2> QED
    BY <1>1, <2>1, <2>2 DEF Start, MapFirst, Done
<1>2. CASE MapReturns
  <2>1. main' \in {"undoing", "forwarding"} /\ stuck = {}
    BY <1>2 DEF MapReturns, MapFirst
  <2>2. \A p \in Ports : Done(p)' /\ p \in ToSet(deferFuncs)' /\ p \in ToSet(defers)'
    BY <1>2 DEF MapReturns, MapFirst, Done
  <2> QED
    BY <1>2, <2>1, <2>2 DEF MapReturns, MapFirst
<1>3. CASE CloseReturns
  <2>1. main' \in {"failed", "closed"} /\ main \in {"undoing", "closing"}
    BY <1>3 DEF CloseReturns
  <2>2. ASSUME NEW p \in Ports PROVE Done(p) /\ p \in ToSet(deferFuncs) /\ notes[p] = 0
    <3>1. Done(p) /\ p \in ToSet(deferFuncs)
      BY <2>1 DEF MapFirst
    <3>2. PICK i \in DOMAIN deferFuncs : deferFuncs[i] = p
      BY <3>1 DEF ToSet
    <3> QED
      BY <1>3, <3>1, <3>2 DEF CloseReturns
  <2> QED
    BY <1>3, <2>1, <2>2 DEF CloseReturns, MapFirst, Done
<1>4. CASE Close
  BY <1>4 DEF Close, MapFirst, Done
<1>5. CASE Cancel
  BY <1>5 DEF Cancel, MapFirst, Done
<1>6. ASSUME NEW p \in Ports, CheckContext(p) PROVE MapFirst'
  <2>1. main = "mapping" /\ stuck = {} /\ ~Done(p)
    BY <1>6 DEF CheckContext, Continue, Goto, MapFirst, Done
  <2>2. UNCHANGED <<main, defers, deferFuncs, stuck>>
    BY <1>6 DEF CheckContext
  <2>3. \A q \in Ports : Done(q)' => Done(q)
    BY <1>6, <1>a, <2>1 DEF CheckContext, Continue, Goto, Done
  <2> QED
    BY <2>1, <2>2, <2>3 DEF MapFirst
<1>7. ASSUME NEW p \in Ports, LookUp(p) PROVE MapFirst'
  <2>0. pc[p] # "begin" /\ ~Done(p)
    BY <1>7 DEF LookUp, Continue, Goto, Done
  <2>1. main = "mapping" /\ stuck = {} /\ ~Done(p)
    BY <2>0, NotYetUndone
  <2>2. UNCHANGED <<main, defers, deferFuncs, stuck>>
    BY <1>7 DEF LookUp
  <2>3. \A q \in Ports : Done(q)' => Done(q)
    BY <1>7, <1>a, <2>1 DEF LookUp, Continue, Goto, Done
  <2> QED
    BY <2>1, <2>2, <2>3 DEF MapFirst
<1>8. ASSUME NEW p \in Ports, AppendRule(p) PROVE MapFirst'
  <2>0. pc[p] # "begin" /\ ~Done(p)
    BY <1>8 DEF AppendRule, Continue, Goto, Done
  <2>1. main = "mapping" /\ stuck = {} /\ ~Done(p)
    BY <2>0, NotYetUndone
  <2>2. UNCHANGED <<main, defers, deferFuncs, stuck>>
    BY <1>8 DEF AppendRule
  <2>3. \A q \in Ports : Done(q)' => Done(q)
    BY <1>8, <1>a, <2>1 DEF AppendRule, Continue, Goto, AfterRule, Done
  <2> QED
    BY <2>1, <2>2, <2>3 DEF MapFirst
<1>9. ASSUME NEW p \in Ports, Report(p) PROVE MapFirst'
  <2>0. pc[p] # "begin" /\ ~Done(p)
    BY <1>9 DEF Report, Goto, Done
  <2>1. main = "mapping" /\ stuck = {} /\ ~Done(p)
    BY <2>0, NotYetUndone
  <2>2. UNCHANGED <<main, defers, deferFuncs, stuck>>
    BY <1>9 DEF Report
  <2>3. \A q \in Ports : Done(q)' => Done(q)
    BY <1>9, <1>a, <2>1 DEF Report, Goto, Done
  <2> QED
    BY <2>1, <2>2, <2>3 DEF MapFirst
<1>10. ASSUME NEW p \in Ports, Publish(p) PROVE MapFirst'
  <2>1. main = "mapping" /\ stuck = {}
    BY <1>10, NotYetUndone DEF Publish, Goto, Done
  <2>2. UNCHANGED <<main, deferFuncs, stuck>>
    BY <1>10 DEF Publish
  <2>3. ToSet(defers') = ToSet(defers) \cup {p}
    <3>1. defers' = Append(defers, p)
      BY <1>10 DEF Publish
    <3> QED
      BY <1>a, <3>1 DEF ToSet
  <2>4. \A q \in Ports : Done(q)' => Done(q) \/ q = p
    BY <1>10, <1>a DEF Publish, Goto, Done
  <2> QED
    BY <2>1, <2>2, <2>3, <2>4 DEF MapFirst
<1>11. ASSUME NEW p \in Ports, JoinError(p) PROVE MapFirst'
  <2>1. UNCHANGED <<main, defers, deferFuncs, stuck, notes>>
    BY <1>11 DEF JoinError
  <2>2. \A q \in Ports : (Done(q)' <=> Done(q)) /\ (pc'[q] = "begin" <=> pc[q] = "begin")
    BY <1>11, <1>a DEF JoinError, Goto, Done
  <2> QED
    BY <2>1, <2>2 DEF MapFirst, Done
<1>12. ASSUME NEW p \in Ports, Unforward(p) PROVE MapFirst'
  <2>1. main \in {"undoing", "closing"}
    BY <1>12 DEF Unforward, Closing
  <2>2. UNCHANGED <<main, pc, defers, deferFuncs>>
    BY <1>12 DEF Unforward
  <2>3. \A x \in stuck' : x[2] > notes'[x[1]]
    <3>1. notes[p] \in 1 .. 6 /\ notes' = [notes EXCEPT ![p] = notes[p] - 1]
      BY <1>12, <1>a DEF Unforward, Turn
    <3>2. stuck' = stuck
      BY <1>12 DEF Unforward
    <3> SUFFICES ASSUME NEW x \in stuck PROVE x[2] > notes'[x[1]]
      BY <3>2
    <3>3. x[1] \in Ports /\ x[2] \in 1 .. 5 /\ x[2] > notes[x[1]]
      BY DEF TypeOK, MapFirst
    <3>4. notes'[x[1]] \in Int /\ notes'[x[1]] <= notes[x[1]] /\ notes[x[1]] \in Int
      BY <1>a, <3>1, <3>3
    <3> QED
      BY <3>3, <3>4
  <2> QED
    BY <2>1, <2>2, <2>3 DEF MapFirst, Done
<1>13. ASSUME NEW p \in Ports, DeleteRule(p) PROVE MapFirst'
  <2>1. main \in {"undoing", "closing"}
    BY <1>13 DEF DeleteRule, Closing
  <2>2. UNCHANGED <<main, pc, defers, deferFuncs>>
    BY <1>13 DEF DeleteRule
  <2>3. \A x \in stuck' : x[2] > notes'[x[1]]
    <3>1. notes[p] \in 1 .. 6 /\ notes' = [notes EXCEPT ![p] = notes[p] - 1]
      BY <1>13, <1>a DEF DeleteRule, Turn
    <3>2. \A x \in stuck' : x \in stuck \/ x = <<p, notes[p]>>
      BY <1>13 DEF DeleteRule
    <3>3. ASSUME NEW x \in stuck PROVE x[2] > notes'[x[1]]
      <4>1. x[1] \in Ports /\ x[2] \in 1 .. 5 /\ x[2] > notes[x[1]]
        BY DEF TypeOK, MapFirst
      <4>2. notes'[x[1]] \in Int /\ notes'[x[1]] <= notes[x[1]] /\ notes[x[1]] \in Int
        BY <1>a, <3>1, <4>1
      <4> QED
        BY <4>1, <4>2
    <3>4. notes[p] > notes'[p]
      BY <1>a, <3>1
    <3> QED
      BY <3>2, <3>3, <3>4
  <2> QED
    BY <2>1, <2>2, <2>3 DEF MapFirst, Done
<1>14. CASE UNCHANGED vars
  BY <1>14 DEF vars, MapFirst, Done
<1> QED
  BY <1>1, <1>2, <1>3, <1>4, <1>5, <1>6, <1>7, <1>8, <1>9, <1>10, <1>11, <1>12, <1>13,
     <1>14 DEF Next, Goroutine, Main

-----------------------------------------------------------------------------
\* The rules that stand after each action.

\* Notes of a forward that are not of its rules do not count.
LEMMA SameStanding ==
  ASSUME TypeOK, TypeOK', NEW p \in Ports, stuck' = stuck,
         \A q \in Ports \ {p} : notes'[q] = notes[q],
         \A k \in 1 .. 5 : (k <= notes'[p] /\ k <= Len(RulesOf(p))) <=>
                           (k <= notes[p] /\ k <= Len(RulesOf(p)))
  PROVE  Standing' = Standing
<1>1. ASSUME NEW x \in Ports \X (1 .. 5)
      PROVE  (x[2] <= notes'[x[1]] /\ x[2] <= Len(RulesOf(x[1]))) <=>
             (x[2] <= notes[x[1]] /\ x[2] <= Len(RulesOf(x[1])))
  <2>1. x[1] \in Ports /\ x[2] \in 1 .. 5
    OBVIOUS
  <2> QED
    BY <2>1
<1> QED
  BY <1>1 DEF Standing

\* The next rule of a forward stands after it is appended, and not before.
LEMMA OneMore ==
  ASSUME TypeOK, NEW p \in Ports, stuck = {}, stuck' = {},
         notes' = [notes EXCEPT ![p] = notes[p] + 1],
         notes[p] + 1 \in 1 .. 5, notes[p] + 1 <= Len(RulesOf(p))
  PROVE  /\ <<p, notes[p] + 1>> \notin Standing
         /\ Standing' = Standing \cup {<<p, notes[p] + 1>>}
<1> DEFINE n == notes[p]
<1>1. n \in 0 .. 6 /\ notes \in [Ports -> 0 .. 6] /\ Len(RulesOf(p)) \in Nat
  BY Numbers DEF TypeOK
<1>2. notes'[p] = n + 1 /\ \A q \in Ports \ {p} : notes'[q] = notes[q]
  BY <1>1
<1>3. <<p, n + 1>> \notin Standing
  <2>1. ~(n + 1 <= n)
    BY <1>1
  <2> QED
    BY <2>1 DEF Standing
<1>4. \A k \in 1 .. 5 : k <= n + 1 <=> k <= n \/ k = n + 1
  BY <1>1
<1>5. ASSUME NEW x \in Ports \X (1 .. 5)
      PROVE  (x[2] <= notes'[x[1]] /\ x[2] <= Len(RulesOf(x[1]))) <=>
             ((x[2] <= notes[x[1]] /\ x[2] <= Len(RulesOf(x[1]))) \/ x = <<p, n + 1>>)
  <2>1. x[1] \in Ports /\ x[2] \in 1 .. 5 /\ x = <<x[1], x[2]>>
    OBVIOUS
  <2>2. CASE x[1] # p
    BY <1>2, <2>1, <2>2
  <2>3. CASE x[1] = p
    <3>1. x = <<p, n + 1>> <=> x[2] = n + 1
      BY <2>1, <2>3
    <3>2. x[2] <= notes'[x[1]] <=> x[2] <= n \/ x[2] = n + 1
      BY <1>2, <1>4, <2>1, <2>3
    <3> QED
      BY <2>3, <3>1, <3>2
  <2> QED
    BY <2>2, <2>3
<1>6. <<p, n + 1>> \in Ports \X (1 .. 5)
  OBVIOUS
<1>7. Standing' = Standing \cup {<<p, n + 1>>}
  BY <1>5, <1>6 DEF Standing
<1> QED
  BY <1>3, <1>7

\* A rule that is noted has a number.
LEMMA RuleNoted ==
  ASSUME TypeOK, NEW p \in Ports, 0 < notes[p], notes[p] <= Len(RulesOf(p))
  PROVE  notes[p] \in 1 .. 5
<1>1. CASE p \in Loopback
  <2>1. Len(RulesOf(p)) = 3 /\ notes[p] \in 0 .. 6
    BY <1>1, RulesLength, Numbers
  <2> QED
    BY <2>1
<1>2. CASE p \notin Loopback
  <2>1. Len(RulesOf(p)) = 5 /\ notes[p] \in 0 .. 6
    BY <1>2, RulesLength, Numbers
  <2> QED
    BY <2>1
<1> QED
  BY <1>1, <1>2

\* The last rule of a forward stands before it is deleted, and not after.
LEMMA OneLess ==
  ASSUME TypeOK, MapFirst, NEW p \in Ports, 0 < notes[p], notes[p] <= Len(RulesOf(p)),
         notes' = [notes EXCEPT ![p] = notes[p] - 1]
  PROVE  /\ <<p, notes[p]>> \in Standing
         /\ stuck' = stuck => /\ <<p, notes[p]>> \notin Standing'
                              /\ Standing = Standing' \cup {<<p, notes[p]>>}
         /\ stuck' = stuck \cup {<<p, notes[p]>>} => Standing' = Standing
<1> DEFINE n == notes[p]
<1>1. n \in 1 .. 5 /\ notes \in [Ports -> 0 .. 6] /\ Len(RulesOf(p)) \in Nat
  BY RuleNoted, RulesLength DEF TypeOK
<1>2. notes'[p] = n - 1 /\ \A q \in Ports \ {p} : notes'[q] = notes[q]
  BY <1>1
<1>3. <<p, n>> \in Standing
  BY <1>1 DEF Standing
<1>4. <<p, n>> \notin stuck
  <2>1. ~(n > n)
    BY <1>1
  <2> QED
    BY <2>1 DEF MapFirst
<1>5. ASSUME NEW x \in Ports \X (1 .. 5)
      PROVE  /\ ~(n <= n - 1)
             /\ (x[2] <= notes[x[1]] /\ x[2] <= Len(RulesOf(x[1]))) <=>
                  ((x[2] <= notes'[x[1]] /\ x[2] <= Len(RulesOf(x[1]))) \/ x = <<p, n>>)
  <2>1. x[1] \in Ports /\ x[2] \in 1 .. 5 /\ x = <<x[1], x[2]>>
    OBVIOUS
  <2>2. CASE x[1] # p
    BY <1>1, <1>2, <2>1, <2>2
  <2>3. CASE x[1] = p
    <3>1. x = <<p, n>> <=> x[2] = n
      BY <2>1, <2>3
    <3>2. x[2] <= n <=> x[2] <= n - 1 \/ x[2] = n
      BY <1>1, <2>1
    <3>3. ~(n <= n - 1)
      BY <1>1
    <3> QED
      BY <1>2, <2>3, <3>1, <3>2, <3>3
  <2> QED
    BY <2>2, <2>3
<1>6. ASSUME stuck' = stuck
      PROVE  <<p, n>> \notin Standing' /\ Standing = Standing' \cup {<<p, n>>}
  <2>1. <<p, n>> \in Ports \X (1 .. 5) /\ ~(n <= notes'[p])
    BY <1>1, <1>2
  <2>2. <<p, n>> \notin Standing'
    BY <1>4, <1>6, <2>1 DEF Standing
  <2>3. Standing = Standing' \cup {<<p, n>>}
    BY <1>5, <1>6, <2>1 DEF Standing
  <2> QED
    BY <2>2, <2>3
<1>7. ASSUME stuck' = stuck \cup {<<p, n>>}
      PROVE  Standing' = Standing
  <2>1. <<p, n>> \in Ports \X (1 .. 5)
    BY <1>1
  <2> QED
    BY <1>5, <1>7, <2>1 DEF Standing
<1> QED
  BY <1>3, <1>6, <1>7

-----------------------------------------------------------------------------
\* The account of the host's rules.

\* Nothing changes in the table, and nothing in what stands.
LEMMA SameAccount ==
  ASSUME Accounted, table' = table, Standing' = Standing
  PROVE  Accounted'
<1>1. \A rule : Copies(rule, Standing)' = Copies(rule, Standing)
  BY DEF Copies
<1> QED
  BY <1>1 DEF Accounted

\* One rule more in the table, and one more that stands.
LEMMA AppendAccount ==
  ASSUME TypeOK, TypeOK', Accounted, NEW x, x \notin Standing, Standing' = Standing \cup {x},
         RulesOf(x[1])[x[2]] \in Rules,
         table' = [table EXCEPT ![RulesOf(x[1])[x[2]]] = @ + 1]
  PROVE  Accounted'
<1> SUFFICES ASSUME NEW rule \in Rules
             PROVE  table'[rule] = Others[rule] + Copies(rule, Standing')
  BY DEF Accounted, Copies
<1>1. Copies(rule, Standing') =
        Copies(rule, Standing) + (IF RulesOf(x[1])[x[2]] = rule THEN 1 ELSE 0)
  BY StandingFinite, CopiesAdd
<1>2. table[rule] = Others[rule] + Copies(rule, Standing)
  BY DEF Accounted
<1>3. Others[rule] \in Nat /\ Copies(rule, Standing) \in Nat
  BY RulesAssumption, StandingFinite, CopiesOfRules
<1>4. table'[rule] = table[rule] + (IF RulesOf(x[1])[x[2]] = rule THEN 1 ELSE 0)
  <2>1. table \in [Rules -> Nat]
    BY DEF TypeOK
  <2> QED
    BY <2>1
<1> QED
  BY <1>1, <1>2, <1>3, <1>4

\* One rule less in the table, and one less that stands.
LEMMA DeleteAccount ==
  ASSUME TypeOK, TypeOK', Accounted, NEW x, x \notin Standing', Standing = Standing' \cup {x},
         RulesOf(x[1])[x[2]] \in Rules,
         table' = [table EXCEPT ![RulesOf(x[1])[x[2]]] = @ - 1]
  PROVE  Accounted'
<1> SUFFICES ASSUME NEW rule \in Rules
             PROVE  table'[rule] = Others[rule] + Copies(rule, Standing')
  BY DEF Accounted, Copies
<1>0. IsFiniteSet(Standing')
  <2>1. IsFiniteSet(Standing)
    BY StandingFinite
  <2>2. Standing' \subseteq Standing
    OBVIOUS
  <2> QED
    BY <2>1, <2>2, FS_Subset
<1>1. Copies(rule, Standing) =
        Copies(rule, Standing') + (IF RulesOf(x[1])[x[2]] = rule THEN 1 ELSE 0)
  BY <1>0, CopiesAdd
<1>2. table[rule] = Others[rule] + Copies(rule, Standing)
  BY DEF Accounted
<1>3. Others[rule] \in Nat /\ Copies(rule, Standing') \in Nat
  BY <1>0, RulesAssumption, CopiesOfRules
<1>4. table'[rule] = table[rule] - (IF RulesOf(x[1])[x[2]] = rule THEN 1 ELSE 0)
  <2>1. table \in [Rules -> Nat]
    BY DEF TypeOK
  <2> QED
    BY <2>1
<1> QED
  BY <1>1, <1>2, <1>3, <1>4

LEMMA AccountedStep ==
  TypeOK /\ TypeOK' /\ StageNotes /\ MapFirst /\ Accounted /\ [Next]_vars => Accounted'
<1> SUFFICES ASSUME TypeOK, TypeOK', StageNotes, MapFirst, Accounted, [Next]_vars
             PROVE  Accounted'
  OBVIOUS
<1> USE DEF goroutineVars, mapVars, closeVars
<1>a. notes \in [Ports -> 0 .. 6]
  BY DEF TypeOK
<1>b. UNCHANGED <<notes, stuck>> => Standing' = Standing
  BY DEF Standing
<1>1. CASE Start
  BY <1>1, <1>b, SameAccount DEF Start
<1>2. CASE MapReturns
  BY <1>2, <1>b, SameAccount DEF MapReturns
<1>3. CASE CloseReturns
  BY <1>3, <1>b, SameAccount DEF CloseReturns
<1>4. CASE Close
  BY <1>4, <1>b, SameAccount DEF Close
<1>5. CASE Cancel
  BY <1>5, <1>b, SameAccount DEF Cancel
<1>6. ASSUME NEW p \in Ports, CheckContext(p) PROVE Accounted'
  BY <1>6, <1>b, SameAccount DEF CheckContext
<1>7. ASSUME NEW p \in Ports, LookUp(p) PROVE Accounted'
  BY <1>7, <1>b, SameAccount DEF LookUp
<1>8. ASSUME NEW p \in Ports, AppendRule(p) PROVE Accounted'
  <2>1. pc[p] \in {"forward", "nat"} /\ stuck' = stuck
    BY <1>8 DEF AppendRule
  <2>2. notes[p] + 1 \in 1 .. Len(RulesOf(p)) /\ notes[p] + 1 \in 1 .. 5
        /\ RulesOf(p)[notes[p] + 1] \in Rules
    BY <2>1, RuleLeft
  <2>3. \/ table' = table /\ notes' = notes
        \/ /\ table' = [table EXCEPT ![RulesOf(p)[notes[p] + 1]] = @ + 1]
           /\ notes' = [notes EXCEPT ![p] = notes[p] + 1]
    BY <1>8, <1>a DEF AppendRule
  <2>4. CASE table' = table /\ notes' = notes
    BY <1>b, <2>1, <2>4, SameAccount
  <2>5. CASE /\ table' = [table EXCEPT ![RulesOf(p)[notes[p] + 1]] = @ + 1]
             /\ notes' = [notes EXCEPT ![p] = notes[p] + 1]
    <3> DEFINE x == <<p, notes[p] + 1>>
    <3>1. stuck = {} /\ stuck' = {}
      BY <2>1, NotYetUndone DEF Done
    <3>2. notes[p] + 1 <= Len(RulesOf(p))
      BY <2>2
    <3>3. x \notin Standing /\ Standing' = Standing \cup {x}
      BY <2>2, <2>5, <3>1, <3>2, OneMore
    <3>4. x[1] = p /\ x[2] = notes[p] + 1
      OBVIOUS
    <3> QED
      BY <2>2, <2>5, <3>3, <3>4, AppendAccount
  <2> QED
    BY <2>3, <2>4, <2>5
<1>9. ASSUME NEW p \in Ports, Report(p) PROVE Accounted'
  <2>1. \A q \in Ports \ {p} : notes'[q] = notes[q]
    BY <1>9, <1>a DEF Report
  <2>2. notes[p] = Len(RulesOf(p)) /\ notes'[p] = notes[p] + 1
    BY <1>9, <1>a DEF Report, Goto, StageNotes, NotesFit
  <2>3. \A k \in 1 .. 5 : (k <= notes'[p] /\ k <= Len(RulesOf(p))) <=>
                          (k <= notes[p] /\ k <= Len(RulesOf(p)))
    <3>1. notes[p] \in 0 .. 6 /\ Len(RulesOf(p)) \in Nat
      BY <1>a, RulesLength
    <3> QED
      BY <2>2, <3>1
  <2>4. Standing' = Standing
    BY <1>9, <2>1, <2>3, SameStanding DEF Report
  <2> QED
    BY <1>9, <2>4, SameAccount DEF Report
<1>10. ASSUME NEW p \in Ports, Publish(p) PROVE Accounted'
  BY <1>10, <1>b, SameAccount DEF Publish
<1>11. ASSUME NEW p \in Ports, JoinError(p) PROVE Accounted'
  BY <1>11, <1>b, SameAccount DEF JoinError
<1>12. ASSUME NEW p \in Ports, Unforward(p) PROVE Accounted'
  <2>1. \A q \in Ports \ {p} : notes'[q] = notes[q]
    BY <1>12, <1>a DEF Unforward
  <2>2. notes[p] > Len(RulesOf(p)) /\ notes'[p] = notes[p] - 1
    BY <1>12, <1>a DEF Unforward
  <2>3. \A k \in 1 .. 5 : (k <= notes'[p] /\ k <= Len(RulesOf(p))) <=>
                          (k <= notes[p] /\ k <= Len(RulesOf(p)))
    <3>1. notes[p] \in 0 .. 6 /\ Len(RulesOf(p)) \in Nat
      BY <1>a, RulesLength
    <3> QED
      BY <2>2, <3>1
  <2>4. Standing' = Standing
    BY <1>12, <2>1, <2>3, SameStanding DEF Unforward
  <2> QED
    BY <1>12, <2>4, SameAccount DEF Unforward
<1>13. ASSUME NEW p \in Ports, DeleteRule(p) PROVE Accounted'
  <2> DEFINE x == <<p, notes[p]>>
  <2>1. 0 < notes[p] /\ notes[p] <= Len(RulesOf(p))
        /\ notes' = [notes EXCEPT ![p] = notes[p] - 1]
    BY <1>13, <1>a DEF DeleteRule, Turn
  <2>2. \/ table' = table /\ stuck' = stuck \cup {x}
        \/ table' = [table EXCEPT ![RulesOf(p)[notes[p]]] = @ - 1] /\ stuck' = stuck
    BY <1>13 DEF DeleteRule
  <2>3. RulesOf(p)[notes[p]] \in Rules
    <3>1. notes[p] \in 0 .. 6 /\ Len(RulesOf(p)) \in Nat
      BY <1>a, RulesLength
    <3>2. notes[p] \in 1 .. Len(RulesOf(p))
      BY <2>1, <3>1
    <3> QED
      BY <3>2, RulesLength
  <2>4. CASE table' = table /\ stuck' = stuck \cup {x}
    BY <2>1, <2>4, OneLess, SameAccount
  <2>5. CASE table' = [table EXCEPT ![RulesOf(p)[notes[p]]] = @ - 1] /\ stuck' = stuck
    <3>1. x \notin Standing' /\ Standing = Standing' \cup {x}
      BY <2>1, <2>5, OneLess
    <3>2. x[1] = p /\ x[2] = notes[p]
      OBVIOUS
    <3> QED
      BY <2>3, <2>5, <3>1, <3>2, DeleteAccount
  <2> QED
    BY <2>2, <2>4, <2>5
<1>14. CASE UNCHANGED vars
  BY <1>14, <1>b, SameAccount DEF vars
<1> QED
  BY <1>1, <1>2, <1>3, <1>4, <1>5, <1>6, <1>7, <1>8, <1>9, <1>10, <1>11, <1>12, <1>13,
     <1>14 DEF Next, Goroutine, Main

-----------------------------------------------------------------------------
\* Why forwards fail.

\* What happens to one forward.
LEMMA FailureOfOne ==
  ASSUME Failures, NEW p \in Ports, FailureFits(p)',
         \A q \in Ports \ {p} : /\ pc'[q] = pc[q] /\ failed'[q] = failed[q]
                                /\ q \in reported' <=> q \in reported,
         UNCHANGED <<main, cancelled>>, errs => errs', failed[p] => failed'[p],
         errs' => errs \/ failed'[p]
  PROVE  Failures'
<1>1. ASSUME NEW q \in Ports, q # p PROVE FailureFits(q)'
  <2>1. FailureFits(q)
    BY DEF Failures
  <2>2. q \in Ports \ {p}
    BY <1>1
  <2>3. pc'[q] = pc[q] /\ failed'[q] = failed[q]
    BY <2>2
  <2>4. q \in reported' <=> q \in reported
    BY <2>2
  <2> QED
    BY <2>1, <2>3, <2>4 DEF FailureFits, Left
<1>2. errs' => \E q \in Ports : failed'[q]
  BY DEF Failures
<1> QED
  BY <1>1, <1>2 DEF Failures

\* A callback that goes on, or returns with an error for a reason.
LEMMA FailureOfContinue ==
  ASSUME TypeOK, Failures, main = "mapping", NEW p \in Ports, NEW ok \in BOOLEAN, NEW to,
         ~Left(p), to \notin {"leave", "done", "joined"},
         pc' = [pc EXCEPT ![p] = IF ok THEN to ELSE "leave"],
         failed' = [failed EXCEPT ![p] = ~ok],
         ~ok => cancelled \/ Faults \cap {"lookup", "append"} # {},
         UNCHANGED <<errs, main, cancelled, reported>>
  PROVE  Failures'
<1>1. p \notin reported /\ ~failed[p]
  BY DEF Failures, FailureFits
<1>2. pc'[p] = (IF ok THEN to ELSE "leave")
  BY DEF TypeOK
<1>3. failed'[p] = ~ok
  BY DEF TypeOK
<1>4. \A q \in Ports \ {p} : pc'[q] = pc[q] /\ failed'[q] = failed[q]
  BY DEF TypeOK
<1>5. CASE ok
  <2>1. ~failed'[p] /\ pc'[p] = to
    BY <1>2, <1>3, <1>5
  <2>2. FailureFits(p)'
    BY <1>1, <2>1 DEF FailureFits, Left
  <2> QED
    BY <1>1, <1>4, <2>2, FailureOfOne
<1>6. CASE ~ok
  <2>1. failed'[p] /\ pc'[p] = "leave"
    BY <1>2, <1>3, <1>6
  <2>2. FailureFits(p)'
    BY <1>1, <1>6, <2>1 DEF FailureFits, Left
  <2> QED
    BY <1>1, <1>4, <2>2, FailureOfOne
<1> QED
  BY <1>5, <1>6

\* Every failure keeps its reason.
LEMMA FailuresStep ==
  TypeOK /\ StageNotes /\ MapFirst /\ Failures /\ [Next]_vars => Failures'
<1> SUFFICES ASSUME TypeOK, StageNotes, MapFirst, Failures, [Next]_vars
             PROVE  Failures'
  OBVIOUS
<1> USE DEF goroutineVars, mapVars, closeVars
<1>a. pc \in [Ports -> Stages] /\ failed \in [Ports -> BOOLEAN]
  BY DEF TypeOK
<1>1. CASE Start
  <2>1. UNCHANGED <<pc, failed, errs, cancelled, reported>> /\ main = "start"
    BY <1>1 DEF Start
  <2>2. PICK ok \in Outcome("iptables") : main' = IF ok THEN "mapping" ELSE "failed"
    BY <1>1 DEF Start
  <2>3. main' = "mapping" \/ (main' = "failed" /\ "iptables" \in Faults)
    BY <2>2 DEF Outcome
  <2> QED
    BY <2>1, <2>3 DEF Failures, FailureFits, Left
<1>2. CASE MapReturns
  <2>1. UNCHANGED <<pc, failed, errs, cancelled, reported>> /\ main = "mapping"
    BY <1>2 DEF MapReturns
  <2>2. main' = "forwarding" \/ (main' = "undoing" /\ errs)
    BY <1>2 DEF MapReturns
  <2> QED
    BY <2>1, <2>2 DEF Failures, FailureFits, Left
<1>3. CASE CloseReturns
  <2>1. UNCHANGED <<pc, failed, errs, cancelled, reported>>
    BY <1>3 DEF CloseReturns
  <2>2. (main = "undoing" /\ main' = "failed") \/ main' = "closed"
    BY <1>3 DEF CloseReturns
  <2> QED
    BY <2>1, <2>2 DEF Failures, FailureFits, Left
<1>4. CASE Close
  BY <1>4 DEF Close, Failures, FailureFits, Left
<1>5. CASE Cancel
  BY <1>5 DEF Cancel, Failures, FailureFits, Left
<1>6. ASSUME NEW p \in Ports, CheckContext(p) PROVE Failures'
  <2>1. main = "mapping" /\ UNCHANGED <<errs, main, cancelled, reported>>
    BY <1>6 DEF CheckContext
  <2> DEFINE ok == ~cancelled
  <2>2. PICK to \in {"lookup", "third", "forward", "nat"} :
          /\ pc' = [pc EXCEPT ![p] = IF ok THEN to ELSE "leave"]
          /\ failed' = [failed EXCEPT ![p] = ~ok]
          /\ pc[p] \in {"begin", "second", "third"}
    BY <1>6 DEF CheckContext, Continue, Goto
  <2>3. ok \in BOOLEAN /\ (~ok => cancelled)
    BY DEF TypeOK
  <2>4. ~Left(p) /\ to \notin {"leave", "done", "joined"}
    BY <2>2 DEF Left
  <2> HIDE DEF ok
  <2> QED
    BY <2>1, <2>2, <2>3, <2>4, FailureOfContinue
<1>7. ASSUME NEW p \in Ports, LookUp(p) PROVE Failures'
  <2>1. PICK ok \in Outcome("lookup") : Continue(p, "lookup", ok, "second")
    BY <1>7 DEF LookUp
  <2>2. /\ ok \in BOOLEAN
        /\ ~ok => "lookup" \in Faults
        /\ pc[p] = "lookup"
        /\ pc' = [pc EXCEPT ![p] = IF ok THEN "second" ELSE "leave"]
        /\ failed' = [failed EXCEPT ![p] = ~ok]
    BY <2>1 DEF Continue, Goto, Outcome
  <2>3. main = "mapping" /\ ~Left(p)
    BY <2>2, NotYetUndone DEF Done, Left
  <2>4. UNCHANGED <<errs, main, cancelled, reported>>
    BY <1>7 DEF LookUp
  <2>5. ~ok => cancelled \/ Faults \cap {"lookup", "append"} # {}
    BY <2>2
  <2>6. "second" \notin {"leave", "done", "joined"}
    OBVIOUS
  <2> QED
    BY <2>2, <2>3, <2>4, <2>5, <2>6, FailureOfContinue
<1>8. ASSUME NEW p \in Ports, AppendRule(p) PROVE Failures'
  <2>1. PICK ok \in Outcome("append") : Continue(p, pc[p], ok, AfterRule(p))
    BY <1>8 DEF AppendRule
  <2>2. /\ ok \in BOOLEAN
        /\ ~ok => "append" \in Faults
        /\ pc' = [pc EXCEPT ![p] = IF ok THEN AfterRule(p) ELSE "leave"]
        /\ failed' = [failed EXCEPT ![p] = ~ok]
    BY <2>1 DEF Continue, Goto, Outcome
  <2>3. pc[p] \in {"forward", "nat"} /\ UNCHANGED <<errs, main, cancelled, reported>>
    BY <1>8 DEF AppendRule
  <2>4. main = "mapping" /\ ~Left(p)
    BY <2>3, NotYetUndone DEF Done, Left
  <2>5. AfterRule(p) \notin {"leave", "done", "joined"}
    BY <2>3 DEF AfterRule
  <2>6. ~ok => cancelled \/ Faults \cap {"lookup", "append"} # {}
    BY <2>2
  <2> QED
    BY <2>2, <2>3, <2>4, <2>5, <2>6, FailureOfContinue
<1>9. ASSUME NEW p \in Ports, Report(p) PROVE Failures'
  <2>1. pc[p] = "report" /\ UNCHANGED <<errs, main, cancelled, failed>>
    BY <1>9 DEF Report, Goto
  <2>2. pc'[p] = "leave" /\ \A q \in Ports \ {p} : pc'[q] = pc[q]
    BY <1>9, <1>a DEF Report, Goto
  <2>3. p \in reported' /\ \A q \in Ports \ {p} : q \in reported' <=> q \in reported
    BY <1>9 DEF Report
  <2>4. ~failed[p]
    BY <2>1 DEF Failures, FailureFits, Left
  <2>5. FailureFits(p)'
    BY <2>1, <2>2, <2>3, <2>4 DEF FailureFits, Left
  <2> QED
    BY <2>1, <2>2, <2>3, <2>5, FailureOfOne
<1>10. ASSUME NEW p \in Ports, Publish(p) PROVE Failures'
  <2>1. pc[p] = "leave" /\ UNCHANGED <<errs, main, cancelled, failed, reported>>
    BY <1>10 DEF Publish, Goto
  <2>2. pc'[p] = "done" /\ \A q \in Ports \ {p} : pc'[q] = pc[q]
    BY <1>10, <1>a DEF Publish, Goto
  <2>3. FailureFits(p)'
    BY <2>1, <2>2 DEF Failures, FailureFits, Left
  <2> QED
    BY <2>1, <2>2, <2>3, FailureOfOne
<1>11. ASSUME NEW p \in Ports, JoinError(p) PROVE Failures'
  <2>1. pc[p] = "done" /\ UNCHANGED <<main, cancelled, failed, reported>>
    BY <1>11 DEF JoinError, Goto
  <2>2. pc'[p] = "joined" /\ \A q \in Ports \ {p} : pc'[q] = pc[q]
    BY <1>11, <1>a DEF JoinError, Goto
  <2>3. errs' <=> errs \/ failed[p]
    BY <1>11 DEF JoinError
  <2>4. FailureFits(p)'
    BY <2>1, <2>2, <2>3 DEF Failures, FailureFits, Left
  <2> QED
    BY <2>1, <2>2, <2>3, <2>4, FailureOfOne
<1>12. ASSUME NEW p \in Ports, Unforward(p) PROVE Failures'
  BY <1>12 DEF Unforward, Closing, Failures, FailureFits, Left
<1>13. ASSUME NEW p \in Ports, DeleteRule(p) PROVE Failures'
  BY <1>13 DEF DeleteRule, Failures, FailureFits, Left
<1>14. CASE UNCHANGED vars
  BY <1>14 DEF vars, Failures, FailureFits, Left
<1> QED
  BY <1>1, <1>2, <1>3, <1>4, <1>5, <1>6, <1>7, <1>8, <1>9, <1>10, <1>11, <1>12, <1>13,
     <1>14 DEF Next, Goroutine, Main

-----------------------------------------------------------------------------
\* The theorems.

\* At the start nothing is set up.
LEMMA InitInvariant == Init => ForwarderInv
<1> SUFFICES ASSUME Init PROVE ForwarderInv
  OBVIOUS
<1>1. TypeOK
  <2>1. pc \in [Ports -> Stages]
    BY DEF Init, Stages
  <2>2. notes \in [Ports -> 0 .. 6] /\ failed \in [Ports -> BOOLEAN]
    BY DEF Init
  <2>3. table \in [Rules -> Nat]
    BY RulesAssumption DEF Init
  <2>4. defers \in Seq(Ports) /\ deferFuncs \in Seq(Ports)
    BY DEF Init
  <2>5. errs \in BOOLEAN /\ cancelled \in BOOLEAN
    BY DEF Init
  <2> QED
    BY <2>1, <2>2, <2>3, <2>4, <2>5 DEF Init, TypeOK
<1>2. StageNotes
  <2> SUFFICES ASSUME NEW p \in Ports PROVE NotesFit(p)
    BY DEF StageNotes
  <2>1. pc[p] = "begin" /\ notes[p] = 0 /\ reported = {}
    BY DEF Init
  <2>2. Len(RulesOf(p)) \in Nat
    BY RulesLength
  <2>3. 0 <= Len(RulesOf(p)) + 1 /\ ~(0 > Len(RulesOf(p)))
    BY <2>2
  <2> QED
    BY <2>1, <2>3 DEF NotesFit
<1>3. MapFirst
  BY DEF Init, MapFirst, Done
<1>4. Accounted
  <2>1. Standing = {}
    BY DEF Init, Standing
  <2>2. \A rule \in Rules : Copies(rule, Standing) = 0 /\ Others[rule] \in Nat
    BY <2>1, CopiesOfRules, RulesAssumption
  <2>3. \A n \in Nat : n = n + 0
    OBVIOUS
  <2> QED
    BY <2>2, <2>3 DEF Accounted, Init
<1>5. Failures
  BY DEF Init, Failures, FailureFits, Left
<1> QED
  BY <1>1, <1>2, <1>3, <1>4, <1>5 DEF ForwarderInv

\* The table of the host always holds what other programs appended and one copy
\* for each rule a forward still has to answer for, and every forward's notes
\* are published before any is undone, for any number of forwards that share
\* rules and any calls failing (forward_ports.go:60-323).
THEOREM ForwarderInvariance == Spec => []ForwarderInv
<1>1. ForwarderInv /\ [Next]_vars => ForwarderInv'
  BY TypeStep, StageStep, MapStep, AccountedStep, FailuresStep DEF ForwarderInv
<1> QED
  BY <1>1, InitInvariant, PTL DEF Spec

\* When ForwardPorts has failed, or Close has returned, every announcement is
\* taken back and the host's rules are what they were, but for those whose
\* deletion failed (forward_ports.go:294).
THEOREM NothingIsLeft == Spec => []NothingLeft
<1>1. ForwarderInv => NothingLeft
  <2> SUFFICES ASSUME ForwarderInv, main \in {"failed", "closed"}
               PROVE  reported = {} /\ (stuck = {} => table = Others)
    BY DEF NothingLeft
  <2>1. \A p \in Ports : notes[p] = 0
    BY DEF ForwarderInv, MapFirst
  <2>2. ASSUME NEW p \in Ports PROVE p \notin reported
    <3>1. Len(RulesOf(p)) \in Nat
      BY RulesLength
    <3>2. ~(0 > Len(RulesOf(p)))
      BY <3>1
    <3> QED
      BY <2>1, <3>2 DEF ForwarderInv, StageNotes, NotesFit
  <2>3. reported = {}
    BY <2>2 DEF ForwarderInv, TypeOK
  <2>4. ASSUME stuck = {} PROVE table = Others
    <3>1. Standing = {}
      <4>1. \A k \in 1 .. 5 : ~(k <= 0)
        OBVIOUS
      <4> QED
        BY <2>1, <2>4, <4>1 DEF Standing
    <3>2. \A rule \in Rules : Copies(rule, Standing) = 0 /\ Others[rule] \in Nat
      BY <3>1, CopiesOfRules, RulesAssumption
    <3>3. \A n \in Nat : n + 0 = n
      OBVIOUS
    <3>4. \A rule \in Rules : table[rule] = Others[rule]
      BY <3>2, <3>3 DEF ForwarderInv, Accounted
    <3> QED
      BY <3>4, RulesAssumption DEF ForwarderInv, TypeOK
  <2> QED
    BY <2>3, <2>4
<1> QED
  BY <1>1, ForwarderInvariance, PTL

\* A forward that is announced is in place with all its rules, whatever happens
\* to those it shares rules with (forward_ports.go:235-257).
THEOREM AnnouncedForwardsWork == Spec => []AnnouncedWorks
<1>1. ForwarderInv => AnnouncedWorks
  <2> SUFFICES ASSUME ForwarderInv, NEW p \in reported, NEW k \in 1 .. Len(RulesOf(p))
               PROVE  table[RulesOf(p)[k]] > Others[RulesOf(p)[k]]
    BY DEF AnnouncedWorks
  <2>1. p \in Ports
    BY DEF ForwarderInv, TypeOK
  <2>2. notes[p] > Len(RulesOf(p)) /\ notes[p] \in 0 .. 6
    BY <2>1 DEF ForwarderInv, StageNotes, NotesFit, TypeOK
  <2>3. Len(RulesOf(p)) = 3 \/ Len(RulesOf(p)) = 5
    BY RulesLength
  <2>4. k \in 1 .. 5 /\ k <= notes[p] /\ k <= Len(RulesOf(p))
    BY <2>2, <2>3
  <2>5. <<p, k>> \in Standing
    BY <2>1, <2>4 DEF Standing
  <2> DEFINE rule == RulesOf(p)[k]
  <2>6. rule \in Rules
    BY <2>1, RulesLength
  <2>7. Copies(rule, Standing) # 0 /\ Copies(rule, Standing) \in Nat
    <3>1. IsFiniteSet(Standing)
      BY StandingFinite DEF ForwarderInv
    <3>2. IsFiniteSet({x \in Standing : RulesOf(x[1])[x[2]] = rule})
      BY <3>1, FS_Subset
    <3>3. <<p, k>> \in {x \in Standing : RulesOf(x[1])[x[2]] = rule}
      BY <2>5
    <3>4. Copies(rule, Standing) # 0
      BY <3>2, <3>3, FS_EmptySet DEF Copies
    <3> QED
      BY <3>1, <3>4, CopiesOfRules
  <2>8. table[rule] = Others[rule] + Copies(rule, Standing) /\ Others[rule] \in Nat
    BY <2>6, RulesAssumption DEF ForwarderInv, Accounted
  <2> HIDE DEF rule
  <2>9. table[rule] > Others[rule]
    BY <2>7, <2>8
  <2> QED
    BY <2>9 DEF rule
<1> QED
  BY <1>1, ForwarderInvariance, PTL

\* What the code keeps of "close on any errors" (forward_ports.go:291): a forward
\* that is missing from those returned has failed, and its goroutine was between
\* telling the WaitGroup and joining its error.
THEOREM LostOnlyInTheGap == Spec => LostInTheGap
<1>1. ForwarderInv /\ [Next]_vars =>
        [main = "mapping" /\ main' = "forwarding" =>
           \A p \in Ports : p \notin reported => failed[p] /\ pc[p] = "done"]_vars
  <2> SUFFICES ASSUME ForwarderInv, Next, main = "mapping", main' = "forwarding",
                      NEW p \in Ports, p \notin reported
               PROVE  failed[p] /\ pc[p] = "done"
    OBVIOUS
  <2>1. MapReturns
    BY DEF Next, Main, Goroutine, Start, CloseReturns, Unforward, DeleteRule, CheckContext,
       LookUp, AppendRule, Report, Publish, JoinError, Close, Cancel, closeVars
  <2>2. Done(p) /\ ~errs
    BY <2>1 DEF MapReturns
  <2>3. failed[p]
    BY <2>2 DEF ForwarderInv, Failures, FailureFits, Left, Done
  <2> QED
    BY <2>2, <2>3 DEF ForwarderInv, Failures, FailureFits, Done
<1> QED
  BY <1>1, ForwarderInvariance, PTL DEF Spec, LostInTheGap

\* ForwardPorts fails only because a call failed or its context is done
\* (forward_ports.go:306-331).
THEOREM FailsOnlyForAReason == Spec => []FailsForAReason
<1>1. ForwarderInv => FailsForAReason
  <2> SUFFICES ASSUME ForwarderInv, main \in {"undoing", "failed"}
               PROVE  cancelled \/ Faults \cap {"iptables", "lookup", "append"} # {}
    BY DEF FailsForAReason
  <2>1. CASE "iptables" \in Faults
    BY <2>1
  <2>2. CASE "iptables" \notin Faults
    <3>1. PICK p \in Ports : failed[p]
      BY <2>2 DEF ForwarderInv, Failures
    <3>2. cancelled \/ Faults \cap {"lookup", "append"} # {}
      BY <3>1 DEF ForwarderInv, Failures, FailureFits
    <3> QED
      BY <3>2
  <2> QED
    BY <2>1, <2>2
<1> QED
  BY <1>1, ForwarderInvariance, PTL

\* While no call of a goroutine fails and nothing interrupts the program, every
\* forward is in place when ForwardPorts returns (forward_ports.go:291).
THEOREM AllForwardedWithoutFaults ==
  ASSUME Faults \cap {"lookup", "append"} = {}
  PROVE  Spec => [](~cancelled => SuccessMeansForwarded)
<1>1. ForwarderInv => (~cancelled => SuccessMeansForwarded)
  <2> SUFFICES ASSUME ForwarderInv, ~cancelled, main = "forwarding"
               PROVE  reported = Ports
    BY DEF SuccessMeansForwarded
  <2>1. ASSUME NEW p \in Ports PROVE p \in reported
    <3>1. ~failed[p]
      BY DEF ForwarderInv, Failures, FailureFits
    <3>2. Left(p)
      BY DEF ForwarderInv, MapFirst, Done, Left
    <3> QED
      BY <3>1, <3>2 DEF ForwarderInv, Failures, FailureFits
  <2> QED
    BY <2>1 DEF ForwarderInv, TypeOK
<1> QED
  BY <1>1, ForwarderInvariance, PTL

-----------------------------------------------------------------------------
\* That goroutines end.

\* How many steps are left, as a number, at each stage.
LEMMA StepsLeftNumber ==
  ASSUME TypeOK, StageNotes, NEW p \in Ports
  PROVE  /\ StepsLeft(p) \in 0 .. 12
         /\ pc[p] = "forward" => StepsLeft(p) \in 8 .. 9
         /\ pc[p] = "nat" => StepsLeft(p) \in 4 .. 6
<1>1. pc[p] \in Stages /\ NotesFit(p) /\ notes[p] \in 0 .. 6
  BY DEF TypeOK, StageNotes
<1>2. \/ Len(RulesOf(p)) = 3 /\ ForwardRules(p) = 0
      \/ Len(RulesOf(p)) = 5 /\ ForwardRules(p) = 2
  BY Numbers
<1>3. CASE pc[p] = "forward"
  <2>1. notes[p] \in 0 .. 1
    BY <1>1, <1>2, <1>3 DEF NotesFit
  <2> QED
    BY <1>3, <2>1 DEF StepsLeft
<1>4. CASE pc[p] = "nat"
  <2>0. ForwardRules(p) <= notes[p] /\ notes[p] < Len(RulesOf(p))
    BY <1>1, <1>4 DEF NotesFit
  <2>1. notes[p] - ForwardRules(p) \in 0 .. 2 /\ ForwardRules(p) \in 0 .. 2
    <3>1. CASE Len(RulesOf(p)) = 3 /\ ForwardRules(p) = 0
      BY <1>1, <2>0, <3>1
    <3>2. CASE Len(RulesOf(p)) = 5 /\ ForwardRules(p) = 2
      <4>1. 2 <= notes[p] /\ notes[p] < 5
        BY <2>0, <3>2
      <4>2. notes[p] \in 2 .. 4
        BY <1>1, <4>1
      <4> QED
        BY <3>2, <4>2
    <3> QED
      BY <1>2, <3>1, <3>2
  <2>2. 6 + ForwardRules(p) - notes[p] \in 4 .. 6
    BY <1>1, <2>1
  <2>3. StepsLeft(p) = 6 + ForwardRules(p) - notes[p]
    BY <1>4 DEF StepsLeft
  <2> QED
    BY <1>4, <2>2, <2>3
<1>5. CASE pc[p] \notin {"forward", "nat"}
  BY <1>1, <1>5 DEF StepsLeft, Stages
<1> QED
  BY <1>3, <1>4, <1>5

\* A forward that stands still, or is undone when its goroutine is done.
LEMMA StepsLeftSame ==
  ASSUME NEW p \in Ports, pc'[p] = pc[p], notes'[p] = notes[p] \/ Done(p)
  PROVE  StepsLeft(p)' = StepsLeft(p)
<1>1. CASE notes'[p] = notes[p]
  BY <1>1 DEF StepsLeft, ForwardRules
<1>2. CASE Done(p)
  BY <1>2 DEF Done, StepsLeft
<1> QED
  BY <1>1, <1>2

\* A goroutine that leaves has fewer steps left, whatever stage it was at.
LEMMA StepsLeftLeaving ==
  ASSUME TypeOK, StageNotes, NEW p \in Ports, ~Left(p), pc'[p] = "leave"
  PROVE  StepsLeft(p)' \in Int /\ StepsLeft(p)' < StepsLeft(p)
<1>1. StepsLeft(p)' = 2
  BY DEF StepsLeft
<1>2. pc[p] \in Stages
  BY DEF TypeOK
<1>3. StepsLeft(p) >= 3
  BY <1>2, StepsLeftNumber DEF Left, Stages, StepsLeft
<1> QED
  BY <1>1, <1>3, StepsLeftNumber

\* Each step of a goroutine leaves it fewer steps.
LEMMA GoroutineStep ==
  ASSUME TypeOK, StageNotes, NEW p \in Ports, Goroutine(p)
  PROVE  /\ StepsLeft(p)' \in Int /\ StepsLeft(p)' < StepsLeft(p)
         /\ \A q \in Ports \ {p} : pc'[q] = pc[q] /\ notes'[q] = notes[q]
<1>a. pc \in [Ports -> Stages] /\ notes \in [Ports -> 0 .. 6] /\ NotesFit(p)
  BY DEF TypeOK, StageNotes
<1>b. \/ p \in Loopback /\ Len(RulesOf(p)) = 3 /\ ForwardRules(p) = 0
      \/ p \notin Loopback /\ Len(RulesOf(p)) = 5 /\ ForwardRules(p) = 2
  BY Numbers
<1>c. ForwardRules(p)' = ForwardRules(p)
  BY DEF ForwardRules
<1>1. CASE CheckContext(p)
  <2>1. /\ \A q \in Ports \ {p} : pc'[q] = pc[q] /\ notes'[q] = notes[q]
        /\ notes'[p] = notes[p]
    BY <1>1, <1>a DEF CheckContext, Continue, Goto
  <2>2. \/ pc[p] \in {"begin", "second", "third"} /\ pc'[p] = "leave"
        \/ pc[p] = "begin" /\ pc'[p] = "lookup"
        \/ pc[p] = "second" /\ pc'[p] = "third"
        \/ pc[p] = "second" /\ pc'[p] = "forward"
        \/ pc[p] = "third" /\ pc'[p] = "nat"
    BY <1>1, <1>a DEF CheckContext, Continue, Goto
  <2>3. CASE pc[p] \in {"begin", "second", "third"} /\ pc'[p] = "leave"
    BY <2>1, <2>3, StepsLeftLeaving DEF Left
  <2>4. CASE pc[p] = "begin" /\ pc'[p] = "lookup"
    BY <2>1, <2>4 DEF StepsLeft
  <2>5. CASE pc[p] = "second" /\ pc'[p] = "third"
    BY <2>1, <2>5 DEF StepsLeft
  <2>6. CASE pc[p] = "second" /\ pc'[p] = "forward"
    <3>1. notes[p] = 0
      BY <1>a, <2>6 DEF NotesFit
    <3>2. StepsLeft(p) = 10 /\ StepsLeft(p)' = 9
      BY <2>1, <2>6, <3>1 DEF StepsLeft
    <3> QED
      BY <2>1, <3>2
  <2>7. CASE pc[p] = "third" /\ pc'[p] = "nat"
    <3>1. notes[p] = ForwardRules(p)
      BY <1>a, <2>7 DEF NotesFit
    <3>2. StepsLeft(p) = 7
      BY <2>7 DEF StepsLeft
    <3>3. StepsLeft(p)' = 6 + ForwardRules(p) - notes[p]
      BY <1>c, <2>1, <2>7 DEF StepsLeft
    <3>4. 6 + ForwardRules(p) - notes[p] = 6
      BY <1>b, <3>1
    <3> QED
      BY <2>1, <3>2, <3>3, <3>4
  <2> QED
    BY <2>2, <2>3, <2>4, <2>5, <2>6, <2>7
<1>2. CASE LookUp(p)
  <2>1. /\ \A q \in Ports \ {p} : pc'[q] = pc[q] /\ notes'[q] = notes[q]
        /\ pc[p] = "lookup" /\ pc'[p] \in {"second", "leave"}
    BY <1>2, <1>a DEF LookUp, Continue, Goto
  <2>2. StepsLeft(p) = 11
    BY <2>1 DEF StepsLeft
  <2>3. StepsLeft(p)' \in {2, 10}
    BY <2>1 DEF StepsLeft
  <2> QED
    BY <2>1, <2>2, <2>3
<1>3. CASE AppendRule(p)
  <2>1. \A q \in Ports \ {p} : pc'[q] = pc[q] /\ notes'[q] = notes[q]
    BY <1>3, <1>a DEF AppendRule, Continue, Goto
  <2>2. \/ pc'[p] = "leave"
        \/ pc'[p] = AfterRule(p) /\ notes'[p] = notes[p] + 1
    BY <1>3, <1>a DEF AppendRule, Continue, Goto
  <2>3. pc[p] \in {"forward", "nat"} /\ notes[p] \in 0 .. 6
    BY <1>3, <1>a DEF AppendRule
  <2>4. CASE pc'[p] = "leave"
    BY <2>1, <2>3, <2>4, StepsLeftLeaving DEF Left
  <2>5. CASE pc'[p] = AfterRule(p) /\ notes'[p] = notes[p] + 1
    <3>1. CASE pc[p] = "forward"
      <4>1. StepsLeft(p) = 9 - notes[p] /\ StepsLeft(p) \in 8 .. 9
        BY <3>1, StepsLeftNumber DEF StepsLeft
      <4>2. pc'[p] \in {"report", "third", "forward"}
        BY <2>5, <3>1 DEF AfterRule
      <4>3. \/ StepsLeft(p)' = 3
            \/ StepsLeft(p)' = 7
            \/ StepsLeft(p)' = 9 - (notes[p] + 1)
        BY <2>5, <4>2 DEF StepsLeft
      <4>4. 9 - (notes[p] + 1) < 9 - notes[p]
        BY <2>3
      <4>5. 9 - (notes[p] + 1) \in Int
        BY <2>3
      <4>6. StepsLeft(p)' \in Int /\ StepsLeft(p)' < StepsLeft(p)
        BY <4>1, <4>3, <4>4, <4>5
      <4> QED
        BY <2>1, <4>6
    <3>2. CASE pc[p] = "nat"
      <4>1. StepsLeft(p) = 6 + ForwardRules(p) - notes[p] /\ StepsLeft(p) \in 4 .. 6
        BY <3>2, StepsLeftNumber DEF StepsLeft
      <4>2. notes[p] + 1 # ForwardRules(p)
        BY <1>a, <1>b, <2>3, <3>2 DEF NotesFit
      <4>3. pc'[p] \in {"report", "nat"}
        BY <2>5, <3>2, <4>2 DEF AfterRule
      <4>4. \/ StepsLeft(p)' = 3
            \/ StepsLeft(p)' = 6 + ForwardRules(p) - (notes[p] + 1)
        BY <1>c, <2>5, <4>3 DEF StepsLeft
      <4>5. 6 + ForwardRules(p) - (notes[p] + 1) < 6 + ForwardRules(p) - notes[p]
        BY <1>b, <2>3
      <4>6. 6 + ForwardRules(p) - (notes[p] + 1) \in Int
        BY <1>b, <2>3
      <4>7. StepsLeft(p)' \in Int /\ StepsLeft(p)' < StepsLeft(p)
        BY <4>1, <4>4, <4>5, <4>6
      <4> QED
        BY <2>1, <4>7
    <3> QED
      BY <2>3, <3>1, <3>2
  <2> QED
    BY <2>2, <2>4, <2>5
<1>4. CASE Report(p)
  <2>1. /\ \A q \in Ports \ {p} : pc'[q] = pc[q] /\ notes'[q] = notes[q]
        /\ pc[p] = "report" /\ pc'[p] = "leave"
    BY <1>4, <1>a DEF Report, Goto
  <2> QED
    BY <2>1 DEF StepsLeft
<1>5. CASE Publish(p)
  <2>1. /\ \A q \in Ports \ {p} : pc'[q] = pc[q] /\ notes'[q] = notes[q]
        /\ pc[p] = "leave" /\ pc'[p] = "done"
    BY <1>5, <1>a DEF Publish, Goto
  <2> QED
    BY <2>1 DEF StepsLeft
<1>6. CASE JoinError(p)
  <2>1. /\ \A q \in Ports \ {p} : pc'[q] = pc[q] /\ notes'[q] = notes[q]
        /\ pc[p] = "done" /\ pc'[p] = "joined"
    BY <1>6, <1>a DEF JoinError, Goto
  <2> QED
    BY <2>1 DEF StepsLeft
<1> QED
  BY <1>1, <1>2, <1>3, <1>4, <1>5, <1>6 DEF Goroutine

\* A goroutine takes at most twelve steps, and none of another's gives it more
\* to do: the safety half of that ForwardPorts returns (forward_ports.go:60-270).
THEOREM EveryGoroutineEnds == Spec => GoroutinesEnd
<1>1. ForwarderInv /\ [Next]_vars => [FewerStepsLeft]_vars
  <2> SUFFICES ASSUME ForwarderInv, Next, NEW p \in Ports
               PROVE  /\ StepsLeft(p) \in 0..12
                      /\ StepsLeft(p)' <= StepsLeft(p)
                      /\ Goroutine(p) => StepsLeft(p)' < StepsLeft(p)
    BY DEF FewerStepsLeft
  <2>1. StepsLeft(p) \in 0 .. 12
    BY StepsLeftNumber DEF ForwarderInv
  <2>2. ASSUME Goroutine(p) PROVE StepsLeft(p)' < StepsLeft(p) /\ StepsLeft(p)' <= StepsLeft(p)
    <3>1. StepsLeft(p)' < StepsLeft(p)
      BY <2>2, GoroutineStep DEF ForwarderInv
    <3>2. StepsLeft(p)' \in Int
      BY <2>2, GoroutineStep DEF ForwarderInv
    <3> QED
      BY <2>1, <3>1, <3>2
  <2>3. ASSUME NEW q \in Ports, q # p, Goroutine(q) PROVE StepsLeft(p)' = StepsLeft(p)
    BY <2>3, GoroutineStep, StepsLeftSame DEF ForwarderInv
  <2>4. ASSUME Main \/ Close \/ Cancel PROVE StepsLeft(p)' = StepsLeft(p)
    <3>1. pc' = pc
      BY <2>4 DEF Main, Close, Cancel, Start, MapReturns, CloseReturns, Unforward, DeleteRule,
         goroutineVars
    <3>2. notes' = notes \/ Done(p)
      BY <2>4 DEF Main, Close, Cancel, Start, MapReturns, CloseReturns, Unforward, DeleteRule,
         goroutineVars, Closing, ForwarderInv, MapFirst
    <3> QED
      BY <3>1, <3>2, StepsLeftSame
  <2> QED
    BY <2>1, <2>2, <2>3, <2>4 DEF Next
<1> QED
  BY <1>1, ForwarderInvariance, PTL DEF Spec, GoroutinesEnd

==============================================================================
