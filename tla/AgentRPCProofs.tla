--------------------------- MODULE AgentRPCProofs ---------------------------
(***************************************************************************)
(* Proofs about AgentRPC, for any number of connections.  For any callers: *)
(* the types, that no remote is duplicated, and that some remote can be    *)
(* had while a connection is served.  That it is the newest one, which is  *)
(* also the one returned, holds for one caller and fails for two.          *)
(***************************************************************************)
EXTENDS AgentRPC, TLAPS

\* Every step keeps the variables in their types.
LEMMA TypeStep == TypeOK /\ [Next]_vars => TypeOK'
<1> SUFFICES ASSUME TypeOK, [Next]_vars PROVE TypeOK'
  OBVIOUS
<1> USE ConnectionsAssumption DEF TypeOK, ServerTypeOK, CallerTypeOK, Empty,
        Connections, serverVars, callerVars
<1>1. CASE Accept
  BY <1>1 DEF Accept
<1>2. CASE ClearRemote
  BY <1>2 DEF ClearRemote
<1>3. CASE AwaitReady
  <2>1. CASE Finish
    <3>1. serverPc = "ready" /\ UNCHANGED <<listening, current, remote, callerVars, published>>
      BY <1>3 DEF AwaitReady
    <3> QED
      BY <2>1, <3>1 DEF Finish
  <2>2. CASE ~Finish
    BY <1>3, <2>2 DEF AwaitReady
  <2> QED
    BY <2>1, <2>2
<1>4. CASE Publish
  BY <1>4 DEF Publish
<1>5. CASE Unpublish
  BY <1>5 DEF Unpublish, Finish
<1>6. CASE LinkEnds
  BY <1>6 DEF LinkEnds
<1>7. ASSUME NEW g \in Callers, Call(g) PROVE TypeOK'
  BY <1>7 DEF Call
<1>8. ASSUME NEW g \in Callers, Take(g) PROVE TypeOK'
  BY <1>8 DEF Take
<1>9. ASSUME NEW g \in Callers, PutBack(g) PROVE TypeOK'
  BY <1>9 DEF PutBack, Return
<1>10. ASSUME NEW g \in Callers, TimeOut(g) PROVE TypeOK'
  BY <1>10 DEF TimeOut, Return
<1>11. CASE Close
  BY <1>11 DEF Close
<1>12. CASE UNCHANGED vars
  BY <1>12 DEF vars
<1> QED
  BY <1>1, <1>2, <1>3, <1>4, <1>5, <1>6, <1>7, <1>8, <1>9, <1>10, <1>11, <1>12
     DEF Next, Serve

\* Every variable keeps its type, whoever calls GetRemote.
THEOREM TypeCorrect == Spec => []TypeOK
<1>1. Init => TypeOK
  BY ConnectionsAssumption DEF Init, TypeOK, ServerTypeOK, CallerTypeOK, Empty, Connections
<1>2. TypeOK /\ [Next]_vars => TypeOK'
  BY TypeStep
<1> QED
  BY <1>1, <1>2, PTL DEF Spec

\* Every step keeps each remote in one place and some remote within reach.
LEMMA CallersStep == CallersInv /\ [Next]_vars => CallersInv'
<1> SUFFICES ASSUME CallersInv, [Next]_vars PROVE CallersInv'
  OBVIOUS
<1> USE ConnectionsAssumption
    DEF CallersInv, TypeOK, ServerTypeOK, CallerTypeOK, OnePlaceEach,
        SomeIsAvailable, Empty, Connections, serverVars, callerVars
<1>0. TypeOK'
  BY TypeStep
<1>1. CASE Accept
  BY <1>0, <1>1 DEF Accept
<1>2. CASE ClearRemote
  BY <1>0, <1>2 DEF ClearRemote
<1>3. CASE AwaitReady
  <2>1. CASE Finish
    <3>1. serverPc = "ready" /\ UNCHANGED <<listening, current, remote, callerVars, published>>
      BY <1>3 DEF AwaitReady
    <3> QED
      BY <1>0, <2>1, <3>1 DEF Finish
  <2>2. CASE ~Finish
    BY <1>0, <1>3, <2>2 DEF AwaitReady
  <2> QED
    BY <2>1, <2>2
<1>4. CASE Publish
  BY <1>0, <1>4 DEF Publish
<1>5. CASE Unpublish
  BY <1>0, <1>5 DEF Unpublish, Finish
<1>6. CASE LinkEnds
  BY <1>0, <1>6 DEF LinkEnds
<1>7. ASSUME NEW g \in Callers, Call(g) PROVE CallersInv'
  BY <1>0, <1>7 DEF Call
<1>8. ASSUME NEW g \in Callers, Take(g) PROVE CallersInv'
  BY <1>0, <1>8 DEF Take
<1>9. ASSUME NEW g \in Callers, PutBack(g) PROVE CallersInv'
  <2>1. CASE remote = Empty
    BY <1>0, <1>9, <2>1 DEF PutBack, Return
  <2>2. CASE remote # Empty
    BY <1>0, <1>9, <2>2 DEF PutBack
  <2> QED
    BY <2>1, <2>2
<1>10. ASSUME NEW g \in Callers, TimeOut(g) PROVE CallersInv'
  BY <1>0, <1>10 DEF TimeOut, Return
<1>11. CASE Close
  BY <1>0, <1>11 DEF Close
<1>12. CASE UNCHANGED vars
  BY <1>0, <1>12 DEF vars
<1> QED
  BY <1>1, <1>2, <1>3, <1>4, <1>5, <1>6, <1>7, <1>8, <1>9, <1>10, <1>11, <1>12
     DEF Next, Serve

\* However many callers there are, the invariant holds throughout.
THEOREM CallersInvariance == Spec => []CallersInv
<1>1. Init => CallersInv
  BY ConnectionsAssumption
     DEF Init, CallersInv, TypeOK, ServerTypeOK, CallerTypeOK, OnePlaceEach,
         SomeIsAvailable, Empty, Connections
<1>2. CallersInv /\ [Next]_vars => CallersInv'
  BY CallersStep
<1> QED
  BY <1>1, <1>2, PTL DEF Spec

\* However many callers there are, a remote is on the channel or with one of
\* them, never in two places: putting one back duplicates nothing.
THEOREM NoRemoteTwice == Spec => []OnePlaceEach
<1>1. CallersInv => OnePlaceEach
  BY DEF CallersInv
<1> QED
  BY <1>1, CallersInvariance, PTL

\* However many callers there are, while a connection is served some remote is
\* on the channel or about to be put back: they never wait for each other.
THEOREM SomeRemoteIsHad == Spec => []SomeIsAvailable
<1>1. CallersInv => SomeIsAvailable
  BY DEF CallersInv
<1> QED
  BY <1>1, CallersInvariance, PTL

\* With one caller, every step keeps the remotes in order and in one place.
LEMMA OneCallerStep ==
  ASSUME NEW g, Callers = {g}, OneCallerInv, [Next]_vars
  PROVE  OneCallerInv'
<1> USE ConnectionsAssumption
    DEF OneCallerInv, CallersInv, TypeOK, ServerTypeOK, CallerTypeOK, ServedIsAvailable,
        Empty, Connections, serverVars, callerVars
<1>0. CallersInv'
  BY CallersStep DEF OneCallerInv
<1> SUFFICES OneCallerInv'
  OBVIOUS
<1>1. CASE Accept
  BY <1>0, <1>1 DEF Accept
<1>2. CASE ClearRemote
  BY <1>0, <1>2 DEF ClearRemote
<1>3. CASE AwaitReady
  <2>1. CASE Finish
    <3>1. serverPc = "ready" /\ UNCHANGED <<listening, current, remote, callerVars, published>>
      BY <1>3 DEF AwaitReady
    <3> QED
      BY <1>0, <2>1, <3>1 DEF Finish
  <2>2. CASE ~Finish
    BY <1>0, <1>3, <2>2 DEF AwaitReady
  <2> QED
    BY <2>1, <2>2
<1>4. CASE Publish
  BY <1>0, <1>4 DEF Publish
<1>5. CASE Unpublish
  BY <1>0, <1>5 DEF Unpublish, Finish
<1>6. CASE LinkEnds
  BY <1>0, <1>6 DEF LinkEnds
<1>7. CASE Call(g)
  BY <1>0, <1>7 DEF Call
<1>8. CASE Take(g)
  BY <1>0, <1>8 DEF Take
<1>9. CASE PutBack(g)
  <2>1. CASE remote = Empty
    BY <1>0, <1>9, <2>1 DEF PutBack, Return
  <2>2. CASE remote # Empty
    BY <1>0, <1>9, <2>2 DEF PutBack
  <2> QED
    BY <2>1, <2>2
<1>10. CASE TimeOut(g)
  BY <1>0, <1>10 DEF TimeOut, Return
<1>11. CASE Close
  BY <1>0, <1>11 DEF Close
<1>12. CASE UNCHANGED vars
  BY <1>0, <1>12 DEF vars
<1> QED
  BY <1>1, <1>2, <1>3, <1>4, <1>5, <1>6, <1>7, <1>8, <1>9, <1>10, <1>11, <1>12
     DEF Next, Serve

\* With one caller the invariant holds throughout.
THEOREM OneCaller ==
  ASSUME NEW g, Callers = {g}
  PROVE  Spec => []OneCallerInv
<1>1. Init => OneCallerInv
  BY ConnectionsAssumption
     DEF Init, OneCallerInv, CallersInv, TypeOK, ServerTypeOK, CallerTypeOK,
         OnePlaceEach, SomeIsAvailable, ServedIsAvailable, Empty, Connections
<1>2. OneCallerInv /\ [Next]_vars => OneCallerInv'
  BY OneCallerStep
<1> QED
  BY <1>1, <1>2, PTL DEF Spec

\* With one caller, the remote of the connection being served can be had: it is
\* on the channel, or the caller is about to put it back.
THEOREM RemoteIsKept ==
  ASSUME NEW g, Callers = {g}
  PROVE  Spec => []ServedIsAvailable
<1>1. OneCallerInv => ServedIsAvailable
  BY DEF OneCallerInv
<1>2. Spec => []OneCallerInv
  BY OneCaller
<1> QED
  BY <1>1, <1>2, PTL

\* With one caller, GetRemote does not return an older remote while the one
\* that was out when it was called is served.
THEOREM NewestIsReturned ==
  ASSUME NEW g, Callers = {g}
  PROVE  Spec => NewestRemote
<1>1. OneCallerInv /\ [Next]_vars => [NewestReturned]_vars
  <2> SUFFICES ASSUME OneCallerInv, NEW r \in Connections, Returns(g, r),
                      publishedAtCall[g] \notin finished, Next
               PROVE  r >= publishedAtCall[g]
    BY DEF NewestReturned, vars
  <2> USE ConnectionsAssumption
      DEF OneCallerInv, CallersInv, TypeOK, ServerTypeOK, CallerTypeOK, Empty,
          Connections
  <2>1. PutBack(g)
    BY DEF Returns, Next, Serve, Accept, ClearRemote, AwaitReady, Finish, Publish,
       Unpublish, LinkEnds, Call, Take, TimeOut, Close, callerVars, serverVars
  <2>2. r = held[g] /\ remote = Empty
    BY <2>1 DEF PutBack, Return, Returns
  <2>3. CASE publishedAtCall[g] = 0
    BY <2>3
  <2>4. CASE publishedAtCall[g] # 0
    <3>1. serverPc = "wait" /\ publishedAtCall[g] = current
      BY <2>4 DEF Returns
    <3> QED
      BY <2>2, <3>1 DEF ServedIsAvailable
  <2> QED
    BY <2>3, <2>4
<1>2. Spec => []OneCallerInv
  BY OneCaller
<1> QED
  BY <1>1, <1>2, PTL DEF Spec, NewestRemote
=============================================================================
