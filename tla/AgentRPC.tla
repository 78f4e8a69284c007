------------------------------ MODULE AgentRPC ------------------------------
(***************************************************************************)
(* The host's end of the agent connection: pkg/ipc/agent_rpc.go.           *)
(*                                                                         *)
(* One goroutine accepts connections and handles them one at a time.  The  *)
(* handler of a connection that becomes ready puts the remote, the means   *)
(* of calling the guest's agent, on a channel of capacity one, waits until *)
(* the connection ends, and takes the remote off again.  GetRemote takes   *)
(* the remote off the channel, tries to put it back, and returns it.       *)
(*                                                                         *)
(* A connection and its remote are a number; connections are numbered in   *)
(* the order in which they are accepted.                                   *)
(***************************************************************************)
EXTENDS Naturals

CONSTANTS
  Callers,            \* goroutines that call GetRemote
  MaxConnections      \* bound: how many connections are accepted

ASSUME ConnectionsAssumption == MaxConnections \in Nat \ {0}

Empty == 0            \* an empty channel; no connection has this number
Connections == 1..MaxConnections

VARIABLES
  listening,          \* listenCtx is not done
  serverPc,           \* where the accepting goroutine is
  current,            \* the connection accepted last
  link,               \* "up" while LinkStream runs on it
  remote,             \* the channel
  callerPc, held,     \* where each caller is, and the remote it took
  \* history
  finished,           \* connections whose handler has returned
  published,          \* the last connection whose remote was put on the channel
  returned,           \* what each caller's last GetRemote returned
  publishedAtCall     \* its value when the call was made

serverVars == <<serverPc, current>>
callerVars == <<callerPc, held, returned, publishedAtCall>>
vars == <<listening, serverVars, link, remote, callerVars, finished, published>>

Init ==
  /\ listening = TRUE
  /\ serverPc = "accept"
  /\ current = 0
  /\ link = "down"
  /\ remote = Empty
  /\ callerPc = [g \in Callers |-> "idle"]
  /\ held = [g \in Callers |-> Empty]
  /\ finished = {}
  /\ published = 0
  /\ returned = [g \in Callers |-> Empty]
  /\ publishedAtCall = [g \in Callers |-> 0]

-----------------------------------------------------------------------------
\* The accepting goroutine and handleRPCConnection.

\* The loop ends when listenCtx is done, else a client is accepted.
Accept ==
  /\ serverPc = "accept"
  /\ IF listening
     THEN /\ current < MaxConnections
          /\ current' = current + 1
          /\ link' = "up"
          /\ serverPc' = "clear"
     ELSE /\ serverPc' = "stopped"
          /\ UNCHANGED <<current, link>>
  /\ UNCHANGED <<listening, remote, callerVars, finished, published>>

\* A remote an earlier connection left behind is taken off.
ClearRemote ==
  /\ serverPc = "clear"
  /\ serverPc' = "ready"
  /\ remote' = Empty
  /\ UNCHANGED <<listening, current, link, callerVars, finished, published>>

\* Return from the handler, which cancels the link.
Finish ==
  /\ serverPc' = "accept"
  /\ link' = "down"
  /\ finished' = finished \cup {current}

\* The client is ready in time; or the ready timeout passes, or the link ends
\* first.  The remote of a link that has just ended may still be found.
AwaitReady ==
  /\ serverPc = "ready"
  /\ \/ /\ serverPc' = "publish"
        /\ UNCHANGED <<link, finished>>
     \/ Finish
  /\ UNCHANGED <<listening, current, remote, callerVars, published>>

\* The remote is put on the channel, which blocks while the channel is full.
Publish ==
  /\ serverPc = "publish"
  /\ remote = Empty
  /\ remote' = current
  /\ published' = current
  /\ serverPc' = "wait"
  /\ UNCHANGED <<listening, current, link, callerVars, finished>>

\* When the connection has ended the remote is taken off, if there is one.
Unpublish ==
  /\ serverPc = "wait"
  /\ link = "down"
  /\ Finish
  /\ remote' = Empty
  /\ UNCHANGED <<listening, current, callerVars, published>>

\* LinkStream ends when the client goes away, or when its context is cancelled.
LinkEnds ==
  /\ link = "up"
  /\ link' = "down"
  /\ UNCHANGED <<listening, serverVars, remote, callerVars, finished, published>>

LinkCancelled == ~listening /\ LinkEnds

-----------------------------------------------------------------------------
\* GetRemote.

Call(g) ==
  /\ callerPc[g] = "idle"
  /\ callerPc' = [callerPc EXCEPT ![g] = "take"]
  /\ returned' = [returned EXCEPT ![g] = Empty]
  /\ publishedAtCall' = [publishedAtCall EXCEPT ![g] = published]
  /\ UNCHANGED <<listening, serverVars, link, remote, held, finished, published>>

\* Mutant: a receive that leaves what it takes on the channel.
TakeLeaving(g) ==
  /\ callerPc[g] = "take"
  /\ remote # Empty
  /\ callerPc' = [callerPc EXCEPT ![g] = "putBack"]
  /\ held' = [held EXCEPT ![g] = remote]
  /\ UNCHANGED <<listening, serverVars, link, remote, returned, finished, published,
                 publishedAtCall>>

\* A receive from a full channel lets a sender that waits complete at once.
Take(g) ==
  /\ callerPc[g] = "take"
  /\ remote # Empty
  /\ callerPc' = [callerPc EXCEPT ![g] = "putBack"]
  /\ held' = [held EXCEPT ![g] = remote]
  /\ IF serverPc = "publish"
     THEN remote' = current /\ published' = current /\ serverPc' = "wait"
     ELSE remote' = Empty /\ UNCHANGED <<published, serverPc>>
  /\ UNCHANGED <<listening, current, link, returned, finished,
                 publishedAtCall>>

\* Put it back and return it; or, with another remote there, take that one.
Return(g, r) ==
  /\ callerPc' = [callerPc EXCEPT ![g] = "idle"]
  /\ held' = [held EXCEPT ![g] = Empty]
  /\ returned' = [returned EXCEPT ![g] = r]

\* Mutant: the remote is put back over a newer one.
PutBackOver(g) ==
  /\ callerPc[g] = "putBack"
  /\ remote' = held[g]
  /\ Return(g, held[g])
  /\ UNCHANGED <<listening, serverVars, link, finished, published,
                 publishedAtCall>>

\* Mutant: the remote is not put back.
PutBackNever(g) ==
  /\ callerPc[g] = "putBack"
  /\ Return(g, held[g])
  /\ UNCHANGED <<listening, serverVars, link, remote, finished, published,
                 publishedAtCall>>

PutBack(g) ==
  /\ callerPc[g] = "putBack"
  /\ IF remote = Empty
     THEN /\ remote' = held[g]
          /\ Return(g, held[g])
     ELSE /\ callerPc' = [callerPc EXCEPT ![g] = "take"]
          /\ held' = [held EXCEPT ![g] = Empty]
          /\ UNCHANGED <<remote, returned>>
  /\ UNCHANGED <<listening, serverVars, link, finished, published,
                 publishedAtCall>>

\* The caller's context is done.
TimeOut(g) ==
  /\ callerPc[g] = "take"
  /\ Return(g, Empty)
  /\ UNCHANGED <<listening, serverVars, link, remote, finished, published,
                 publishedAtCall>>

\* AgentRPC.Close cancels listenCtx and closes the listener; nothing else.
Close ==
  /\ listening
  /\ listening' = FALSE
  /\ UNCHANGED <<serverVars, link, remote, callerVars, finished, published>>

Serve == Accept \/ ClearRemote \/ AwaitReady \/ Publish \/ Unpublish

Next ==
  \/ Serve
  \/ LinkEnds
  \/ \E g \in Callers : Call(g) \/ Take(g) \/ PutBack(g) \/ TimeOut(g)
  \/ Close

Spec == Init /\ [][Next]_vars

\* The goroutines run, and a cancelled link ends.  Callers keep trying but need
\* not call; a caller that waits on the channel is served in turn.
Fairness ==
  /\ WF_vars(Serve)
  /\ WF_vars(LinkCancelled)
  /\ \A g \in Callers : SF_vars(Take(g)) /\ WF_vars(PutBack(g))

FairSpec == Spec /\ Fairness

-----------------------------------------------------------------------------
ServerTypeOK ==
  /\ listening \in BOOLEAN
  /\ serverPc \in {"accept", "clear", "ready", "publish", "wait", "stopped"}
  /\ current \in 0..MaxConnections
  /\ serverPc \notin {"accept", "stopped"} => current > 0
  /\ link \in {"up", "down"}
  /\ remote \in 0..MaxConnections
  /\ finished \subseteq Connections
  /\ published \in 0..MaxConnections

CallerTypeOK ==
  /\ callerPc \in [Callers -> {"idle", "take", "putBack"}]
  /\ held \in [Callers -> 0..MaxConnections]
  /\ \A g \in Callers : callerPc[g] = "putBack" <=> held[g] # Empty
  /\ returned \in [Callers -> 0..MaxConnections]
  /\ publishedAtCall \in [Callers -> 0..MaxConnections]

\* A caller holds a remote exactly while it is putting one back.
TypeOK == ServerTypeOK /\ CallerTypeOK

\* While a connection is served its remote can be had: it is on the channel, or
\* a caller is about to put it back (agent_rpc.go:146-170 with 251-282).
ServedIsAvailable ==
  serverPc = "wait" =>
     \/ remote = current
     \/ \E g \in Callers : callerPc[g] = "putBack" /\ held[g] = current

\* A remote is in one place: on the channel or with one of the callers.
OnePlaceEach ==
  /\ \A g \in Callers : held[g] # Empty => held[g] # remote
  /\ \A g, h \in Callers : g # h /\ held[g] # Empty => held[g] # held[h]

\* While a connection is served some remote can be had, if not always its own.
SomeIsAvailable ==
  serverPc = "wait" => remote # Empty \/ \E g \in Callers : callerPc[g] = "putBack"

\* What any callers keep true (agent_rpc.go:146-170 with 204-283): remotes are
\* put on the channel in the order of their connections, and none is duplicated.
CallersInv ==
  /\ TypeOK
  /\ finished = 1..current \ (IF serverPc \in {"accept", "stopped"} THEN {} ELSE {current})
  /\ published <= current
  /\ serverPc = "wait" => published = current
  /\ serverPc \in {"clear", "ready", "publish"} => published < current
  /\ remote <= published
  /\ \A g \in Callers :
       /\ held[g] <= published
       /\ callerPc[g] # "idle" => publishedAtCall[g] <= published
  /\ OnePlaceEach
  /\ SomeIsAvailable

\* What a single caller keeps true besides, and what ServedIsAvailable and
\* NewestRemote follow from: the remote it puts back is older than the one on
\* the channel.
OneCallerInv ==
  /\ CallersInv
  /\ ServedIsAvailable
  /\ \A g \in Callers : held[g] # Empty /\ remote # Empty => held[g] < remote

Returns(g, r) == callerPc[g] = "putBack" /\ callerPc'[g] = "idle" /\ returned'[g] = r

NewestReturned ==
  \A g \in Callers, r \in Connections :
     Returns(g, r) /\ publishedAtCall[g] \notin finished => r >= publishedAtCall[g]

\* "there's a new one.  We should loop round and get the new one"
\* (agent_rpc.go:161): a call made when a connection's remote was out does not,
\* while that connection is served, return the remote of an older one.
NewestRemote == [][NewestReturned]_vars

\* If a connection stays, every call returns; and a send that the channel blocks,
\* which nothing else ends, gets through once a caller waits for a remote, unless that
\* caller's time is out (agent_rpc.go:151-170, 253).
AgentReachable ==
  /\ <>[](serverPc = "wait" /\ link = "up") =>
       \A g \in Callers : callerPc[g] = "take" ~> callerPc[g] = "idle"
  /\ \A g \in Callers :
       serverPc = "publish" /\ callerPc[g] = "take" ~> serverPc # "publish" \/ callerPc[g] = "idle"

=============================================================================
