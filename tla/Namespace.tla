------------------------------ MODULE Namespace ------------------------------
(***************************************************************************)
(* A network namespace: Open and Close of pkg/network/namespace.go.        *)
(*                                                                         *)
(* Open puts interfaces, routes and iptables rules into the kernel one     *)
(* after the other and returns at the first call that fails.  Close takes  *)
(* them away in an order of its own and also returns at the first that     *)
(* fails; deleting what is not there fails.  What is in the kernel for one *)
(* namespace is a set of the resources named here.                         *)
(***************************************************************************)
EXTENDS Naturals, Sequences, SequencesExt

CONSTANTS
  AllowIncoming,  \* allowIncomingTraffic
  FailPoints      \* bound: the resources whose adding or deleting may fail

\* What Open adds, in its order.  Calls in between that configure an interface
\* or change the thread's namespace may fail and leave nothing of their own.
OpenOrder ==
  IF AllowIncoming
  THEN <<"netns", "tap", "veth", "default route", "snat", "dnat", "incoming dnat",
         "incoming masquerade", "route", "forward accept", "drop inbound", "drop outbound">>
  ELSE <<"netns", "tap", "veth", "default route", "snat", "dnat",
         "route", "forward accept", "drop inbound", "drop outbound">>

Resources == ToSet(OpenOrder)

ASSUME NamespaceAssumption ==
  /\ AllowIncoming \in BOOLEAN
  /\ FailPoints \subseteq Resources

\* What goes with the namespace when it is deleted.
Inside == {"tap", "default route", "snat", "dnat", "incoming dnat",
           "incoming masquerade", "netns"}

\* What Close deletes, in its order.  The rules for incoming traffic are not
\* deleted but appended a second time, and go with the namespace.
CloseOrder ==
  <<"drop inbound", "drop outbound", "forward accept", "route", "dnat", "snat",
    "default route", "veth", "tap", "netns">>

Before(order, r) == {order[k] : k \in {k \in DOMAIN order : \E l \in DOMAIN order :
                                          order[l] = r /\ k < l}}

-----------------------------------------------------------------------------

\* The name of a namespace is taken as long as the namespace is there.
OpenWorks(present) == "netns" \notin present

Opened == Resources

\* What an Open that may use the name leaves if it fails: all that it added
\* before the call that failed.
FailedOpens == {Before(OpenOrder, r) : r \in FailPoints}

\* Close gets as far as the first resource that is missing.
Deletable(present) ==
  {r \in ToSet(CloseOrder) : Before(CloseOrder, r) \cup {r} \subseteq present}

\* Deleting the namespace takes along what is inside it.
AfterDeleting(present, deleted) ==
  present \ (deleted \cup (IF "netns" \in deleted THEN Inside ELSE {}))

Closed(present) == AfterDeleting(present, Deletable(present))

\* What a Close leaves if a call fails that had something to delete.
FailedCloses(present) ==
  {AfterDeleting(present, Before(CloseOrder, r)) : r \in FailPoints \cap Deletable(present)}

=============================================================================
