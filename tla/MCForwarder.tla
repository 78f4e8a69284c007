---------------------------- MODULE MCForwarder ----------------------------
(* A small instance of Forwarder for TLC. *)
EXTENDS Forwarder

\* A forward at a loopback address and one at another lead to the same port of
\* one namespace, and share a rule.
TwoPorts  == {"local", "remote"}
Addresses == [p \in Ports |-> p]
OneVeth   == [p \in Ports |-> "veth"]
OneTarget == [p \in Ports |-> "valkey"]

\* Another forwarder's rule for the same port, and one of the NAT.
OthersRules == {<<"POSTROUTING", "valkey">>, <<"FORWARD -i", "veth1">>}
SharedRules ==
  [rule \in OthersRules \cup UNION {ToSet(RulesOf(p)) : p \in Ports} |->
     IF rule \in OthersRules THEN 1 ELSE 0]
=============================================================================
