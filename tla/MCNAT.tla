------------------------------- MODULE MCNAT -------------------------------
(* A small instance of NAT for TLC. *)
EXTENDS NAT

\* Nobody else's copy of the host's rules, or one.
Two == 0 .. 1

\* One pair and one address more than there are namespaces.
Three == 0 .. 2
=============================================================================
