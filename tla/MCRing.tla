------------------------------- MODULE MCRing -------------------------------
(* Ring for TLC.                                                              *)
EXTENDS Ring

\* Every launcher lists every other one, the ring in which queries could go
\* round in circles, and itself.
Everybody == [n \in Nodes |-> Nodes]

=============================================================================
