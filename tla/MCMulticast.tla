---------------------------- MODULE MCMulticast ----------------------------
(* Instances of Multicast for TLC.                                         *)
EXTENDS Multicast

MCNode == {1, 2}

=============================================================================
