----------------------- MODULE MCHazelcastMembership -----------------------
(* Instances of HazelcastMembership for TLC.                               *)
EXTENDS HazelcastMembership

MCNode == 1..MaxStarts
MCPort == [n \in MCNode |-> n % 2]

=============================================================================
