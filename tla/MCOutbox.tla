------------------------------ MODULE MCOutbox ------------------------------
(* Two deliveries and the first two channels of the chain; every row can be *)
(* reached on each channel, except that d2 has no address for the first.    *)
EXTENDS Outbox, TLC

CONSTANTS d1, d2

MCReachable == (Rows \X (1..ChannelCount)) \ {<<d2, 1>>}
Replicas    == Permutations(Workers)
=============================================================================
