----------------------------- MODULE MCDefender ------------------------------
(***************************************************************************)
(* An instance of ByzantineDefender: two nodes and reports large enough    *)
(* for both bounds of a score and all the thresholds to be met.            *)
(***************************************************************************)
EXTENDS ByzantineDefender

Report(valid, invalid, participation, votes) ==
    [ValidBlocks |-> valid, InvalidBlocks |-> invalid, ValidTransactions |-> 0,
     ConsensusParticipation |-> participation, DoubleVotes |-> votes]

MCBehavior ==
    { Report(300, 0, 100, 0),   \* up by 30.2
      Report(450, 0, 0, 1),     \* up by 43.5, although it attacks
      Report(0, 1, 0, 0),       \* the mildest attack
      Report(0, 0, 0, 30),      \* down by 45
      Report(1, 3, 0, 1),       \* two attacks
      Report(2, 1, 50, 0) }     \* nothing to its credit, and no attack
=============================================================================
