----------------------- MODULE HybridConsensusProofs ------------------------
(***************************************************************************)
(* The engine keeps its types, the scores of the reputation manager are    *)
(* explained by the votes, and the epochs count the commits, for any       *)
(* messages in any order.                                                  *)
(***************************************************************************)
EXTENDS HybridConsensus, DataTheorems, TLAPS

\* The limits of the scores are natural numbers.
LEMMA Numbers ==
    /\ MaxReputation \in Nat /\ Neutral \in Nat
    /\ Reward \in Nat /\ Penalty \in Nat
    /\ Neutral <= MaxReputation
    /\ currentEpoch \in Uint64 => Inc(currentEpoch) \in Uint64
<1>1. MaxUint64 \in Nat
  BY MaxUint64Assumption
<1> QED
  BY <1>1, ConsensusAssumption DEF Uint64, Inc

\* What a message carries.
LEMMA MessageFields ==
    ASSUME NEW msg \in Message
    PROVE  /\ msg # NoMessage
           /\ msg.type = "vote" =>
                /\ msg.validator \in Voter
                /\ msg.isValid \in BOOLEAN
           /\ msg.type \in {"proposal", "commit"} /\ msg.block # NoBlock =>
                /\ msg.block \in Block
                /\ msg.block.hash \in Hashes
<1>1. msg \in VoteMessage \/ msg \in BlockMessage \/ msg \in OtherMessage
  BY ConsensusAssumption
<1>2. CASE msg \in VoteMessage
  BY <1>2, ConsensusAssumption DEF VoteMessage
<1>3. CASE msg \in BlockMessage
  BY <1>3, ConsensusAssumption DEF BlockMessage, Hashes
<1>4. CASE msg \in OtherMessage
  BY <1>4, ConsensusAssumption DEF OtherMessage
<1> QED
  BY <1>1, <1>2, <1>3, <1>4

\* UpdateReputation stays within the limits.
LEMMA ScoreType ==
    ASSUME TypeOK, NEW a \in Voter, NEW isValid \in BOOLEAN
    PROVE  Score(a, isValid) \in 0 .. MaxReputation
<1> DEFINE current == IF Has(reputations, a) THEN reputations[a] ELSE Neutral
<1>1. current \in 0 .. MaxReputation
  BY Numbers DEF TypeOK, IsMap, Has
<1> QED
  BY <1>1, Numbers DEF Score
-----------------------------------------------------------------------------
\* NewHybridConsensus has the types.
LEMMA TypeInit == Init => TypeOK
<1> SUFFICES ASSUME Init PROVE TypeOK
  OBVIOUS
<1>1. /\ IsMap(preparedBlocks, Hashes, Block)
      /\ IsMap(committedBlocks, Hashes, Block)
      /\ IsMap(reputations, Voter, 0 .. MaxReputation)
  BY EmptyIsMap DEF Init
<1>2. currentEpoch \in Uint64
  BY MaxUint64Assumption DEF Init, Uint64
<1> QED
  BY <1>1, <1>2 DEF Init, TypeOK, Voter

\* Processing a message keeps them.
LEMMA TypeProcess ==
    ASSUME TypeOK, NEW p \in Peer, ProcessMessage(p)
    PROVE  TypeOK'
<1> DEFINE msg == calls[p]
<1>1. msg \in Message
  BY DEF ProcessMessage, Holds, TypeOK
<1>2. /\ calls' \in [Peer -> Message \cup {NoMessage}]
      /\ mu' = {}
      /\ currentLeader' = currentLeader /\ panicked' = panicked
  BY DEF ProcessMessage, TypeOK
<1>3. CASE msg.type = "vote" /\ ProcessVote(msg)
  <2>1. IsMap(reputations', Voter, 0 .. MaxReputation)
    BY <1>1, <1>3, MessageFields, ScoreType, PutIsMap DEF ProcessVote, TypeOK
  <2>2. good' \in [Voter -> Nat] /\ bad' \in [Voter -> Nat]
    <3> DEFINE a == msg.validator
    <3>1. a \in Voter
      BY <1>1, <1>3, MessageFields
    <3>2. good \in [Voter -> Nat] /\ bad \in [Voter -> Nat]
      BY DEF TypeOK
    <3>3. \/ good' = [good EXCEPT ![a] = @ + 1] /\ bad' = bad
          \/ bad' = [bad EXCEPT ![a] = @ + 1] /\ good' = good
      BY <1>3 DEF ProcessVote
    <3> HIDE DEF a
    <3> QED
      BY <3>1, <3>2, <3>3
  <2>3. UNCHANGED <<currentEpoch, committedBlocks, preparedBlocks, ownVotes>>
    BY <1>3 DEF ProcessVote, chain
  <2> QED
    BY <1>2, <2>1, <2>2, <2>3 DEF TypeOK
<1>4. CASE msg.type = "proposal" /\ ProcessProposal(msg)
  <2>1. IsMap(preparedBlocks', Hashes, Block)
    BY <1>1, <1>4, MessageFields, PutIsMap DEF ProcessProposal, TypeOK
  <2>2. ownVotes' \subseteq DOMAIN preparedBlocks'
    BY <1>4 DEF ProcessProposal, TypeOK, Put
  <2> QED
    BY <1>2, <1>4, <2>1, <2>2 DEF ProcessProposal, TypeOK, chain, history
<1>5. CASE msg.type = "commit" /\ ProcessCommit(msg)
  <2>1. IsMap(committedBlocks', Hashes, Block)
    BY <1>1, <1>5, MessageFields, PutIsMap
    DEF ProcessCommit, FinalizeBlock, TypeOK
  <2>2. currentEpoch' \in Uint64
    BY <1>5, Numbers DEF ProcessCommit, FinalizeBlock, TypeOK
  <2> QED
    BY <1>2, <1>5, <2>1, <2>2 DEF ProcessCommit, TypeOK, history
<1>6. CASE RefuseType(msg)
  BY <1>2, <1>6 DEF RefuseType, TypeOK, chain, history
<1> QED
  BY <1>3, <1>4, <1>5, <1>6 DEF ProcessMessage

\* No step leaves the types.
LEMMA TypeNext == TypeOK /\ [Next]_vars => TypeOK'
<1> SUFFICES ASSUME TypeOK, [Next]_vars PROVE TypeOK'
  OBVIOUS
<1>1. CASE RunConsensusRound
  <2>1. currentLeader' \in Voter
    BY <1>1, ConsensusAssumption DEF RunConsensusRound, SelectLeader, Voter
  <2> QED
    BY <1>1, <2>1 DEF RunConsensusRound, TypeOK, chain, history
<1>2. ASSUME NEW p \in Peer, NEW msg \in Message, ReceiveMessage(p, msg)
      PROVE  TypeOK'
  BY <1>2, MessageFields DEF ReceiveMessage, TypeOK, chain, history
<1>3. ASSUME NEW p \in Peer, Lock(p)
      PROVE  TypeOK'
  BY <1>3 DEF Lock, TypeOK, chain, history
<1>4. ASSUME NEW p \in Peer, RejectMessage(p)
      PROVE  TypeOK'
  BY <1>4 DEF RejectMessage, TypeOK, chain, history
<1>5. ASSUME NEW h \in Hashes, ProcessOwnVote(h)
      PROVE  TypeOK'
  BY <1>5 DEF ProcessOwnVote, TypeOK, chain, history
<1>6. ASSUME NEW p \in Peer, Panic(p)
      PROVE  TypeOK'
  BY <1>6 DEF Panic, TypeOK, chain, history
<1>7. CASE UNCHANGED vars
  BY <1>7 DEF vars, TypeOK, chain, history
<1> QED
  BY <1>1, <1>2, <1>3, <1>4, <1>5, <1>6, <1>7, TypeProcess DEF Next

\* Whatever messages come in whatever order, a score stays between 0 and its
\* maximum, a vote of the node itself is only waiting for a block it knows, and
\* hc.mu has one holder at most (UpdateReputation, ProcessProposal,
\* ProcessConsensusMessage).
THEOREM TypeCorrect == Spec => []TypeOK
BY TypeInit, TypeNext, PTL DEF Spec
-----------------------------------------------------------------------------
\* One more vote adds its weight once.
LEMMA OneMore ==
    ASSUME NEW w \in Nat, NEW n \in Nat
    PROVE  /\ w * n \in Nat
           /\ w * 0 = 0
           /\ w * (n + 1) = w * n + w
OBVIOUS

\* "r" is a possible score after g valid votes worth rg and b invalid ones
\* worth pb.
Explains(r, rg, pb, g, b) ==
    /\ r \in 0 .. MaxReputation
    /\ r <= Neutral + rg
    /\ r + pb >= Neutral
    /\ b = 0 /\ r < MaxReputation => r = Neutral + rg
    /\ g = 0 /\ r > 0 => r + pb = Neutral

\* A valid vote ...
LEMMA Rewarded ==
    ASSUME NEW r \in 0 .. MaxReputation, NEW rg \in Nat, NEW pb \in Nat,
           NEW g \in Nat, NEW b \in Nat,
           Explains(r, rg, pb, g, b)
    PROVE  Explains(IF r + Reward > MaxReputation THEN MaxReputation
                                                  ELSE r + Reward,
                    rg + Reward, pb, g + 1, b)
BY Numbers DEF Explains

\* ... and an invalid one.
LEMMA Penalised ==
    ASSUME NEW r \in 0 .. MaxReputation, NEW rg \in Nat, NEW pb \in Nat,
           NEW g \in Nat, NEW b \in Nat,
           Explains(r, rg, pb, g, b)
    PROVE  Explains(IF r < Penalty THEN 0 ELSE r - Penalty,
                    rg, pb + Penalty, g, b + 1)
BY Numbers DEF Explains

\* A vote changes the score by its weight, up to the limits.
LEMMA VoteExplained ==
    ASSUME TypeOK, ScoreExplained,
           NEW msg \in Message, msg.type = "vote", ProcessVote(msg)
    PROVE  ScoreExplained'
<1> DEFINE a == msg.validator
           current == IF Has(reputations, a) THEN reputations[a] ELSE Neutral
<1>1. a \in Voter /\ msg.isValid \in BOOLEAN
  BY MessageFields
<1>2. /\ good[a] \in Nat /\ bad[a] \in Nat
      /\ current \in 0 .. MaxReputation
  BY <1>1, Numbers DEF TypeOK, IsMap, Has
<1>3. /\ Has(reputations', a)
      /\ reputations'[a] =
            IF msg.isValid THEN IF current + Reward > MaxReputation
                                THEN MaxReputation ELSE current + Reward
            ELSE IF current < Penalty THEN 0 ELSE current - Penalty
  BY DEF ProcessVote, Has, Put, Score
<1>4. \A b \in Voter \ {a} :
        /\ Has(reputations', b) <=> Has(reputations, b)
        /\ Has(reputations, b) => reputations'[b] = reputations[b]
        /\ good'[b] = good[b] /\ bad'[b] = bad[b]
  BY <1>1 DEF ProcessVote, Has, Put, TypeOK
<1> DEFINE Explained(r, g, b) ==
               Explains(r, Reward * g, Penalty * b, g, b)
<1>5. Explained(current, good[a], bad[a])
  <2>1. CASE Has(reputations, a)
    BY <1>1, <2>1 DEF ScoreExplained, Explains
  <2>2. CASE ~Has(reputations, a)
    <3>1. good[a] = 0 /\ bad[a] = 0
      BY <1>1, <1>2, <2>2 DEF ScoreExplained
    <3> QED
      BY <2>2, <3>1, Numbers, OneMore DEF Explains
  <2> QED
    BY <2>1, <2>2
<1> HIDE DEF current
<1>6. /\ good'[a] + bad'[a] > 0
      /\ Explained(reputations'[a], good'[a], bad'[a])
  <2>1. /\ Reward * good[a] \in Nat /\ Penalty * bad[a] \in Nat
        /\ Reward * (good[a] + 1) = Reward * good[a] + Reward
        /\ Penalty * (bad[a] + 1) = Penalty * bad[a] + Penalty
    BY <1>2, Numbers, OneMore
  <2>2. CASE msg.isValid
    <3>1. good'[a] = good[a] + 1 /\ bad'[a] = bad[a]
      BY <1>1, <2>2 DEF ProcessVote, TypeOK
    <3>2. reputations'[a] = IF current + Reward > MaxReputation
                            THEN MaxReputation ELSE current + Reward
      BY <1>3, <2>2
    <3>3. Explains(reputations'[a], Reward * good[a] + Reward, Penalty * bad[a],
                   good[a] + 1, bad[a])
      BY <1>2, <1>5, <2>1, <3>2, Rewarded
    <3> QED
      BY <1>2, <2>1, <3>1, <3>3
  <2>3. CASE ~msg.isValid
    <3>1. good'[a] = good[a] /\ bad'[a] = bad[a] + 1
      BY <1>1, <2>3 DEF ProcessVote, TypeOK
    <3>2. reputations'[a] = IF current < Penalty THEN 0 ELSE current - Penalty
      BY <1>3, <2>3
    <3>3. Explains(reputations'[a], Reward * good[a], Penalty * bad[a] + Penalty,
                   good[a], bad[a] + 1)
      BY <1>2, <1>5, <2>1, <3>2, Penalised
    <3> QED
      BY <1>2, <2>1, <3>1, <3>3
  <2> QED
    BY <1>1, <2>2, <2>3
<1>7. SUFFICES ASSUME NEW b \in Voter
               PROVE  /\ Has(reputations', b) <=> good'[b] + bad'[b] > 0
                      /\ Has(reputations', b) =>
                            Explained(reputations'[b], good'[b], bad'[b])
  BY DEF ScoreExplained, Explains
<1>8. CASE b = a
  BY <1>3, <1>6, <1>8
<1>9. CASE b # a
  BY <1>4, <1>9 DEF ScoreExplained, Explains
<1> QED
  BY <1>8, <1>9

\* Nothing else touches scores or votes.
LEMMA ExplainedNext ==
    TypeOK /\ ScoreExplained /\ [Next]_vars => ScoreExplained'
<1> SUFFICES ASSUME TypeOK, ScoreExplained, [Next]_vars PROVE ScoreExplained'
  OBVIOUS
<1>1. ASSUME UNCHANGED <<reputations, good, bad>>
      PROVE  ScoreExplained'
  BY <1>1 DEF ScoreExplained
<1>2. ASSUME NEW p \in Peer, ProcessMessage(p)
      PROVE  ScoreExplained'
  <2>1. calls[p] \in Message
    BY <1>2 DEF ProcessMessage, Holds, TypeOK
  <2>2. CASE calls[p].type = "vote" /\ ProcessVote(calls[p])
    BY <2>1, <2>2, VoteExplained
  <2>3. CASE \/ ProcessProposal(calls[p]) \/ ProcessCommit(calls[p])
             \/ RefuseType(calls[p])
    BY <1>1, <2>3 DEF ProcessProposal, ProcessCommit, RefuseType, history
  <2> QED
    BY <1>2, <2>2, <2>3 DEF ProcessMessage
<1>3. CASE \/ RunConsensusRound
           \/ \E p \in Peer : \/ \E msg \in Message : ReceiveMessage(p, msg)
                              \/ Lock(p)
                              \/ RejectMessage(p)
                              \/ Panic(p)
           \/ \E h \in Hashes : ProcessOwnVote(h)
           \/ UNCHANGED vars
  BY <1>1, <1>3
  DEF RunConsensusRound, ReceiveMessage, Lock, RejectMessage, Panic,
      ProcessOwnVote, vars, history
<1> QED
  BY <1>2, <1>3 DEF Next

\* UpdateReputation, for any votes, limits and weights: a score is explained
\* by the votes counted; what the limits cut off never makes it better than
\* its valid votes or worse than its invalid ones.
THEOREM ScoresExplained == Spec => []ScoreExplained
<1>1. Init => ScoreExplained
  BY DEF Init, ScoreExplained, Has, EmptyMap
<1> QED
  BY <1>1, TypeCorrect, ExplainedNext, PTL DEF Spec
-----------------------------------------------------------------------------
\* The committed blocks are finitely many, and no more than the epochs.
EpochInv == IsFiniteSet(DOMAIN committedBlocks) /\ EpochCounts

\* A commit of a block counts one epoch, and stores one more block at most.
LEMMA CommitCounts ==
    ASSUME TypeOK, EpochInv, currentEpoch < MaxUint64,
           NEW block, FinalizeBlock(block)
    PROVE  EpochInv'
<1> DEFINE D == DOMAIN committedBlocks
<1>1. DOMAIN committedBlocks' = D \cup {block.hash}
  BY DEF FinalizeBlock, Put
<1>2. currentEpoch' = currentEpoch + 1 /\ currentEpoch \in Nat
  <2>1. currentEpoch \in Nat /\ MaxUint64 \in Nat
    BY MaxUint64Assumption DEF TypeOK, Uint64
  <2>2. (currentEpoch + 1) % (MaxUint64 + 1) = currentEpoch + 1
    <3>1. \A a, b \in Nat : a < b => a % b = a
      OBVIOUS
    <3> QED
      BY <2>1, <3>1
  <2>3. currentEpoch' = (currentEpoch + 1) % (MaxUint64 + 1)
    BY DEF FinalizeBlock, Inc
  <2> QED
    BY <2>1, <2>2, <2>3
<1>3. IsFiniteSet(D) /\ Cardinality(D) <= currentEpoch
  BY DEF EpochInv, EpochCounts
<1> HIDE DEF D
<1>4. /\ IsFiniteSet(D \cup {block.hash})
      /\ Cardinality(D) \in Nat
      /\ Cardinality(D \cup {block.hash}) = IF block.hash \in D
                                            THEN Cardinality(D)
                                            ELSE Cardinality(D) + 1
  BY <1>3, FS_AddElement, FS_CardinalityType
<1>5. Cardinality(DOMAIN committedBlocks') <= currentEpoch'
  BY <1>1, <1>2, <1>3, <1>4
<1>6. committedBlocks' # EmptyMap
  BY <1>1 DEF EmptyMap
<1>7. currentEpoch' # 0
  BY <1>2
<1> QED
  BY <1>1, <1>4, <1>5, <1>6, <1>7 DEF EpochInv, EpochCounts

\* Only a commit touches the epoch and the committed blocks.
LEMMA EpochNext ==
    TypeOK /\ EpochInv /\ currentEpoch < MaxUint64 /\ [Next]_vars => EpochInv'
<1> SUFFICES ASSUME TypeOK, EpochInv, currentEpoch < MaxUint64, [Next]_vars
             PROVE  EpochInv'
  OBVIOUS
<1>1. ASSUME UNCHANGED <<currentEpoch, committedBlocks>>
      PROVE  EpochInv'
  BY <1>1 DEF EpochInv, EpochCounts
<1>2. ASSUME NEW p \in Peer, ProcessMessage(p)
      PROVE  EpochInv'
  <2>1. CASE ProcessCommit(calls[p])
    BY <2>1, CommitCounts DEF ProcessCommit
  <2>2. CASE \/ ProcessVote(calls[p]) \/ ProcessProposal(calls[p])
             \/ RefuseType(calls[p])
    BY <1>1, <2>2 DEF ProcessVote, ProcessProposal, RefuseType, chain
  <2> QED
    BY <1>2, <2>1, <2>2 DEF ProcessMessage
<1>3. CASE \/ RunConsensusRound
           \/ \E p \in Peer : \/ \E msg \in Message : ReceiveMessage(p, msg)
                              \/ Lock(p)
                              \/ RejectMessage(p)
                              \/ Panic(p)
           \/ \E h \in Hashes : ProcessOwnVote(h)
           \/ UNCHANGED vars
  BY <1>1, <1>3
  DEF RunConsensusRound, ReceiveMessage, Lock, RejectMessage, Panic,
      ProcessOwnVote, vars, chain
<1> QED
  BY <1>2, <1>3 DEF Next

\* FinalizeBlock, as long as the epoch has not reached the largest uint64:
\* there are no more committed blocks than epochs, whatever was proposed, and
\* however often a block was committed.
THEOREM EpochsCounted == Spec /\ [](currentEpoch < MaxUint64) => []EpochCounts
<1>1. Init => EpochInv
  BY FS_EmptySet DEF Init, EpochInv, EpochCounts, EmptyMap
<1>2. EpochInv => EpochCounts
  BY DEF EpochInv
<1> QED
  BY <1>1, <1>2, TypeCorrect, EpochNext, PTL DEF Spec
=============================================================================
