--------------------------- MODULE HybridConsensus ---------------------------
(***************************************************************************)
(* The consensus engine of a node (consensus/hybrid_consensus.go,          *)
(* consensus_types.go, and ReputationManager of byzantine.go).             *)
(*                                                                         *)
(* Each peer's goroutine hands on the consensus messages of its peer, and  *)
(* holds hc.mu while it processes one.  A proposal makes the node vote;    *)
(* its vote goes to a goroutine of its own, which waits for hc.mu in turn. *)
(* Proof of work, signatures, proofs and transactions are accepted by      *)
(* stubs of the code.  The errors of decoding a payload are dropped: what  *)
(* is left is a vote of the zero address, or a block that is nil.          *)
(***************************************************************************)
EXTENDS Core, GoMap, FiniteSets, Functions

CONSTANTS
    Validator,      \* hc.validators, which only its user fills
    Peer,           \* the goroutines that hand on messages of peers
    Message,        \* the messages that peers can send
    NoMessage,      \* what an idle goroutine has
    NoBlock,        \* the nil block of a payload without one
    MaxReputation,  \* 100 in the code
    Neutral,        \* 50
    Reward,         \* 1
    Penalty,        \* 5
    VoteBound,      \* bound on the votes counted before more are sent
    EpochBound      \* bound on the commits made before more are sent

VARIABLES
    currentEpoch,
    currentLeader,
    preparedBlocks,     \* hash |-> block
    committedBlocks,    \* hash |-> block
    reputations,        \* address |-> score
    calls,              \* the message each goroutine has to process
    ownVotes,           \* the hashes whose votes wait for hc.mu
    mu,                 \* who holds hc.mu: a set of at most one goroutine
    panicked            \* the process has died in a panic

\* History variables: the valid and the invalid votes counted for each address.
VARIABLES good, bad

chain == <<currentEpoch, committedBlocks>>
history == <<good, bad>>
vars == <<chain, currentLeader, preparedBlocks, reputations, calls, ownVotes,
          mu, panicked, history>>

Hashes == {b.hash : b \in Block}

\* The addresses a vote can name.
Voter == Address \cup {ZeroAddress}

\* ConsensusMessage with the payload it carries.  "recent" stands for a
\* timestamp of the last ten minutes; any type but three is unknown.
VoteMessage == [type : {"vote"}, sender : Voter, recent : BOOLEAN,
                validator : Voter, hash : Hashes \cup {ZeroHash},
                isValid : BOOLEAN]
BlockMessage == [type : {"proposal", "commit"}, sender : Voter,
                 recent : BOOLEAN, block : Block \cup {NoBlock}]
OtherMessage == [type : {"", "unknown"}, sender : Voter, recent : BOOLEAN]

ASSUME ConsensusAssumption ==
    /\ Validator \subseteq Address
    /\ Message \subseteq VoteMessage \cup BlockMessage \cup OtherMessage
    /\ NoBlock \notin Block
    /\ NoMessage \notin Message
    /\ {MaxReputation, Neutral, Reward, Penalty, VoteBound, EpochBound}
            \subseteq Nat
    /\ Neutral <= MaxReputation

\* NewHybridConsensus.
Init ==
    /\ currentEpoch = 0
    /\ currentLeader = ZeroAddress
    /\ preparedBlocks = EmptyMap
    /\ committedBlocks = EmptyMap
    /\ reputations = EmptyMap
    /\ calls = [p \in Peer |-> NoMessage]
    /\ ownVotes = {}
    /\ mu = {}
    /\ panicked = FALSE
    /\ good = [a \in Voter |-> 0]
    /\ bad = [a \in Voter |-> 0]
-----------------------------------------------------------------------------
\* selectLeader.  The output of the VRF decides between the validators in the
\* order in which the map is iterated: any of them can be the one.
SelectLeader == IF Validator = {} THEN {ZeroAddress} ELSE Validator

\* getSelfAddress.
Self == ZeroAddress

\* runConsensusRound, every ten seconds.  The proposal of a node that leads is
\* dropped by broadcastProposal.
RunConsensusRound ==
    /\ ~panicked
    /\ mu = {}
    /\ currentLeader' \in SelectLeader
    /\ UNCHANGED <<chain, preparedBlocks, reputations, calls, ownVotes, mu,
                   panicked, history>>
-----------------------------------------------------------------------------
\* validateConsensusMessage.
ValidateConsensusMessage(msg) ==
    /\ msg.type # ""
    /\ msg.sender # ZeroAddress
    /\ msg.recent

\* Faults seeded to show that the properties can fail are named Faulty...
\* and stand just before the definition they alter.

\* A newcomer starts at the top.
FaultyScoreTop(a, isValid) ==
    LET current == IF Has(reputations, a) THEN reputations[a] ELSE MaxReputation
    IN  IF isValid THEN IF current + Reward > MaxReputation THEN MaxReputation
                                                            ELSE current + Reward
        ELSE IF current < Penalty THEN 0 ELSE current - Penalty

\* UpdateReputation: the new score of an address.
Score(a, isValid) ==
    LET current == IF Has(reputations, a) THEN reputations[a] ELSE Neutral
    IN  IF isValid THEN IF current + Reward > MaxReputation THEN MaxReputation
                                                            ELSE current + Reward
        ELSE IF current < Penalty THEN 0 ELSE current - Penalty

\* VerifyNode trusts everybody, and the BFT engine keeps nothing of a vote.
ProcessVote(msg) ==
    /\ reputations' = Put(reputations, msg.validator,
                          Score(msg.validator, msg.isValid))
    /\ IF msg.isValid
       THEN /\ good' = [good EXCEPT ![msg.validator] = @ + 1]
            /\ UNCHANGED bad
       ELSE /\ bad' = [bad EXCEPT ![msg.validator] = @ + 1]
            /\ UNCHANGED good
    /\ UNCHANGED <<chain, preparedBlocks, ownVotes>>

\* ValidateBlock accepts every block that is one; broadcastVote starts a
\* goroutine.
ProcessProposal(msg) ==
    /\ msg.block # NoBlock
    /\ preparedBlocks' = Put(preparedBlocks, msg.block.hash, msg.block)
    /\ ownVotes' = ownVotes \cup {msg.block.hash}
    /\ UNCHANGED <<chain, reputations, history>>

\* hasQuorum counts nothing.
HasQuorum(block) == TRUE

\* A block that was never proposed does not count.
FaultyFinalizeBlock(block) ==
    /\ committedBlocks' = Put(committedBlocks, block.hash, block)
    /\ currentEpoch' = IF Has(preparedBlocks, block.hash) THEN Inc(currentEpoch)
                                                          ELSE currentEpoch

FinalizeBlock(block) ==
    /\ committedBlocks' = Put(committedBlocks, block.hash, block)
    /\ currentEpoch' = Inc(currentEpoch)

\* ProcessCommit; it asks hasQuorum once itself and once in FinalizeBlock.
ProcessCommit(msg) ==
    /\ msg.block # NoBlock
    /\ HasQuorum(msg.block)
    /\ FinalizeBlock(msg.block)
    /\ UNCHANGED <<preparedBlocks, reputations, ownVotes, history>>
-----------------------------------------------------------------------------
\* The counters of the model are bounded where messages come in.
WithinBounds(msg) ==
    CASE msg.type = "vote"     -> SumFunction(good) + SumFunction(bad) < VoteBound
      [] msg.type = "commit"   -> currentEpoch < EpochBound
      [] OTHER                 -> TRUE

\* A peer's message arrives; ProcessConsensusMessage is called.
ReceiveMessage(p, msg) ==
    /\ ~panicked
    /\ calls[p] = NoMessage
    /\ WithinBounds(msg)
    /\ calls' = [calls EXCEPT ![p] = msg]
    /\ UNCHANGED <<chain, currentLeader, preparedBlocks, reputations, ownVotes,
                   mu, panicked, history>>

\* It gets hc.mu.
Lock(p) ==
    /\ ~panicked
    /\ calls[p] # NoMessage
    /\ mu = {}
    /\ mu' = {p}
    /\ UNCHANGED <<chain, currentLeader, preparedBlocks, reputations, calls,
                   ownVotes, panicked, history>>

\* p holds hc.mu, in a process that has not died.
Holds(p) == p \in mu /\ ~panicked

\* A message that is refused is tried again.
FaultyRejectMessage(p) ==
    /\ Holds(p)
    /\ ~ValidateConsensusMessage(calls[p])
    /\ mu' = {}
    /\ UNCHANGED <<chain, currentLeader, preparedBlocks, reputations, calls,
                   ownVotes, panicked, history>>

\* It returns, and gives hc.mu back: after "invalid consensus message".
RejectMessage(p) ==
    /\ Holds(p)
    /\ ~ValidateConsensusMessage(calls[p])
    /\ calls' = [calls EXCEPT ![p] = NoMessage]
    /\ mu' = {}
    /\ UNCHANGED <<chain, currentLeader, preparedBlocks, reputations, ownVotes,
                   panicked, history>>

\* The default of the switch: "unknown consensus message type".
RefuseType(msg) ==
    /\ msg.type \notin {"vote", "proposal", "commit"}
    /\ UNCHANGED <<chain, preparedBlocks, reputations, ownVotes, history>>

\* It returns with the message processed, or of an unknown type.
ProcessMessage(p) ==
    /\ Holds(p)
    /\ ValidateConsensusMessage(calls[p])
    /\ \/ calls[p].type = "vote"     /\ ProcessVote(calls[p])
       \/ calls[p].type = "proposal" /\ ProcessProposal(calls[p])
       \/ calls[p].type = "commit"   /\ ProcessCommit(calls[p])
       \/ RefuseType(calls[p])
    /\ calls' = [calls EXCEPT ![p] = NoMessage]
    /\ mu' = {}
    /\ UNCHANGED <<currentLeader, panicked>>

\* ValidateBlock and FinalizeBlock look into a block that is nil.  Nobody
\* recovers: the process ends.
Panic(p) ==
    /\ Holds(p)
    /\ ValidateConsensusMessage(calls[p])
    /\ calls[p].type \in {"proposal", "commit"}
    /\ calls[p].block = NoBlock
    /\ panicked' = TRUE
    /\ UNCHANGED <<chain, currentLeader, preparedBlocks, reputations, calls,
                   ownVotes, mu, history>>

\* broadcastVote.
OwnVote(h) == [type |-> "vote", sender |-> Self, recent |-> TRUE,
               validator |-> Self, hash |-> h, isValid |-> TRUE]

\* The node's own vote gets hc.mu.  Its sender is getSelfAddress(), and the
\* validation refuses it.
ProcessOwnVote(h) ==
    /\ ~panicked
    /\ h \in ownVotes
    /\ mu = {}
    /\ ~ValidateConsensusMessage(OwnVote(h))
    /\ ownVotes' = ownVotes \ {h}
    /\ UNCHANGED <<chain, currentLeader, preparedBlocks, reputations, calls, mu,
                   panicked, history>>

Next ==
    \/ RunConsensusRound
    \/ \E p \in Peer :
        \/ \E msg \in Message : ReceiveMessage(p, msg)
        \/ Lock(p)
        \/ RejectMessage(p)
        \/ ProcessMessage(p)
        \/ Panic(p)
    \/ \E h \in Hashes : ProcessOwnVote(h)

\* Goroutines run, and a sync.RWMutex lets no waiter starve.
Fairness ==
    /\ \A p \in Peer : /\ SF_vars(Lock(p))
                       /\ WF_vars(RejectMessage(p) \/ ProcessMessage(p)
                                    \/ Panic(p))
    /\ \A h \in Hashes : SF_vars(ProcessOwnVote(h))

Spec == Init /\ [][Next]_vars /\ Fairness
-----------------------------------------------------------------------------
\* Every variable keeps its type: a score never leaves 0 .. 100, and hc.mu has
\* one holder at most, which is processing a message.
TypeOK ==
    /\ currentEpoch \in Uint64
    /\ currentLeader \in Voter
    /\ IsMap(preparedBlocks, Hashes, Block)
    /\ IsMap(committedBlocks, Hashes, Block)
    /\ IsMap(reputations, Voter, 0 .. MaxReputation)
    /\ calls \in [Peer -> Message \cup {NoMessage}]
    /\ ownVotes \subseteq DOMAIN preparedBlocks
    /\ mu \in {{}} \cup {{p} : p \in Peer}
    /\ \A p \in mu : calls[p] # NoMessage
    /\ panicked \in BOOLEAN
    /\ good \in [Voter -> Nat]
    /\ bad \in [Voter -> Nat]

\* UpdateReputation, vote after vote, in every mix and order: an address has a
\* score as soon as a vote of it was counted; the score never leaves 0 .. 100, the
\* votes alone explain it, and what the two limits cut off never makes it better
\* than its valid votes or worse than its invalid ones.
ScoreExplained ==
    \A a \in Voter :
        /\ Has(reputations, a) <=> good[a] + bad[a] > 0
        /\ Has(reputations, a) =>
            /\ reputations[a] \in 0 .. MaxReputation
            /\ reputations[a] <= Neutral + Reward * good[a]
            /\ reputations[a] + Penalty * bad[a] >= Neutral
            /\ bad[a] = 0 /\ reputations[a] < MaxReputation =>
                    reputations[a] = Neutral + Reward * good[a]
            /\ good[a] = 0 /\ reputations[a] > 0 =>
                    reputations[a] + Penalty * bad[a] = Neutral

\* FinalizeBlock counts an epoch for every block it stores, proposed or not:
\* until the counter wraps around there are no more committed blocks than
\* epochs, and the first epoch ends with the first commit.
EpochCounts ==
    /\ Cardinality(DOMAIN committedBlocks) <= currentEpoch
    /\ currentEpoch = 0 <=> committedBlocks = EmptyMap

\* ProcessConsensusMessage returns, or the process ends, although a proposal
\* sends a vote to the very engine whose lock is held while it is processed.
CallsReturn ==
    /\ \A p \in Peer : calls[p] # NoMessage ~> calls[p] = NoMessage \/ panicked
    /\ \A h \in Hashes : h \in ownVotes ~> h \notin ownVotes \/ panicked
=============================================================================
