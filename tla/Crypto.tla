------------------------------- MODULE Crypto --------------------------------
(***************************************************************************)
(* The algebra of crypto/accumulator.go and crypto/zkp.go, with the small  *)
(* numbers of the code.                                                    *)
(*                                                                         *)
(* Accumulators: several copies (nodes, or one node at several times) make *)
(* the accumulator of the same world state, as updateAccumulator does in   *)
(* state/state_manager.go: they range over the same Go map, each in an     *)
(* order of its own.                                                       *)
(*                                                                         *)
(* Proofs: somebody who knows a secret has a proof made, and anybody may   *)
(* verify it for any statement.                                            *)
(*                                                                         *)
(* The initial states and the steps are called Crypto..., so that the      *)
(* theorems can stand with those about other orders (OrderProofs).         *)
(***************************************************************************)
EXTENDS Naturals, Sequences, GoMap

CONSTANTS
    Copies,     \* those who make the accumulator
    Elements,   \* serialized accounts: the first 8 bytes of their hashes
    Secrets,    \* the secrets that proofs are made for
    NoSecret

ASSUME CryptoAssumption ==
    /\ Elements \subseteq Nat
    /\ Secrets \subseteq Nat
    /\ NoSecret \notin Secrets

Modulus   == 257    \* of the accumulator
Start     == 3
Prime     == 23     \* of the proofs
Generator == 5
Order     == 11

VARIABLES
    value,      \* acc.value of each copy
    witnesses,  \* acc.witnesses of each copy
    secret,     \* the secret of the last proof
    proof,      \* the last proof
    added       \* history: what each copy has added, in its order

cryptoVars == <<value, witnesses, secret, proof, added>>

\* big.Int's Exp, for a small exponent.
Exp(base, exponent, modulus) ==
    LET power[i \in 0 .. exponent] ==
            IF i = 0 THEN 1 ELSE (base * power[i - 1]) % modulus
    IN  power[exponent]

\* Faults seeded to show that the properties can fail are named Faulty...
\* and stand just before the definition they alter.

(***************************************************************************)
(* The accumulator                                                         *)
(***************************************************************************)
IsPrime(n) == n > 1 /\ \A d \in 2 .. (n - 1) : n % d # 0

\* hashToPrime: the first prime from the reduced hash on.  101 is one.
HashToPrime(element) ==
    LET start == (element % 100) + 2
    IN  CHOOSE p \in start .. 101 :
            IsPrime(p) /\ \A q \in start .. p - 1 : ~IsPrime(q)

\* The generator is raised again, not the value reached so far.
FaultyAccumulated(current, element) ==
    Exp(Start, HashToPrime(element), Modulus)

\* Add: the new value.
Accumulated(current, element) == Exp(current, HashToPrime(element), Modulus)

\* Add, called in one turn of the loop of updateAccumulator.  The witness is
\* the value before it.
Add(c, element) ==
    /\ ~Has(witnesses[c], element)
    /\ witnesses' = [witnesses EXCEPT ![c] = Put(@, element, value[c])]
    /\ value' = [value EXCEPT ![c] = Accumulated(@, element)]
    /\ added' = [added EXCEPT ![c] = Append(@, element)]
    /\ UNCHANGED <<secret, proof>>

\* updateAccumulator is called for the next state (NewAccumulator).
NewAccumulator(c) ==
    /\ DOMAIN witnesses[c] = Elements
    /\ witnesses' = [witnesses EXCEPT ![c] = EmptyMap]
    /\ value' = [value EXCEPT ![c] = Start]
    /\ added' = [added EXCEPT ![c] = << >>]
    /\ UNCHANGED <<secret, proof>>

(***************************************************************************)
(* Zero-knowledge proofs                                                   *)
(***************************************************************************)
\* Another fixed challenge, which has a factor in common with the order of the
\* group.
FaultyProofOf(x) ==
    [Commitment |-> Exp(Generator, 7, Prime),
     Challenge  |-> 2,
     Response   |-> (7 + 2 * x) % Order]

\* GenerateProof: neither the random number nor the challenge is random, and
\* the statement is not used.  The response is reduced modulo Order.
ProofOf(x) ==
    [Commitment |-> Exp(Generator, 7, Prime),
     Challenge  |-> 3,
     Response   |-> (7 + 3 * x) % Order]

\* GenerateStateProof is GenerateProof(2).
GenerateProof(x) ==
    /\ secret' = x
    /\ proof' = ProofOf(x)
    /\ UNCHANGED <<value, witnesses, added>>

VerifyProof(p, statement) ==
    Exp(Generator, p.Response, Prime)
        = (p.Commitment * Exp(statement, p.Challenge, Prime)) % Prime

-----------------------------------------------------------------------------

CryptoInit ==
    /\ value = [c \in Copies |-> Start]
    /\ witnesses = [c \in Copies |-> EmptyMap]
    /\ added = [c \in Copies |-> << >>]
    /\ secret = NoSecret
    /\ proof = ProofOf(0)

CryptoNext ==
    \/ \E c \in Copies, element \in Elements : Add(c, element)
    \/ \E c \in Copies : NewAccumulator(c)
    \/ \E x \in Secrets : GenerateProof(x)

CryptoSpec == CryptoInit /\ [][CryptoNext]_cryptoVars

-----------------------------------------------------------------------------
(***************************************************************************)
(* Properties                                                              *)
(***************************************************************************)

\* What a copy has computed: for every number of elements added, which they
\* were and what the accumulator was then, which is the witness of the next.
Computed(c) ==
    {<<{added[c][j] : j \in 1 .. i},
       IF i < Len(added[c]) THEN witnesses[c][added[c][i + 1]] ELSE value[c]>> :
        i \in 0 .. Len(added[c])}

\* Add, in updateAccumulator: the order in which a Go map is iterated shows
\* neither in the root nor in the witnesses.  Two copies that have added the
\* same elements, at the end or on the way, have the same value.
SameRoot ==
    \A c, d \in Copies :
        \A x \in Computed(c), y \in Computed(d) : x[1] = y[1] => x[2] = y[2]

\* "Test with wrong statement", of VerifyProof: no proof is accepted for two
\* different statements, be its response reduced or not.
StatementUnique ==
    \A y, z \in {x \in 1 .. Prime - 1 : VerifyProof(proof, x)} : y = z

-----------------------------------------------------------------------------
\* What tests say, and the code does not do.

\* "Verify state proof": the proof of GenerateStateProof, whose secret is 2, is
\* accepted for the statement of its secret.
StateProofVerifies ==
    secret = 2 => VerifyProof(proof, Exp(Generator, secret, Prime))
=============================================================================
