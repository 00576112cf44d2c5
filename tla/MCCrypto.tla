------------------------------ MODULE MCCrypto -------------------------------
(***************************************************************************)
(* An instance of Crypto: elements whose hashes give the primes 2, 11, 11  *)
(* again and 101, and every secret below the order of the generator.       *)
(***************************************************************************)
EXTENDS Crypto

MCElements == {0, 7, 9, 99}
MCSecrets  == 0 .. 21
=============================================================================
