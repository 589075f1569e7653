----------------------------- MODULE MCKeystore -----------------------------
(* Instances of Keystore for TLC: see the Keystore*.cfg files. *)
EXTENDS Keystore, TLC

KeystoreSymmetry == Permutations(Procs) \cup Permutations(Names)
=============================================================================
