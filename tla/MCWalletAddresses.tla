------------------------- MODULE MCWalletAddresses -------------------------
(* Small instances of WalletAddresses.                                     *)
EXTENDS WalletAddresses, TLC

\* Nothing tells one thread from another.
ThreadSymmetry == Permutations(Thread)

=============================================================================
