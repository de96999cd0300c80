-------------------------- MODULE MCWalletFunding --------------------------
(* Small instances of WalletFunding.                                       *)
EXTENDS WalletFunding, TLC

\* Nothing tells one connection from another, or one key from another.
FundingSymmetry == Permutations(Conn) \cup Permutations(Key)

=============================================================================
