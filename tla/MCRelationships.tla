-------------------------- MODULE MCRelationships --------------------------
(***************************************************************************)
(* Instances of Relationships for TLC: who invites whom.                   *)
(***************************************************************************)
EXTENDS Relationships

CONSTANTS sam, curtis, james

In(p, n) == [node |-> p, type |-> "in", index |-> n]

\* Sam invites Curtis: direct encryption.
PairInvites ==
    (sam :> {<<In(curtis, 0)>>}) @@ (curtis :> {}) @@ (james :> {})

\* Sam invites Curtis and James: indirect encryption.
GroupInvites ==
    (sam :> {<<In(curtis, 0), In(james, 0)>>}) @@ (curtis :> {}) @@ (james :> {})

\* Sam invites Curtis, or Curtis and James.
EitherInvites == [p \in Node |-> PairInvites[p] \cup GroupInvites[p]]
=============================================================================
