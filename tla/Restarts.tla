------------------------------ MODULE Restarts ------------------------------
(***************************************************************************)
(* Relationships whose daemons are stopped cleanly, while no command runs, *)
(* and started again (Node.Save, Node.Load).                               *)
(*                                                                         *)
(* Everything is saved but the public keys of addresses                    *)
(* (Address.Serialize).  So FindAddress still finds a key that was         *)
(* registered before the restart by its hash, which is how senders are     *)
(* looked up, but not by the public key that a direct message is paid to;  *)
(* and the address it finds no longer compares equal to our next key.      *)
(***************************************************************************)
EXTENDS Relationships

CONSTANT Restarting  \* the nodes that are ever stopped

ASSUME RestartingAssumption == Restarting \subseteq Node

VARIABLE
    loaded  \* the derived keys of every node that came from its database

restartVars == <<vars, loaded>>

RestartInit == Init /\ loaded = [p \in Node |-> {}]

\* Fault: relationships are loaded as they were initiated.
LoadedFromStart(p) == [k \in DOMAIN rs[p] |-> [rs[p][k] EXCEPT !.next = 1]]

\* Relationships.Load of what Save has written.
LoadedRelationships(p) == rs[p]

\* A clean stop and a start.
Restart(p) ==
    /\ Idle(p)
    /\ loaded[p] # indep[p]
    /\ loaded' = [loaded EXCEPT ![p] = indep[p]]
    /\ rs' = [rs EXCEPT ![p] = LoadedRelationships(p)]
    /\ UNCHANGED <<network, indep, out, txs, promoted, cmd, inbox>>

\* Paid, with direct encryption, only to keys that FindAddress misses:
\* DecryptActionDirect finds no receiver that is ours.
Missed(p, tx) ==
    /\ tx.kind # "initiate" /\ tx.enc = 0
    /\ ~Owns(p, tx.from)
    /\ {pk \in ToSet(tx.to) : Owns(p, pk)} \subseteq loaded[p]

\* Our own, signed with a loaded key.
FromLoaded(p, tx) == tx.from \in loaded[p]

Promote(p, t) ==
    /\ t \in txs[p] \ promoted[p]
    /\ Serialised => Idle(p)
    /\ promoted' = [promoted EXCEPT ![p] = @ \cup {t}]
    /\ UNCHANGED <<network, indep, out, txs, cmd, inbox>>

ProcessMissed(p, t) ==
    /\ Missed(p, network[t])
    /\ Promote(p, t)
    /\ UNCHANGED rs

\* GetRelationshipForTx leaves our index alone, but not those of the members.
ProcessFromLoaded(p, t) ==
    LET tx == network[t]
        k == RelationshipForTx(p, tx)
        r == rs[p][k] IN
    /\ FromLoaded(p, tx)
    /\ Promote(p, t)
    /\ IF ~Decrypts(p, tx) \/ k = 0 THEN UNCHANGED rs
       ELSE rs' = [rs EXCEPT ![p][k] =
                Processed(tx, TRUE, 0, IncrementMembers(r,
                    {i \in DOMAIN r.members : MemberKey(r, r.members[i]) \in KeysUsed(tx)}))]

\* ProcessTx, where no key involved has been loaded.
ProcessUnaffected(p, t) ==
    /\ ~Missed(p, network[t]) /\ ~FromLoaded(p, network[t])
    /\ ProcessTx(p, t)

RestartNext ==
    \E p \in Node :
        \/ p \in Restarting /\ Restart(p)
        \/ /\ \/ \E c \in Conn : UserStep(p, c) \/ CommandStep(p, c)
              \/ \E t \in DOMAIN network :
                    \/ HandleTx(p, t) \/ ProcessUnaffected(p, t)
                    \/ ProcessMissed(p, t) \/ ProcessFromLoaded(p, t)
           /\ UNCHANGED loaded

RestartSpec == RestartInit /\ [][RestartNext]_restartVars
=============================================================================
