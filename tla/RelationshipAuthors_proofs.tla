--------------------- MODULE RelationshipAuthors_proofs ---------------------
(***************************************************************************)
(* Whose keys the transactions and records of a relationship use, for      *)
(* every number of daemons, connections and transactions, and from it that *)
(* what is read is attributed to its author, that who has accepted has     *)
(* broadcast an accept, and that no key signs twice; and that a node keeps *)
(* one record per relationship.                                            *)
(***************************************************************************)
EXTENDS Relationships_proofs

-----------------------------------------------------------------------------
(* Whose keys a relationship uses.                                         *)

\* The base keys of the relationship that transaction t initiates.
Bases(t) ==
    {network[t].from.base} \cup {network[t].to[i].base : i \in DOMAIN network[t].to}

\* An initiate pays base keys of distinct others with a fresh key of its own.
InitiateOK(tx) ==
    tx.kind = "initiate" =>
        /\ tx.from.i = 0
        /\ tx.from.base.type = "out"
        /\ tx.from.base.index < out[tx.from.base.node]
        /\ \A i \in DOMAIN tx.to : /\ tx.to[i].i = 0
                                  /\ tx.to[i].base.type = "in"
                                  /\ tx.to[i].base.node # tx.from.base.node
        /\ \A i, j \in DOMAIN tx.to :
              tx.to[i].base.node = tx.to[j].base.node => i = j
        /\ tx.enc = 0 => Len(tx.to) = 1

\* The rest is between members of its relationship, and signed by one.
LaterOK(tx) ==
    tx.kind # "initiate" =>
        /\ Owns(tx.from.base.node, tx.from)
        /\ tx.from.base \in Bases(tx.rel)
        /\ \A i \in DOMAIN tx.to : tx.to[i].base \in Bases(tx.rel)

\* A base key belongs to one relationship, unless addresses are reused.
OwnBases ==
    \A s, t \in DOMAIN network :
        network[s].kind = "initiate" /\ network[t].kind = "initiate" =>
            /\ network[s].from.base = network[t].from.base => s = t
            /\ ~ReuseAddresses =>
                  \A i \in DOMAIN network[s].to : \A j \in DOMAIN network[t].to :
                      network[s].to[i].base = network[t].to[j].base => s = t

\* A record divides the base keys of its relationship into ours and theirs.
RecordBases(r) ==
    /\ r.key \in Bases(r.txid)
    /\ \A i \in DOMAIN r.members : r.members[i].base \in Bases(r.txid) \ {r.key}

\* What a command will broadcast is for members of its relationship.
Within(to, txid) == \A i \in DOMAIN to : to[i].base \in Bases(txid)

AuthorInv ==
    /\ \A t \in DOMAIN network : InitiateOK(network[t]) /\ LaterOK(network[t])
    /\ OwnBases
    /\ \A p \in Node : \A k \in DOMAIN rs[p] : RecordBases(rs[p][k])
    /\ \A p \in Node : \A c \in Conn :
          cmd[p][c].pc = "built" => Within(cmd[p][c].to, rs[p][cmd[p][c].k].txid)

\* A relationship has the parties its initiate gave it.
LEMMA BasesKept ==
    ASSUME NetworkExtends, NEW t \in DOMAIN network
    PROVE  Bases(t)' = Bases(t)
BY DEF NetworkExtends, Bases

\* What holds of one transaction or record holds of it from then on.
LEMMA InitiateStaysOK ==
    ASSUME Inv, NEW tx, tx \in Tx, InitiateOK(tx), \A q \in Node : out'[q] >= out[q],
           out' \in [Node -> Nat]
    PROVE  InitiateOK(tx)'
<1>1. tx.from.base \in BaseKey
  BY DEF Tx, PublicKey
<1>2. tx.from.base.node \in Node /\ tx.from.base.index \in Nat
  BY <1>1 DEF BaseKey
<1>3. /\ out[tx.from.base.node] \in Nat /\ out'[tx.from.base.node] \in Nat
      /\ out'[tx.from.base.node] >= out[tx.from.base.node]
  BY <1>2 DEF Inv, TypeOK
<1>4. tx.from.base.index < out[tx.from.base.node]
         => tx.from.base.index < out'[tx.from.base.node]
  BY <1>2, <1>3
<1>5. QED
  BY <1>4 DEF InitiateOK

\* A later transaction keeps to its relationship's keys as the network and the
\* registered keys grow.
LEMMA LaterStaysOK ==
    ASSUME Inv, NetworkExtends, NEW t \in DOMAIN network, NEW tx, tx = network[t],
           LaterOK(tx), \A q \in Node : indep[q] \subseteq indep'[q]
    PROVE  LaterOK(tx)'
<1>1. tx \in Tx
  BY TxType
<1>2. tx.from.base.node \in Node
  BY <1>1 DEF Tx, PublicKey, BaseKey
<1>3. tx.rel \in DOMAIN network
  <2>1. tx.rel \in 1..t
    BY DEF Inv, Structure, TxsOK
  <2>2. DOMAIN network = 1..Len(network) /\ Len(network) \in Nat
    BY LenProperties DEF Inv, TypeOK
  <2>3. QED
    BY <2>1, <2>2
<1>4. Bases(tx.rel)' = Bases(tx.rel)
  <2>1. PICK u \in DOMAIN network : u = tx.rel
    BY <1>3
  <2>2. QED
    BY <2>1, BasesKept
<1>5. Owns(tx.from.base.node, tx.from) => Owns(tx.from.base.node, tx.from)'
  BY <1>2 DEF Owns
<1>6. QED
  BY <1>4, <1>5 DEF LaterOK

\* A record keeps to its relationship's keys as long as its parties stay.
LEMMA RecordStays ==
    ASSUME NetworkExtends, NEW r, NEW s, r.txid \in DOMAIN network,
           RecordBases(r), Continues(s, r)
    PROVE  RecordBases(s)'
<1>1. Bases(r.txid)' = Bases(r.txid)
  <2>1. PICK u \in DOMAIN network : u = r.txid
    OBVIOUS
  <2>2. QED
    BY <2>1, BasesKept
<1>2. QED
  BY <1>1 DEF RecordBases, Continues

\* The parts of the invariant, for a step: no key is forgotten, ...
KeysKept ==
    /\ out' \in [Node -> Nat] /\ \A q \in Node : out'[q] >= out[q]
    /\ \A q \in Node : indep[q] \subseteq indep'[q]
TxAuthors == \A t \in DOMAIN network : InitiateOK(network[t]) /\ LaterOK(network[t])
RecordAuthors == \A p \in Node : \A k \in DOMAIN rs[p] : RecordBases(rs[p][k])
CommandAuthors ==
    \A p \in Node : \A c \in Conn :
        cmd[p][c].pc = "built" => Within(cmd[p][c].to, rs[p][cmd[p][c].k].txid)

\* ... what is broadcast is between members, ...
LEMMA TxsStep ==
    ASSUME Inv, AuthorInv, NetworkExtends, KeysKept, NEW tx,
           \A t \in DOMAIN network' : t \in DOMAIN network \/ network'[t] = tx,
           UNCHANGED network \/ (InitiateOK(tx)' /\ LaterOK(tx)')
    PROVE  TxAuthors'
<1>1. ASSUME NEW t \in DOMAIN network
      PROVE  \E x : x = network'[t] /\ InitiateOK(x)' /\ LaterOK(x)'
  <2>1. PICK x : x = network[t] /\ x \in Tx
    BY TxType
  <2>2. InitiateOK(x) /\ LaterOK(x)
    BY <2>1 DEF AuthorInv
  <2>3. InitiateOK(x)'
    BY <2>1, <2>2, InitiateStaysOK DEF KeysKept
  <2>4. LaterOK(x)'
    BY <2>1, <2>2, LaterStaysOK DEF KeysKept
  <2>5. QED
    BY <2>1, <2>3, <2>4 DEF NetworkExtends
<1>2. ASSUME NEW t, t \in DOMAIN network'
      PROVE  \E x : x = network'[t] /\ InitiateOK(x)' /\ LaterOK(x)'
  <2>1. CASE t \in DOMAIN network
    BY <1>1, <2>1
  <2>2. CASE t \notin DOMAIN network
    <3>1. network'[t] = tx
      BY <1>2, <2>2
    <3>2. ~ UNCHANGED network
      BY <1>2, <2>2
    <3>3. InitiateOK(tx)' /\ LaterOK(tx)'
      BY <3>2
    <3>4. QED
      BY <3>1, <3>3
  <2>3. QED
    BY <2>1, <2>2
<1>3. ASSUME NEW t \in DOMAIN network'
      PROVE  InitiateOK(network[t])'
  <2>1. PICK x : x = network'[t] /\ InitiateOK(x)'
    BY <1>2
  <2>2. QED
    BY <2>1 DEF InitiateOK
<1>4. ASSUME NEW t \in DOMAIN network'
      PROVE  LaterOK(network[t])'
  <2>1. PICK x : x = network'[t] /\ LaterOK(x)'
    BY <1>2
  <2>2. QED
    BY <2>1 DEF LaterOK
<1>5. QED
  BY <1>3, <1>4 DEF TxAuthors

\* ... what is recorded has its parties ...
LEMMA RecordsStep ==
    ASSUME Inv, AuthorInv, NetworkExtends, NEW s,
           \A q \in Node : \A k \in DOMAIN rs'[q] :
              \/ k \in DOMAIN rs[q] /\ rs'[q][k] = rs[q][k]
              \/ rs'[q][k] = s,
           UNCHANGED rs \/ RecordBases(s)'
    PROVE  RecordAuthors'
<1>1. ASSUME NEW q \in Node, NEW k \in DOMAIN rs[q], rs'[q][k] = rs[q][k]
      PROVE  \E x : x = rs'[q][k] /\ RecordBases(x)'
  <2>1. PICK x : x = rs[q][k]
    OBVIOUS
  <2>2. RecordBases(x) /\ x.txid \in DOMAIN network
    BY <2>1 DEF AuthorInv, Inv, Structure, RecordsOK
  <2>3. Continues(x, x)
    BY DEF Continues
  <2>4. RecordBases(x)'
    BY <2>2, <2>3, RecordStays
  <2>5. QED
    BY <1>1, <2>1, <2>4
<1>2. ASSUME NEW q \in Node, NEW k, k \in DOMAIN rs'[q]
      PROVE  \E x : x = rs'[q][k] /\ RecordBases(x)'
  <2>1. CASE k \in DOMAIN rs[q] /\ rs'[q][k] = rs[q][k]
    BY <1>1, <2>1
  <2>2. CASE ~ (k \in DOMAIN rs[q] /\ rs'[q][k] = rs[q][k])
    <3>1. rs'[q][k] = s /\ rs' # rs
      BY <1>2, <2>2
    <3>2. QED
      BY <3>1
  <2>3. QED
    BY <2>1, <2>2
<1>3. QED
  BY <1>2 DEF RecordAuthors, RecordBases

\* ... and so has what is built.
LEMMA CommandsStep ==
    ASSUME Inv, AuthorInv, NetworkExtends, RecordsExtend,
           NEW p \in Node, NEW c \in Conn, NEW d,
           \A q \in Node : \A e \in Conn :
              \/ cmd'[q][e] = cmd[q][e]
              \/ q = p /\ e = c /\ cmd'[q][e] = d,
           d.pc = "built" => /\ d.k \in DOMAIN rs[p]
                             /\ Within(d.to, rs[p][d.k].txid)
    PROVE  CommandAuthors'
<1>1. ASSUME NEW q \in Node, NEW k, k \in DOMAIN rs[q], NEW to,
             Within(to, rs[q][k].txid)
      PROVE  \E x : x = rs'[q][k].txid /\ Within(to, x)'
  <2>1. PICK x : x = rs[q][k].txid /\ x \in DOMAIN network
    BY <1>1 DEF Inv, Structure, RecordsOK
  <2>2. x = rs'[q][k].txid
    BY <1>1, <2>1 DEF RecordsExtend
  <2>3. Bases(x)' = Bases(x)
    BY <2>1, BasesKept
  <2>4. Within(to, x)'
    BY <1>1, <2>1, <2>3 DEF Within
  <2>5. QED
    BY <2>2, <2>4
<1>2. ASSUME NEW q \in Node, NEW e \in Conn, cmd'[q][e].pc = "built"
      PROVE  \E x, to : /\ to = cmd'[q][e].to /\ x = rs'[q][cmd'[q][e].k].txid
                        /\ Within(to, x)'
  <2>1. CASE cmd'[q][e] = cmd[q][e]
    <3>1. PICK k, to : k = cmd[q][e].k /\ to = cmd[q][e].to
      OBVIOUS
    <3>2. cmd[q][e].pc = "built"
      BY <1>2, <2>1
    <3>3. k \in DOMAIN rs[q]
      BY <3>1, <3>2, CommandHeld
    <3>4. Within(to, rs[q][k].txid)
      BY <3>1, <3>2 DEF AuthorInv
    <3>5. QED
      BY <1>1, <2>1, <3>1, <3>3, <3>4
  <2>2. CASE q = p /\ e = c /\ cmd'[q][e] = d
    <3>1. PICK k, to : k = d.k /\ to = d.to
      OBVIOUS
    <3>2. QED
      BY <1>1, <1>2, <2>2, <3>1
  <2>3. QED
    BY <2>1, <2>2
<1>3. QED
  BY <1>2 DEF CommandAuthors, Within

\* Unless a command is built, the commands need nothing new.
LEMMA CommandsFrame ==
    ASSUME Inv, AuthorInv, NetworkExtends, RecordsExtend,
           \A q \in Node : \A e \in Conn :
              cmd'[q][e] = cmd[q][e] \/ cmd'[q][e].pc # "built"
    PROVE  CommandAuthors'
<1>1. ASSUME NEW q \in Node, NEW e \in Conn, cmd'[q][e].pc = "built"
      PROVE  \E x, to : /\ to = cmd'[q][e].to /\ x = rs'[q][cmd'[q][e].k].txid
                        /\ Within(to, x)'
  <2>1. cmd'[q][e] = cmd[q][e]
    BY <1>1
  <2>2. PICK k, to, x : /\ k = cmd[q][e].k /\ to = cmd[q][e].to
                        /\ k \in DOMAIN rs[q] /\ x = rs[q][k].txid
    <3>1. cmd[q][e].k \in DOMAIN rs[q]
      <4>1. cmd[q][e].pc = "built"
        BY <1>1, <2>1
      <4>2. QED
        BY <4>1, CommandHeld
    <3>2. QED
      BY <3>1
  <2>3. Within(to, x) /\ x \in DOMAIN network
    <3>1. x \in DOMAIN network
      BY <2>2 DEF Inv, Structure, RecordsOK
    <3>2. Within(to, x)
      BY <1>1, <2>1, <2>2 DEF AuthorInv
    <3>3. QED
      BY <3>1, <3>2
  <2>4. Within(to, x)'
    BY <2>3, BasesKept DEF Within
  <2>5. x = rs'[q][k].txid
    BY <2>2 DEF RecordsExtend
  <2>6. QED
    BY <2>1, <2>2, <2>4, <2>5
<1>2. QED
  BY <1>1 DEF CommandAuthors, Within

\* Another relationship has base keys of its own.
LEMMA OwnBasesStep ==
    ASSUME Inv, AuthorInv, NetworkExtends, NEW tx,
           \A t \in DOMAIN network' :
              t \in DOMAIN network \/ (t = Len(network) + 1 /\ network'[t] = tx),
           \/ UNCHANGED network
           \/ tx.kind # "initiate"
           \/ \A s \in DOMAIN network :
                 network[s].kind = "initiate" =>
                    /\ network[s].from.base # tx.from.base
                    /\ ~ReuseAddresses =>
                          \A i \in DOMAIN network[s].to : \A j \in DOMAIN tx.to :
                             network[s].to[i].base # tx.to[j].base
    PROVE  OwnBases'
<1>1. CASE UNCHANGED network
  BY <1>1 DEF AuthorInv, OwnBases
<1>2. CASE tx.kind # "initiate"
  BY <1>2 DEF AuthorInv, OwnBases, NetworkExtends
<1>3. CASE \A s \in DOMAIN network :
              network[s].kind = "initiate" =>
                 /\ network[s].from.base # tx.from.base
                 /\ ~ReuseAddresses =>
                       \A i \in DOMAIN network[s].to : \A j \in DOMAIN tx.to :
                          network[s].to[i].base # tx.to[j].base
  <2>1. ASSUME NEW s \in DOMAIN network, NEW t \in DOMAIN network,
               network'[s].kind = "initiate", network'[t].kind = "initiate"
        PROVE  /\ network'[s].from.base = network'[t].from.base => s = t
               /\ ~ReuseAddresses =>
                     \A i \in DOMAIN network'[s].to : \A j \in DOMAIN network'[t].to :
                        network'[s].to[i].base = network'[t].to[j].base => s = t
    BY <2>1 DEF AuthorInv, OwnBases, NetworkExtends
  <2>2. ASSUME NEW s \in DOMAIN network, NEW t, network'[t] = tx,
               network'[s].kind = "initiate"
        PROVE  /\ network'[s].from.base # network'[t].from.base
               /\ ~ReuseAddresses =>
                     \A i \in DOMAIN network'[s].to : \A j \in DOMAIN network'[t].to :
                        network'[s].to[i].base # network'[t].to[j].base
    BY <1>3, <2>2 DEF NetworkExtends
  <2>3. ASSUME NEW s \in DOMAIN network', NEW t \in DOMAIN network',
               network'[s].kind = "initiate", network'[t].kind = "initiate"
        PROVE  /\ network'[s].from.base = network'[t].from.base => s = t
               /\ ~ReuseAddresses =>
                     \A i \in DOMAIN network'[s].to : \A j \in DOMAIN network'[t].to :
                        network'[s].to[i].base = network'[t].to[j].base => s = t
    <3>1. CASE s \in DOMAIN network /\ t \in DOMAIN network
      BY <2>1, <2>3, <3>1
    <3>2. CASE s \in DOMAIN network /\ t \notin DOMAIN network
      BY <2>2, <2>3, <3>2
    <3>3. CASE s \notin DOMAIN network /\ t \in DOMAIN network
      <4>1. network'[s] = tx
        BY <3>3
      <4>2. /\ network'[t].from.base # network'[s].from.base
            /\ ~ReuseAddresses =>
                  \A i \in DOMAIN network'[t].to : \A j \in DOMAIN network'[s].to :
                     network'[t].to[i].base # network'[s].to[j].base
        BY <2>2, <2>3, <3>3, <4>1
      <4>3. QED
        BY <4>2
    <3>4. CASE s \notin DOMAIN network /\ t \notin DOMAIN network
      BY <3>4
    <3>5. QED
      BY <3>1, <3>2, <3>3, <3>4
  <2>4. QED
    BY <2>3 DEF OwnBases
<1>4. QED
  BY <1>1, <1>2, <1>3

\* InitiateRelationship invites others, with a key it has not used.
LEMMA InvitedKeys ==
    ASSUME Inv, AuthorInv, NEW p \in Node, NEW c \in Conn, NEW recv \in Invites[p],
           MayInitiate(p, c, recv), NEW tx, tx = InitiateTx(p, recv)
    PROVE  /\ tx.kind = "initiate" /\ tx.from.i = 0
           /\ tx.from.base.type = "out" /\ tx.from.base.node = p
           /\ tx.from.base.index = out[p]
           /\ DOMAIN tx.to = DOMAIN recv /\ Len(tx.to) = Len(recv)
           /\ \A i \in DOMAIN tx.to : /\ tx.to[i].i = 0
                                     /\ tx.to[i].base = recv[i]
                                     /\ recv[i].type = "in" /\ recv[i].node # p
           /\ \A i, j \in DOMAIN recv : recv[i].node = recv[j].node => i = j
           /\ tx.enc = 0 => Len(tx.to) = 1
<1>1. /\ recv \in Seq(BaseKey) /\ recv # <<>>
      /\ \A i \in DOMAIN recv : recv[i].type = "in" /\ recv[i].node # p
      /\ \A i, j \in DOMAIN recv : recv[i].node = recv[j].node => i = j
  BY InvitesAssumption
<1>2. Len(recv) \in Nat /\ DOMAIN recv = 1..Len(recv) /\ Len(recv) # 0
  BY <1>1, LenProperties, EmptySeq
<1>3. /\ tx.kind = "initiate"
      /\ tx.from = BasePK([node |-> p, type |-> "out", index |-> out[p]])
      /\ tx.to = [i \in 1..Len(recv) |-> BasePK(recv[i])]
      /\ tx.enc = IF Len(recv) > 1 THEN 1 ELSE 0
  BY DEF InitiateTx
<1>4. \A b : BasePK(b).i = 0 /\ BasePK(b).base = b
  BY DEF BasePK, Derived
<1>5. tx.to \in Seq({BasePK(b) : b \in BaseKey})
  <2>1. \A i \in 1..Len(recv) : recv[i] \in BaseKey
    BY <1>1, ElementOfSeq
  <2>2. \A i \in 1..Len(recv) : BasePK(recv[i]) \in {BasePK(b) : b \in BaseKey}
    BY <2>1
  <2>3. QED
    BY <1>2, <1>3, <2>2, IsASeq
<1>6. DOMAIN tx.to = 1..Len(recv) /\ Len(tx.to) = Len(recv)
  <2>1. DOMAIN tx.to = 1..Len(recv)
    BY <1>3
  <2>2. QED
    BY <1>2, <1>5, <2>1, LenProperties
<1>7. QED
  BY <1>1, <1>2, <1>3, <1>4, <1>6

\* An initiate is between parties that have nothing else in common.
LEMMA InitiateAuthors ==
    ASSUME Inv, Inv', AuthorInv, NEW p \in Node, NEW c \in Conn, NEW recv \in Invites[p],
           MayInitiate(p, c, recv),
           network' = Append(network, InitiateTx(p, recv)),
           out' = [out EXCEPT ![p] = @ + 1],
           UNCHANGED rs, UNCHANGED indep,
           \A q \in Node : \A e \in Conn :
              cmd'[q][e] = cmd[q][e] \/ cmd'[q][e].pc # "built"
    PROVE  AuthorInv'
<1>1. /\ NetworkExtends
      /\ network'[Len(network) + 1] = InitiateTx(p, recv)
  BY InitiateTxAdded
<1>2. DOMAIN network' = DOMAIN network \cup {Len(network) + 1}
  <2>1. network \in Seq(Tx) /\ Len(network) \in Nat /\ InitiateTx(p, recv) \in Tx
    BY LenProperties, InitiateTxType DEF Inv, TypeOK
  <2>2. Len(network') = Len(network) + 1 /\ network' \in Seq(Tx)
    BY <2>1, AppendProperties
  <2>3. QED
    BY <2>1, <2>2, LenProperties
<1>3. PICK tx : tx = InitiateTx(p, recv)
  OBVIOUS
<1>4. /\ tx.kind = "initiate" /\ tx.from.i = 0
      /\ tx.from.base.type = "out" /\ tx.from.base.node = p
      /\ tx.from.base.index = out[p]
      /\ DOMAIN tx.to = DOMAIN recv /\ Len(tx.to) = Len(recv)
      /\ \A i \in DOMAIN tx.to : /\ tx.to[i].i = 0
                                /\ tx.to[i].base = recv[i]
                                /\ recv[i].type = "in" /\ recv[i].node # p
      /\ \A i, j \in DOMAIN recv : recv[i].node = recv[j].node => i = j
      /\ tx.enc = 0 => Len(tx.to) = 1
  BY <1>3, InvitedKeys
<1>5. KeysKept
  BY DEF KeysKept, Inv, TypeOK
<1>6. out'[p] = out[p] + 1 /\ out[p] \in Nat
  BY DEF Inv, TypeOK
<1>7. InitiateOK(tx)' /\ LaterOK(tx)'
  BY <1>4, <1>6 DEF InitiateOK, LaterOK
<1>8. TxAuthors'
  BY <1>1, <1>2, <1>3, <1>5, <1>7, TxsStep
<1>9. OwnBases'
  <2>1. ASSUME NEW s \in DOMAIN network, network[s].kind = "initiate"
        PROVE  /\ network[s].from.base # tx.from.base
               /\ ~ReuseAddresses =>
                     \A i \in DOMAIN network[s].to : \A j \in DOMAIN tx.to :
                        network[s].to[i].base # tx.to[j].base
    <3>1. /\ InitiateOK(network[s])
          /\ network[s].from.base.index < out[network[s].from.base.node]
      BY <2>1 DEF AuthorInv, InitiateOK
    <3>2. network[s].from.base # tx.from.base
      <4>1. SUFFICES ASSUME network[s].from.base = tx.from.base PROVE FALSE
        OBVIOUS
      <4>2. out[p] < out[p]
        BY <1>4, <3>1, <4>1
      <4>3. QED
        BY <1>6, <4>2
    <3>3. ASSUME ~ReuseAddresses, NEW i \in DOMAIN network[s].to, NEW j \in DOMAIN tx.to
          PROVE  network[s].to[i].base # tx.to[j].base
      <4>1. ~Invited(recv[j])
        BY <1>4, <3>3 DEF MayInitiate
      <4>2. QED
        BY <1>4, <2>1, <3>3, <4>1 DEF Invited
    <3>4. QED
      BY <3>2, <3>3
  <2>2. QED
    BY <1>1, <1>2, <1>3, <2>1, OwnBasesStep
<1>10. RecordAuthors'
  BY <1>1, RecordsStep
<1>11. CommandAuthors'
  <2>1. RecordsExtend
    BY <1>1, RecordsKept
  <2>2. QED
    BY <1>1, <2>1, CommandsFrame
<1>12. QED
  <2>1. (TxAuthors /\ OwnBases /\ RecordAuthors /\ CommandAuthors)'
    BY <1>8, <1>9, <1>10, <1>11
  <2>2. QED
    BY <2>1 DEF AuthorInv, TxAuthors, RecordAuthors, CommandAuthors

\* What the steps that broadcast nothing need.
LEMMA RecordStepAuthors ==
    ASSUME Inv, AuthorInv, UNCHANGED network, KeysKept, RecordsExtend, NEW s,
           \A q \in Node : \A k \in DOMAIN rs'[q] :
              \/ k \in DOMAIN rs[q] /\ rs'[q][k] = rs[q][k]
              \/ rs'[q][k] = s,
           UNCHANGED rs \/ RecordBases(s)',
           CommandAuthors'
    PROVE  AuthorInv'
<1>1. NetworkExtends
  BY NetworkKept
<1>2. TxAuthors'
  BY <1>1, TxsStep
<1>3. OwnBases'
  BY <1>1, OwnBasesStep
<1>4. RecordAuthors'
  BY <1>1, RecordsStep
<1>5. QED
  <2>1. (TxAuthors /\ OwnBases /\ RecordAuthors /\ CommandAuthors)'
    BY <1>2, <1>3, <1>4
  <2>2. QED
    BY <2>1 DEF AuthorInv, TxAuthors, RecordAuthors, CommandAuthors

\* A record in another's place leaves everybody with their own keys.
LEMMA UpdateAuthors ==
    ASSUME Inv, AuthorInv, UNCHANGED network, KeysKept,
           NEW p \in Node, NEW k \in DOMAIN rs[p], NEW s,
           rs' = [rs EXCEPT ![p][k] = s], Continues(s, rs[p][k]),
           \A q \in Node : \A e \in Conn :
              cmd'[q][e] = cmd[q][e] \/ cmd'[q][e].pc # "built"
    PROVE  AuthorInv'
<1>1. /\ \A q \in Node : DOMAIN rs'[q] = DOMAIN rs[q]
      /\ \A q \in Node : \A j \in DOMAIN rs[q] :
            rs'[q][j] = IF q = p /\ j = k THEN s ELSE rs[q][j]
  BY DEF Inv, TypeOK
<1>2. NetworkExtends
  BY NetworkKept
<1>3. RecordsExtend
  BY <1>1 DEF RecordsExtend, Continues
<1>4. PICK r : r = rs[p][k]
  OBVIOUS
<1>5. RecordBases(r) /\ r.txid \in DOMAIN network
  BY <1>4 DEF AuthorInv, Inv, Structure, RecordsOK
<1>6. RecordBases(s)'
  BY <1>2, <1>4, <1>5, RecordStays
<1>7. CommandAuthors'
  BY <1>2, <1>3, CommandsFrame
<1>8. \A q \in Node : \A j \in DOMAIN rs'[q] :
         \/ j \in DOMAIN rs[q] /\ rs'[q][j] = rs[q][j]
         \/ rs'[q][j] = s
  BY <1>1
<1>9. QED
  BY <1>3, <1>6, <1>7, <1>8, RecordStepAuthors

\* So does a record added at the end.
LEMMA AppendAuthors ==
    ASSUME Inv, AuthorInv, UNCHANGED network, KeysKept, NEW p \in Node, NEW s,
           rs' = [rs EXCEPT ![p] = Append(rs[p], s)], RecordBases(s)',
           \A q \in Node : \A e \in Conn :
              cmd'[q][e] = cmd[q][e] \/ cmd'[q][e].pc # "built"
    PROVE  AuthorInv'
<1>1. /\ DOMAIN rs'[p] = DOMAIN rs[p] \cup {Len(rs[p]) + 1}
      /\ rs'[p][Len(rs[p]) + 1] = s
      /\ \A q \in Node \ {p} : rs'[q] = rs[q]
      /\ \A q \in Node : \A j \in DOMAIN rs[q] : rs'[q][j] = rs[q][j]
  BY AppendedRecords
<1>2. NetworkExtends
  BY NetworkKept
<1>3. RecordsExtend
  <2>1. \A q \in Node : \A j \in DOMAIN rs[q] : j \in DOMAIN rs'[q]
    BY <1>1
  <2>2. QED
    BY <1>1, <2>1 DEF RecordsExtend
<1>4. CommandAuthors'
  BY <1>2, <1>3, CommandsFrame
<1>5. \A q \in Node : \A j \in DOMAIN rs'[q] :
         \/ j \in DOMAIN rs[q] /\ rs'[q][j] = rs[q][j]
         \/ rs'[q][j] = s
  BY <1>1
<1>6. QED
  BY <1>3, <1>4, <1>5, RecordStepAuthors

\* So does a step that only moves commands on.
LEMMA QuietAuthors ==
    ASSUME Inv, AuthorInv, UNCHANGED network, KeysKept, UNCHANGED rs,
           \A q \in Node : \A e \in Conn :
              cmd'[q][e] = cmd[q][e] \/ cmd'[q][e].pc # "built"
    PROVE  AuthorInv'
<1>1. NetworkExtends
  BY NetworkKept
<1>2. RecordsExtend
  BY <1>1, RecordsKept
<1>3. CommandAuthors'
  BY <1>1, <1>2, CommandsFrame
<1>4. \A q \in Node : \A j \in DOMAIN rs'[q] :
         j \in DOMAIN rs[q] /\ rs'[q][j] = rs[q][j]
  OBVIOUS
<1>5. QED
  BY <1>2, <1>3, <1>4, RecordStepAuthors

\* The commands that register and hand out, and those that only fail.
LEMMA PlainAuthors ==
    ASSUME Inv, Inv', AuthorInv, NEW p \in Node, NEW c \in Conn,
           \/ \E recv \in Invites[p] :
                 InitiateFails(p, c, recv) /\ UNCHANGED network
           \/ BroadcastFails(p, c) /\ UNCHANGED network
           \/ RegisterInitiated(p, c)
           \/ \E t \in DOMAIN network : HandleTx(p, t)
    PROVE  AuthorInv'
<1>1. /\ UNCHANGED network /\ UNCHANGED rs
      /\ UNCHANGED cmd \/ SetCmd(p, c, NoCommand)
      /\ UNCHANGED out \/ out' = [out EXCEPT ![p] = @ + 1]
  BY DEF InitiateFails, BroadcastFails, RegisterInitiated, HandleTx
<1>2. \A q \in Node : indep[q] \subseteq indep'[q]
  BY DEF InitiateFails, BroadcastFails, RegisterInitiated, HandleTx, Inv, TypeOK
<1>3. KeysKept
  <2>1. out \in [Node -> Nat] /\ out' \in [Node -> Nat]
    BY DEF Inv, TypeOK
  <2>2. ASSUME NEW q \in Node PROVE out'[q] >= out[q]
    <3>1. out[q] \in Nat
      BY <2>1
    <3>2. out'[q] = out[q] \/ out'[q] = out[q] + 1
      BY <1>1, <2>1
    <3>3. QED
      BY <3>1, <3>2
  <2>3. QED
    BY <1>2, <2>1, <2>2 DEF KeysKept
<1>4. NoCommand.pc # "built"
  BY DEF NoCommand
<1>5. \A q \in Node : \A e \in Conn :
         cmd'[q][e] = cmd[q][e] \/ cmd'[q][e].pc # "built"
  <2>1. CASE UNCHANGED cmd
    BY <2>1
  <2>2. CASE SetCmd(p, c, NoCommand)
    BY <1>4, <2>2, SetCmdEffect
  <2>3. QED
    BY <1>1, <2>1, <2>2
<1>6. QED
  BY <1>1, <1>3, <1>5, QuietAuthors

\* A payload is addressed to members of the relationship.
LEMMA BuildAuthors ==
    ASSUME Inv, Inv', AuthorInv, NEW p \in Node, NEW c \in Conn,
           NEW kind \in {"accept", "message"}, NEW k \in DOMAIN rs[p],
           Build(p, c, kind, k)
    PROVE  AuthorInv'
<1>1. PICK r \in Relationship : r = rs[p][k] /\ RecordBases(r)
  BY RecordType DEF AuthorInv
<1>2. PICK to : to = IF r.enc = 0
                     THEN [i \in 1..Len(r.members) |-> MemberKey(r, r.members[i])]
                     ELSE <<>>
  OBVIOUS
<1>3. PICK d : d = [pc |-> "built", kind |-> kind, k |-> k, hash |-> r.next,
                    to |-> to, t |-> 0]
  OBVIOUS
<1>4. SetCmd(p, c, d)
  BY <1>1, <1>2, <1>3 DEF Build
<1>5. d.k = k /\ d.to = to
  BY <1>3
<1>6. Within(to, rs[p][k].txid)
  <2>1. CASE r.enc = 0
    <3>1. DOMAIN to = DOMAIN r.members
      BY <1>2, <2>1, LenProperties DEF Relationship
    <3>2. \A i \in DOMAIN to : to[i].base = r.members[i].base
      BY <1>2, <2>1 DEF MemberKey, Derived
    <3>3. QED
      BY <1>1, <3>1, <3>2 DEF Within, RecordBases
  <2>2. CASE r.enc # 0
    BY <1>2, <2>2 DEF Within
  <2>3. QED
    BY <2>1, <2>2
<1>7. UNCHANGED network /\ UNCHANGED rs /\ UNCHANGED out /\ UNCHANGED indep
  BY DEF Build
<1>8. NetworkExtends
  BY <1>7, NetworkKept
<1>9. RecordsExtend
  BY <1>7, <1>8, RecordsKept
<1>10. \A q \in Node : \A e \in Conn :
          \/ cmd'[q][e] = cmd[q][e]
          \/ q = p /\ e = c /\ cmd'[q][e] = d
  BY <1>4, SetCmdEffect
<1>11. CommandAuthors'
  BY <1>5, <1>6, <1>8, <1>9, <1>10, CommandsStep
<1>12. KeysKept
  BY <1>7 DEF KeysKept, Inv, TypeOK
<1>13. \A q \in Node : \A j \in DOMAIN rs'[q] :
          j \in DOMAIN rs[q] /\ rs'[q][j] = rs[q][j]
  BY <1>7
<1>14. QED
  BY <1>7, <1>9, <1>11, <1>12, <1>13, RecordStepAuthors

\* What a command signs is its own relationship's.
LEMMA CommandTxAuthors ==
    ASSUME Inv, Inv', AuthorInv, NEW p \in Node, NEW c \in Conn,
           cmd[p][c].pc = "built", Owns(p, NextKey(rs[p][cmd[p][c].k])),
           network' = Append(network, CommandTx(p, c)),
           UNCHANGED rs, UNCHANGED indep, UNCHANGED out,
           \A q \in Node : \A e \in Conn :
              cmd'[q][e] = cmd[q][e] \/ cmd'[q][e].pc # "built"
    PROVE  AuthorInv'
<1>1. PICK k, to : k = cmd[p][c].k /\ k \in DOMAIN rs[p] /\ to = cmd[p][c].to
  BY CommandHeld
<1>2. PICK r \in Relationship : r = rs[p][k] /\ RecordOK(p, r) /\ RecordBases(r)
  BY <1>1, RecordType DEF AuthorInv
<1>3. PICK tx \in Tx :
          /\ tx = CommandTx(p, c) /\ tx.kind # "initiate"
          /\ tx.rel = r.txid /\ tx.from = NextKey(r) /\ tx.to = to
  BY <1>1, <1>2, CommandTxType DEF Inv, Structure
<1>4. NetworkExtends
  BY CommandTxAdded
<1>5. /\ DOMAIN network' = DOMAIN network \cup {Len(network) + 1}
      /\ network'[Len(network) + 1] = tx
      /\ \A t \in DOMAIN network : t # Len(network) + 1
  <2>1. network \in Seq(Tx) /\ Len(network) \in Nat
    BY LenProperties DEF Inv, TypeOK
  <2>2. /\ Len(network') = Len(network) + 1 /\ network' \in Seq(Tx)
        /\ network'[Len(network) + 1] = tx
    BY <1>3, <2>1, AppendProperties
  <2>3. DOMAIN network = 1..Len(network) /\ DOMAIN network' = 1..Len(network')
    BY <2>1, <2>2, LenProperties
  <2>4. QED
    BY <2>1, <2>2, <2>3
<1>6. KeysKept
  BY DEF KeysKept, Inv, TypeOK
<1>7. LaterOK(tx)'
  <2>1. tx.from.base = r.key /\ r.key.node = p
    <3>1. NextKey(r).base = r.key
      BY DEF NextKey, Derived
    <3>2. r.key.node = p
      BY <1>2 DEF RecordOK
    <3>3. QED
      BY <1>3, <3>1, <3>2
  <2>2. Owns(p, tx.from)'
    BY <1>1, <1>2, <1>3 DEF Owns
  <2>3. r.txid \in DOMAIN network
    BY <1>2 DEF RecordOK
  <2>4. Bases(r.txid)' = Bases(r.txid)
    <3>1. PICK u \in DOMAIN network : u = r.txid
      BY <2>3
    <3>2. QED
      BY <1>4, <3>1, BasesKept
  <2>5. Within(to, r.txid)
    BY <1>1, <1>2 DEF AuthorInv
  <2>6. QED
    BY <1>2, <1>3, <2>1, <2>2, <2>4, <2>5 DEF LaterOK, RecordBases, Within
<1>8. InitiateOK(tx)'
  BY <1>3 DEF InitiateOK
<1>9. TxAuthors'
  BY <1>4, <1>5, <1>6, <1>7, <1>8, TxsStep
<1>10. OwnBases'
  BY <1>3, <1>4, <1>5, OwnBasesStep
<1>11. \A q \in Node : \A j \in DOMAIN rs'[q] :
          j \in DOMAIN rs[q] /\ rs'[q][j] = rs[q][j]
  OBVIOUS
<1>12. RecordAuthors'
  BY <1>4, <1>11, RecordsStep
<1>13. RecordsExtend
  BY <1>4, RecordsKept
<1>14. CommandAuthors'
  BY <1>4, <1>13, CommandsFrame
<1>15. (TxAuthors /\ OwnBases /\ RecordAuthors /\ CommandAuthors)'
  BY <1>9, <1>10, <1>12, <1>14
<1>16. QED
  BY <1>15 DEF AuthorInv, TxAuthors, RecordAuthors, CommandAuthors

\* The initiator's record has its parties.
LEMMA RecordInitiatedAuthors ==
    ASSUME Inv, Inv', AuthorInv, NEW p \in Node, NEW c \in Conn, RecordInitiated(p, c)
    PROVE  AuthorInv'
<1>1. PICK t, tx : /\ t = cmd[p][c].t /\ t \in DOMAIN network
                   /\ tx = network[t] /\ tx.kind = "initiate"
  <2>1. cmd[p][c].pc = "initiated"
    BY DEF RecordInitiated
  <2>2. /\ cmd[p][c].t \in DOMAIN network
        /\ network[cmd[p][c].t].kind = "initiate"
    BY <2>1, CommandInitiated
  <2>3. QED
    BY <2>2
<1>2. PICK s : s = InitiatorRecord(t)
  OBVIOUS
<1>3. /\ rs' = [rs EXCEPT ![p] = Append(rs[p], s)]
      /\ SetCmd(p, c, Recorded(Len(rs[p]) + 1))
      /\ UNCHANGED network /\ UNCHANGED out /\ UNCHANGED indep
  BY <1>1, <1>2 DEF RecordInitiated, Recorded
<1>4. KeysKept
  BY <1>3 DEF KeysKept, Inv, TypeOK
<1>5. PICK pks \in Seq(PublicKey) : pks = tx.to
  BY <1>1, TxType DEF Tx
<1>6. s.txid = t /\ s.key = tx.from.base /\ s.members = NewMembers(pks)
  BY <1>1, <1>2, <1>5 DEF InitiatorRecord
<1>7. /\ DOMAIN s.members = DOMAIN pks
      /\ \A i \in DOMAIN pks : s.members[i].base = pks[i].base
  BY <1>6, NewMembersFresh
<1>8. \A i \in DOMAIN tx.to : tx.to[i].base.node # tx.from.base.node
  BY <1>1 DEF AuthorInv, InitiateOK
<1>9. Bases(t) = {tx.from.base} \cup {tx.to[i].base : i \in DOMAIN tx.to}
  BY <1>1 DEF Bases
<1>10. \A i \in DOMAIN s.members : /\ s.members[i].base \in Bases(t)
                                  /\ s.members[i].base # s.key
  BY <1>5, <1>6, <1>7, <1>8, <1>9
<1>11. RecordBases(s)
  BY <1>6, <1>9, <1>10 DEF RecordBases
<1>12. RecordBases(s)'
  BY <1>3, <1>11 DEF RecordBases, Bases
<1>13. \A q \in Node : \A e \in Conn :
          cmd'[q][e] = cmd[q][e] \/ cmd'[q][e].pc # "built"
  <2>1. Len(rs[p]) + 1 \in Nat
    BY LenProperties DEF Inv, TypeOK
  <2>2. PICK d : d = Recorded(Len(rs[p]) + 1) /\ d.pc = "recorded"
    BY <2>1, CommandTypes
  <2>3. SetCmd(p, c, d)
    BY <1>3, <2>2
  <2>4. QED
    BY <2>2, <2>3, SetCmdEffect
<1>14. QED
  BY <1>3, <1>4, <1>12, <1>13, AppendAuthors

\* A command that moves on leaves the parties alone.
LEMMA AdvanceAuthors ==
    ASSUME Inv, Inv', AuthorInv, NEW p \in Node, NEW c \in Conn,
           AdvanceOwn(p, c) \/ AdvanceMembers(p, c)
    PROVE  AuthorInv'
<1>1. PICK k \in DOMAIN rs[p], s \in Relationship :
          rs' = [rs EXCEPT ![p][k] = s] /\ Continues(s, rs[p][k])
  <2>1. CASE AdvanceOwn(p, c)
    BY <2>1, AdvanceOwnEffect
  <2>2. CASE AdvanceMembers(p, c)
    BY <2>2, AdvanceMembersEffect
  <2>3. QED
    BY <2>1, <2>2
<1>2. UNCHANGED network /\ UNCHANGED out
  BY DEF AdvanceOwn, AdvanceMembers
<1>3. \A q \in Node : indep[q] \subseteq indep'[q]
  <2>1. indep \in [Node -> SUBSET PublicKey]
    BY DEF Inv, TypeOK
  <2>2. CASE AdvanceOwn(p, c)
    <3>1. PICK pk : indep' = [indep EXCEPT ![p] = @ \cup {pk}]
      BY <2>2 DEF AdvanceOwn
    <3>2. QED
      BY <2>1, <3>1
  <2>3. CASE AdvanceMembers(p, c)
    BY <2>3 DEF AdvanceMembers
  <2>4. QED
    BY <2>2, <2>3
<1>4. KeysKept
  BY <1>2, <1>3 DEF KeysKept, Inv, TypeOK
<1>5. PICK d : SetCmd(p, c, d) /\ d.pc # "built"
  <2>1. CASE AdvanceOwn(p, c)
    <3>1. cmd[p][c] \in Command
      BY DEF Inv, TypeOK
    <3>2. PICK d : d = At(cmd[p][c], "advanced") /\ d.pc = "advanced"
      BY <3>1, CommandTypes
    <3>3. SetCmd(p, c, d)
      BY <2>1, <3>2 DEF AdvanceOwn, At
    <3>4. QED
      BY <3>2, <3>3
  <2>2. CASE AdvanceMembers(p, c)
    <3>1. PICK d : d = NoCommand
      OBVIOUS
    <3>2. SetCmd(p, c, d)
      BY <2>2, <3>1 DEF AdvanceMembers
    <3>3. d.pc # "built"
      BY <3>1 DEF NoCommand
    <3>4. QED
      BY <3>2, <3>3
  <2>3. QED
    BY <2>1, <2>2
<1>6. \A q \in Node : \A e \in Conn :
         cmd'[q][e] = cmd[q][e] \/ cmd'[q][e].pc # "built"
  BY <1>5, SetCmdEffect
<1>7. QED
  BY <1>1, <1>2, <1>4, <1>6, UpdateAuthors

\* A sequence with no other elements than a sequence has from m to n.
Part(a, S, seq, m, n) ==
    /\ a \in Seq(S) /\ Len(a) \in Nat
    /\ \A i \in 1..Len(a) : \E x \in m..n : a[i] = seq[x]

\* That is what SubSeq makes.
LEMMA PartOf ==
    ASSUME NEW S, NEW seq \in Seq(S), NEW m \in Nat \ {0}, NEW n \in Nat, n <= Len(seq)
    PROVE  Part(SubSeq(seq, m, n), S, seq, m, n)
<1> DEFINE a == SubSeq(seq, m, n)
<1>1. Len(seq) \in Nat
  BY LenProperties
<1>2. ASSUME NEW i, i \in m..n PROVE seq[i] \in S
  <2>1. i \in 1..Len(seq)
    BY <1>1, <1>2
  <2>2. QED
    BY <2>1, ElementOfSeq
<1>3. m \in Int /\ n \in Int
  OBVIOUS
<1>4. /\ a \in Seq(S)
      /\ Len(a) = IF m <= n THEN n-m+1 ELSE 0
      /\ \A i \in 1..n-m+1 : a[i] = seq[m+i-1]
  BY <1>2, <1>3, SubSeqProperties
<1>5. Len(a) \in Nat
  BY <1>4, LenProperties
<1>6. ASSUME NEW i \in 1..Len(a)
      PROVE  \E x \in m..n : a[i] = seq[x]
  <2>1. m <= n /\ i \in 1..n-m+1
    BY <1>4
  <2>2. m+i-1 \in m..n
    BY <2>1
  <2>3. QED
    BY <1>4, <2>1, <2>2
<1> HIDE DEF a
<1>7. Part(a, S, seq, m, n)
  BY <1>4, <1>5, <1>6 DEF Part
<1>8. QED
  BY <1>7 DEF a

\* What is left of a sequence without its j-th element are the others.
LEMMA RemainingElements ==
    ASSUME NEW S, NEW seq \in Seq(S), NEW j \in 1..Len(seq)
    PROVE  \A i \in DOMAIN RemoveAt(seq, j) :
              \E n \in DOMAIN seq : n # j /\ RemoveAt(seq, j)[i] = seq[n]
<1>1. Len(seq) \in Nat /\ DOMAIN seq = 1..Len(seq) /\ j \in Nat \ {0}
  BY LenProperties
<1>2. PICK k, l : k = j-1 /\ l = j+1
  OBVIOUS
<1>3. k \in Nat /\ k <= Len(seq) /\ l \in Nat \ {0} /\ 1 \in Nat \ {0}
  BY <1>1, <1>2
<1>4. PICK a, b, c : /\ a = SubSeq(seq, 1, k) /\ b = SubSeq(seq, l, Len(seq))
                     /\ c = a \o b
  OBVIOUS
<1>5. /\ a \in Seq(S) /\ Len(a) \in Nat
      /\ \A i \in 1..Len(a) : \E x \in 1..k : a[i] = seq[x]
  <2>1. k \in Nat /\ k <= Len(seq) /\ 1 \in Nat \ {0}
    BY <1>3
  <2>2. Part(SubSeq(seq, 1, k), S, seq, 1, k)
    BY <2>1, PartOf
  <2>3. Part(a, S, seq, 1, k)
    BY <1>4, <2>2
  <2>4. QED
    BY <2>3 DEF Part
<1>6. /\ b \in Seq(S) /\ Len(b) \in Nat
      /\ \A i \in 1..Len(b) : \E x \in l..Len(seq) : b[i] = seq[x]
  <2>1. PICK n : n = Len(seq)
    OBVIOUS
  <2>2. n \in Nat /\ n <= Len(seq) /\ b = SubSeq(seq, l, n)
    BY <1>1, <1>4, <2>1
  <2>3. /\ b \in Seq(S) /\ Len(b) \in Nat
        /\ \A i \in 1..Len(b) : \E x \in l..n : b[i] = seq[x]
    <3>1. l \in Nat \ {0}
      BY <1>3
    <3>2. Part(SubSeq(seq, l, n), S, seq, l, n)
      BY <2>2, <3>1, PartOf
    <3>3. Part(b, S, seq, l, n)
      BY <2>2, <3>2
    <3>4. QED
      BY <3>3 DEF Part
  <2>4. QED
    BY <2>1, <2>3
<1>7. /\ c \in Seq(S)
      /\ Len(c) = Len(a) + Len(b)
      /\ \A i \in 1..Len(a)+Len(b) : c[i] = IF i <= Len(a) THEN a[i] ELSE b[i - Len(a)]
  <2>1. a \in Seq(S) /\ b \in Seq(S)
    BY <1>5, <1>6
  <2>2. /\ a \o b \in Seq(S)
        /\ Len(a \o b) = Len(a) + Len(b)
        /\ \A i \in 1..Len(a)+Len(b) :
              (a \o b)[i] = IF i <= Len(a) THEN a[i] ELSE b[i - Len(a)]
    BY <2>1, ConcatProperties
  <2>3. QED
    BY <1>4, <2>2
<1>8. \A x \in 1..k : x \in DOMAIN seq /\ x # j
  BY <1>1, <1>2
<1>9. \A x \in l..Len(seq) : x \in DOMAIN seq /\ x # j
  BY <1>1, <1>2
<1>10. ASSUME NEW i \in 1..Len(a)+Len(b)
       PROVE  \E n \in DOMAIN seq : n # j /\ c[i] = seq[n]
  <2>1. CASE i <= Len(a)
    <3>1. i \in 1..Len(a)
      BY <1>5, <1>6, <2>1
    <3>2. c[i] = a[i]
      BY <1>7, <2>1
    <3>3. QED
      BY <1>5, <1>8, <3>1, <3>2
  <2>2. CASE ~ (i <= Len(a))
    <3>1. PICK n : n = i - Len(a)
      OBVIOUS
    <3>2. n \in 1..Len(b)
      BY <1>5, <1>6, <2>2, <3>1
    <3>3. c[i] = b[n]
      BY <1>7, <2>2, <3>1
    <3>4. QED
      BY <1>6, <1>9, <3>2, <3>3
  <2>3. QED
    BY <2>1, <2>2
<1>11. DOMAIN c = 1..Len(a)+Len(b)
  BY <1>7, LenProperties
<1>12. RemoveAt(seq, j) = c
  BY <1>2, <1>4 DEF RemoveAt
<1>13. QED
  BY <1>10, <1>11, <1>12

\* The parties other than the node have other base keys than it.
LEMMA OtherBases ==
    ASSUME Inv, AuthorInv, NEW p \in Node, NEW t \in DOMAIN network, NEW tx, tx = network[t],
           tx.kind = "initiate", IsOurs(p, tx), NEW pks, pks = Others(p, tx)
    PROVE  /\ OurKey(p, tx).base \in Bases(t)
           /\ \A i \in DOMAIN pks : /\ pks[i].base \in Bases(t)
                                   /\ pks[i].base # OurKey(p, tx).base
<1>1. tx \in Tx /\ tx.to \in Seq(PublicKey) /\ tx.from \in PublicKey
  BY TxType DEF Tx
<1>2. /\ \A i \in DOMAIN tx.to : tx.to[i].base.node # tx.from.base.node
      /\ \A i, j \in DOMAIN tx.to : tx.to[i].base.node = tx.to[j].base.node => i = j
  BY DEF AuthorInv, InitiateOK
<1>3. Bases(t) = {tx.from.base} \cup {tx.to[i].base : i \in DOMAIN tx.to}
  BY DEF Bases
<1>4. CASE Owns(p, tx.from)
  <2>1. pks = tx.to /\ OurKey(p, tx) = tx.from
    BY <1>4 DEF Others, OurKey
  <2>2. QED
    BY <1>2, <1>3, <2>1
<1>5. CASE ~Owns(p, tx.from)
  <2>1. PICK j : j = OwnReceiver(p, tx) /\ j \in 1..Len(tx.to)
    BY <1>1, <1>5, OurKeyOurs
  <2>2. OurKey(p, tx) = tx.to[j] /\ j \in DOMAIN tx.to
    BY <1>1, <1>5, <2>1, LenProperties DEF OurKey
  <2>3. PICK rest : rest = RemoveAt(tx.to, j)
    OBVIOUS
  <2>4. /\ rest \in Seq(PublicKey) /\ Len(rest) \in Nat
        /\ DOMAIN rest = 1..Len(rest)
    BY <1>1, <2>1, <2>3, RemoveAtType, LenProperties
  <2>5. \A i \in DOMAIN rest : \E n \in DOMAIN tx.to : n # j /\ rest[i] = tx.to[n]
    BY <1>1, <2>1, <2>3, RemainingElements
  <2>6. PICK first : first = <<tx.from>>
    OBVIOUS
  <2>7. first \in Seq(PublicKey) /\ Len(first) = 1 /\ first[1] = tx.from
    BY <1>1, <2>6
  <2>8. /\ Len(first \o rest) = 1 + Len(rest)
        /\ first \o rest \in Seq(PublicKey)
        /\ \A i \in 1..1+Len(rest) :
              (first \o rest)[i] = IF i <= 1 THEN first[i] ELSE rest[i - 1]
    <3>1. /\ Len(first \o rest) = Len(first) + Len(rest)
          /\ first \o rest \in Seq(PublicKey)
          /\ \A i \in 1..Len(first)+Len(rest) :
                (first \o rest)[i] = IF i <= Len(first) THEN first[i] ELSE rest[i - Len(first)]
      BY <2>4, <2>7, ConcatProperties
    <3>2. QED
      BY <2>7, <3>1
  <2>9. pks = first \o rest
    BY <1>5, <2>1, <2>3, <2>6 DEF Others
  <2>10. DOMAIN pks = 1..1+Len(rest)
    BY <2>8, <2>9, LenProperties
  <2>11. ASSUME NEW i \in DOMAIN pks
         PROVE  pks[i] = tx.from \/ \E n \in DOMAIN tx.to : n # j /\ pks[i] = tx.to[n]
    <3>1. CASE i = 1
      BY <2>4, <2>7, <2>8, <2>9, <2>10, <3>1
    <3>2. CASE i # 1
      <4>1. PICK n : n = i - 1
        OBVIOUS
      <4>2. n \in 1..Len(rest) /\ ~ (i <= 1) /\ i \in 1..1+Len(rest)
        BY <2>4, <2>10, <3>2, <4>1
      <4>3. pks[i] = rest[n]
        BY <2>8, <2>9, <4>1, <4>2
      <4>4. QED
        BY <2>4, <2>5, <4>2, <4>3
    <3>3. QED
      BY <3>1, <3>2
  <2>12. ASSUME NEW i \in DOMAIN pks
         PROVE  pks[i].base \in Bases(t) /\ pks[i].base # tx.to[j].base
    <3>1. CASE pks[i] = tx.from
      BY <1>2, <1>3, <2>2, <3>1
    <3>2. CASE \E n \in DOMAIN tx.to : n # j /\ pks[i] = tx.to[n]
      BY <1>2, <1>3, <2>2, <3>2
    <3>3. QED
      BY <2>11, <3>1, <3>2
  <2>13. tx.to[j].base \in Bases(t)
    BY <1>3, <2>2
  <2>14. QED
    BY <2>2, <2>12, <2>13
<1>6. QED
  BY <1>4, <1>5

\* The receiver's record has the parties of the initiate.
LEMMA JoiningAuthors ==
    ASSUME Inv, Inv', AuthorInv, NEW p \in Node, NEW t \in DOMAIN network,
           network[t].kind = "initiate", IsOurs(p, network[t]),
           UNCHANGED network, UNCHANGED out, UNCHANGED cmd, ProcessInitiate(p, t)
    PROVE  AuthorInv'
<1>1. KeysKept
  <2>1. \/ UNCHANGED indep
        \/ indep' = [indep EXCEPT ![p] = @ \cup {NextKey(InitiatedRecord(p, t))}]
    <3>1. CASE FindForTxId(p, t) # 0
      BY <3>1 DEF ProcessInitiate
    <3>2. CASE FindForTxId(p, t) = 0
      BY <3>2 DEF ProcessInitiate
    <3>3. QED
      BY <3>1, <3>2
  <2>2. PICK pk : UNCHANGED indep \/ indep' = [indep EXCEPT ![p] = @ \cup {pk}]
    BY <2>1
  <2>3. \A q \in Node : indep[q] \subseteq indep'[q]
    <3>1. indep \in [Node -> SUBSET PublicKey]
      BY DEF Inv, TypeOK
    <3>2. QED
      BY <2>2, <3>1
  <2>4. QED
    BY <2>3 DEF KeysKept, Inv, TypeOK
<1>2. CASE UNCHANGED rs
  BY <1>1, <1>2, QuietAuthors
<1>3. CASE rs' = [rs EXCEPT ![p] = Append(rs[p], InitiatedRecord(p, t))]
  <2>1. PICK tx \in Tx : tx = network[t]
    BY TxType
  <2>2. PICK pks \in Seq(PublicKey) : pks = Others(p, tx)
    BY <2>1, OthersType DEF Inv, Structure, TxsOK
  <2>3. PICK s : s = InitiatedRecord(p, t)
    OBVIOUS
  <2>4. s.members = NewMembers(pks) /\ s.key = OurKey(p, tx).base /\ s.txid = t
    BY <2>1, <2>2, <2>3 DEF InitiatedRecord, Others
  <2>5. /\ DOMAIN s.members = DOMAIN pks
        /\ \A i \in DOMAIN pks : s.members[i].base = pks[i].base
    BY <2>4, NewMembersFresh
  <2>6. /\ s.key \in Bases(t)
        /\ \A i \in DOMAIN pks : pks[i].base \in Bases(t) /\ pks[i].base # s.key
    BY <2>1, <2>2, <2>4, OtherBases
  <2>7. RecordBases(s)
    BY <2>4, <2>5, <2>6 DEF RecordBases
  <2>8. RecordBases(s)'
    BY <2>7 DEF RecordBases, Bases
  <2>9. QED
    BY <1>1, <1>3, <2>3, <2>8, AppendAuthors
<1>4. QED
  BY <1>2, <1>3 DEF ProcessInitiate

\* Reading leaves the parties alone.
LEMMA ReadingAuthors ==
    ASSUME Inv, Inv', AuthorInv, NEW p \in Node, NEW t \in DOMAIN network,
           UNCHANGED network, UNCHANGED out, UNCHANGED cmd, ProcessInRelationship(p, t)
    PROVE  AuthorInv'
<1>1. KeysKept
  <2>1. \/ UNCHANGED indep
        \/ \E keys : indep' = [indep EXCEPT ![p] = keys \cup @]
    <3> DEFINE tx == network[t]
               r == rs[p][RelationshipForTx(p, tx)]
               a == AdvanceForTx(p, tx, r)
    <3>1. CASE RelationshipForTx(p, tx) = 0
      BY <3>1 DEF ProcessInRelationship
    <3>2. CASE RelationshipForTx(p, tx) # 0
      <4>1. indep' = [indep EXCEPT ![p] = IF UsesNextKey(p, tx, r)
                                          THEN @ \cup {NextKey(a)} ELSE @]
        BY <3>2 DEF ProcessInRelationship
      <4>2. PICK x, b : x = NextKey(a) /\ b = UsesNextKey(p, tx, r)
        OBVIOUS
      <4>3. indep' = [indep EXCEPT ![p] = IF b THEN @ \cup {x} ELSE @]
        BY <4>1, <4>2
      <4>4. indep' = [indep EXCEPT ![p] = (IF b THEN {x} ELSE {}) \cup @]
        BY <4>3 DEF Inv, TypeOK
      <4>5. QED
        BY <4>4
    <3>3. QED
      BY <3>1, <3>2
  <2>2. PICK keys : UNCHANGED indep \/ indep' = [indep EXCEPT ![p] = keys \cup @]
    BY <2>1
  <2>3. \A q \in Node : indep[q] \subseteq indep'[q]
    <3>1. indep \in [Node -> SUBSET PublicKey]
      BY DEF Inv, TypeOK
    <3>2. QED
      BY <2>2, <3>1
  <2>4. QED
    BY <2>3 DEF KeysKept, Inv, TypeOK
<1>2. PICK tx : tx = network[t]
  OBVIOUS
<1>3. CASE RelationshipForTx(p, tx) = 0
  <2>1. UNCHANGED rs
    BY <1>2, <1>3 DEF ProcessInRelationship
  <2>2. QED
    BY <1>1, <2>1, QuietAuthors
<1>4. CASE RelationshipForTx(p, tx) # 0
  <2>1. PICK k \in DOMAIN rs[p], r \in Relationship, s \in Relationship :
            /\ r = rs[p][k]
            /\ rs' = [rs EXCEPT ![p][k] = s]
            /\ \E m : ReadInto(s, r, tx, Owns(p, tx.from), m)
    BY <1>2, <1>4, ProcessInRelationshipEffect
  <2>2. Continues(s, rs[p][k])
    BY <2>1 DEF ReadInto
  <2>3. QED
    BY <1>1, <2>1, <2>2, UpdateAuthors
<1>5. QED
  BY <1>3, <1>4

\* InitiateRelationship, whether or not the tx is broadcast.
LEMMA InviteAuthors ==
    ASSUME Inv, Inv', AuthorInv, NEW p \in Node, NEW c \in Conn, NEW recv \in Invites[p],
           Initiate(p, c, recv) \/ InitiateFails(p, c, recv)
    PROVE  AuthorInv'
<1>1. CASE Initiate(p, c, recv)
  <2>1. Len(network) + 1 \in Nat
    BY LenProperties DEF Inv, TypeOK
  <2>2. PICK d : d = Initiated(Len(network) + 1) /\ d.pc = "initiated"
    BY <2>1, CommandTypes
  <2>3. SetCmd(p, c, d)
    BY <1>1, <2>2 DEF Initiate, Initiated
  <2>4. \A q \in Node : \A e \in Conn :
           cmd'[q][e] = cmd[q][e] \/ cmd'[q][e].pc # "built"
    BY <2>2, <2>3, SetCmdEffect
  <2>5. /\ MayInitiate(p, c, recv)
        /\ network' = Append(network, InitiateTx(p, recv))
        /\ out' = [out EXCEPT ![p] = @ + 1]
        /\ UNCHANGED rs /\ UNCHANGED indep
    BY <1>1 DEF Initiate
  <2>6. QED
    BY <2>4, <2>5, InitiateAuthors
<1>2. CASE InitiateFails(p, c, recv) /\ UNCHANGED network
  BY <1>2, PlainAuthors
<1>3. CASE /\ InitiateFails(p, c, recv)
           /\ network' = Append(network, InitiateTx(p, recv))
  <2>1. /\ MayInitiate(p, c, recv)
        /\ out' = [out EXCEPT ![p] = @ + 1]
        /\ UNCHANGED rs /\ UNCHANGED indep /\ UNCHANGED cmd
    BY <1>3 DEF InitiateFails
  <2>2. QED
    BY <1>3, <2>1, InitiateAuthors
<1>4. QED
  BY <1>1, <1>2, <1>3 DEF InitiateFails

\* AcceptRelationship and SendMessage, whether or not the tx is broadcast.
LEMMA SendAuthors ==
    ASSUME Inv, Inv', AuthorInv, NEW p \in Node, NEW c \in Conn,
           Broadcast(p, c) \/ BroadcastFails(p, c)
    PROVE  AuthorInv'
<1>1. CASE UNCHANGED network
  <2>1. BroadcastFails(p, c)
    <3>1. ~Broadcast(p, c)
      <4>1. ASSUME Broadcast(p, c) PROVE FALSE
        <5>1. network' = Append(network, CommandTx(p, c)) /\ cmd[p][c].pc = "built"
          BY <4>1 DEF Broadcast
        <5>2. PICK tx \in Tx : tx = CommandTx(p, c)
          BY <5>1, CommandTxType DEF Inv, Structure
        <5>3. network \in Seq(Tx) /\ Len(network) \in Nat
          BY LenProperties DEF Inv, TypeOK
        <5>4. Len(network') = Len(network) + 1
          BY <5>1, <5>2, <5>3, AppendProperties
        <5>5. QED
          BY <1>1, <5>3, <5>4
      <4>2. QED
        BY <4>1
    <3>2. QED
      BY <3>1
  <2>2. QED
    BY <1>1, <2>1, PlainAuthors
<1>2. CASE ~ (UNCHANGED network)
  <2>1. /\ cmd[p][c].pc = "built"
        /\ Owns(p, NextKey(rs[p][cmd[p][c].k]))
        /\ network' = Append(network, CommandTx(p, c))
        /\ UNCHANGED rs /\ UNCHANGED indep /\ UNCHANGED out
    BY <1>2 DEF Broadcast, BroadcastFails
  <2>2. PICK d : SetCmd(p, c, d) /\ d.pc # "built"
    <3>1. CASE Broadcast(p, c)
      <4>1. cmd[p][c] \in Command
        BY DEF Inv, TypeOK
      <4>2. PICK d : d = At(cmd[p][c], "sent") /\ d.pc = "sent"
        BY <4>1, CommandTypes
      <4>3. SetCmd(p, c, d)
        BY <3>1, <4>2 DEF Broadcast, At
      <4>4. QED
        BY <4>2, <4>3
    <3>2. CASE BroadcastFails(p, c)
      <4>1. PICK d : d = NoCommand
        OBVIOUS
      <4>2. SetCmd(p, c, d)
        BY <3>2, <4>1 DEF BroadcastFails
      <4>3. d.pc # "built"
        BY <4>1 DEF NoCommand
      <4>4. QED
        BY <4>2, <4>3
    <3>3. QED
      BY <3>1, <3>2
  <2>3. \A q \in Node : \A e \in Conn :
           cmd'[q][e] = cmd[q][e] \/ cmd'[q][e].pc # "built"
    BY <2>2, SetCmdEffect
  <2>4. QED
    BY <2>1, <2>3, CommandTxAuthors
<1>3. QED
  BY <1>1, <1>2

\* Every step keeps everybody's keys apart.
LEMMA NextAuthors == Inv /\ Inv' /\ AuthorInv /\ [Next]_vars => AuthorInv'
<1> SUFFICES ASSUME Inv, Inv', AuthorInv, [Next]_vars PROVE AuthorInv'
  OBVIOUS
<1>1. CASE UNCHANGED vars
  <2>1. /\ UNCHANGED network /\ UNCHANGED rs /\ UNCHANGED out
        /\ UNCHANGED indep /\ UNCHANGED cmd
    BY <1>1 DEF vars
  <2>2. KeysKept
    BY <2>1 DEF KeysKept, Inv, TypeOK
  <2>3. QED
    BY <2>1, <2>2, QuietAuthors
<1>2. CASE Next
  <2>1. PICK p \in Node :
            \/ \E c \in Conn : UserStep(p, c) \/ CommandStep(p, c)
            \/ ListenerStep(p)
    BY <1>2 DEF Next
  <2>2. ASSUME NEW c \in Conn, UserStep(p, c) PROVE AuthorInv'
    BY <2>2, InviteAuthors, BuildAuthors DEF UserStep
  <2>3. ASSUME NEW c \in Conn, CommandStep(p, c) PROVE AuthorInv'
    BY <2>3, RecordInitiatedAuthors, PlainAuthors, SendAuthors, AdvanceAuthors
       DEF CommandStep
  <2>4. ASSUME NEW t \in DOMAIN network, HandleTx(p, t) PROVE AuthorInv'
    <3>1. /\ UNCHANGED network /\ UNCHANGED rs /\ UNCHANGED out
          /\ UNCHANGED indep /\ UNCHANGED cmd
      BY <2>4 DEF HandleTx
    <3>2. KeysKept
      BY <3>1 DEF KeysKept, Inv, TypeOK
    <3>3. QED
      BY <3>1, <3>2, QuietAuthors
  <2>5. ASSUME NEW t \in DOMAIN network, ProcessTx(p, t) PROVE AuthorInv'
    <3>1. UNCHANGED network /\ UNCHANGED out /\ UNCHANGED cmd
      BY <2>5 DEF ProcessTx
    <3>2. CASE UNCHANGED <<rs, indep, inbox>>
      <4>1. KeysKept /\ UNCHANGED rs
        BY <3>1, <3>2 DEF KeysKept, Inv, TypeOK
      <4>2. QED
        BY <3>1, <4>1, QuietAuthors
    <3>3. CASE /\ Decrypts(p, network[t]) /\ network[t].kind = "initiate"
               /\ ProcessInitiate(p, t)
      BY <3>1, <3>3, DecryptedIsOurs, JoiningAuthors
    <3>4. CASE ProcessInRelationship(p, t)
      BY <3>1, <3>4, ReadingAuthors
    <3>5. QED
      BY <2>5, <3>2, <3>3, <3>4 DEF ProcessTx
  <2>6. QED
    BY <2>1, <2>2, <2>3, <2>4, <2>5 DEF ListenerStep
<1>3. QED
  BY <1>1, <1>2

\* Transactions and records use the keys of their own relationship, divided
\* into the node's own and the members' (initiate.go), in every environment.
THEOREM AuthorInvHolds == Spec => [](Inv /\ AuthorInv)
<1>1. Init => AuthorInv
  <2> SUFFICES ASSUME Init PROVE AuthorInv
    OBVIOUS
  <2>1. DOMAIN network = {} /\ \A p \in Node : DOMAIN rs[p] = {}
    BY EmptySeq DEF Init
  <2>2. \A p \in Node : \A c \in Conn : cmd[p][c].pc # "built"
    BY DEF Init, NoCommand
  <2>3. QED
    BY <2>1, <2>2 DEF AuthorInv, OwnBases
<1>2. Inv /\ AuthorInv /\ [Next]_vars => (Inv /\ AuthorInv)'
  BY NextInv, NextAuthors
<1>3. QED
  BY <1>1, <1>2, InvHolds, PTL DEF Spec

-----------------------------------------------------------------------------
(* What is read is attributed to its author.                               *)

\* Unless addresses are reused, a base key tells relationships apart.
LEMMA BasesApart ==
    ASSUME Inv, AuthorInv, ~ReuseAddresses, NEW s \in DOMAIN network, NEW t \in DOMAIN network,
           network[s].kind = "initiate", network[t].kind = "initiate",
           NEW b, b \in Bases(s), b \in Bases(t)
    PROVE  s = t
<1>1. ASSUME NEW u \in DOMAIN network, network[u].kind = "initiate", b \in Bases(u)
      PROVE  \/ b = network[u].from.base /\ b.type = "out"
             \/ /\ \E i \in DOMAIN network[u].to : b = network[u].to[i].base
                /\ b.type = "in"
  <2>1. PICK y : y = network[u] /\ InitiateOK(y)
    BY DEF AuthorInv
  <2>2. /\ y.from.base.type = "out"
        /\ \A i \in DOMAIN y.to : y.to[i].base.type = "in"
    BY <1>1, <2>1 DEF InitiateOK
  <2>3. b = y.from.base \/ \E i \in DOMAIN y.to : b = y.to[i].base
    BY <1>1, <2>1 DEF Bases
  <2>4. QED
    BY <2>1, <2>2, <2>3
<1>2. \/ b = network[s].from.base /\ b = network[t].from.base
      \/ /\ \E i \in DOMAIN network[s].to : b = network[s].to[i].base
         /\ \E i \in DOMAIN network[t].to : b = network[t].to[i].base
  BY <1>1
<1>3. CASE b = network[s].from.base /\ b = network[t].from.base
  BY <1>3 DEF AuthorInv, OwnBases
<1>4. ASSUME NEW i \in DOMAIN network[s].to, NEW j \in DOMAIN network[t].to,
             b = network[s].to[i].base, b = network[t].to[j].base
      PROVE  s = t
  BY <1>4 DEF AuthorInv, OwnBases
<1>5. QED
  BY <1>2, <1>3, <1>4

\* A later transaction names an initiate.
LEMMA NamesInitiate ==
    ASSUME Inv, NEW t \in DOMAIN network, NEW tx, tx = network[t]
    PROVE  /\ tx.rel \in DOMAIN network /\ network[tx.rel].kind = "initiate"
           /\ network[tx.rel].enc = tx.enc
<1>1. tx.rel \in 1..t
  BY DEF Inv, Structure, TxsOK
<1>2. DOMAIN network = 1..Len(network) /\ Len(network) \in Nat
  BY LenProperties DEF Inv, TypeOK
<1>3. QED
  BY <1>1, <1>2 DEF Inv, Structure, TxsOK

\* GetRelationshipForTx finds the relationship that the transaction is of.
LEMMA FoundRelationship ==
    ASSUME Inv, AuthorInv, ~ReuseAddresses, NEW p \in Node, NEW t \in DOMAIN network,
           NEW tx, tx = network[t], tx.kind # "initiate", Decrypts(p, tx),
           NEW k \in DOMAIN rs[p], k = RelationshipForTx(p, tx), k # 0
    PROVE  rs[p][k].txid = tx.rel
<1>1. tx \in Tx /\ tx.to \in Seq(PublicKey)
  BY TxType DEF Tx
<1>2. rs[p] \in Seq(Relationship)
  BY DEF Inv, TypeOK
<1>3. CASE tx.enc = 1
  <2>1. FindForFlag(p, tx.rel) # 0
    BY <1>3 DEF Decrypts
  <2>2. k = FindForFlag(p, tx.rel)
    BY <1>3, <2>1 DEF RelationshipForTx
  <2>3. QED
    BY <1>2, <2>1, <2>2, FindForFlagFinds
<1>4. CASE tx.enc # 1
  <2>1. IsOurs(p, tx) /\ k = GetRelationship(p, OurKey(p, tx).base)
    BY <1>4 DEF RelationshipForTx
  <2>2. PICK b : b = OurKey(p, tx).base
    OBVIOUS
  <2>3. rs[p][k].key = b
    BY <1>2, <2>1, <2>2, GetRelationshipFinds
  <2>4. b \in Bases(tx.rel)
    <3>1. CASE Owns(p, tx.from)
      BY <2>2, <3>1 DEF OurKey, AuthorInv, LaterOK
    <3>2. CASE ~Owns(p, tx.from)
      <4>1. PICK j : j = OwnReceiver(p, tx) /\ j \in DOMAIN tx.to
        BY <1>1, <2>1, <3>2, OurKeyOurs, LenProperties
      <4>2. OurKey(p, tx) = tx.to[j]
        BY <3>2, <4>1 DEF OurKey
      <4>3. QED
        BY <2>2, <4>1, <4>2 DEF AuthorInv, LaterOK
    <3>3. QED
      BY <3>1, <3>2
  <2>5. PICK u \in DOMAIN network : u = tx.rel /\ network[u].kind = "initiate"
    BY NamesInitiate
  <2>6. PICK v \in DOMAIN network : v = rs[p][k].txid /\ network[v].kind = "initiate"
    BY DEF Inv, Structure, RecordsOK
  <2>7. b \in Bases(v)
    BY <2>3, <2>6 DEF AuthorInv, RecordBases
  <2>8. QED
    BY <2>4, <2>5, <2>6, <2>7, BasesApart
<1>5. QED
  BY <1>3, <1>4

\* If the next key of some member signed, the sending member is such a one.
LEMMA SendingMemberMatches ==
    ASSUME NEW tx, NEW r \in Relationship, NEW i \in DOMAIN r.members,
           MemberKey(r, r.members[i]) = tx.from
    PROVE  MemberKey(r, r.members[SendingMember(r, tx)]) = tx.from
<1> DEFINE I == {n \in 1..Len(r.members) : MemberKey(r, r.members[n]) = tx.from}
           j == SelectInSeq(r.members, LAMBDA m : MemberKey(r, m) = tx.from)
<1>1. j = IF I # {} THEN Min(I) ELSE 0
  BY DEF SelectInSeq
<1>2. /\ r.members \in Seq(MemberRecord)
      /\ Len(r.members) \in Nat /\ DOMAIN r.members = 1..Len(r.members)
  BY LenProperties DEF Relationship
<1>3. I \in SUBSET (1..Len(r.members)) /\ i \in I
  BY <1>2
<1>4. SendingMember(r, tx) = IF j = 0 THEN 1 ELSE j
  BY DEF SendingMember
<1>5. \A n \in I : MemberKey(r, r.members[n]) = tx.from
  OBVIOUS
<1> HIDE DEF I, j
<1>6. j # 0 /\ j \in I
  BY <1>1, <1>2, <1>3, FirstPosition
<1>7. QED
  BY <1>4, <1>5, <1>6

\* What a group member decrypts and has not signed itself is signed with the
\* next key of a member: only then FindEncryptionKey gives the key it was
\* encrypted with.
LEMMA GroupSender ==
    ASSUME NEW p, NEW tx, tx.kind # "initiate", tx.enc = 1, Decrypts(p, tx),
           NEW r, r = rs[p][FindForFlag(p, tx.rel)], tx.from.base # r.key
    PROVE  \E i \in DOMAIN r.members : MemberKey(r, r.members[i]) = tx.from
<1> SUFFICES ASSUME ~ \E i \in DOMAIN r.members : MemberKey(r, r.members[i]) = tx.from
             PROVE  FALSE
  OBVIOUS
<1>1. [eks |-> 1, i |-> tx.hash] \in FindEncryptionKey(r, tx.from)
  BY DEF Decrypts
<1>2. PICK h : /\ h \in FindHash(r, tx.from)
               /\ [eks |-> 1, i |-> tx.hash] = [h EXCEPT !.eks = @ + 1]
  BY <1>1 DEF FindEncryptionKey
<1>3. tx.from # NextKey(r)
  BY DEF NextKey, Derived
<1>4. h = [eks |-> 1, i |-> tx.from.i]
  BY <1>2, <1>3 DEF FindHash
<1>5. [h EXCEPT !.eks = @ + 1].eks = 2
  BY <1>4
<1>6. QED
  BY <1>2, <1>5

\* GetRelationshipForTx finds the member that signed: even where it falls back
\* on the first member there is no other it could be.
LEMMA FoundMember ==
    ASSUME Inv, AuthorInv, ~ReuseAddresses, NEW p \in Node, NEW t \in DOMAIN network,
           NEW tx, tx = network[t], tx.kind # "initiate", Decrypts(p, tx), ~Owns(p, tx.from),
           NEW k \in DOMAIN rs[p], k = RelationshipForTx(p, tx), k # 0,
           NEW r, r = rs[p][k]
    PROVE  r.members[SendingMember(r, tx)].base = tx.from.base
<1>1. r \in Relationship /\ RecordOK(p, r) /\ r.key.node = p /\ RecordBases(r)
  <2>1. r \in Relationship /\ RecordOK(p, r)
    BY RecordType
  <2>2. RecordBases(r)
    BY DEF AuthorInv
  <2>3. QED
    BY <2>1, <2>2 DEF RecordOK
<1>2. r.txid = tx.rel
  BY FoundRelationship
<1>3. Owns(tx.from.base.node, tx.from) /\ tx.from.base \in Bases(tx.rel)
  BY DEF AuthorInv, LaterOK
<1>4. tx.from.base # r.key
  BY <1>1, <1>3
<1>5. PICK m : m = SendingMember(r, tx) /\ m \in DOMAIN r.members
  BY <1>1, SendingMemberFinds DEF RecordOK
<1>6. CASE \E i \in DOMAIN r.members : MemberKey(r, r.members[i]) = tx.from
  <2>1. MemberKey(r, r.members[m]) = tx.from
    BY <1>1, <1>5, <1>6, SendingMemberMatches
  <2>2. QED
    BY <1>5, <2>1 DEF MemberKey, Derived
<1>7. CASE ~ \E i \in DOMAIN r.members : MemberKey(r, r.members[i]) = tx.from
  <2>1. CASE tx.enc = 1
    <3>1. k = FindForFlag(p, tx.rel)
      BY <2>1 DEF RelationshipForTx, Decrypts
    <3>2. \E i \in DOMAIN r.members : MemberKey(r, r.members[i]) = tx.from
      BY <1>4, <2>1, <3>1, GroupSender
    <3>3. QED
      BY <1>7, <3>2
  <2>2. CASE tx.enc # 1
    <3>1. tx.enc = 0
      BY <2>2, TxType DEF Tx
    <3>2. PICK u \in DOMAIN network : /\ u = tx.rel /\ network[u].kind = "initiate"
                                     /\ network[u].enc = 0
      BY <3>1, NamesInitiate
    <3>3. network[u].to \in Seq(PublicKey) /\ Len(network[u].to) = 1
      BY <3>2, TxType DEF Tx, AuthorInv, InitiateOK
    <3>4. DOMAIN network[u].to = {1}
      BY <3>3, LenProperties
    <3>5. Bases(u) = {network[u].from.base, network[u].to[1].base}
      BY <3>4 DEF Bases
    <3>6. r.key \in Bases(u) /\ r.members[m].base \in Bases(u) /\ r.members[m].base # r.key
      BY <1>1, <1>2, <1>5, <3>2 DEF RecordBases
    <3>7. QED
      BY <1>3, <1>4, <1>5, <3>2, <3>5, <3>6
  <2>3. QED
    BY <2>1, <2>2
<1>8. QED
  BY <1>6, <1>7

\* What the node has read it read off the network.
AttributedInv ==
    \A p \in Node : \A e \in inbox[p] :
        /\ e.t \in DOMAIN network
        /\ e.rel = network[e.t].rel
        /\ e.base = network[e.t].from.base

\* What the listener notes of a later transaction is attributed to its signer.
LEMMA ReadAttributed ==
    ASSUME Inv, AuthorInv, AttributedInv, ~ReuseAddresses, NEW p \in Node,
           NEW t \in DOMAIN network, network[t].kind # "initiate", Decrypts(p, network[t]),
           UNCHANGED network, ProcessInRelationship(p, t)
    PROVE  AttributedInv'
<1>1. PICK tx : tx = network[t]
  OBVIOUS
<1>2. CASE RelationshipForTx(p, tx) = 0
  <2>1. UNCHANGED inbox
    BY <1>1, <1>2 DEF ProcessInRelationship
  <2>2. QED
    BY <2>1 DEF AttributedInv
<1>3. CASE RelationshipForTx(p, tx) # 0
  <2>1. PICK k \in DOMAIN rs[p], r \in Relationship :
            \E m : /\ k = RelationshipForTx(p, tx) /\ r = rs[p][k]
                   /\ m = SendingMember(r, tx)
                   /\ inbox' = [inbox EXCEPT ![p] =
                                   IF Owns(p, tx.from) THEN @
                                   ELSE @ \cup {Logged(t, r, m)}]
    BY <1>1, <1>3, ProcessInRelationshipEffect
  <2>2. PICK m : /\ m = SendingMember(r, tx)
                 /\ inbox' = [inbox EXCEPT ![p] =
                                 IF Owns(p, tx.from) THEN @
                                 ELSE @ \cup {Logged(t, r, m)}]
    BY <2>1
  <2>3. CASE Owns(p, tx.from)
    <3>1. inbox' = inbox
      BY <2>2, <2>3 DEF Inv, TypeOK
    <3>2. QED
      BY <3>1 DEF AttributedInv
  <2>4. CASE ~Owns(p, tx.from)
    <3>1. PICK e : /\ e = Logged(t, r, m)
                   /\ e.t = t /\ e.rel = r.txid /\ e.base = r.members[m].base
      <4>1. PICK e : e = Logged(t, r, m)
        OBVIOUS
      <4>2. e.t = t /\ e.rel = r.txid /\ e.base = r.members[m].base
        BY <4>1 DEF Logged
      <4>3. QED
        BY <4>1, <4>2
    <3>2. e.rel = tx.rel
      BY <1>1, <1>3, <2>1, <3>1, FoundRelationship
    <3>3. e.base = tx.from.base
      <4>1. tx = network[t] /\ tx.kind # "initiate" /\ Decrypts(p, tx)
        BY <1>1
      <4>2. k = RelationshipForTx(p, tx) /\ k # 0 /\ r = rs[p][k]
        BY <1>3, <2>1
      <4>3. r.members[SendingMember(r, tx)].base = tx.from.base
        BY <2>4, <4>1, <4>2, FoundMember
      <4>4. QED
        BY <2>2, <3>1, <4>3
    <3>4. \A q \in Node : \A x \in inbox'[q] : x \in inbox[q] \/ x = e
      BY <2>2, <2>4, <3>1 DEF Inv, TypeOK
    <3>5. QED
      BY <1>1, <3>1, <3>2, <3>3, <3>4 DEF AttributedInv
  <2>5. QED
    BY <2>3, <2>4
<1>4. QED
  BY <1>2, <1>3

\* Nothing else is logged.
LEMMA InboxFrame ==
    ASSUME AttributedInv, NetworkExtends, UNCHANGED inbox
    PROVE  AttributedInv'
BY DEF AttributedInv, NetworkExtends

\* What the commands and HandleTx do to the log, and to the transactions.
LEMMA CommandsExtend ==
    ASSUME Inv, NEW p \in Node,
           \/ \E c \in Conn : UserStep(p, c) \/ CommandStep(p, c)
           \/ \E t \in DOMAIN network : HandleTx(p, t)
    PROVE  NetworkExtends /\ UNCHANGED inbox
<1>1. ASSUME NEW c \in Conn, UserStep(p, c) PROVE NetworkExtends /\ UNCHANGED inbox
  BY <1>1, QuietStepsExtend DEF UserStep, Initiate, InitiateFails, Build
<1>2. ASSUME NEW c \in Conn, CommandStep(p, c) PROVE NetworkExtends /\ UNCHANGED inbox
  <2>1. CASE RegisterInitiated(p, c) \/ Broadcast(p, c) \/ BroadcastFails(p, c)
    BY <2>1, QuietStepsExtend DEF RegisterInitiated, Broadcast, BroadcastFails
  <2>2. CASE RecordInitiated(p, c) \/ AdvanceOwn(p, c) \/ AdvanceMembers(p, c)
    <3>1. UNCHANGED network /\ UNCHANGED inbox
      BY <2>2 DEF RecordInitiated, AdvanceOwn, AdvanceMembers
    <3>2. QED
      BY <3>1, NetworkKept
  <2>3. QED
    BY <1>2, <2>1, <2>2 DEF CommandStep
<1>3. ASSUME NEW t \in DOMAIN network, HandleTx(p, t)
      PROVE  NetworkExtends /\ UNCHANGED inbox
  <2>1. UNCHANGED network /\ UNCHANGED inbox
    BY <1>3 DEF HandleTx
  <2>2. QED
    BY <2>1, NetworkKept
<1>4. QED
  BY <1>1, <1>2, <1>3

\* Attribution is kept by every step.
LEMMA NextAttributed ==
    ~ReuseAddresses /\ Inv /\ AuthorInv /\ AttributedInv /\ [Next]_vars => AttributedInv'
<1> SUFFICES ASSUME ~ReuseAddresses, Inv, AuthorInv, AttributedInv, [Next]_vars
             PROVE  AttributedInv'
  OBVIOUS
<1>1. CASE UNCHANGED vars
  <2>1. UNCHANGED network /\ UNCHANGED inbox
    BY <1>1 DEF vars
  <2>2. QED
    BY <2>1, NetworkKept, InboxFrame
<1>2. CASE Next
  <2>1. PICK p \in Node :
            \/ \E c \in Conn : UserStep(p, c) \/ CommandStep(p, c)
            \/ ListenerStep(p)
    BY <1>2 DEF Next
  <2>2. ASSUME \/ \E c \in Conn : UserStep(p, c) \/ CommandStep(p, c)
               \/ \E t \in DOMAIN network : HandleTx(p, t)
        PROVE  AttributedInv'
    BY <2>2, CommandsExtend, InboxFrame
  <2>3. ASSUME NEW t \in DOMAIN network, ProcessTx(p, t) PROVE AttributedInv'
    <3>1. UNCHANGED network /\ NetworkExtends
      BY <2>3, NetworkKept DEF ProcessTx
    <3>2. CASE UNCHANGED inbox
      BY <3>1, <3>2, InboxFrame
    <3>3. CASE /\ network[t].kind # "initiate" /\ Decrypts(p, network[t])
               /\ ProcessInRelationship(p, t)
      BY <3>1, <3>3, ReadAttributed
    <3>4. QED
      BY <2>3, <3>2, <3>3 DEF ProcessTx, ProcessInitiate
  <2>4. QED
    BY <2>1, <2>2, <2>3 DEF ListenerStep
<1>3. QED
  BY <1>1, <1>2

\* As long as no RelateIn key is invited twice, a node takes nothing to be from
\* somebody who did not sign it, or of another relationship than it is of
\* (GetRelationshipForTx), whatever fails and in whatever order transactions
\* and commands come.
THEOREM AttributedHolds == ASSUME ~ReuseAddresses PROVE Spec => []Attributed
<1>1. Init => AttributedInv
  BY DEF Init, AttributedInv
<1>2. AttributedInv => Attributed
  BY DEF AttributedInv, Attributed
<1>3. Inv /\ AuthorInv /\ AttributedInv /\ [Next]_vars => AttributedInv'
  BY NextAttributed
<1>4. QED
  BY <1>1, <1>2, <1>3, AuthorInvHolds, PTL DEF Spec

-----------------------------------------------------------------------------
(* Who has accepted has broadcast an accept.                               *)

\* What AcceptedIsGenuine asks of one record.
Genuine(r) ==
    /\ r.accepted => r.key.type = "out" \/ AcceptedBy(r.key, r.txid)
    /\ \A i \in DOMAIN r.members :
           r.members[i].accepted => AcceptedBy(r.members[i].base, r.txid)

\* A command that is about to mark our accept has broadcast it.
Underway(q, d) ==
    d.pc \in {"sent", "advanced"} /\ d.kind = "accept" =>
        AcceptedBy(rs[q][d.k].key, rs[q][d.k].txid)

AcceptInv ==
    /\ AcceptedIsGenuine
    /\ \A q \in Node : \A c \in Conn : Underway(q, cmd[q][c])

\* What has been accepted stays accepted.
LEMMA AcceptedStays ==
    ASSUME NetworkExtends, NEW base, NEW txid, AcceptedBy(base, txid)
    PROVE  AcceptedBy(base, txid)'
BY DEF AcceptedBy, NetworkExtends

\* A step that changes one record and one command keeps AcceptInv when both are
\* genuine afterwards.
LEMMA AcceptStep ==
    ASSUME Inv, AcceptInv, NetworkExtends, RecordsExtend, NEW s, NEW d,
           \A q \in Node : \A k \in DOMAIN rs'[q] :
              \/ k \in DOMAIN rs[q] /\ rs'[q][k] = rs[q][k]
              \/ rs'[q][k] = s,
           UNCHANGED rs \/ Genuine(s)',
           \A q \in Node : \A c \in Conn :
              \/ cmd'[q][c] = cmd[q][c]
              \/ cmd'[q][c] = d /\ Underway(q, d)'
    PROVE  AcceptInv'
<1>1. ASSUME NEW q \in Node, NEW k, k \in DOMAIN rs[q], rs'[q][k] = rs[q][k]
      PROVE  \E x : x = rs'[q][k] /\ Genuine(x)'
  <2>1. PICK x : x = rs[q][k]
    OBVIOUS
  <2>2. Genuine(x)
    BY <1>1, <2>1 DEF AcceptInv, AcceptedIsGenuine, Genuine
  <2>3. Genuine(x)'
    BY <2>2, AcceptedStays DEF Genuine
  <2>4. QED
    BY <1>1, <2>1, <2>3
<1>2. ASSUME NEW q \in Node, NEW k, k \in DOMAIN rs'[q]
      PROVE  \E x : x = rs'[q][k] /\ Genuine(x)'
  <2>1. CASE k \in DOMAIN rs[q] /\ rs'[q][k] = rs[q][k]
    BY <1>1, <2>1
  <2>2. CASE ~ (k \in DOMAIN rs[q] /\ rs'[q][k] = rs[q][k])
    <3>1. rs'[q][k] = s /\ rs' # rs
      BY <1>2, <2>2
    <3>2. QED
      BY <3>1
  <2>3. QED
    BY <2>1, <2>2
<1>3. AcceptedIsGenuine'
  BY <1>2 DEF AcceptedIsGenuine, Genuine
<1>4. ASSUME NEW q \in Node, NEW c \in Conn
      PROVE  \E e : e = cmd'[q][c] /\ Underway(q, e)'
  <2>1. CASE cmd'[q][c] = cmd[q][c]
    <3>1. PICK e : e = cmd[q][c]
      OBVIOUS
    <3>2. CASE e.pc \in {"sent", "advanced"} /\ e.kind = "accept"
      <4>1. PICK k : k = e.k /\ k \in DOMAIN rs[q]
        BY <3>1, <3>2 DEF Inv, Structure, CommandsOK
      <4>2. PICK b, x : b = rs[q][k].key /\ x = rs[q][k].txid
        OBVIOUS
      <4>3. AcceptedBy(b, x)
        BY <3>1, <3>2, <4>1, <4>2 DEF AcceptInv, Underway
      <4>4. AcceptedBy(b, x)'
        BY <4>3, AcceptedStays
      <4>5. b = rs'[q][k].key /\ x = rs'[q][k].txid
        BY <4>1, <4>2 DEF RecordsExtend
      <4>6. Underway(q, e)'
        BY <4>1, <4>4, <4>5 DEF Underway
      <4>7. QED
        BY <2>1, <3>1, <4>6
    <3>3. CASE ~ (e.pc \in {"sent", "advanced"} /\ e.kind = "accept")
      <4>1. Underway(q, e)'
        BY <3>3 DEF Underway
      <4>2. QED
        BY <2>1, <3>1, <4>1
    <3>4. QED
      BY <3>2, <3>3
  <2>2. CASE cmd'[q][c] = d /\ Underway(q, d)'
    BY <2>2
  <2>3. QED
    BY <2>1, <2>2
<1>5. \A q \in Node : \A c \in Conn : Underway(q, cmd[q][c])'
  BY <1>4 DEF Underway
<1>6. QED
  BY <1>3, <1>5 DEF AcceptInv

\* The case of a record in another's place.
LEMMA AcceptUpdated ==
    ASSUME Inv, AcceptInv, NetworkExtends, NEW p \in Node, NEW k \in DOMAIN rs[p], NEW s,
           rs' = [rs EXCEPT ![p][k] = s], Continues(s, rs[p][k]), Genuine(s)', NEW d,
           \A q \in Node : \A c \in Conn :
              \/ cmd'[q][c] = cmd[q][c]
              \/ cmd'[q][c] = d /\ Underway(q, d)'
    PROVE  AcceptInv'
<1>1. /\ \A q \in Node : DOMAIN rs'[q] = DOMAIN rs[q]
      /\ \A q \in Node : \A j \in DOMAIN rs[q] :
            rs'[q][j] = IF q = p /\ j = k THEN s ELSE rs[q][j]
  BY DEF Inv, TypeOK
<1>2. RecordsExtend
  BY <1>1 DEF RecordsExtend, Continues
<1>3. \A q \in Node : \A j \in DOMAIN rs'[q] :
         \/ j \in DOMAIN rs[q] /\ rs'[q][j] = rs[q][j]
         \/ rs'[q][j] = s
  BY <1>1
<1>4. QED
  BY <1>2, <1>3, AcceptStep

\* The case of a record added at the end.
LEMMA AcceptAppended ==
    ASSUME Inv, AcceptInv, NetworkExtends, NEW p \in Node, NEW s,
           rs' = [rs EXCEPT ![p] = Append(rs[p], s)], Genuine(s)', NEW d,
           \A q \in Node : \A c \in Conn :
              \/ cmd'[q][c] = cmd[q][c]
              \/ cmd'[q][c] = d /\ Underway(q, d)'
    PROVE  AcceptInv'
<1>1. /\ DOMAIN rs'[p] = DOMAIN rs[p] \cup {Len(rs[p]) + 1}
      /\ rs'[p][Len(rs[p]) + 1] = s
      /\ \A q \in Node \ {p} : rs'[q] = rs[q]
      /\ \A q \in Node : \A j \in DOMAIN rs[q] : rs'[q][j] = rs[q][j]
  BY AppendedRecords
<1>2. RecordsExtend
  <2>1. \A q \in Node : \A j \in DOMAIN rs[q] : j \in DOMAIN rs'[q]
    BY <1>1
  <2>2. QED
    BY <1>1, <2>1 DEF RecordsExtend
<1>3. \A q \in Node : \A j \in DOMAIN rs'[q] :
         \/ j \in DOMAIN rs[q] /\ rs'[q][j] = rs[q][j]
         \/ rs'[q][j] = s
  BY <1>1
<1>4. QED
  BY <1>2, <1>3, AcceptStep

\* The case of records left alone.
LEMMA AcceptFrame ==
    ASSUME Inv, AcceptInv, NetworkExtends, UNCHANGED rs, NEW d,
           \A q \in Node : \A c \in Conn :
              \/ cmd'[q][c] = cmd[q][c]
              \/ cmd'[q][c] = d /\ Underway(q, d)'
    PROVE  AcceptInv'
<1>1. RecordsExtend
  BY RecordsKept
<1>2. \A q \in Node : \A j \in DOMAIN rs'[q] :
         j \in DOMAIN rs[q] /\ rs'[q][j] = rs[q][j]
  OBVIOUS
<1>3. QED
  BY <1>1, <1>2, AcceptStep

\* The steps that mark nothing and broadcast no accept that goes on.
LEMMA QuietStepsAccept ==
    ASSUME Inv, AcceptInv, NEW p \in Node, NEW c \in Conn,
           \/ UserStep(p, c)
           \/ RegisterInitiated(p, c) \/ BroadcastFails(p, c)
           \/ \E t \in DOMAIN network : HandleTx(p, t)
    PROVE  AcceptInv'
<1>1. NetworkExtends /\ UNCHANGED rs
  BY QuietStepsExtend DEF UserStep
<1>2. UNCHANGED cmd \/ \E d : SetCmd(p, c, d) /\ d.pc \notin {"sent", "advanced"}
  <2>1. ASSUME NEW recv \in Invites[p], Initiate(p, c, recv)
        PROVE  \E d : SetCmd(p, c, d) /\ d.pc \notin {"sent", "advanced"}
    <3>1. SetCmd(p, c, Initiated(Len(network) + 1))
      BY <2>1 DEF Initiate, Initiated
    <3>2. Initiated(Len(network) + 1).pc = "initiated"
      BY CommandTypes, LenProperties DEF Inv, TypeOK
    <3>3. QED
      BY <3>1, <3>2
  <2>2. ASSUME NEW kind \in {"accept", "message"}, NEW k \in DOMAIN rs[p],
               Build(p, c, kind, k)
        PROVE  \E d : SetCmd(p, c, d) /\ d.pc \notin {"sent", "advanced"}
    BY <2>2, BuildSets
  <2>3. ASSUME BroadcastFails(p, c) \/ RegisterInitiated(p, c)
        PROVE  \E d : SetCmd(p, c, d) /\ d.pc \notin {"sent", "advanced"}
    <3>1. SetCmd(p, c, NoCommand)
      BY <2>3 DEF BroadcastFails, RegisterInitiated
    <3>2. NoCommand.pc = "idle"
      BY DEF NoCommand
    <3>3. QED
      BY <3>1, <3>2
  <2>4. QED
    BY <2>1, <2>2, <2>3 DEF UserStep, InitiateFails, HandleTx
<1>3. CASE UNCHANGED cmd
  BY <1>1, <1>3, AcceptFrame
<1>4. ASSUME NEW d, SetCmd(p, c, d), d.pc \notin {"sent", "advanced"}
      PROVE  AcceptInv'
  <2>1. \A q \in Node : Underway(q, d)'
    BY <1>4 DEF Underway
  <2>2. \A q \in Node : \A e \in Conn :
           \/ cmd'[q][e] = cmd[q][e]
           \/ cmd'[q][e] = d /\ Underway(q, d)'
    BY <1>4, <2>1, SetCmdEffect
  <2>3. QED
    BY <1>1, <2>2, AcceptFrame
<1>5. QED
  BY <1>2, <1>3, <1>4

\* The accept is broadcast, ...
LEMMA BroadcastAccepts ==
    ASSUME Inv, AcceptInv, NEW p \in Node, NEW c \in Conn, Broadcast(p, c)
    PROVE  AcceptInv'
<1>1. /\ cmd[p][c].pc = "built" /\ UNCHANGED rs
      /\ network' = Append(network, CommandTx(p, c))
      /\ SetCmd(p, c, At(cmd[p][c], "sent"))
  BY DEF Broadcast, At
<1>2. PICK e, k : /\ e \in Command /\ e = cmd[p][c]
                  /\ k = e.k /\ k \in DOMAIN rs[p]
  BY <1>1, CommandHeld
<1>3. PICK r \in Relationship : r = rs[p][k]
  BY <1>2, RecordType
<1>4. PICK tx \in Tx : /\ tx = CommandTx(p, c) /\ tx.kind = e.kind
                       /\ tx.rel = r.txid /\ tx.from = NextKey(r)
  BY <1>1, <1>2, <1>3, CommandTxType DEF Inv, Structure
<1>5. NetworkExtends
  BY <1>1, CommandTxAdded
<1>6. Len(network) + 1 \in DOMAIN network' /\ network'[Len(network) + 1] = tx
  <2>1. network \in Seq(Tx) /\ Len(network) \in Nat
    BY LenProperties DEF Inv, TypeOK
  <2>2. /\ Len(network') = Len(network) + 1 /\ network' \in Seq(Tx)
        /\ network'[Len(network) + 1] = tx
    BY <1>1, <1>4, <2>1, AppendProperties
  <2>3. QED
    BY <2>1, <2>2, LenProperties
<1>7. PICK d : d = At(e, "sent") /\ d.k = k /\ d.kind = e.kind
  <2>1. PICK d : d = At(e, "sent")
    OBVIOUS
  <2>2. d.k = e.k /\ d.kind = e.kind
    BY <2>1 DEF At, Command
  <2>3. QED
    BY <1>2, <2>1, <2>2
<1>8. Underway(p, d)'
  <2>1. tx.from.base = r.key
    BY <1>4 DEF NextKey, Derived
  <2>2. d.kind = "accept" => AcceptedBy(r.key, r.txid)'
    BY <1>4, <1>6, <1>7, <2>1 DEF AcceptedBy
  <2>3. rs'[p][d.k] = r
    BY <1>1, <1>3, <1>7
  <2>4. QED
    BY <2>2, <2>3 DEF Underway
<1>9. \A q \in Node : \A x \in Conn :
         \/ cmd'[q][x] = cmd[q][x]
         \/ cmd'[q][x] = d /\ Underway(q, d)'
  BY <1>1, <1>2, <1>7, <1>8, SetCmdEffect
<1>10. QED
  BY <1>1, <1>5, <1>9, AcceptFrame

\* ... and stays so while our index moves on, ...
LEMMA AdvanceOwnAccepts ==
    ASSUME Inv, AcceptInv, NEW p \in Node, NEW c \in Conn, AdvanceOwn(p, c)
    PROVE  AcceptInv'
<1>1. /\ cmd[p][c].pc = "sent" /\ UNCHANGED network
      /\ SetCmd(p, c, At(cmd[p][c], "advanced"))
  BY DEF AdvanceOwn, At
<1>2. PICK k \in DOMAIN rs[p], s \in Relationship :
          /\ rs' = [rs EXCEPT ![p][k] = s]
          /\ Continues(s, rs[p][k])
          /\ s.accepted = rs[p][k].accepted
          /\ s.members = rs[p][k].members
  BY AdvanceOwnEffect
<1>3. NetworkExtends
  BY <1>1, NetworkKept
<1>4. Genuine(s)'
  <2>1. Genuine(rs[p][k])
    BY DEF AcceptInv, AcceptedIsGenuine, Genuine
  <2>2. Genuine(s)
    BY <1>2, <2>1 DEF Genuine, Continues
  <2>3. QED
    BY <1>3, <2>2, AcceptedStays DEF Genuine
<1>5. PICK e, j : /\ e \in Command /\ e = cmd[p][c]
                  /\ j = e.k /\ j \in DOMAIN rs[p]
  BY <1>1, CommandHeld
<1>6. PICK d : d = At(e, "advanced") /\ d.k = j /\ d.kind = e.kind
  <2>1. PICK d : d = At(e, "advanced")
    OBVIOUS
  <2>2. d.k = e.k /\ d.kind = e.kind
    BY <2>1 DEF At, Command
  <2>3. QED
    BY <1>5, <2>1, <2>2
<1>7. PICK b, x : b = rs[p][j].key /\ x = rs[p][j].txid
  OBVIOUS
<1>8. b = rs'[p][j].key /\ x = rs'[p][j].txid
  BY <1>2, <1>5, <1>7 DEF Inv, TypeOK, Continues
<1>9. Underway(p, d)'
  <2>1. d.kind = "accept" => AcceptedBy(b, x)
    BY <1>1, <1>5, <1>6, <1>7 DEF AcceptInv, Underway
  <2>2. d.kind = "accept" => AcceptedBy(b, x)'
    BY <1>3, <2>1, AcceptedStays
  <2>3. QED
    BY <1>6, <1>8, <2>2 DEF Underway
<1>10. \A q \in Node : \A y \in Conn :
          \/ cmd'[q][y] = cmd[q][y]
          \/ cmd'[q][y] = d /\ Underway(q, d)'
  BY <1>1, <1>5, <1>6, <1>9, SetCmdEffect
<1>11. QED
  BY <1>2, <1>3, <1>4, <1>10, AcceptUpdated

\* ... so the relationship is marked for a reason.
LEMMA AdvanceMembersAccepts ==
    ASSUME Inv, AcceptInv, NEW p \in Node, NEW c \in Conn, AdvanceMembers(p, c)
    PROVE  AcceptInv'
<1>1. /\ cmd[p][c].pc = "advanced" /\ UNCHANGED network
      /\ SetCmd(p, c, NoCommand)
  BY DEF AdvanceMembers
<1>2. PICK k \in DOMAIN rs[p], s \in Relationship :
          /\ k = cmd[p][c].k
          /\ rs' = [rs EXCEPT ![p][k] = s]
          /\ Continues(s, rs[p][k])
          /\ s.accepted = (rs[p][k].accepted \/ cmd[p][c].kind = "accept")
          /\ \A i \in DOMAIN rs[p][k].members :
                s.members[i].accepted = rs[p][k].members[i].accepted
  <2>1. PICK k \in DOMAIN rs[p] : \E s \in Relationship :
            /\ k = cmd[p][c].k
            /\ rs' = [rs EXCEPT ![p][k] = s]
            /\ s.next = rs[p][k].next
            /\ Continues(s, rs[p][k])
            /\ rs[p][k].enc = 1 => SameView(s, rs[p][k])
            /\ s.accepted = (rs[p][k].accepted \/ cmd[p][c].kind = "accept")
            /\ \A i \in DOMAIN rs[p][k].members :
                  s.members[i].accepted = rs[p][k].members[i].accepted
    BY AdvanceMembersEffect
  <2>2. QED
    BY <2>1
<1>3. NetworkExtends
  BY <1>1, NetworkKept
<1>4. PICK r : r = rs[p][k]
  OBVIOUS
<1>5. Genuine(s)
  <2>1. Genuine(r)
    BY <1>4 DEF AcceptInv, AcceptedIsGenuine, Genuine
  <2>2. cmd[p][c].kind = "accept" => AcceptedBy(r.key, r.txid)
    BY <1>1, <1>2, <1>4 DEF AcceptInv, Underway
  <2>3. s.accepted => r.accepted \/ cmd[p][c].kind = "accept"
    BY <1>2, <1>4
  <2>4. Continues(s, r) /\ \A i \in DOMAIN r.members :
                              s.members[i].accepted = r.members[i].accepted
    BY <1>2, <1>4
  <2>5. QED
    BY <2>1, <2>2, <2>3, <2>4 DEF Genuine, Continues
<1>6. Genuine(s)'
  BY <1>3, <1>5, AcceptedStays DEF Genuine
<1>7. PICK d : d = NoCommand /\ d.pc = "idle"
  <2>1. PICK d : d = NoCommand
    OBVIOUS
  <2>2. d.pc = "idle"
    BY <2>1 DEF NoCommand
  <2>3. QED
    BY <2>1, <2>2
<1>8. \A q \in Node : Underway(q, d)'
  BY <1>7 DEF Underway
<1>9. \A q \in Node : \A y \in Conn :
         \/ cmd'[q][y] = cmd[q][y]
         \/ cmd'[q][y] = d /\ Underway(q, d)'
  BY <1>1, <1>7, <1>8, SetCmdEffect
<1>10. QED
  BY <1>2, <1>3, <1>6, <1>9, AcceptUpdated

\* The initiator has accepted by initiating, the members have not.
LEMMA RecordInitiatedAccepts ==
    ASSUME Inv, AuthorInv, AcceptInv, NEW p \in Node, NEW c \in Conn, RecordInitiated(p, c)
    PROVE  AcceptInv'
<1>1. PICK t, tx : /\ t = cmd[p][c].t /\ t \in DOMAIN network
                   /\ tx = network[t] /\ tx.kind = "initiate"
  <2>1. cmd[p][c].pc = "initiated"
    BY DEF RecordInitiated
  <2>2. /\ cmd[p][c].t \in DOMAIN network
        /\ network[cmd[p][c].t].kind = "initiate"
    BY <2>1, CommandInitiated
  <2>3. QED
    BY <2>2
<1>2. PICK s : s = InitiatorRecord(t)
  OBVIOUS
<1>3. /\ rs' = [rs EXCEPT ![p] = Append(rs[p], s)]
      /\ SetCmd(p, c, Recorded(Len(rs[p]) + 1))
      /\ UNCHANGED network
  BY <1>1, <1>2 DEF RecordInitiated, Recorded
<1>4. NetworkExtends
  BY <1>3, NetworkKept
<1>5. PICK pks \in Seq(PublicKey) : pks = tx.to
  BY <1>1, TxType DEF Tx
<1>6. s.key = tx.from.base /\ s.members = NewMembers(pks)
  BY <1>1, <1>2, <1>5 DEF InitiatorRecord
<1>7. \A i \in DOMAIN s.members : ~s.members[i].accepted
  BY <1>6, NewMembersFresh
<1>8. tx.from.base.type = "out"
  BY <1>1 DEF AuthorInv, InitiateOK
<1>9. Genuine(s)'
  BY <1>6, <1>7, <1>8 DEF Genuine
<1>10. Len(rs[p]) + 1 \in Nat
  BY LenProperties DEF Inv, TypeOK
<1>11. PICK d : d = Recorded(Len(rs[p]) + 1) /\ d.pc = "recorded"
  BY <1>10, CommandTypes
<1>12. \A q \in Node : Underway(q, d)'
  BY <1>11 DEF Underway
<1>13. \A q \in Node : \A y \in Conn :
          \/ cmd'[q][y] = cmd[q][y]
          \/ cmd'[q][y] = d /\ Underway(q, d)'
  BY <1>3, <1>11, <1>12, SetCmdEffect
<1>14. QED
  BY <1>3, <1>4, <1>9, <1>13, AcceptAppended

\* A receiver has not accepted, and nor has anybody that it knows of.
LEMMA JoiningAccepts ==
    ASSUME Inv, AcceptInv, NEW p \in Node, NEW t \in DOMAIN network,
           IsOurs(p, network[t]), network[t].kind = "initiate",
           UNCHANGED network, UNCHANGED cmd, ProcessInitiate(p, t)
    PROVE  AcceptInv'
<1>1. NetworkExtends
  BY NetworkKept
<1>2. CASE UNCHANGED rs
  BY <1>1, <1>2, AcceptFrame
<1>3. CASE rs' = [rs EXCEPT ![p] = Append(rs[p], InitiatedRecord(p, t))]
  <2>1. PICK tx \in Tx : tx = network[t]
    BY TxType
  <2>2. PICK pks \in Seq(PublicKey) : pks = Others(p, tx)
    BY <2>1, OthersType DEF Inv, Structure, TxsOK
  <2>3. PICK s : s = InitiatedRecord(p, t)
    OBVIOUS
  <2>4. s.members = NewMembers(pks) /\ s.accepted = FALSE
    BY <2>1, <2>2, <2>3 DEF InitiatedRecord, Others
  <2>5. \A i \in DOMAIN s.members : ~s.members[i].accepted
    BY <2>4, NewMembersFresh
  <2>6. Genuine(s)'
    BY <2>4, <2>5 DEF Genuine
  <2>7. QED
    BY <1>1, <1>3, <2>3, <2>6, AcceptAppended
<1>4. QED
  BY <1>2, <1>3 DEF ProcessInitiate

\* An accept that is read marks the member that signed it, or ourselves.
LEMMA ReadingAccepts ==
    ASSUME Inv, AuthorInv, AcceptInv, ~ReuseAddresses, NEW p \in Node,
           NEW t \in DOMAIN network, network[t].kind # "initiate", Decrypts(p, network[t]),
           UNCHANGED network, UNCHANGED cmd, ProcessInRelationship(p, t)
    PROVE  AcceptInv'
<1>1. NetworkExtends
  BY NetworkKept
<1>2. PICK tx : tx = network[t]
  OBVIOUS
<1>3. CASE RelationshipForTx(p, tx) = 0
  <2>1. UNCHANGED rs
    BY <1>2, <1>3 DEF ProcessInRelationship
  <2>2. QED
    BY <1>1, <2>1, AcceptFrame
<1>4. CASE RelationshipForTx(p, tx) # 0
  <2>1. PICK k \in DOMAIN rs[p], r \in Relationship, s \in Relationship :
            \E m : /\ k = RelationshipForTx(p, tx) /\ r = rs[p][k]
                   /\ m = SendingMember(r, tx)
                   /\ rs' = [rs EXCEPT ![p][k] = s]
                   /\ ReadInto(s, r, tx, Owns(p, tx.from), m)
    BY <1>2, <1>4, ProcessInRelationshipEffect
  <2>2. PICK m : m = SendingMember(r, tx) /\ ReadInto(s, r, tx, Owns(p, tx.from), m)
    BY <2>1
  <2>3. r.txid = tx.rel
    BY <1>2, <1>4, <2>1, FoundRelationship
  <2>4. Genuine(r)
    BY <2>1 DEF AcceptInv, AcceptedIsGenuine, Genuine
  <2>5. tx.kind = "accept" => AcceptedBy(tx.from.base, r.txid)
    BY <1>2, <2>3 DEF AcceptedBy
  <2>6. tx.kind = "accept" /\ Owns(p, tx.from) => AcceptedBy(r.key, r.txid)
    <3>1. Owns(p, tx.from) => r.key = tx.from.base
      <4>1. \A pk \in OurKeys(p, tx) : pk.base = rs[p][RelationshipForTx(p, tx)].key
        BY <1>4, RelationshipForTxFinds
      <4>2. Owns(p, tx.from) => tx.from \in OurKeys(p, tx)
        BY DEF OurKeys
      <4>3. QED
        BY <2>1, <4>1, <4>2
    <3>2. QED
      BY <2>5, <3>1
  <2>7. ~Owns(p, tx.from) => r.members[m].base = tx.from.base
    BY <1>2, <1>4, <2>1, <2>2, FoundMember
  <2>8. Genuine(s)
    <3>1. s.accepted => r.accepted \/ (tx.kind = "accept" /\ Owns(p, tx.from))
      BY <2>2 DEF ReadInto
    <3>2. \A i \in DOMAIN r.members :
             s.members[i].accepted =>
                \/ r.members[i].accepted
                \/ tx.kind = "accept" /\ ~Owns(p, tx.from) /\ i = m
      BY <2>2 DEF ReadInto
    <3>3. Continues(s, r)
      BY <2>2 DEF ReadInto
    <3>4. s.accepted => s.key.type = "out" \/ AcceptedBy(s.key, s.txid)
      BY <2>4, <2>6, <3>1, <3>3 DEF Genuine, Continues
    <3>5. ASSUME NEW i \in DOMAIN s.members, s.members[i].accepted
          PROVE  AcceptedBy(s.members[i].base, s.txid)
      <4>1. i \in DOMAIN r.members /\ s.members[i].base = r.members[i].base
            /\ s.txid = r.txid
        BY <3>3, <3>5 DEF Continues
      <4>2. AcceptedBy(r.members[i].base, r.txid)
        <5>1. CASE r.members[i].accepted
          BY <2>4, <4>1, <5>1 DEF Genuine
        <5>2. CASE tx.kind = "accept" /\ ~Owns(p, tx.from) /\ i = m
          BY <2>5, <2>7, <5>2
        <5>3. QED
          BY <3>2, <3>5, <4>1, <5>1, <5>2
      <4>3. QED
        BY <4>1, <4>2
    <3>6. QED
      BY <3>4, <3>5 DEF Genuine
  <2>9. Genuine(s)'
    BY <1>1, <2>8, AcceptedStays DEF Genuine
  <2>10. Continues(s, rs[p][k])
    BY <2>1, <2>2 DEF ReadInto
  <2>11. QED
    BY <1>1, <2>1, <2>9, <2>10, AcceptUpdated
<1>5. QED
  BY <1>3, <1>4

\* AcceptInv is kept by every step.
LEMMA NextAccept ==
    ~ReuseAddresses /\ Inv /\ AuthorInv /\ AcceptInv /\ [Next]_vars => AcceptInv'
<1> SUFFICES ASSUME ~ReuseAddresses, Inv, AuthorInv, AcceptInv, [Next]_vars
             PROVE  AcceptInv'
  OBVIOUS
<1>1. CASE UNCHANGED vars
  <2>1. UNCHANGED network /\ UNCHANGED rs /\ UNCHANGED cmd
    BY <1>1 DEF vars
  <2>2. QED
    BY <2>1, NetworkKept, AcceptFrame
<1>2. CASE Next
  <2>1. PICK p \in Node :
            \/ \E c \in Conn : UserStep(p, c) \/ CommandStep(p, c)
            \/ ListenerStep(p)
    BY <1>2 DEF Next
  <2>2. ASSUME NEW c \in Conn, UserStep(p, c) PROVE AcceptInv'
    BY <2>2, QuietStepsAccept
  <2>3. ASSUME NEW c \in Conn, CommandStep(p, c) PROVE AcceptInv'
    BY <2>3, QuietStepsAccept, RecordInitiatedAccepts, BroadcastAccepts,
       AdvanceOwnAccepts, AdvanceMembersAccepts DEF CommandStep
  <2>4. ASSUME NEW t \in DOMAIN network, HandleTx(p, t) PROVE AcceptInv'
    <3>1. UNCHANGED network /\ UNCHANGED rs /\ UNCHANGED cmd
      BY <2>4 DEF HandleTx
    <3>2. QED
      BY <3>1, NetworkKept, AcceptFrame
  <2>5. ASSUME NEW t \in DOMAIN network, ProcessTx(p, t) PROVE AcceptInv'
    <3>1. UNCHANGED network /\ UNCHANGED cmd /\ NetworkExtends
      BY <2>5, NetworkKept DEF ProcessTx
    <3>2. CASE UNCHANGED rs
      BY <3>1, <3>2, AcceptFrame
    <3>3. CASE /\ network[t].kind = "initiate" /\ Decrypts(p, network[t])
               /\ ProcessInitiate(p, t)
      BY <3>1, <3>3, DecryptedIsOurs, JoiningAccepts
    <3>4. CASE /\ network[t].kind # "initiate" /\ Decrypts(p, network[t])
               /\ ProcessInRelationship(p, t)
      BY <3>1, <3>4, ReadingAccepts
    <3>5. QED
      BY <2>5, <3>2, <3>3, <3>4 DEF ProcessTx
  <2>6. QED
    BY <2>1, <2>2, <2>3, <2>4, <2>5 DEF ListenerStep
<1>3. QED
  BY <1>1, <1>2

\* As long as no RelateIn key is invited twice, nobody is taken to have
\* accepted who has not broadcast an accept (AcceptRelationship,
\* ProcessAcceptRelationship), whatever fails and in whatever order
\* transactions and commands come.
THEOREM AcceptedIsGenuineHolds == ASSUME ~ReuseAddresses PROVE Spec => []AcceptedIsGenuine
<1>1. Init => AcceptInv
  <2> SUFFICES ASSUME Init PROVE AcceptInv
    OBVIOUS
  <2>1. \A p \in Node : DOMAIN rs[p] = {}
    BY EmptySeq DEF Init
  <2>2. \A p \in Node : \A c \in Conn : cmd[p][c].pc = "idle"
    BY DEF Init, NoCommand
  <2>3. QED
    BY <2>1, <2>2 DEF AcceptInv, AcceptedIsGenuine, Underway
<1>2. AcceptInv => AcceptedIsGenuine
  BY DEF AcceptInv
<1>3. Inv /\ AuthorInv /\ AcceptInv /\ [Next]_vars => AcceptInv'
  BY NextAccept
<1>4. QED
  BY <1>1, <1>2, <1>3, AuthorInvHolds, PTL DEF Spec

-----------------------------------------------------------------------------
(* No key signs twice.                                                     *)

\* The record that FindRelationshipForTxId returns for its txid.
First(q, k) == \A j \in DOMAIN rs[q] : rs[q][j].txid = rs[q][k].txid => k <= j

\* Some command has broadcast with the record's next key and is to move on.
Sending(q, k) == \E c \in Conn : cmd[q][c].pc = "sent" /\ cmd[q][c].k = k

\* A key that has signed is behind the next key of the record, or is it and
\* the command that used it has yet to move on.
SpentBy(q, txid, i) ==
    \E k \in DOMAIN rs[q] :
        /\ First(q, k) /\ rs[q][k].txid = txid
        /\ i < rs[q][k].next \/ (i = rs[q][k].next /\ Sending(q, k))

Spent(tx) == tx.kind # "initiate" => SpentBy(tx.from.base.node, tx.rel, tx.from.i)

Holds(q, d) == d.pc \in {"built", "sent"} => First(q, d.k)

TxsSpent == \A t \in DOMAIN network : Spent(network[t])
CommandsHold == \A q \in Node : \A c \in Conn : Holds(q, cmd[q][c])
UseInv == NoKeyReuse /\ TxsSpent /\ CommandsHold

\* Records stay where they are, and their indexes do not go back.
Moves ==
    \A q \in Node : \A k \in DOMAIN rs[q] :
        /\ k \in DOMAIN rs'[q]
        /\ rs'[q][k].txid = rs[q][k].txid
        /\ rs'[q][k].next >= rs[q][k].next
        /\ \A j \in DOMAIN rs'[q] : j \in DOMAIN rs[q] \/ k <= j

\* A command that has broadcast stays there, or moves its record on.
KeepsSending ==
    \A q \in Node : \A k \in DOMAIN rs[q] :
        Sending(q, k) => Sending(q, k)' \/ rs'[q][k].next > rs[q][k].next

\* The first record of a relationship stays the first one.
LEMMA FirstStays ==
    ASSUME Moves, NEW q \in Node, NEW k, k \in DOMAIN rs[q], First(q, k)
    PROVE  First(q, k)'
<1>1. ASSUME NEW j \in DOMAIN rs'[q], rs'[q][j].txid = rs'[q][k].txid
      PROVE  k <= j
  <2>1. CASE j \in DOMAIN rs[q]
    BY <1>1, <2>1 DEF Moves, First
  <2>2. CASE j \notin DOMAIN rs[q]
    BY <1>1, <2>2 DEF Moves
  <2>3. QED
    BY <2>1, <2>2
<1>2. QED
  BY <1>1 DEF First

\* A key that was signed with stays behind the next key, or with a command that
\* is about to move on.
LEMMA SpentStays ==
    ASSUME Inv, Inv', Moves, KeepsSending, NEW tx, tx \in Tx, Spent(tx)
    PROVE  Spent(tx)'
<1>1. CASE tx.kind = "initiate"
  BY <1>1 DEF Spent
<1>2. CASE tx.kind # "initiate"
  <2>1. PICK q \in Node, i \in Nat : q = tx.from.base.node /\ i = tx.from.i
    BY DEF Tx, PublicKey, BaseKey
  <2>2. PICK k \in DOMAIN rs[q] : /\ First(q, k) /\ rs[q][k].txid = tx.rel
                                 /\ \/ i < rs[q][k].next
                                    \/ i = rs[q][k].next /\ Sending(q, k)
    BY <1>2, <2>1 DEF Spent, SpentBy
  <2>3. First(q, k)'
    BY <2>2, FirstStays
  <2>4. /\ k \in DOMAIN rs'[q] /\ rs'[q][k].txid = tx.rel
        /\ rs'[q][k].next >= rs[q][k].next
    BY <2>2 DEF Moves
  <2>5. rs[q][k].next \in Nat
    BY <2>2, RecordType DEF Relationship
  <2>6. rs'[q][k].next \in Nat
    <3>1. rs' \in [Node -> Seq(Relationship)]
      BY DEF Inv, TypeOK
    <3>2. rs'[q] \in Seq(Relationship)
      BY <3>1
    <3>3. rs'[q][k] \in Relationship
      BY <2>4, <3>2, LenProperties, ElementOfSeq
    <3>4. QED
      BY <3>3 DEF Relationship
  <2>7. \/ i < rs'[q][k].next
        \/ i = rs'[q][k].next /\ Sending(q, k)'
    <3>1. Sending(q, k) => Sending(q, k)' \/ rs'[q][k].next > rs[q][k].next
      BY <2>2 DEF KeepsSending
    <3>2. CASE i < rs[q][k].next
      <4>1. PICK a \in Nat, b \in Nat : a = rs[q][k].next /\ b = rs'[q][k].next
        BY <2>5, <2>6
      <4>2. i < a /\ b >= a
        BY <2>4, <3>2, <4>1
      <4>3. i < b
        BY <4>2
      <4>4. QED
        BY <4>1, <4>3
    <3>3. CASE i = rs[q][k].next /\ Sending(q, k)
      <4>1. CASE Sending(q, k)'
        <5>1. rs'[q][k].next > rs[q][k].next \/ rs'[q][k].next = rs[q][k].next
          BY <2>4, <2>5, <2>6
        <5>2. QED
          BY <3>3, <4>1, <5>1
      <4>2. CASE rs'[q][k].next > rs[q][k].next
        BY <2>1, <2>5, <2>6, <3>3, <4>2
      <4>3. QED
        BY <3>1, <3>3, <4>1, <4>2
    <3>4. QED
      BY <2>2, <3>2, <3>3
  <2>8. SpentBy(q, tx.rel, i)'
    BY <2>3, <2>4, <2>7 DEF SpentBy
  <2>9. QED
    BY <2>1, <2>8 DEF Spent
<1>3. QED
  BY <1>1, <1>2

\* A command holds the first record of its relationship for as long as it runs.
LEMMA HoldStep ==
    ASSUME Inv, CommandsHold, Moves, NEW d,
           \A q \in Node : \A c \in Conn :
              \/ cmd'[q][c] = cmd[q][c]
              \/ cmd'[q][c] = d /\ Holds(q, d)'
    PROVE  CommandsHold'
<1>1. ASSUME NEW q \in Node, NEW c \in Conn
      PROVE  \E e : e = cmd'[q][c] /\ Holds(q, e)'
  <2>1. CASE cmd'[q][c] = cmd[q][c]
    <3>1. PICK e : e = cmd[q][c]
      OBVIOUS
    <3>2. CASE e.pc \in {"built", "sent"}
      <4>1. PICK k : k = e.k
        OBVIOUS
      <4>2. k \in DOMAIN rs[q]
        BY <3>1, <3>2, <4>1, CommandHeld
      <4>3. First(q, k)
        BY <3>1, <3>2, <4>1 DEF CommandsHold, Holds
      <4>4. First(q, k)'
        BY <4>2, <4>3, FirstStays
      <4>5. QED
        BY <2>1, <3>1, <4>1, <4>4 DEF Holds
    <3>3. CASE e.pc \notin {"built", "sent"}
      BY <2>1, <3>1, <3>3 DEF Holds
    <3>4. QED
      BY <3>2, <3>3
  <2>2. CASE cmd'[q][c] = d /\ Holds(q, d)'
    BY <2>2
  <2>3. QED
    BY <2>1, <2>2
<1>2. QED
  BY <1>1 DEF CommandsHold, Holds

\* A step that signs at most with a key that has not signed.
LEMMA UseStep ==
    ASSUME Inv, Inv', UseInv, NetworkExtends, Moves, KeepsSending, NEW tx, NEW d,
           \A t \in DOMAIN network' :
              t \in DOMAIN network \/ (t = Len(network) + 1 /\ network'[t] = tx),
           \/ UNCHANGED network
           \/ Spent(tx)' /\ \A t \in DOMAIN network : network[t].from # tx.from,
           \A q \in Node : \A c \in Conn :
              \/ cmd'[q][c] = cmd[q][c]
              \/ cmd'[q][c] = d /\ Holds(q, d)'
    PROVE  UseInv'
<1>1. ASSUME NEW t \in DOMAIN network
      PROVE  \E x : x = network'[t] /\ Spent(x)'
  <2>1. PICK x : x = network[t] /\ x \in Tx
    BY TxType
  <2>2. Spent(x)'
    BY <2>1, SpentStays DEF UseInv, TxsSpent
  <2>3. QED
    BY <2>1, <2>2 DEF NetworkExtends
<1>2. ASSUME NEW t, t \in DOMAIN network'
      PROVE  \E x : x = network'[t] /\ Spent(x)'
  <2>1. CASE t \in DOMAIN network
    BY <1>1, <2>1
  <2>2. CASE t \notin DOMAIN network
    <3>1. network'[t] = tx
      BY <1>2, <2>2
    <3>2. ~ UNCHANGED network
      BY <1>2, <2>2
    <3>3. Spent(tx)'
      BY <3>2
    <3>4. QED
      BY <3>1, <3>3
  <2>3. QED
    BY <2>1, <2>2
<1>3. TxsSpent'
  BY <1>2 DEF TxsSpent, Spent
<1>4. NoKeyReuse'
  <2>1. ASSUME NEW s \in DOMAIN network', NEW t \in DOMAIN network',
               network'[s].from = network'[t].from
        PROVE  s = t
    <3>1. CASE s \in DOMAIN network /\ t \in DOMAIN network
      BY <2>1, <3>1 DEF UseInv, NoKeyReuse, NetworkExtends
    <3>2. CASE s \notin DOMAIN network /\ t \notin DOMAIN network
      BY <3>2
    <3>3. ASSUME NEW u \in DOMAIN network, NEW v \in DOMAIN network',
                 v \notin DOMAIN network
          PROVE  network'[u].from # network'[v].from
      <4>1. network'[v] = tx /\ network' # network /\ network'[u] = network[u]
        BY <3>3 DEF NetworkExtends
      <4>2. network[u].from # tx.from
        BY <3>3, <4>1
      <4>3. QED
        BY <4>1, <4>2
    <3>4. QED
      BY <2>1, <3>1, <3>2, <3>3
  <2>2. QED
    BY <2>1 DEF NoKeyReuse
<1>5. CommandsHold'
  BY HoldStep DEF UseInv
<1>6. QED
  BY <1>3, <1>4, <1>5 DEF UseInv

\* The ways in which records move.
LEMMA FrameMoves ==
    ASSUME Inv, UNCHANGED rs
    PROVE  Moves
<1>1. ASSUME NEW q \in Node, NEW k \in DOMAIN rs[q]
      PROVE  rs[q][k].next \in Nat
  BY RecordType DEF Relationship
<1>2. QED
  BY <1>1 DEF Moves

\* A record in another's place that does not go back moves on.
LEMMA UpdateMoves ==
    ASSUME Inv, NEW p \in Node, NEW k \in DOMAIN rs[p], NEW s,
           rs' = [rs EXCEPT ![p][k] = s], s.txid = rs[p][k].txid,
           s.next >= rs[p][k].next
    PROVE  Moves
<1>1. /\ \A q \in Node : DOMAIN rs'[q] = DOMAIN rs[q]
      /\ \A q \in Node : \A j \in DOMAIN rs[q] :
            rs'[q][j] = IF q = p /\ j = k THEN s ELSE rs[q][j]
  BY DEF Inv, TypeOK
<1>2. ASSUME NEW q \in Node, NEW j \in DOMAIN rs[q]
      PROVE  rs[q][j].next \in Nat
  BY RecordType DEF Relationship
<1>3. QED
  BY <1>1, <1>2 DEF Moves

\* A record added at the end comes after the others.
LEMMA AppendMoves ==
    ASSUME Inv, NEW p \in Node, NEW s, rs' = [rs EXCEPT ![p] = Append(rs[p], s)]
    PROVE  Moves
<1>1. /\ DOMAIN rs'[p] = DOMAIN rs[p] \cup {Len(rs[p]) + 1}
      /\ \A q \in Node \ {p} : rs'[q] = rs[q]
      /\ \A q \in Node : \A k \in DOMAIN rs[q] : rs'[q][k] = rs[q][k]
  BY AppendedRecords
<1>2. ASSUME NEW q \in Node, NEW j \in DOMAIN rs[q]
      PROVE  rs[q][j].next \in Nat
  BY RecordType DEF Relationship
<1>3. \A j \in DOMAIN rs[p] : j <= Len(rs[p]) + 1
  <2>1. rs[p] \in Seq(Relationship)
    BY DEF Inv, TypeOK
  <2>2. DOMAIN rs[p] = 1..Len(rs[p]) /\ Len(rs[p]) \in Nat
    BY <2>1, LenProperties
  <2>3. QED
    BY <2>2
<1>4. \A q \in Node : \A k \in DOMAIN rs[q] :
         k \in DOMAIN rs'[q] /\ \A j \in DOMAIN rs'[q] : j \in DOMAIN rs[q] \/ k <= j
  BY <1>1, <1>3
<1>5. QED
  BY <1>1, <1>2, <1>4 DEF Moves

\* A step after which a command that had broadcast is where it was.
LEMMA StillSending ==
    ASSUME \A q \in Node : \A c \in Conn :
              cmd'[q][c] = cmd[q][c] \/ cmd[q][c].pc # "sent"
    PROVE  KeepsSending
BY DEF KeepsSending, Sending

\* A step that broadcasts nothing, and takes no command past its broadcast,
\* keeps UseInv.
LEMMA QuietUse ==
    ASSUME Inv, Inv', UseInv, UNCHANGED network, Moves, NEW d,
           \A q \in Node : \A c \in Conn :
              \/ cmd'[q][c] = cmd[q][c]
              \/ cmd'[q][c] = d /\ Holds(q, d)' /\ cmd[q][c].pc # "sent"
    PROVE  UseInv'
<1>1. NetworkExtends
  BY NetworkKept
<1>2. KeepsSending
  BY StillSending
<1>3. QED
  BY <1>1, <1>2, UseStep

\* An initiate is signed with a key of its own.
LEMMA InitiateUse ==
    ASSUME Inv, Inv', AuthorInv, UseInv, NEW p \in Node, NEW c \in Conn,
           NEW recv \in Invites[p], Initiate(p, c, recv) \/ InitiateFails(p, c, recv)
    PROVE  UseInv'
<1>1. MayInitiate(p, c, recv) /\ UNCHANGED rs
  BY DEF Initiate, InitiateFails
<1>2. Moves
  BY <1>1, FrameMoves
<1>3. PICK d : d = Initiated(Len(network) + 1) /\ d.pc = "initiated"
  BY CommandTypes, LenProperties DEF Inv, TypeOK
<1>4. \A q \in Node : Holds(q, d)'
  BY <1>3 DEF Holds
<1>5. cmd[p][c].pc = "idle"
  BY <1>1 DEF MayInitiate, NoCommand
<1>6. UNCHANGED cmd \/ SetCmd(p, c, d)
  BY <1>3 DEF Initiate, InitiateFails, Initiated
<1>7. \A q \in Node : \A e \in Conn :
         \/ cmd'[q][e] = cmd[q][e]
         \/ cmd'[q][e] = d /\ Holds(q, d)' /\ cmd[q][e].pc # "sent"
  <2>1. CASE UNCHANGED cmd
    BY <2>1
  <2>2. CASE SetCmd(p, c, d)
    BY <1>4, <1>5, <2>2, SetCmdEffect
  <2>3. QED
    BY <1>6, <2>1, <2>2
<1>8. CASE UNCHANGED network
  BY <1>2, <1>7, <1>8, QuietUse
<1>9. CASE network' = Append(network, InitiateTx(p, recv))
  <2>1. PICK tx \in Tx : tx = InitiateTx(p, recv)
    BY InitiateTxType DEF Inv
  <2>2. /\ tx.kind = "initiate" /\ tx.from.i = 0
        /\ tx.from.base.node = p /\ tx.from.base.index = out[p]
    BY <1>1, <2>1, InvitedKeys
  <2>3. Spent(tx)'
    BY <2>2 DEF Spent
  <2>4. ASSUME NEW t \in DOMAIN network PROVE network[t].from # tx.from
    <3>1. CASE network[t].kind = "initiate"
      <4>1. network[t].from.base.index < out[network[t].from.base.node]
        BY <3>1 DEF AuthorInv, InitiateOK
      <4>2. out[p] \in Nat
        BY DEF Inv, TypeOK
      <4>3. SUFFICES ASSUME network[t].from = tx.from PROVE FALSE
        OBVIOUS
      <4>4. out[p] < out[p]
        BY <2>2, <4>1, <4>3
      <4>5. QED
        BY <4>2, <4>4
    <3>2. CASE network[t].kind # "initiate"
      <4>1. network[t].from.i > 0
        BY <3>2 DEF Inv, Structure, TxsOK
      <4>2. QED
        BY <2>2, <4>1
    <3>3. QED
      BY <3>1, <3>2
  <2>5. NetworkExtends
    BY <1>9, InitiateTxAdded
  <2>6. \A t \in DOMAIN network' :
           t \in DOMAIN network \/ (t = Len(network) + 1 /\ network'[t] = tx)
    <3>1. network \in Seq(Tx) /\ Len(network) \in Nat
      BY LenProperties DEF Inv, TypeOK
    <3>2. /\ Len(network') = Len(network) + 1 /\ network' \in Seq(Tx)
          /\ network'[Len(network) + 1] = tx
      BY <1>9, <2>1, <3>1, AppendProperties
    <3>3. QED
      BY <3>1, <3>2, LenProperties
  <2>7. KeepsSending
    BY <1>7, StillSending
  <2>8. QED
    BY <1>2, <1>7, <2>3, <2>4, <2>5, <2>6, <2>7, UseStep
<1>10. QED
  BY <1>8, <1>9 DEF Initiate, InitiateFails

\* A command is built with the first record of its relationship.
LEMMA BuildFirst ==
    ASSUME Inv, NEW p \in Node, NEW c \in Conn, NEW kind, NEW k \in DOMAIN rs[p],
           Build(p, c, kind, k)
    PROVE  First(p, k)
<1>1. rs[p] \in Seq(Relationship)
  BY DEF Inv, TypeOK
<1>2. PICK x : x = rs[p][k].txid
  OBVIOUS
<1>3. k = FindForTxId(p, x)
  BY <1>2 DEF Build, MayBuild
<1>4. \A j \in 1..Len(rs[p]) : rs[p][j].txid = x => k <= j
  BY <1>1, <1>3, FindForTxIdFinds
<1>5. DOMAIN rs[p] = 1..Len(rs[p])
  BY <1>1, LenProperties
<1>6. QED
  BY <1>2, <1>4, <1>5 DEF First

\* A command works on the record that FindRelationshipForTxId returned.
LEMMA BuildUse ==
    ASSUME Inv, Inv', UseInv, NEW p \in Node, NEW c \in Conn,
           NEW kind \in {"accept", "message"}, NEW k \in DOMAIN rs[p],
           Build(p, c, kind, k)
    PROVE  UseInv'
<1>1. PICK d : SetCmd(p, c, d) /\ d.k = k
  BY DEF Build
<1>2. UNCHANGED network /\ UNCHANGED rs /\ cmd[p][c].pc = "idle"
  BY DEF Build, NoCommand
<1>3. First(p, k)
  BY BuildFirst
<1>4. Moves
  BY <1>2, FrameMoves
<1>5. First(p, k)'
  BY <1>3, <1>4, FirstStays
<1>6. Holds(p, d)'
  BY <1>1, <1>5 DEF Holds
<1>7. QED
  BY <1>1, <1>2, <1>4, <1>6, SetCmdEffect, QuietUse

\* The steps that only end a command or take a transaction.
LEMMA PlainUse ==
    ASSUME Inv, Inv', UseInv, NEW p \in Node, NEW c \in Conn,
           \/ BroadcastFails(p, c) /\ UNCHANGED network
           \/ RegisterInitiated(p, c)
           \/ \E t \in DOMAIN network : HandleTx(p, t)
    PROVE  UseInv'
<1>1. UNCHANGED network /\ UNCHANGED rs
  BY DEF BroadcastFails, RegisterInitiated, HandleTx
<1>2. Moves
  BY <1>1, FrameMoves
<1>3. UNCHANGED cmd \/ (SetCmd(p, c, NoCommand) /\ cmd[p][c].pc # "sent")
  BY DEF BroadcastFails, RegisterInitiated, HandleTx
<1>4. PICK d : d = NoCommand
  OBVIOUS
<1>5. d.pc = "idle"
  BY <1>4 DEF NoCommand
<1>6. \A q \in Node : Holds(q, d)'
  BY <1>5 DEF Holds
<1>7. \A q \in Node : \A e \in Conn :
         \/ cmd'[q][e] = cmd[q][e]
         \/ cmd'[q][e] = d /\ Holds(q, d)' /\ cmd[q][e].pc # "sent"
  <2>1. CASE UNCHANGED cmd
    BY <2>1
  <2>2. CASE SetCmd(p, c, NoCommand) /\ cmd[p][c].pc # "sent"
    BY <1>4, <1>6, <2>2, SetCmdEffect
  <2>3. QED
    BY <1>3, <2>1, <2>2
<1>8. QED
  BY <1>1, <1>2, <1>7, QuietUse

\* A record more comes after the ones there are.
LEMMA RecordInitiatedUse ==
    ASSUME Inv, Inv', UseInv, NEW p \in Node, NEW c \in Conn, RecordInitiated(p, c)
    PROVE  UseInv'
<1>1. PICK s : rs' = [rs EXCEPT ![p] = Append(rs[p], s)]
  BY DEF RecordInitiated
<1>2. /\ SetCmd(p, c, Recorded(Len(rs[p]) + 1)) /\ cmd[p][c].pc = "initiated"
      /\ UNCHANGED network
  BY DEF RecordInitiated, Recorded
<1>3. Moves
  BY <1>1, AppendMoves
<1>4. Len(rs[p]) + 1 \in Nat
  BY LenProperties DEF Inv, TypeOK
<1>5. PICK d : d = Recorded(Len(rs[p]) + 1) /\ d.pc = "recorded"
  BY <1>4, CommandTypes
<1>6. Holds(p, d)'
  BY <1>5 DEF Holds
<1>7. QED
  BY <1>2, <1>3, <1>5, <1>6, SetCmdEffect, QuietUse

\* The only command signs with a key that is not spent: had it signed before,
\* the index would have moved on, or the command would.
LEMMA BroadcastUse ==
    ASSUME Inv, Inv', AuthorInv, UseInv, \A x, y \in Conn : x = y,
           NEW p \in Node, NEW c \in Conn, Broadcast(p, c)
    PROVE  UseInv'
<1>1. /\ cmd[p][c].pc = "built" /\ UNCHANGED rs
      /\ network' = Append(network, CommandTx(p, c))
      /\ SetCmd(p, c, At(cmd[p][c], "sent"))
  BY DEF Broadcast, At
<1>2. PICK e \in Command, k \in DOMAIN rs[p] :
          e = cmd[p][c] /\ k = e.k /\ First(p, k)
  <2>1. cmd[p][c] \in Command /\ cmd[p][c].k \in DOMAIN rs[p]
    BY <1>1, CommandHeld
  <2>2. First(p, cmd[p][c].k)
    BY <1>1 DEF UseInv, CommandsHold, Holds
  <2>3. QED
    BY <2>1, <2>2
<1>3. PICK r \in Relationship : r = rs[p][k] /\ RecordOK(p, r)
  BY RecordType
<1>4. PICK tx \in Tx : /\ tx = CommandTx(p, c) /\ tx.kind # "initiate"
                       /\ tx.rel = r.txid /\ tx.from = NextKey(r)
  BY <1>1, <1>2, <1>3, CommandTxType DEF Inv, Structure
<1>5. /\ tx.from.base.node = p /\ tx.from.seed = r.txid
      /\ tx.from.i = r.next /\ r.next > 0
  BY <1>3, <1>4 DEF NextKey, Derived, RecordOK
<1>6. NetworkExtends
  BY <1>1, CommandTxAdded
<1>7. Moves
  BY <1>1, FrameMoves
<1>8. PICK d : d = At(e, "sent") /\ d.k = k /\ d.pc = "sent"
  <2>1. PICK d : d = At(e, "sent")
    OBVIOUS
  <2>2. d.k = e.k /\ d.pc = "sent"
    BY <2>1 DEF At, Command
  <2>3. QED
    BY <1>2, <2>1, <2>2
<1>9. \A q \in Node : \A x \in Conn :
         cmd'[q][x] = IF q = p /\ x = c THEN d ELSE cmd[q][x]
  BY <1>1, <1>2, <1>8, SetCmdEffect
<1>10. First(p, k)'
  BY <1>2, <1>7, FirstStays
<1>11. Spent(tx)'
  <2>1. Sending(p, k)'
    BY <1>8, <1>9 DEF Sending
  <2>2. k \in DOMAIN rs'[p] /\ rs'[p][k] = r
    BY <1>1, <1>3
  <2>3. SpentBy(p, r.txid, r.next)'
    BY <1>10, <2>1, <2>2 DEF SpentBy
  <2>4. QED
    BY <1>4, <1>5, <2>3 DEF Spent
<1>12. ASSUME NEW t \in DOMAIN network PROVE network[t].from # tx.from
  <2>1. SUFFICES ASSUME network[t].from = tx.from PROVE FALSE
    OBVIOUS
  <2>2. PICK u \in Tx : u = network[t] /\ u.from = tx.from
    BY <2>1, TxType
  <2>3. CASE u.kind = "initiate"
    <3>1. u.from.i = 0
      BY <2>2, <2>3 DEF AuthorInv, InitiateOK
    <3>2. QED
      BY <1>5, <2>2, <3>1
  <2>4. CASE u.kind # "initiate"
    <3>1. u.rel = r.txid
      BY <1>5, <2>2, <2>4 DEF Inv, Structure, TxsOK
    <3>2. SpentBy(p, r.txid, r.next)
      BY <1>5, <2>2, <2>4, <3>1 DEF UseInv, TxsSpent, Spent
    <3>3. PICK j \in DOMAIN rs[p] : /\ First(p, j) /\ rs[p][j].txid = r.txid
                                   /\ \/ r.next < rs[p][j].next
                                      \/ Sending(p, j)
      BY <3>2 DEF SpentBy
    <3>4. j = k
      <4>1. j <= k /\ k <= j
        BY <1>2, <1>3, <3>3 DEF First
      <4>2. j \in Nat /\ k \in Nat
        BY RecordType
      <4>3. QED
        BY <4>1, <4>2
    <3>5. ~ (r.next < r.next)
      BY DEF Relationship
    <3>6. Sending(p, k)
      BY <1>3, <3>3, <3>4, <3>5
    <3>7. PICK x \in Conn : cmd[p][x].pc = "sent"
      BY <3>6 DEF Sending
    <3>8. QED
      BY <1>1, <3>7
  <2>5. QED
    BY <2>3, <2>4
<1>13. \A t \in DOMAIN network' :
          t \in DOMAIN network \/ (t = Len(network) + 1 /\ network'[t] = tx)
  <2>1. network \in Seq(Tx) /\ Len(network) \in Nat
    BY LenProperties DEF Inv, TypeOK
  <2>2. /\ Len(network') = Len(network) + 1 /\ network' \in Seq(Tx)
        /\ network'[Len(network) + 1] = tx
    BY <1>1, <1>4, <2>1, AppendProperties
  <2>3. QED
    BY <2>1, <2>2, LenProperties
<1>14. KeepsSending
  <2>1. \A q \in Node : \A x \in Conn :
           cmd'[q][x] = cmd[q][x] \/ cmd[q][x].pc # "sent"
    BY <1>1, <1>9
  <2>2. QED
    BY <2>1, StillSending
<1>15. Holds(p, d)'
  BY <1>8, <1>10 DEF Holds
<1>16. \A q \in Node : \A x \in Conn :
          \/ cmd'[q][x] = cmd[q][x]
          \/ cmd'[q][x] = d /\ Holds(q, d)'
  BY <1>9, <1>15
<1>17. QED
  BY <1>6, <1>7, <1>11, <1>12, <1>13, <1>14, <1>16, UseStep

\* A command that moves a record on does not take its index back.
LEMMA AdvanceMoves ==
    ASSUME Inv, NEW p \in Node, NEW c \in Conn,
           AdvanceOwn(p, c) \/ AdvanceMembers(p, c)
    PROVE  Moves
<1>1. PICK k \in DOMAIN rs[p], s \in Relationship :
          /\ rs' = [rs EXCEPT ![p][k] = s]
          /\ s.txid = rs[p][k].txid
          /\ s.next = rs[p][k].next \/ s.next = rs[p][k].next + 1
  <2>1. CASE AdvanceOwn(p, c)
    BY <2>1, AdvanceOwnEffect DEF Continues
  <2>2. CASE AdvanceMembers(p, c)
    BY <2>2, AdvanceMembersEffect DEF Continues
  <2>3. QED
    BY <2>1, <2>2
<1>2. rs[p][k].next \in Nat
  BY RecordType DEF Relationship
<1>3. s.next >= rs[p][k].next
  BY <1>1, <1>2
<1>4. QED
  BY <1>1, <1>3, UpdateMoves

\* The command moves its record on past the key it has signed with.
LEMMA AdvanceOwnUse ==
    ASSUME Inv, Inv', UseInv, NEW p \in Node, NEW c \in Conn, AdvanceOwn(p, c)
    PROVE  UseInv'
<1>1. /\ cmd[p][c].pc = "sent" /\ UNCHANGED network
      /\ SetCmd(p, c, At(cmd[p][c], "advanced"))
  BY DEF AdvanceOwn, At
<1>2. PICK e \in Command, k \in DOMAIN rs[p] : e = cmd[p][c] /\ k = e.k
  BY <1>1, CommandHeld
<1>3. PICK s : /\ rs' = [rs EXCEPT ![p][k] = s]
               /\ s.next = rs[p][k].next + 1
  BY <1>2, AdvanceOwnEffect
<1>4. rs[p][k].next \in Nat
  BY RecordType DEF Relationship
<1>5. Moves
  BY AdvanceMoves
<1>6. PICK d : d = At(e, "advanced") /\ d.pc = "advanced"
  BY CommandTypes
<1>7. \A q \in Node : \A x \in Conn :
         cmd'[q][x] = IF q = p /\ x = c THEN d ELSE cmd[q][x]
  BY <1>1, <1>2, <1>6, SetCmdEffect
<1>8. KeepsSending
  <2>1. ASSUME NEW q \in Node, NEW j \in DOMAIN rs[q], Sending(q, j)
        PROVE  Sending(q, j)' \/ rs'[q][j].next > rs[q][j].next
    <3>1. PICK x \in Conn : cmd[q][x].pc = "sent" /\ cmd[q][x].k = j
      BY <2>1 DEF Sending
    <3>2. CASE q = p /\ x = c
      <4>1. j = k /\ rs'[q][j] = s
        BY <1>2, <1>3, <3>1, <3>2 DEF Inv, TypeOK
      <4>2. QED
        BY <1>3, <1>4, <3>2, <4>1
    <3>3. CASE ~ (q = p /\ x = c)
      BY <1>7, <3>1, <3>3 DEF Sending
    <3>4. QED
      BY <3>2, <3>3
  <2>2. QED
    BY <2>1 DEF KeepsSending
<1>9. \A q \in Node : Holds(q, d)'
  BY <1>6 DEF Holds
<1>10. \A q \in Node : \A x \in Conn :
          \/ cmd'[q][x] = cmd[q][x]
          \/ cmd'[q][x] = d /\ Holds(q, d)'
  BY <1>7, <1>9
<1>11. NetworkExtends
  BY <1>1, NetworkKept
<1>12. QED
  BY <1>1, <1>5, <1>8, <1>10, <1>11, UseStep

\* What else updates a record leaves our index, or moves it on.
LEMMA AdvanceMembersUse ==
    ASSUME Inv, Inv', UseInv, NEW p \in Node, NEW c \in Conn, AdvanceMembers(p, c)
    PROVE  UseInv'
<1>1. /\ cmd[p][c].pc = "advanced" /\ UNCHANGED network
      /\ SetCmd(p, c, NoCommand)
  BY DEF AdvanceMembers
<1>2. Moves
  BY AdvanceMoves
<1>3. PICK d : d = NoCommand
  OBVIOUS
<1>4. d.pc = "idle"
  BY <1>3 DEF NoCommand
<1>5. Holds(p, d)'
  BY <1>4 DEF Holds
<1>6. \A q \in Node : \A y \in Conn :
         \/ cmd'[q][y] = cmd[q][y]
         \/ cmd'[q][y] = d /\ Holds(q, d)' /\ cmd[q][y].pc # "sent"
  <2>1. \A q \in Node : \A y \in Conn :
           cmd'[q][y] = IF q = p /\ y = c THEN d ELSE cmd[q][y]
    BY <1>1, <1>3, SetCmdEffect
  <2>2. cmd[p][c].pc # "sent"
    BY <1>1
  <2>3. QED
    BY <1>5, <2>1, <2>2
<1>7. QED
  BY <1>1, <1>2, <1>6, QuietUse

\* Reading a later transaction never takes an index back.
LEMMA ReadingMoves ==
    ASSUME Inv, NEW p \in Node, NEW t \in DOMAIN network, ProcessInRelationship(p, t)
    PROVE  Moves
<1>1. PICK tx : tx = network[t]
  OBVIOUS
<1>2. CASE RelationshipForTx(p, tx) = 0
  <2>1. UNCHANGED rs
    BY <1>1, <1>2 DEF ProcessInRelationship
  <2>2. QED
    BY <2>1, FrameMoves
<1>3. CASE RelationshipForTx(p, tx) # 0
  <2>1. PICK k \in DOMAIN rs[p] : k = RelationshipForTx(p, tx)
    BY <1>3, RelationshipForTxFinds
  <2>2. PICK r \in Relationship : r = rs[p][k] /\ RecordOK(p, r)
    BY RecordType
  <2>3. PICK a \in Relationship : a = AdvanceForTx(p, tx, r) /\ Replaces(a, r)
    BY <2>2, AdvanceForTxSound
  <2>4. PICK sending, m, s : /\ sending = Owns(p, tx.from)
                             /\ m = SendingMember(r, tx)
                             /\ s = Processed(tx, sending, m, a)
    OBVIOUS
  <2>5. sending \in BOOLEAN
    BY <2>4 DEF Owns
  <2>6. s.txid = a.txid /\ s.next = a.next
    BY <2>4, <2>5, ProcessedFrame
  <2>7. s.txid = r.txid /\ s.next >= r.next
    BY <2>3, <2>6 DEF Replaces
  <2>8. rs' = [rs EXCEPT ![p][k] = s]
    BY <1>1, <1>3, <2>1, <2>2, <2>3, <2>4 DEF ProcessInRelationship
  <2>9. QED
    BY <2>2, <2>7, <2>8, UpdateMoves
<1>4. QED
  BY <1>2, <1>3

\* Nor does the listener otherwise.
LEMMA ProcessTxMoves ==
    ASSUME Inv, NEW p \in Node, NEW t \in DOMAIN network, ProcessTx(p, t)
    PROVE  Moves
<1>1. CASE UNCHANGED rs
  BY <1>1, FrameMoves
<1>2. CASE ProcessInitiate(p, t)
  <2>1. UNCHANGED rs \/ rs' = [rs EXCEPT ![p] = Append(rs[p], InitiatedRecord(p, t))]
    BY <1>2 DEF ProcessInitiate
  <2>2. QED
    BY <1>1, <2>1, AppendMoves
<1>3. CASE ProcessInRelationship(p, t)
  BY <1>3, ReadingMoves
<1>4. QED
  BY <1>1, <1>2, <1>3 DEF ProcessTx

\* The listener keeps UseInv.
LEMMA ProcessTxUse ==
    ASSUME Inv, Inv', UseInv, NEW p \in Node, NEW t \in DOMAIN network, ProcessTx(p, t)
    PROVE  UseInv'
<1>1. UNCHANGED network /\ UNCHANGED cmd
  BY DEF ProcessTx
<1>2. Moves
  BY ProcessTxMoves
<1>3. QED
  BY <1>1, <1>2, QuietUse

\* UseInv is kept by every step of a daemon with one client.
LEMMA NextUse ==
    /\ \A x, y \in Conn : x = y
    /\ "after" \notin Failures
    /\ Inv /\ Inv' /\ AuthorInv /\ UseInv /\ [Next]_vars
    => UseInv'
<1> SUFFICES ASSUME \A x, y \in Conn : x = y, "after" \notin Failures,
                    Inv, Inv', AuthorInv, UseInv, [Next]_vars
             PROVE  UseInv'
  OBVIOUS
<1>1. CASE UNCHANGED vars
  <2>1. UNCHANGED network /\ UNCHANGED rs /\ UNCHANGED cmd
    BY <1>1 DEF vars
  <2>2. QED
    BY <2>1, FrameMoves, QuietUse
<1>2. CASE Next
  <2>1. PICK p \in Node :
            \/ \E c \in Conn : UserStep(p, c) \/ CommandStep(p, c)
            \/ ListenerStep(p)
    BY <1>2 DEF Next
  <2>2. ASSUME NEW c \in Conn, UserStep(p, c) PROVE UseInv'
    BY <2>2, InitiateUse, BuildUse DEF UserStep
  <2>3. ASSUME NEW c \in Conn, CommandStep(p, c) PROVE UseInv'
    <3>1. ASSUME BroadcastFails(p, c) PROVE UNCHANGED network
      BY <3>1 DEF BroadcastFails
    <3>2. QED
      BY <2>3, <3>1, RecordInitiatedUse, PlainUse, BroadcastUse, AdvanceOwnUse,
         AdvanceMembersUse DEF CommandStep
  <2>4. ASSUME NEW t \in DOMAIN network, HandleTx(p, t) PROVE UseInv'
    <3>1. UNCHANGED network /\ UNCHANGED rs /\ UNCHANGED cmd
      BY <2>4 DEF HandleTx
    <3>2. QED
      BY <3>1, FrameMoves, QuietUse
  <2>5. ASSUME NEW t \in DOMAIN network, ProcessTx(p, t) PROVE UseInv'
    BY <2>5, ProcessTxUse
  <2>6. QED
    BY <2>1, <2>2, <2>3, <2>4, <2>5 DEF ListenerStep
<1>3. QED
  BY <1>1, <1>2

\* "Those keys should not be reused": as long as a daemon serves one client
\* and no broadcast fails after the tx is out, no two transactions are signed
\* with the same key, whatever the listener does to the index meanwhile.
THEOREM NoKeyReuseHolds ==
    ASSUME \A x, y \in Conn : x = y, "after" \notin Failures
    PROVE  Spec => []NoKeyReuse
<1>1. Init => UseInv
  <2> SUFFICES ASSUME Init PROVE UseInv
    OBVIOUS
  <2>1. DOMAIN network = {}
    BY EmptySeq DEF Init
  <2>2. \A p \in Node : \A c \in Conn : cmd[p][c].pc = "idle"
    BY DEF Init, NoCommand
  <2>3. QED
    BY <2>1, <2>2 DEF UseInv, NoKeyReuse, TxsSpent, CommandsHold, Holds
<1>2. UseInv => NoKeyReuse
  BY DEF UseInv
<1>3. Inv /\ Inv' /\ AuthorInv /\ UseInv /\ [Next]_vars => UseInv'
  BY NextUse
<1>4. QED
  BY <1>1, <1>2, <1>3, AuthorInvHolds, PTL DEF Spec

-----------------------------------------------------------------------------
(* One record per relationship.                                            *)

\* A relationship that is being recorded is in no record, and in no other
\* command's hands.
Fresh(q, c) ==
    cmd[q][c].pc = "initiated" =>
        /\ \A k \in DOMAIN rs[q] : rs[q][k].txid # cmd[q][c].t
        /\ \A e \in Conn : cmd[q][e].pc = "initiated" /\ cmd[q][e].t = cmd[q][c].t => e = c

UniqueInv == UniqueTxId /\ \A q \in Node : \A c \in Conn : Fresh(q, c)

\* The records are of the relationships they were of.
TxidsSame ==
    \A q \in Node :
        /\ DOMAIN rs'[q] = DOMAIN rs[q]
        /\ \A k \in DOMAIN rs[q] : rs'[q][k].txid = rs[q][k].txid

\* Records that keep their relationships, in number and place, stay unique.
LEMMA UniqueStep ==
    ASSUME UniqueInv, TxidsSame,
           \A q \in Node : \A e \in Conn :
              cmd'[q][e] = cmd[q][e] \/ cmd'[q][e].pc # "initiated"
    PROVE  UniqueInv'
<1>1. UniqueTxId'
  BY DEF UniqueInv, UniqueTxId, TxidsSame
<1>2. ASSUME NEW q \in Node, NEW c \in Conn
      PROVE  Fresh(q, c)'
  BY DEF UniqueInv, Fresh, TxidsSame
<1>3. QED
  BY <1>1, <1>2 DEF UniqueInv

\* A record more, of a relationship that the node had none of.
LEMMA UniqueAppended ==
    ASSUME Inv, UniqueInv, NEW p \in Node, NEW s,
           rs' = [rs EXCEPT ![p] = Append(rs[p], s)],
           \A k \in DOMAIN rs[p] : rs[p][k].txid # s.txid,
           \A q \in Node : \A e \in Conn :
              \/ cmd'[q][e] = cmd[q][e]
              \/ cmd'[q][e].pc # "initiated",
           \A e \in Conn : cmd'[p][e].pc = "initiated" => cmd'[p][e].t # s.txid
    PROVE  UniqueInv'
<1>1. /\ DOMAIN rs'[p] = DOMAIN rs[p] \cup {Len(rs[p]) + 1}
      /\ rs'[p][Len(rs[p]) + 1] = s
      /\ \A q \in Node \ {p} : rs'[q] = rs[q]
      /\ \A q \in Node : \A k \in DOMAIN rs[q] : rs'[q][k] = rs[q][k]
  BY AppendedRecords
<1>2. UniqueTxId'
  <2>1. ASSUME NEW q \in Node, NEW j \in DOMAIN rs'[q], NEW k \in DOMAIN rs'[q],
               rs'[q][j].txid = rs'[q][k].txid
        PROVE  j = k
    <3>1. CASE q # p
      BY <1>1, <2>1, <3>1 DEF UniqueInv, UniqueTxId
    <3>2. CASE q = p
      <4>1. CASE j \in DOMAIN rs[p] /\ k \in DOMAIN rs[p]
        BY <1>1, <2>1, <3>2, <4>1 DEF UniqueInv, UniqueTxId
      <4>2. CASE j \notin DOMAIN rs[p] /\ k \notin DOMAIN rs[p]
        BY <1>1, <3>2, <4>2
      <4>3. CASE j \in DOMAIN rs[p] /\ k \notin DOMAIN rs[p]
        BY <1>1, <2>1, <3>2, <4>3
      <4>4. CASE j \notin DOMAIN rs[p] /\ k \in DOMAIN rs[p]
        BY <1>1, <2>1, <3>2, <4>4
      <4>5. QED
        BY <4>1, <4>2, <4>3, <4>4
    <3>3. QED
      BY <3>1, <3>2
  <2>2. QED
    BY <2>1 DEF UniqueTxId
<1>3. ASSUME NEW q \in Node, NEW c \in Conn, cmd'[q][c].pc = "initiated"
      PROVE  /\ \A k \in DOMAIN rs'[q] : rs'[q][k].txid # cmd'[q][c].t
             /\ \A e \in Conn : cmd'[q][e].pc = "initiated" /\ cmd'[q][e].t = cmd'[q][c].t
                                    => e = c
  <2>1. cmd'[q][c] = cmd[q][c] /\ Fresh(q, c)
    BY <1>3 DEF UniqueInv
  <2>2. \A k \in DOMAIN rs[q] : rs[q][k].txid # cmd[q][c].t
    BY <1>3, <2>1 DEF Fresh
  <2>3. \A k \in DOMAIN rs'[q] : rs'[q][k].txid # cmd'[q][c].t
    <3>1. CASE q # p
      BY <1>1, <2>1, <2>2, <3>1
    <3>2. CASE q = p
      BY <1>1, <1>3, <2>1, <2>2, <3>2
    <3>3. QED
      BY <3>1, <3>2
  <2>4. \A e \in Conn : cmd'[q][e].pc = "initiated" /\ cmd'[q][e].t = cmd'[q][c].t => e = c
    BY <1>3, <2>1 DEF Fresh
  <2>5. QED
    BY <2>3, <2>4
<1>4. QED
  BY <1>2, <1>3 DEF UniqueInv, Fresh

\* A command that broadcasts an initiate starts a relationship nobody has a
\* record of.
LEMMA InitiateUnique ==
    ASSUME Inv, UniqueInv, NEW p \in Node, NEW c \in Conn, NEW recv \in Invites[p],
           Initiate(p, c, recv)
    PROVE  UniqueInv'
<1>1. UNCHANGED rs /\ SetCmd(p, c, Initiated(Len(network) + 1))
  BY DEF Initiate, Initiated
<1>2. Len(network) \in Nat /\ DOMAIN network = 1..Len(network)
  BY LenProperties DEF Inv, TypeOK
<1>3. PICK d : /\ d = Initiated(Len(network) + 1)
               /\ d.pc = "initiated" /\ d.t = Len(network) + 1
  <2>1. Len(network) + 1 \in Nat
    BY <1>2
  <2>2. QED
    BY <2>1, CommandTypes
<1>4. \A q \in Node : \A e \in Conn :
         cmd'[q][e] = IF q = p /\ e = c THEN d ELSE cmd[q][e]
  BY <1>1, <1>3, SetCmdEffect
<1>5. d.t \notin DOMAIN network
  BY <1>2, <1>3
<1>6. \A k \in DOMAIN rs[p] : rs[p][k].txid # d.t
  BY <1>5 DEF Inv, Structure, RecordsOK
<1>7. ASSUME NEW e \in Conn, cmd[p][e].pc = "initiated"
      PROVE  cmd[p][e].t # d.t
  <2>1. cmd[p][e].t \in DOMAIN network
    BY <1>7, CommandInitiated
  <2>2. QED
    BY <1>5, <2>1
<1>8. UniqueTxId'
  BY <1>1 DEF UniqueInv, UniqueTxId
<1>9. ASSUME NEW q \in Node, NEW x \in Conn
      PROVE  Fresh(q, x)'
  <2>1. CASE q = p /\ x = c
    <3>1. \A k \in DOMAIN rs'[q] : rs'[q][k].txid # cmd'[q][x].t
      BY <1>1, <1>4, <1>6, <2>1
    <3>2. \A e \in Conn : cmd'[q][e].pc = "initiated" /\ cmd'[q][e].t = cmd'[q][x].t => e = x
      BY <1>4, <1>7, <2>1
    <3>3. QED
      BY <3>1, <3>2 DEF Fresh
  <2>2. CASE ~ (q = p /\ x = c)
    <3>1. cmd'[q][x] = cmd[q][x] /\ Fresh(q, x)
      BY <1>4, <2>2 DEF UniqueInv
    <3>2. CASE cmd[q][x].pc = "initiated"
      <4>1. \A k \in DOMAIN rs'[q] : rs'[q][k].txid # cmd'[q][x].t
        BY <1>1, <3>1, <3>2 DEF Fresh
      <4>2. ASSUME NEW e \in Conn, cmd'[q][e].pc = "initiated", cmd'[q][e].t = cmd'[q][x].t
            PROVE  e = x
        <5>1. CASE q = p /\ e = c
          BY <1>4, <1>7, <3>1, <3>2, <4>2, <5>1
        <5>2. CASE ~ (q = p /\ e = c)
          BY <1>4, <3>1, <3>2, <4>2, <5>2 DEF Fresh
        <5>3. QED
          BY <5>1, <5>2
      <4>3. QED
        BY <4>1, <4>2 DEF Fresh
    <3>3. CASE cmd[q][x].pc # "initiated"
      BY <3>1, <3>3 DEF Fresh
    <3>4. QED
      BY <3>2, <3>3
  <2>3. QED
    BY <2>1, <2>2
<1>10. QED
  BY <1>8, <1>9 DEF UniqueInv

\* The initiator's own record is then the only one.
LEMMA RecordInitiatedUnique ==
    ASSUME Inv, UniqueInv, NEW p \in Node, NEW c \in Conn, RecordInitiated(p, c)
    PROVE  UniqueInv'
<1>1. PICK t, s : t = cmd[p][c].t /\ s = InitiatorRecord(t)
  OBVIOUS
<1>2. /\ rs' = [rs EXCEPT ![p] = Append(rs[p], s)]
      /\ SetCmd(p, c, Recorded(Len(rs[p]) + 1)) /\ cmd[p][c].pc = "initiated"
  BY <1>1 DEF RecordInitiated, Recorded
<1>3. s.txid = t
  BY <1>1 DEF InitiatorRecord
<1>4. PICK d : d = Recorded(Len(rs[p]) + 1) /\ d.pc = "recorded"
  <2>1. Len(rs[p]) + 1 \in Nat
    BY LenProperties DEF Inv, TypeOK
  <2>2. QED
    BY <2>1, CommandTypes
<1>5. \A q \in Node : \A e \in Conn :
         cmd'[q][e] = IF q = p /\ e = c THEN d ELSE cmd[q][e]
  BY <1>2, <1>4, SetCmdEffect
<1>6. Fresh(p, c)
  BY DEF UniqueInv
<1>7. \A k \in DOMAIN rs[p] : rs[p][k].txid # s.txid
  BY <1>1, <1>2, <1>3, <1>6 DEF Fresh
<1>8. \A e \in Conn : cmd'[p][e].pc = "initiated" => cmd'[p][e].t # s.txid
  BY <1>1, <1>2, <1>3, <1>4, <1>5, <1>6 DEF Fresh
<1>9. \A q \in Node : \A e \in Conn :
         cmd'[q][e] = cmd[q][e] \/ cmd'[q][e].pc # "initiated"
  BY <1>4, <1>5
<1>10. QED
  BY <1>2, <1>7, <1>8, <1>9, UniqueAppended

\* The listener waits for the command, and then looks before it records.
LEMMA JoiningUnique ==
    ASSUME Inv, UniqueInv, NEW p \in Node, NEW t \in DOMAIN network, Idle(p),
           UNCHANGED cmd, ProcessInitiate(p, t)
    PROVE  UniqueInv'
<1>1. CASE FindForTxId(p, t) # 0
  BY <1>1, UniqueStep DEF ProcessInitiate, TxidsSame
<1>2. CASE FindForTxId(p, t) = 0
  <2>1. PICK s : s = InitiatedRecord(p, t)
    OBVIOUS
  <2>2. rs' = [rs EXCEPT ![p] = Append(rs[p], s)] /\ s.txid = t
    BY <1>2, <2>1 DEF ProcessInitiate, InitiatedRecord
  <2>3. \A k \in DOMAIN rs[p] : rs[p][k].txid # s.txid
    <3>1. rs[p] \in Seq(Relationship) /\ DOMAIN rs[p] = 1..Len(rs[p])
      BY LenProperties DEF Inv, TypeOK
    <3>2. QED
      BY <1>2, <2>2, <3>1, FindForTxIdFinds
  <2>4. \A e \in Conn : cmd'[p][e].pc # "initiated"
    BY DEF Idle, NoCommand
  <2>5. QED
    BY <2>2, <2>3, <2>4, UniqueAppended
<1>3. QED
  BY <1>1, <1>2

\* The steps that record nothing.
LEMMA QuietUnique ==
    ASSUME Inv, UniqueInv, NEW p \in Node, NEW c \in Conn,
           \/ \E recv \in Invites[p] : InitiateFails(p, c, recv)
           \/ \E kind \in {"accept", "message"}, k \in DOMAIN rs[p] : Build(p, c, kind, k)
           \/ RegisterInitiated(p, c) \/ Broadcast(p, c) \/ BroadcastFails(p, c)
           \/ AdvanceOwn(p, c) \/ AdvanceMembers(p, c)
    PROVE  UniqueInv'
<1>1. TxidsSame
  <2>1. CASE UNCHANGED rs
    BY <2>1 DEF TxidsSame
  <2>2. CASE AdvanceOwn(p, c) \/ AdvanceMembers(p, c)
    <3>1. PICK k \in DOMAIN rs[p], s \in Relationship :
              rs' = [rs EXCEPT ![p][k] = s] /\ Continues(s, rs[p][k])
      BY <2>2, AdvanceOwnEffect, AdvanceMembersEffect
    <3>2. QED
      BY <3>1 DEF TxidsSame, Continues, Inv, TypeOK
  <2>3. QED
    BY <2>1, <2>2 DEF InitiateFails, Build, RegisterInitiated, Broadcast, BroadcastFails
<1>2. UNCHANGED cmd \/ \E d : SetCmd(p, c, d) /\ d.pc # "initiated"
  <2>1. ASSUME NEW kind \in {"accept", "message"}, NEW k \in DOMAIN rs[p],
               Build(p, c, kind, k)
        PROVE  \E d : SetCmd(p, c, d) /\ d.pc # "initiated"
    BY <2>1, BuildSets
  <2>2. ASSUME RegisterInitiated(p, c) \/ BroadcastFails(p, c) \/ AdvanceMembers(p, c)
        PROVE  \E d : SetCmd(p, c, d) /\ d.pc # "initiated"
    <3>1. SetCmd(p, c, NoCommand)
      BY <2>2 DEF RegisterInitiated, BroadcastFails, AdvanceMembers
    <3>2. NoCommand.pc = "idle"
      BY DEF NoCommand
    <3>3. QED
      BY <3>1, <3>2
  <2>3. ASSUME NEW pc \in {"sent", "advanced"}, SetCmd(p, c, At(cmd[p][c], pc))
        PROVE  \E d : SetCmd(p, c, d) /\ d.pc # "initiated"
    <3>1. cmd[p][c] \in Command
      BY DEF Inv, TypeOK
    <3>2. At(cmd[p][c], pc).pc = pc
      BY <3>1, CommandTypes
    <3>3. QED
      BY <2>3, <3>2
  <2>4. Broadcast(p, c) \/ AdvanceOwn(p, c) =>
           \E pc \in {"sent", "advanced"} : SetCmd(p, c, At(cmd[p][c], pc))
    BY DEF Broadcast, AdvanceOwn, At
  <2>5. QED
    BY <2>1, <2>2, <2>3, <2>4 DEF InitiateFails
<1>3. \A q \in Node : \A e \in Conn :
         cmd'[q][e] = cmd[q][e] \/ cmd'[q][e].pc # "initiated"
  <2>1. ASSUME NEW d, SetCmd(p, c, d), d.pc # "initiated"
        PROVE  \A q \in Node : \A e \in Conn :
                  cmd'[q][e] = cmd[q][e] \/ cmd'[q][e].pc # "initiated"
    BY <2>1, SetCmdEffect
  <2>2. QED
    BY <1>2, <2>1
<1>4. QED
  BY <1>1, <1>3, UniqueStep

\* UniqueInv is kept by every step when the listener waits for commands.
LEMMA NextUnique == Serialised /\ Inv /\ UniqueInv /\ [Next]_vars => UniqueInv'
<1> SUFFICES ASSUME Serialised, Inv, UniqueInv, [Next]_vars PROVE UniqueInv'
  OBVIOUS
<1>1. ASSUME UNCHANGED rs, UNCHANGED cmd PROVE UniqueInv'
  BY <1>1, UniqueStep DEF TxidsSame
<1>2. CASE UNCHANGED vars
  BY <1>1, <1>2 DEF vars
<1>3. CASE Next
  <2>1. PICK p \in Node :
            \/ \E c \in Conn : UserStep(p, c) \/ CommandStep(p, c)
            \/ ListenerStep(p)
    BY <1>3 DEF Next
  <2>2. ASSUME NEW c \in Conn, UserStep(p, c) PROVE UniqueInv'
    BY <2>2, InitiateUnique, QuietUnique DEF UserStep
  <2>3. ASSUME NEW c \in Conn, CommandStep(p, c) PROVE UniqueInv'
    BY <2>3, RecordInitiatedUnique, QuietUnique DEF CommandStep
  <2>4. ASSUME NEW t \in DOMAIN network, HandleTx(p, t) PROVE UniqueInv'
    BY <1>1, <2>4 DEF HandleTx
  <2>5. ASSUME NEW t \in DOMAIN network, ProcessTx(p, t) PROVE UniqueInv'
    <3>1. UNCHANGED cmd /\ Idle(p)
      BY <2>5 DEF ProcessTx
    <3>2. CASE UNCHANGED rs
      BY <1>1, <3>1, <3>2
    <3>3. CASE ProcessInitiate(p, t)
      BY <3>1, <3>3, JoiningUnique
    <3>4. CASE ProcessInRelationship(p, t)
      <4>1. PICK tx : tx = network[t]
        OBVIOUS
      <4>2. CASE RelationshipForTx(p, tx) = 0
        BY <3>2, <3>4, <4>1, <4>2 DEF ProcessInRelationship
      <4>3. CASE RelationshipForTx(p, tx) # 0
        <5>1. PICK k \in DOMAIN rs[p], r \in Relationship, s \in Relationship :
                  /\ r = rs[p][k]
                  /\ rs' = [rs EXCEPT ![p][k] = s]
                  /\ \E m : ReadInto(s, r, tx, Owns(p, tx.from), m)
          BY <3>4, <4>1, <4>3, ProcessInRelationshipEffect
        <5>2. s.txid = rs[p][k].txid
          BY <5>1 DEF ReadInto, Continues
        <5>3. TxidsSame
          BY <5>1, <5>2 DEF TxidsSame, Inv, TypeOK
        <5>4. QED
          BY <3>1, <5>3, UniqueStep
      <4>4. QED
        BY <4>2, <4>3
    <3>5. QED
      BY <2>5, <3>2, <3>3, <3>4 DEF ProcessTx
  <2>6. QED
    BY <2>1, <2>2, <2>3, <2>4, <2>5 DEF ListenerStep
<1>4. QED
  BY <1>2, <1>3

\* As long as the listener waits for running commands, a node keeps one record
\* per relationship: InitiateRelationship appends without looking, and
\* ProcessInitiateRelationship looks, finds "already exists" and does not.
THEOREM UniqueTxIdHolds == ASSUME Serialised PROVE Spec => []UniqueTxId
<1>1. Init => UniqueInv
  <2> SUFFICES ASSUME Init PROVE UniqueInv
    OBVIOUS
  <2>1. \A p \in Node : DOMAIN rs[p] = {}
    BY EmptySeq DEF Init
  <2>2. \A p \in Node : \A c \in Conn : cmd[p][c].pc = "idle"
    BY DEF Init, NoCommand
  <2>3. QED
    BY <2>1, <2>2 DEF UniqueInv, UniqueTxId, Fresh
<1>2. UniqueInv => UniqueTxId
  BY DEF UniqueInv
<1>3. Inv /\ UniqueInv /\ [Next]_vars => UniqueInv'
  BY NextUnique
<1>4. QED
  BY <1>1, <1>2, <1>3, InvHolds, PTL DEF Spec

=============================================================================
