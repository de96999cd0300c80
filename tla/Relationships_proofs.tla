------------------------ MODULE Relationships_proofs ------------------------
(***************************************************************************)
(* TypeOK and Structure for every value of the constants.  Together they   *)
(* are inductive: first what the searches and the actions put together,    *)
(* then what a step leaves of the transactions, records and commands that  *)
(* others refer to, then one lemma per action.  Then which keys a node     *)
(* watches, and how far its view of a member has got: KeysRegistered and   *)
(* GroupViewBacked.  All of it for every number of daemons, connections    *)
(* and transactions, and for every choice of the environment.              *)
(***************************************************************************)
EXTENDS Relationships, SelectionLemmas, SequenceTheorems, TLAPS

\* FindForTxId is the first record with the txid, 0 if there is none.
LEMMA FindForTxIdFinds ==
    ASSUME NEW p, NEW txid, rs[p] \in Seq(Relationship)
    PROVE  /\ FindForTxId(p, txid) \in 0..Len(rs[p])
           /\ FindForTxId(p, txid) # 0 =>
                  FindForTxId(p, txid) \in {i \in 1..Len(rs[p]) : rs[p][i].txid = txid}
           /\ \A j \in 1..Len(rs[p]) : rs[p][j].txid = txid =>
                  FindForTxId(p, txid) # 0 /\ FindForTxId(p, txid) <= j
<1> DEFINE I == {i \in 1..Len(rs[p]) : rs[p][i].txid = txid}
<1>1. FindForTxId(p, txid) = IF I # {} THEN Min(I) ELSE 0
  BY DEF FindForTxId, SelectInSeq
<1>2. I \in SUBSET (1..Len(rs[p])) /\ Len(rs[p]) \in Nat
  BY LenProperties
<1> HIDE DEF I
<1>3. /\ FindForTxId(p, txid) \in 0..Len(rs[p])
      /\ FindForTxId(p, txid) # 0 => FindForTxId(p, txid) \in I
      /\ \A j \in I : FindForTxId(p, txid) # 0 /\ FindForTxId(p, txid) <= j
  <2>1. PICK n, k : n = Len(rs[p]) /\ k = FindForTxId(p, txid)
    OBVIOUS
  <2>2. n \in Nat /\ I \in SUBSET (1..n) /\ k = IF I # {} THEN Min(I) ELSE 0
    BY <1>1, <1>2, <2>1
  <2>3. k \in 0..n /\ (k # 0 => k \in I) /\ \A j \in I : k # 0 /\ k <= j
    BY <2>2, FirstPosition
  <2>4. QED
    BY <2>1, <2>3
<1> USE DEF I
<1>4. QED
  BY <1>3

\* FindForFlag is the first record with the flag, 0 if there is none.
LEMMA FindForFlagFinds ==
    ASSUME NEW p, NEW txid, rs[p] \in Seq(Relationship)
    PROVE  /\ FindForFlag(p, txid) \in 0..Len(rs[p])
           /\ FindForFlag(p, txid) # 0 =>
                  FindForFlag(p, txid) \in {i \in 1..Len(rs[p]) : rs[p][i].enc = 1 /\ rs[p][i].txid = txid}
           /\ \A j \in 1..Len(rs[p]) : rs[p][j].enc = 1 /\ rs[p][j].txid = txid =>
                  FindForFlag(p, txid) # 0 /\ FindForFlag(p, txid) <= j
<1> DEFINE I == {i \in 1..Len(rs[p]) : rs[p][i].enc = 1 /\ rs[p][i].txid = txid}
<1>1. FindForFlag(p, txid) = IF I # {} THEN Min(I) ELSE 0
  BY DEF FindForFlag, SelectInSeq
<1>2. I \in SUBSET (1..Len(rs[p])) /\ Len(rs[p]) \in Nat
  BY LenProperties
<1> HIDE DEF I
<1>3. /\ FindForFlag(p, txid) \in 0..Len(rs[p])
      /\ FindForFlag(p, txid) # 0 => FindForFlag(p, txid) \in I
      /\ \A j \in I : FindForFlag(p, txid) # 0 /\ FindForFlag(p, txid) <= j
  <2>1. PICK n, k : n = Len(rs[p]) /\ k = FindForFlag(p, txid)
    OBVIOUS
  <2>2. n \in Nat /\ I \in SUBSET (1..n) /\ k = IF I # {} THEN Min(I) ELSE 0
    BY <1>1, <1>2, <2>1
  <2>3. k \in 0..n /\ (k # 0 => k \in I) /\ \A j \in I : k # 0 /\ k <= j
    BY <2>2, FirstPosition
  <2>4. QED
    BY <2>1, <2>3
<1> USE DEF I
<1>4. QED
  BY <1>3

\* GetRelationship is the first record with the key, 0 if there is none.
LEMMA GetRelationshipFinds ==
    ASSUME NEW p, NEW base, rs[p] \in Seq(Relationship)
    PROVE  /\ GetRelationship(p, base) \in 0..Len(rs[p])
           /\ GetRelationship(p, base) # 0 =>
                  GetRelationship(p, base) \in {i \in 1..Len(rs[p]) : rs[p][i].key = base}
           /\ \A j \in 1..Len(rs[p]) : rs[p][j].key = base =>
                  GetRelationship(p, base) # 0 /\ GetRelationship(p, base) <= j
<1> DEFINE I == {i \in 1..Len(rs[p]) : rs[p][i].key = base}
<1>1. GetRelationship(p, base) = IF I # {} THEN Min(I) ELSE 0
  BY DEF GetRelationship, SelectInSeq
<1>2. I \in SUBSET (1..Len(rs[p])) /\ Len(rs[p]) \in Nat
  BY LenProperties
<1> HIDE DEF I
<1>3. /\ GetRelationship(p, base) \in 0..Len(rs[p])
      /\ GetRelationship(p, base) # 0 => GetRelationship(p, base) \in I
      /\ \A j \in I : GetRelationship(p, base) # 0 /\ GetRelationship(p, base) <= j
  <2>1. PICK n, k : n = Len(rs[p]) /\ k = GetRelationship(p, base)
    OBVIOUS
  <2>2. n \in Nat /\ I \in SUBSET (1..n) /\ k = IF I # {} THEN Min(I) ELSE 0
    BY <1>1, <1>2, <2>1
  <2>3. k \in 0..n /\ (k # 0 => k \in I) /\ \A j \in I : k # 0 /\ k <= j
    BY <2>2, FirstPosition
  <2>4. QED
    BY <2>1, <2>3
<1> USE DEF I
<1>4. QED
  BY <1>3

\* OwnReceiver is the first output key that is ours, 0 if none is.
LEMMA OwnReceiverFinds ==
    ASSUME NEW p, NEW tx \in Tx, tx.to \in Seq(PublicKey)
    PROVE  /\ OwnReceiver(p, tx) \in 0..Len(tx.to)
           /\ OwnReceiver(p, tx) # 0 =>
                  OwnReceiver(p, tx) \in {i \in 1..Len(tx.to) : Owns(p, tx.to[i])}
           /\ \A j \in 1..Len(tx.to) : Owns(p, tx.to[j]) =>
                  OwnReceiver(p, tx) # 0 /\ OwnReceiver(p, tx) <= j
<1> DEFINE I == {i \in 1..Len(tx.to) : Owns(p, tx.to[i])}
<1>1. OwnReceiver(p, tx) = IF I # {} THEN Min(I) ELSE 0
  BY DEF OwnReceiver, SelectInSeq
<1>2. I \in SUBSET (1..Len(tx.to)) /\ Len(tx.to) \in Nat
  BY LenProperties
<1>3. /\ OwnReceiver(p, tx) \in 0..Len(tx.to)
      /\ OwnReceiver(p, tx) # 0 => OwnReceiver(p, tx) \in I
      /\ \A j \in I : OwnReceiver(p, tx) # 0 /\ OwnReceiver(p, tx) <= j
  BY <1>1, <1>2, FirstPosition
<1>4. QED
  BY <1>3

\* SendingMember is a member, the one whose next key signed or the first.
LEMMA SendingMemberFinds ==
    ASSUME NEW tx, NEW r \in Relationship, r.members # <<>>
    PROVE  /\ SendingMember(r, tx) \in DOMAIN r.members
           /\ \/ SendingMember(r, tx) = 1
              \/ MemberKey(r, r.members[SendingMember(r, tx)]) = tx.from
<1> DEFINE I == {i \in 1..Len(r.members) : MemberKey(r, r.members[i]) = tx.from}
           j == SelectInSeq(r.members, LAMBDA m : MemberKey(r, m) = tx.from)
<1>1. j = IF I # {} THEN Min(I) ELSE 0
  BY DEF SelectInSeq
<1>2. /\ r.members \in Seq(MemberRecord)
      /\ Len(r.members) \in Nat \ {0}
      /\ DOMAIN r.members = 1..Len(r.members)
  BY LenProperties, EmptySeq DEF Relationship
<1>3. I \in SUBSET (1..Len(r.members))
  OBVIOUS
<1>4. j \in 0..Len(r.members) /\ (j # 0 => j \in I)
  BY <1>1, <1>2, <1>3, FirstPosition
<1>5. SendingMember(r, tx) = IF j = 0 THEN 1 ELSE j
  BY DEF SendingMember
<1> HIDE DEF j
<1>6. QED
  BY <1>2, <1>4, <1>5

-----------------------------------------------------------------------------
(* The types of what the actions put together.                             *)

\* The keys of a record are public keys.
LEMMA KeyTypes ==
    ASSUME NEW r \in Relationship, NEW m \in MemberRecord
    PROVE  NextKey(r) \in PublicKey /\ MemberKey(r, m) \in PublicKey
BY DEF NextKey, MemberKey, Derived, PublicKey, Relationship, MemberRecord

\* NewMembers makes one record per public key, at index 1.
LEMMA NewMembersType ==
    ASSUME NEW pks \in Seq(PublicKey)
    PROVE  /\ NewMembers(pks) \in Seq(MemberRecord)
           /\ Len(NewMembers(pks)) = Len(pks)
           /\ \A i \in 1..Len(pks) : /\ NewMembers(pks)[i].base = pks[i].base
                                    /\ NewMembers(pks)[i].next = 1
                                    /\ NewMembers(pks)[i].accepted = FALSE
<1>1. Len(pks) \in Nat /\ \A i \in 1..Len(pks) : pks[i] \in PublicKey
  BY LenProperties, ElementOfSeq
<1>2. \A i \in 1..Len(pks) : NewMember(pks[i]) \in MemberRecord
  BY <1>1 DEF NewMember, MemberRecord, PublicKey
<1>3. QED
  BY <1>1, <1>2 DEF NewMembers, NewMember

\* A record made of them has one fresh member per public key.
LEMMA NewMembersFresh ==
    ASSUME NEW s, NEW pks \in Seq(PublicKey), s.members = NewMembers(pks)
    PROVE  /\ DOMAIN s.members = DOMAIN pks
           /\ \A i \in DOMAIN s.members : /\ s.members[i].base = pks[i].base
                                          /\ s.members[i].next = 1
                                          /\ s.members[i].accepted = FALSE
<1>1. PICK ms : ms = NewMembers(pks)
  OBVIOUS
<1>2. /\ ms \in Seq(MemberRecord) /\ Len(ms) = Len(pks)
      /\ \A i \in 1..Len(pks) : /\ ms[i].base = pks[i].base
                                /\ ms[i].next = 1
                                /\ ms[i].accepted = FALSE
  BY <1>1, NewMembersType
<1>3. DOMAIN ms = 1..Len(pks) /\ DOMAIN pks = 1..Len(pks)
  BY <1>2, LenProperties
<1>4. QED
  BY <1>1, <1>2, <1>3

\* Of a transaction that pays somebody, they are members at index 1.
LEMMA NewMembersSound ==
    ASSUME NEW pks \in Seq(PublicKey), pks # <<>>
    PROVE  /\ NewMembers(pks) \in Seq(MemberRecord)
           /\ NewMembers(pks) # <<>>
           /\ \A i \in DOMAIN NewMembers(pks) : NewMembers(pks)[i].next > 0
<1>1. Len(pks) \in Nat \ {0}
  BY LenProperties, EmptySeq
<1>2. /\ NewMembers(pks) \in Seq(MemberRecord)
      /\ Len(NewMembers(pks)) = Len(pks)
      /\ \A i \in 1..Len(pks) : NewMembers(pks)[i].next = 1
  BY NewMembersType
<1>3. DOMAIN NewMembers(pks) = 1..Len(pks)
  BY <1>2, LenProperties
<1>4. NewMembers(pks) # <<>>
  BY <1>1, <1>2, EmptySeq
<1>5. QED
  BY <1>2, <1>3, <1>4

\* IncrementMembers moves the indexes of those members on, and nothing else.
LEMMA IncrementMembersType ==
    ASSUME NEW r \in Relationship, NEW which
    PROVE  LET s == IncrementMembers(r, which) IN
           /\ s \in Relationship
           /\ s.txid = r.txid /\ s.key = r.key /\ s.next = r.next
           /\ s.enc = r.enc /\ s.accepted = r.accepted
           /\ DOMAIN s.members = DOMAIN r.members
           /\ \A i \in DOMAIN r.members :
                  /\ s.members[i].base = r.members[i].base
                  /\ s.members[i].accepted = r.members[i].accepted
                  /\ s.members[i].next =
                        IF i \in which THEN r.members[i].next + 1
                        ELSE r.members[i].next
<1> DEFINE ms == [i \in 1..Len(r.members) |->
                    IF i \in which THEN [r.members[i] EXCEPT !.next = @ + 1]
                                   ELSE r.members[i]]
<1>1. /\ r.members \in Seq(MemberRecord)
      /\ Len(r.members) \in Nat
      /\ DOMAIN r.members = 1..Len(r.members)
      /\ \A i \in 1..Len(r.members) : r.members[i] \in MemberRecord
  BY LenProperties, ElementOfSeq DEF Relationship
<1>2. ASSUME NEW i \in 1..Len(r.members)
      PROVE  /\ ms[i] \in MemberRecord
             /\ ms[i].base = r.members[i].base
             /\ ms[i].accepted = r.members[i].accepted
             /\ ms[i].next = IF i \in which THEN r.members[i].next + 1
                             ELSE r.members[i].next
  <2>1. ASSUME NEW m \in MemberRecord
        PROVE  LET n == [m EXCEPT !.next = @ + 1] IN
               /\ n \in MemberRecord
               /\ n.base = m.base /\ n.accepted = m.accepted
               /\ n.next = m.next + 1
    BY DEF MemberRecord
  <2>2. ms[i] = IF i \in which THEN [r.members[i] EXCEPT !.next = @ + 1]
                ELSE r.members[i]
    OBVIOUS
  <2>3. r.members[i] \in MemberRecord
    BY <1>1
  <2> HIDE DEF ms
  <2>4. QED
    BY <2>1, <2>2, <2>3
<1>3. ms \in Seq(MemberRecord) /\ DOMAIN ms = 1..Len(r.members)
  <2>1. ms \in [1..Len(r.members) -> MemberRecord]
    BY <1>2
  <2> HIDE DEF ms
  <2>2. QED
    BY <1>1, <2>1
<1>4. IncrementMembers(r, which) = [r EXCEPT !.members = ms]
  BY DEF IncrementMembers
<1> HIDE DEF ms
<1>5. QED
  BY <1>1, <1>2, <1>3, <1>4 DEF Relationship

\* The updates in place make records of records.
LEMMA RecordUpdateType ==
    ASSUME NEW r \in Relationship
    PROVE  /\ IncrementHash(r) \in Relationship
           /\ IncrementHash(r) = [r EXCEPT !.next = r.next + 1]
           /\ \A b \in BOOLEAN : [r EXCEPT !.accepted = b] \in Relationship
           /\ \A i \in DOMAIN r.members :
                  [r EXCEPT !.members[i].accepted = TRUE] \in Relationship
<1>1. ASSUME NEW i \in DOMAIN r.members
      PROVE  [r EXCEPT !.members[i].accepted = TRUE] \in Relationship
  <2>1. /\ r.members \in Seq(MemberRecord)
        /\ i \in 1..Len(r.members)
    BY LenProperties DEF Relationship
  <2>2. [r.members[i] EXCEPT !.accepted = TRUE] \in MemberRecord
    <3>1. \A m \in MemberRecord : [m EXCEPT !.accepted = TRUE] \in MemberRecord
      BY DEF MemberRecord
    <3>2. QED
      BY <2>1, <3>1, ElementOfSeq
  <2>3. [r.members EXCEPT ![i] = [r.members[i] EXCEPT !.accepted = TRUE]]
            \in Seq(MemberRecord)
    BY <2>1, <2>2, ExceptSeq
  <2>4. QED
    BY <2>3 DEF Relationship
<1>2. QED
  BY <1>1 DEF IncrementHash, Relationship

\* An initiate is a transaction that pays somebody.
LEMMA InitiateTxType ==
    ASSUME NEW p \in Node, NEW recv \in Invites[p], TypeOK
    PROVE  /\ InitiateTx(p, recv) \in Tx
           /\ InitiateTx(p, recv).kind = "initiate"
           /\ InitiateTx(p, recv).rel = Len(network) + 1
           /\ InitiateTx(p, recv).from.base.node = p
           /\ InitiateTx(p, recv).to # <<>>
<1>1. out[p] \in Nat /\ Len(network) \in Nat
  BY LenProperties DEF TypeOK
<1>2. recv \in Seq(BaseKey) /\ Len(recv) \in Nat \ {0}
  BY InvitesAssumption, LenProperties, EmptySeq
<1>3. \A i \in 1..Len(recv) : BasePK(recv[i]) \in PublicKey
  BY <1>2, ElementOfSeq DEF BasePK, Derived, PublicKey
<1>4. [i \in 1..Len(recv) |-> BasePK(recv[i])] \in Seq(PublicKey)
  BY <1>2, <1>3
<1>5. BasePK([node |-> p, type |-> "out", index |-> out[p]]) \in PublicKey
  BY <1>1 DEF BasePK, Derived, PublicKey, BaseKey
<1>6. [i \in 1..Len(recv) |-> BasePK(recv[i])] # <<>>
  BY <1>2
<1>7. QED
  BY <1>1, <1>4, <1>5, <1>6 DEF InitiateTx, Tx, BasePK, Derived

\* An accept or a message is a transaction in its record's relationship.
LEMMA CommandTxType ==
    ASSUME NEW p \in Node, NEW c \in Conn, TypeOK, CommandsOK, RecordsOK,
           cmd[p][c].pc = "built"
    PROVE  LET tx == CommandTx(p, c)
               r == rs[p][cmd[p][c].k] IN
           /\ tx \in Tx
           /\ r \in Relationship /\ cmd[p][c].k \in DOMAIN rs[p]
           /\ tx.kind = cmd[p][c].kind /\ tx.kind # "initiate"
           /\ tx.rel = r.txid /\ tx.enc = r.enc
           /\ tx.from = NextKey(r)
           /\ tx.to = cmd[p][c].to
<1> DEFINE d == cmd[p][c]
           r == rs[p][d.k]
<1>1. d \in Command /\ d.kind # "none" /\ d.k \in DOMAIN rs[p]
  <2>1. d \in Command
    BY DEF TypeOK
  <2>2. d.kind # "none" /\ d.k \in DOMAIN rs[p]
    BY DEF CommandsOK
  <2>3. QED
    BY <2>1, <2>2
<1>2. r \in Relationship
  BY <1>1, LenProperties, ElementOfSeq DEF TypeOK
<1>3. NextKey(r) \in PublicKey
  BY <1>2 DEF NextKey, Derived, PublicKey, Relationship
<1>4. CommandTx(p, c) = [kind |-> d.kind, from |-> NextKey(r), to |-> d.to,
                         rel |-> r.txid, enc |-> r.enc, hash |-> d.hash]
  BY DEF CommandTx
<1>5. /\ d.kind \in {"accept", "message"} /\ d.to \in Seq(PublicKey)
      /\ d.hash \in Nat
  BY <1>1 DEF Command
<1>6. r.txid \in Nat /\ r.enc \in {0, 1}
  BY <1>2 DEF Relationship
<1> HIDE DEF d, r
<1>7. CommandTx(p, c) \in Tx
  BY <1>3, <1>4, <1>5, <1>6 DEF Tx
<1>8. PICK tx : tx = CommandTx(p, c)
  OBVIOUS
<1>9. /\ tx \in Tx
      /\ tx.kind = d.kind /\ tx.kind # "initiate"
      /\ tx.rel = r.txid /\ tx.enc = r.enc
      /\ tx.from = NextKey(r)
      /\ tx.to = d.to
  BY <1>4, <1>5, <1>7, <1>8
<1>10. QED
  BY <1>1, <1>2, <1>8, <1>9 DEF d, r

-----------------------------------------------------------------------------
(* Type correctness and the structure of transactions, records, commands.  *)

Inv == TypeOK /\ Structure

\* What a well-formed new transaction leaves of the old ones.
LEMMA NetworkGrows ==
    ASSUME Inv, NEW tx \in Tx, network' = Append(network, tx),
           tx.rel \in 1..Len(network)+1,
           tx.kind = "initiate" <=> tx.rel = Len(network) + 1,
           tx.kind = "initiate" => tx.to # <<>>,
           tx.kind # "initiate" =>
               /\ network[tx.rel].kind = "initiate"
               /\ network[tx.rel].enc = tx.enc
               /\ tx.from.seed = tx.rel
               /\ tx.from.i > 0
               /\ \A i \in DOMAIN tx.to : tx.to[i].seed = tx.rel
               /\ tx.enc = 1 => tx.to = <<>>
    PROVE  /\ network' \in Seq(Tx)
           /\ DOMAIN network' = DOMAIN network \cup {Len(network) + 1}
           /\ Len(network') = Len(network) + 1
           /\ \A t \in DOMAIN network : network'[t] = network[t]
           /\ network'[Len(network) + 1] = tx
           /\ TxsOK'
<1>1. network \in Seq(Tx) /\ TxsOK
  BY DEF Inv, TypeOK, Structure
<1>2. Len(network) \in Nat /\ DOMAIN network = 1..Len(network)
  BY <1>1, LenProperties
<1>3. /\ network' \in Seq(Tx)
      /\ Len(network') = Len(network) + 1
      /\ \A t \in 1..Len(network) : network'[t] = network[t]
      /\ network'[Len(network) + 1] = tx
  BY <1>1, AppendProperties
<1>4. DOMAIN network' = 1..Len(network) + 1
  BY <1>3, LenProperties
<1>5. ASSUME NEW t \in DOMAIN network'
      PROVE  LET x == network'[t] IN
             /\ x.rel \in 1..t
             /\ network'[x.rel].kind = "initiate"
             /\ network'[x.rel].enc = x.enc
             /\ x.kind = "initiate" <=> x.rel = t
             /\ x.kind = "initiate" => x.to # <<>>
             /\ x.kind # "initiate" =>
                    /\ x.from.seed = x.rel
                    /\ x.from.i > 0
                    /\ \A i \in DOMAIN x.to : x.to[i].seed = x.rel
                    /\ x.enc = 1 => x.to = <<>>
  <2>1. CASE t \in 1..Len(network)
    <3>1. network'[t] = network[t] /\ network[t].rel \in 1..t
      BY <1>1, <1>2, <1>3, <2>1 DEF TxsOK
    <3>2. network[t].rel \in 1..Len(network)
      BY <1>2, <2>1, <3>1
    <3>3. QED
      BY <1>1, <1>2, <1>3, <2>1, <3>1, <3>2 DEF TxsOK
  <2>2. CASE t = Len(network) + 1
    <3>1. network'[t] = tx
      BY <1>3, <2>2
    <3>2. CASE tx.kind = "initiate"
      BY <1>2, <2>2, <3>1, <3>2
    <3>3. CASE tx.kind # "initiate"
      <4>1. tx.rel \in 1..Len(network)
        BY <1>2, <3>3
      <4>2. network'[tx.rel] = network[tx.rel]
        BY <1>3, <4>1
      <4>3. QED
        BY <1>2, <2>2, <3>1, <3>3, <4>1, <4>2
    <3>4. QED
      BY <3>2, <3>3
  <2>3. QED
    BY <1>2, <1>4, <2>1, <2>2
<1>6. QED
  BY <1>2, <1>3, <1>4, <1>5 DEF TxsOK

\* What the rest of the state refers to stays: transactions as they were, and
\* records in their places with their txid, encryption and key.
NetworkExtends ==
    \A t \in DOMAIN network : t \in DOMAIN network' /\ network'[t] = network[t]
RecordsExtend ==
    \A p \in Node : \A k \in DOMAIN rs[p] :
        /\ k \in DOMAIN rs'[p]
        /\ rs'[p][k].txid = rs[p][k].txid
        /\ rs'[p][k].enc = rs[p][k].enc
        /\ rs'[p][k].key = rs[p][k].key

\* Records that do not change stay sound while transactions are added.
LEMMA RecordsKept ==
    ASSUME Inv, NetworkExtends, UNCHANGED rs
    PROVE  RecordsOK' /\ RecordsExtend
BY DEF Inv, Structure, RecordsOK, RecordsExtend, NetworkExtends

\* One record takes the place of another: what others refer to stays.
Replaces(s, r) ==
    /\ s.txid = r.txid /\ s.enc = r.enc /\ s.key = r.key
    /\ s.next >= r.next
    /\ s.members # <<>>
    /\ \A i \in DOMAIN s.members : s.members[i].next > 0

\* A record that is updated in place.
LEMMA RecordUpdated ==
    ASSUME Inv, NEW p \in Node, NEW k \in DOMAIN rs[p], NEW r \in Relationship,
           UNCHANGED network, rs' = [rs EXCEPT ![p][k] = r],
           Replaces(r, rs[p][k])
    PROVE  /\ rs' \in [Node -> Seq(Relationship)]
           /\ \A q \in Node : DOMAIN rs'[q] = DOMAIN rs[q]
           /\ \A q \in Node : \A j \in DOMAIN rs[q] :
                  rs'[q][j] = IF q = p /\ j = k THEN r ELSE rs[q][j]
           /\ RecordsOK' /\ RecordsExtend /\ NetworkExtends
<1>1. rs \in [Node -> Seq(Relationship)] /\ RecordsOK
  BY DEF Inv, TypeOK, Structure
<1>2. /\ rs[p] \in Seq(Relationship)
      /\ k \in 1..Len(rs[p])
      /\ DOMAIN rs[p] = 1..Len(rs[p])
  BY <1>1, LenProperties
<1>3. /\ [rs[p] EXCEPT ![k] = r] \in Seq(Relationship)
      /\ Len([rs[p] EXCEPT ![k] = r]) = Len(rs[p])
      /\ \A j \in 1..Len(rs[p]) :
            [rs[p] EXCEPT ![k] = r][j] = IF j = k THEN r ELSE rs[p][j]
  BY <1>2, ExceptSeq
<1>4. \A q \in Node : rs'[q] = IF q = p THEN [rs[p] EXCEPT ![k] = r] ELSE rs[q]
  BY <1>1
<1>5. rs' \in [Node -> Seq(Relationship)]
  BY <1>1, <1>3
<1>6. \A q \in Node : DOMAIN rs'[q] = DOMAIN rs[q]
  BY <1>2, <1>3, <1>4
<1>7. \A q \in Node : \A j \in DOMAIN rs[q] :
         rs'[q][j] = IF q = p /\ j = k THEN r ELSE rs[q][j]
  BY <1>2, <1>3, <1>4
<1>8. RecordsOK'
  <2>1. rs[p][k].next \in Nat /\ rs[p][k].next > 0 /\ r.next \in Nat
    <3>1. rs[p][k] \in Relationship
      BY <1>2, ElementOfSeq
    <3>2. rs[p][k].next > 0
      BY <1>1, <1>2 DEF RecordsOK
    <3>3. QED
      BY <3>1, <3>2 DEF Relationship, Replaces
  <2>2. r.next > 0
    BY <2>1 DEF Replaces
  <2>3. QED
    BY <1>1, <1>6, <1>7, <2>2 DEF RecordsOK, Replaces
<1>9. RecordsExtend /\ NetworkExtends
  BY <1>6, <1>7 DEF RecordsExtend, NetworkExtends, Replaces
<1>10. QED
  BY <1>5, <1>6, <1>7, <1>8, <1>9

\* What RecordsOK asks of one record.
RecordOK(p, r) ==
    /\ r.txid \in DOMAIN network
    /\ network[r.txid].kind = "initiate"
    /\ network[r.txid].enc = r.enc
    /\ r.key.node = p
    /\ r.next > 0
    /\ r.members # <<>>
    /\ \A i \in DOMAIN r.members : r.members[i].next > 0

\* A record that is appended.
LEMMA RecordAdded ==
    ASSUME Inv, NEW p \in Node, NEW r \in Relationship, RecordOK(p, r),
           UNCHANGED network, rs' = [rs EXCEPT ![p] = Append(rs[p], r)]
    PROVE  /\ rs' \in [Node -> Seq(Relationship)]
           /\ DOMAIN rs'[p] = DOMAIN rs[p] \cup {Len(rs[p]) + 1}
           /\ rs'[p][Len(rs[p]) + 1] = r
           /\ \A q \in Node \ {p} : rs'[q] = rs[q]
           /\ \A q \in Node : \A j \in DOMAIN rs[q] : rs'[q][j] = rs[q][j]
           /\ RecordsOK' /\ RecordsExtend /\ NetworkExtends
<1>1. rs \in [Node -> Seq(Relationship)] /\ RecordsOK
  BY DEF Inv, TypeOK, Structure
<1>2. /\ rs[p] \in Seq(Relationship)
      /\ Len(rs[p]) \in Nat
      /\ DOMAIN rs[p] = 1..Len(rs[p])
  BY <1>1, LenProperties
<1>3. /\ Append(rs[p], r) \in Seq(Relationship)
      /\ Len(Append(rs[p], r)) = Len(rs[p]) + 1
      /\ \A i \in 1..Len(rs[p]) : Append(rs[p], r)[i] = rs[p][i]
      /\ Append(rs[p], r)[Len(rs[p]) + 1] = r
  BY <1>2, AppendProperties
<1>4. \A q \in Node : rs'[q] = IF q = p THEN Append(rs[p], r) ELSE rs[q]
  BY <1>1
<1>5. rs' \in [Node -> Seq(Relationship)]
  BY <1>1, <1>3
<1>6. DOMAIN rs'[p] = 1..Len(rs[p]) + 1
  <2>1. DOMAIN Append(rs[p], r) = 1..Len(Append(rs[p], r))
    BY <1>3, LenProperties
  <2>2. QED
    BY <1>3, <1>4, <2>1
<1>7. DOMAIN rs'[p] = DOMAIN rs[p] \cup {Len(rs[p]) + 1}
  BY <1>2, <1>6
<1>8. \A q \in Node : \A j \in DOMAIN rs[q] :
         j \in DOMAIN rs'[q] /\ rs'[q][j] = rs[q][j]
  BY <1>2, <1>3, <1>4, <1>7
<1>9. RecordsOK'
  <2>1. rs'[p][Len(rs[p]) + 1] = r
    BY <1>3, <1>4
  <2>2. ASSUME NEW q \in Node, NEW j \in DOMAIN rs'[q]
        PROVE  \/ q = p /\ rs'[q][j] = r
               \/ j \in DOMAIN rs[q] /\ rs'[q][j] = rs[q][j]
    BY <1>4, <1>7, <1>8, <2>1
  <2>3. QED
    BY <1>1, <2>2 DEF RecordsOK, RecordOK
<1>10. RecordsExtend /\ NetworkExtends
  BY <1>8 DEF RecordsExtend, NetworkExtends
<1>11. QED
  BY <1>3, <1>4, <1>5, <1>7, <1>8, <1>9, <1>10

\* What CommandsOK asks of one command.
CommandOK(p, d) ==
    /\ d.pc \in {"recorded", "built", "sent", "advanced"} =>
           d.k \in DOMAIN rs[p]
    /\ d.pc = "built" =>
           /\ d.kind # "none"
           /\ \A i \in DOMAIN d.to : d.to[i].seed = rs[p][d.k].txid
           /\ rs[p][d.k].enc = 1 => d.to = <<>>
    /\ d.pc = "initiated" =>
           /\ d.t \in DOMAIN network
           /\ network[d.t].kind = "initiate"
           /\ network[d.t].from.base.node = p

\* A command stays sound while records and transactions are added.
LEMMA CommandKept ==
    ASSUME NetworkExtends, RecordsExtend, NEW p \in Node, NEW d, CommandOK(p, d)
    PROVE  CommandOK(p, d)'
<1>1. CASE d.pc = "initiated"
  BY <1>1 DEF CommandOK, NetworkExtends
<1>2. CASE d.pc \in {"recorded", "built", "sent", "advanced"}
  <2>1. /\ d.k \in DOMAIN rs'[p]
        /\ rs'[p][d.k].txid = rs[p][d.k].txid
        /\ rs'[p][d.k].enc = rs[p][d.k].enc
    BY <1>2 DEF CommandOK, RecordsExtend
  <2>2. QED
    BY <1>2, <2>1 DEF CommandOK
<1>3. QED
  BY <1>1, <1>2 DEF CommandOK

\* So do all of them, those that do not change ...
LEMMA CommandsKept ==
    ASSUME Inv, NetworkExtends, RecordsExtend, UNCHANGED cmd
    PROVE  CommandsOK'
<1>1. ASSUME NEW p \in Node, NEW c \in Conn
      PROVE  CommandOK(p, cmd[p][c])'
  <2>1. CommandOK(p, cmd[p][c])
    BY DEF Inv, Structure, CommandsOK, CommandOK
  <2> DEFINE d == cmd[p][c]
  <2>2. cmd'[p][c] = d
    OBVIOUS
  <2> HIDE DEF d
  <2>3. CommandOK(p, d)
    BY <2>1 DEF d
  <2>4. QED
    BY <2>2, <2>3, CommandKept DEF CommandOK
<1>2. QED
  BY <1>1 DEF CommandsOK, CommandOK

\* ... and those around one that is set.
LEMMA CommandSet ==
    ASSUME Inv, NetworkExtends, RecordsExtend,
           NEW p \in Node, NEW c \in Conn, NEW d \in Command,
           SetCmd(p, c, d), CommandOK(p, d)'
    PROVE  /\ cmd' \in [Node -> [Conn -> Command]]
           /\ \A q \in Node, e \in Conn :
                 cmd'[q][e] = IF q = p /\ e = c THEN d ELSE cmd[q][e]
           /\ CommandsOK'
<1>1. cmd \in [Node -> [Conn -> Command]]
  BY DEF Inv, TypeOK
<1>2. cmd' \in [Node -> [Conn -> Command]]
  BY <1>1 DEF SetCmd
<1>3. \A q \in Node, e \in Conn :
         cmd'[q][e] = IF q = p /\ e = c THEN d ELSE cmd[q][e]
  BY <1>1 DEF SetCmd
<1>4. ASSUME NEW q \in Node, NEW e \in Conn
      PROVE  CommandOK(q, cmd[q][e])'
  <2>1. CASE q = p /\ e = c
    BY <1>3, <2>1 DEF CommandOK
  <2>2. CASE ~(q = p /\ e = c)
    <3>1. CommandOK(q, cmd[q][e])
      BY DEF Inv, Structure, CommandsOK, CommandOK
    <3> DEFINE x == cmd[q][e]
    <3>2. cmd'[q][e] = x
      BY <1>3, <2>2
    <3> HIDE DEF x
    <3>3. CommandOK(q, x)
      BY <3>1 DEF x
    <3>4. QED
      BY <3>2, <3>3, CommandKept DEF CommandOK
  <2>3. QED
    BY <2>1, <2>2
<1>5. CommandsOK'
  BY <1>4 DEF CommandsOK, CommandOK
<1>6. QED
  BY <1>2, <1>3, <1>5

\* No command is sound anywhere, and what the steps make of a command is one.
LEMMA NoCommandOK ==
    NoCommand \in Command /\ \A p : CommandOK(p, NoCommand)
BY EmptySeq DEF NoCommand, Command, CommandOK

Initiated(t) == [NoCommand EXCEPT !.pc = "initiated", !.t = t]
Recorded(k) == [NoCommand EXCEPT !.pc = "recorded", !.k = k]
At(e, pc) == [e EXCEPT !.pc = pc]

\* What the commands look like that the actions leave behind.
LEMMA CommandTypes ==
    /\ \A t \in Nat : /\ Initiated(t) \in Command
                      /\ Initiated(t).pc = "initiated" /\ Initiated(t).t = t
    /\ \A k \in Nat : /\ Recorded(k) \in Command
                      /\ Recorded(k).pc = "recorded" /\ Recorded(k).k = k
    /\ \A e \in Command : \A pc \in {"sent", "advanced"} :
          At(e, pc) \in Command /\ At(e, pc).pc = pc /\ At(e, pc).k = e.k
<1>1. <<>> \in Seq(PublicKey)
  BY EmptySeq
<1>2. QED
  BY <1>1 DEF NoCommand, Command, Initiated, Recorded, At

\* A command is built with what the user asked for.
LEMMA BuildSets ==
    ASSUME NEW p, NEW c, NEW kind, NEW k, Build(p, c, kind, k)
    PROVE  \E d : /\ SetCmd(p, c, d)
                  /\ d.pc = "built" /\ d.kind = kind /\ d.k = k
                  /\ cmd[p][c].pc = "idle"
<1>1. PICK to : to = IF rs[p][k].enc = 0
                     THEN [i \in 1..Len(rs[p][k].members) |->
                              MemberKey(rs[p][k], rs[p][k].members[i])]
                     ELSE <<>>
  OBVIOUS
<1>2. PICK d : d = [pc |-> "built", kind |-> kind, k |-> k,
                    hash |-> rs[p][k].next, to |-> to, t |-> 0]
  OBVIOUS
<1>3. SetCmd(p, c, d)
  BY <1>1, <1>2 DEF Build
<1>4. d.pc = "built" /\ d.kind = kind /\ d.k = k
  BY <1>2
<1>5. cmd[p][c].pc = "idle"
  BY DEF Build, NoCommand
<1>6. QED
  BY <1>3, <1>4, <1>5

\* The command that has broadcast the next transaction as an initiate.
LEMMA NextInitiated ==
    ASSUME network \in Seq(Tx)
    PROVE  /\ Len(network) + 1 \in Nat
           /\ Initiated(Len(network) + 1).pc = "initiated"
<1>1. PICK t : t = Len(network) + 1 /\ t \in Nat
  BY LenProperties
<1>2. Initiated(t).pc = "initiated"
  BY <1>1, CommandTypes
<1>3. QED
  BY <1>1, <1>2

-----------------------------------------------------------------------------
(* One lemma per action.                                                   *)

\* The txids a node holds stay those of broadcast transactions.
LEMMA TxidsKept ==
    ASSUME Inv, NetworkExtends, UNCHANGED <<txs, promoted>>
    PROVE  /\ txs' \in [Node -> SUBSET (DOMAIN network')]
           /\ promoted' \in [Node -> SUBSET (DOMAIN network')]
           /\ \A p \in Node : promoted'[p] \subseteq txs'[p]
BY DEF Inv, TypeOK, NetworkExtends

\* A network that does not change extends itself.
LEMMA NetworkKept ==
    ASSUME Inv, UNCHANGED network
    PROVE  network' \in Seq(Tx) /\ TxsOK' /\ NetworkExtends
BY DEF Inv, TypeOK, Structure, TxsOK, NetworkExtends

\* The initiate transaction joins a sound network.
LEMMA InitiateTxAdded ==
    ASSUME Inv, NEW p \in Node, NEW recv \in Invites[p],
           network' = Append(network, InitiateTx(p, recv))
    PROVE  /\ network' \in Seq(Tx) /\ TxsOK' /\ NetworkExtends
           /\ Len(network) + 1 \in DOMAIN network' /\ Len(network) \in Nat
           /\ network'[Len(network) + 1] = InitiateTx(p, recv)
<1> DEFINE tx == InitiateTx(p, recv)
<1>1. /\ tx \in Tx /\ tx.kind = "initiate" /\ tx.rel = Len(network) + 1
      /\ tx.to # <<>>
  BY InitiateTxType DEF Inv
<1>2. Len(network) \in Nat
  BY LenProperties DEF Inv, TypeOK
<1>3. network' = Append(network, tx)
  OBVIOUS
<1> HIDE DEF tx
<1>4. tx.rel \in 1..Len(network) + 1
  BY <1>1, <1>2
<1>5. /\ network' \in Seq(Tx)
      /\ DOMAIN network' = DOMAIN network \cup {Len(network) + 1}
      /\ \A t \in DOMAIN network : network'[t] = network[t]
      /\ network'[Len(network) + 1] = tx
      /\ TxsOK'
  BY <1>1, <1>3, <1>4, NetworkGrows
<1>6. QED
  BY <1>2, <1>5 DEF tx, NetworkExtends

\* InitiateRelationship up to the broadcast.
LEMMA InitiateKeepsInv ==
    ASSUME Inv, NEW p \in Node, NEW c \in Conn, NEW recv \in Invites[p],
           Initiate(p, c, recv)
    PROVE  Inv'
<1>1. /\ network' = Append(network, InitiateTx(p, recv))
      /\ out' = [out EXCEPT ![p] = @ + 1]
      /\ SetCmd(p, c, Initiated(Len(network) + 1))
      /\ UNCHANGED rs /\ UNCHANGED indep /\ UNCHANGED inbox
      /\ UNCHANGED <<txs, promoted>>
  BY DEF Initiate, Initiated
<1>2. /\ network' \in Seq(Tx) /\ TxsOK' /\ NetworkExtends
      /\ Len(network) + 1 \in DOMAIN network' /\ Len(network) \in Nat
      /\ network'[Len(network) + 1] = InitiateTx(p, recv)
  BY <1>1, InitiateTxAdded
<1>3. RecordsOK' /\ RecordsExtend
  BY <1>1, <1>2, RecordsKept
<1>4. PICK d \in Command : /\ d = Initiated(Len(network) + 1)
                          /\ d.pc = "initiated" /\ d.t = Len(network) + 1
  BY <1>2, CommandTypes
<1>5. CommandOK(p, d)'
  <2>1. /\ InitiateTx(p, recv).kind = "initiate"
        /\ InitiateTx(p, recv).from.base.node = p
    BY InitiateTxType DEF Inv
  <2>2. QED
    BY <1>2, <1>4, <2>1 DEF CommandOK
<1>6. cmd' \in [Node -> [Conn -> Command]] /\ CommandsOK'
  <2>1. SetCmd(p, c, d)
    BY <1>1, <1>4
  <2>2. QED
    BY <1>2, <1>3, <1>5, <2>1, CommandSet
<1>7. /\ out' \in [Node -> Nat]
      /\ rs' \in [Node -> Seq(Relationship)]
      /\ indep' \in [Node -> SUBSET PublicKey]
      /\ inbox' \in [Node -> SUBSET [t : Nat, rel : Nat, base : BaseKey]]
  BY <1>1 DEF Inv, TypeOK
<1>8. QED
  BY <1>1, <1>2, <1>3, <1>6, <1>7, TxidsKept DEF Inv, TypeOK, Structure

\* ... and its failures.
LEMMA InitiateFailsKeepsInv ==
    ASSUME Inv, NEW p \in Node, NEW c \in Conn, NEW recv \in Invites[p],
           InitiateFails(p, c, recv)
    PROVE  Inv'
<1>1. /\ UNCHANGED network \/ network' = Append(network, InitiateTx(p, recv))
      /\ out' = [out EXCEPT ![p] = @ + 1]
      /\ UNCHANGED rs /\ UNCHANGED indep /\ UNCHANGED inbox /\ UNCHANGED cmd
      /\ UNCHANGED <<txs, promoted>>
  BY DEF InitiateFails
<1>2. network' \in Seq(Tx) /\ TxsOK' /\ NetworkExtends
  BY <1>1, InitiateTxAdded, NetworkKept
<1>3. RecordsOK' /\ RecordsExtend
  BY <1>1, <1>2, RecordsKept
<1>4. CommandsOK'
  BY <1>1, <1>2, <1>3, CommandsKept
<1>5. /\ out' \in [Node -> Nat]
      /\ rs' \in [Node -> Seq(Relationship)]
      /\ indep' \in [Node -> SUBSET PublicKey]
      /\ cmd' \in [Node -> [Conn -> Command]]
      /\ inbox' \in [Node -> SUBSET [t : Nat, rel : Nat, base : BaseKey]]
  BY <1>1 DEF Inv, TypeOK
<1>6. QED
  BY <1>1, <1>2, <1>3, <1>4, <1>5, TxidsKept DEF Inv, TypeOK, Structure

\* The append of the initiator's own record.
LEMMA RecordInitiatedKeepsInv ==
    ASSUME Inv, NEW p \in Node, NEW c \in Conn, RecordInitiated(p, c)
    PROVE  Inv'
<1> DEFINE t == cmd[p][c].t
           r == InitiatorRecord(t)
<1>1. /\ rs' = [rs EXCEPT ![p] = Append(@, r)]
      /\ SetCmd(p, c, Recorded(Len(rs[p]) + 1))
      /\ cmd[p][c].pc = "initiated"
      /\ UNCHANGED network /\ UNCHANGED out /\ UNCHANGED indep
      /\ UNCHANGED inbox /\ UNCHANGED <<txs, promoted>>
  BY DEF RecordInitiated, Recorded
<1>2. /\ t \in DOMAIN network
      /\ network[t].kind = "initiate"
      /\ network[t].from.base.node = p
  BY <1>1 DEF Inv, Structure, CommandsOK
<1>3. network[t] \in Tx /\ network[t].to # <<>> /\ t \in Nat
  BY <1>2, LenProperties, ElementOfSeq DEF Inv, TypeOK, Structure, TxsOK
<1>4. /\ NewMembers(network[t].to) \in Seq(MemberRecord)
      /\ NewMembers(network[t].to) # <<>>
      /\ \A i \in DOMAIN NewMembers(network[t].to) :
            NewMembers(network[t].to)[i].next > 0
  <2> DEFINE pks == network[t].to
  <2>1. pks \in Seq(PublicKey) /\ pks # <<>>
    BY <1>3 DEF Tx
  <2> HIDE DEF pks
  <2>2. QED
    BY <2>1, NewMembersSound DEF pks
<1>5. /\ r \in Relationship /\ r.txid = t /\ r.key = network[t].from.base
      /\ r.next = 1 /\ r.enc = network[t].enc
      /\ r.members = NewMembers(network[t].to)
  BY <1>3, <1>4 DEF InitiatorRecord, Relationship, Tx, PublicKey
<1>z. PICK s \in Relationship : s = r
  BY <1>5
<1> HIDE DEF r
<1>6. /\ rs' \in [Node -> Seq(Relationship)]
      /\ DOMAIN rs'[p] = DOMAIN rs[p] \cup {Len(rs[p]) + 1}
      /\ RecordsOK' /\ RecordsExtend /\ NetworkExtends
  <2>1. RecordOK(p, s)
    BY <1>2, <1>4, <1>5, <1>z DEF RecordOK
  <2>2. rs' = [rs EXCEPT ![p] = Append(rs[p], s)]
    BY <1>1, <1>z
  <2>3. UNCHANGED network
    BY <1>1
  <2>4. QED
    BY <2>1, <2>2, <2>3, RecordAdded
<1>7. Len(rs[p]) \in Nat
  BY LenProperties DEF Inv, TypeOK
<1>8. PICK d \in Command : /\ d = Recorded(Len(rs[p]) + 1)
                          /\ d.pc = "recorded" /\ d.k = Len(rs[p]) + 1
  BY <1>7, CommandTypes
<1>9. CommandOK(p, d)'
  BY <1>6, <1>8 DEF CommandOK
<1>10. cmd' \in [Node -> [Conn -> Command]] /\ CommandsOK'
  <2>1. SetCmd(p, c, d)
    BY <1>1, <1>8
  <2>2. QED
    BY <1>6, <1>9, <2>1, CommandSet
<1>11. /\ out' \in [Node -> Nat]
       /\ indep' \in [Node -> SUBSET PublicKey]
       /\ inbox' \in [Node -> SUBSET [t : Nat, rel : Nat, base : BaseKey]]
  BY <1>1 DEF Inv, TypeOK
<1>12. QED
  BY <1>1, <1>6, <1>10, <1>11, TxidsKept, NetworkKept DEF Inv, TypeOK, Structure

\* A key of the record joins the keys the wallet watches.
LEMMA KeyRegistered ==
    ASSUME Inv, NEW p \in Node, NEW r \in Relationship,
           indep' = [indep EXCEPT ![p] = @ \cup {NextKey(r)}]
    PROVE  indep' \in [Node -> SUBSET PublicKey]
<1>1. NextKey(r) \in PublicKey
  BY DEF NextKey, Derived, PublicKey, Relationship
<1>2. indep \in [Node -> SUBSET PublicKey]
  BY DEF Inv, TypeOK
<1>3. QED
  BY <1>1, <1>2

\* The records that running commands and listener callbacks look at.
LEMMA RecordType ==
    ASSUME Inv, NEW p \in Node, NEW k \in DOMAIN rs[p]
    PROVE  rs[p][k] \in Relationship /\ RecordOK(p, rs[p][k]) /\ k \in Nat
<1>1. rs[p] \in Seq(Relationship)
  BY DEF Inv, TypeOK
<1>2. k \in 1..Len(rs[p]) /\ Len(rs[p]) \in Nat
  BY <1>1, LenProperties
<1>3. rs[p][k] \in Relationship
  BY <1>1, <1>2, ElementOfSeq
<1>4. RecordOK(p, rs[p][k])
  BY DEF Inv, Structure, RecordsOK, RecordOK
<1>5. QED
  BY <1>2, <1>3, <1>4

\* A command ends.
LEMMA CommandEnds ==
    ASSUME Inv, NetworkExtends, RecordsExtend, NEW p \in Node, NEW c \in Conn,
           SetCmd(p, c, NoCommand)
    PROVE  cmd' \in [Node -> [Conn -> Command]] /\ CommandsOK'
<1>1. PICK d \in Command : d = NoCommand /\ d.pc = "idle"
  BY NoCommandOK DEF NoCommand
<1>2. CommandOK(p, d)'
  BY <1>1 DEF CommandOK
<1>3. SetCmd(p, c, d)
  BY <1>1
<1>4. QED
  BY <1>2, <1>3, CommandSet

\* AddIndependentKey after the append.
LEMMA RegisterInitiatedKeepsInv ==
    ASSUME Inv, NEW p \in Node, NEW c \in Conn, RegisterInitiated(p, c)
    PROVE  Inv'
<1>1. /\ indep' = [indep EXCEPT ![p] = @ \cup {NextKey(rs[p][cmd[p][c].k])}]
      /\ SetCmd(p, c, NoCommand)
      /\ cmd[p][c].pc = "recorded"
      /\ UNCHANGED network /\ UNCHANGED rs /\ UNCHANGED out
      /\ UNCHANGED inbox /\ UNCHANGED <<txs, promoted>>
  BY DEF RegisterInitiated
<1>2. cmd[p][c].k \in DOMAIN rs[p]
  BY <1>1 DEF Inv, Structure, CommandsOK
<1>3. PICK r \in Relationship : r = rs[p][cmd[p][c].k]
  BY <1>2, RecordType
<1>4. indep' \in [Node -> SUBSET PublicKey]
  <2>1. indep' = [indep EXCEPT ![p] = @ \cup {NextKey(r)}]
    BY <1>1, <1>3
  <2>2. QED
    BY <2>1, KeyRegistered
<1>5. network' \in Seq(Tx) /\ TxsOK' /\ NetworkExtends
  BY <1>1, NetworkKept
<1>6. RecordsOK' /\ RecordsExtend
  BY <1>1, <1>5, RecordsKept
<1>7. cmd' \in [Node -> [Conn -> Command]] /\ CommandsOK'
  BY <1>1, <1>5, <1>6, CommandEnds
<1>8. /\ out' \in [Node -> Nat]
      /\ rs' \in [Node -> Seq(Relationship)]
      /\ inbox' \in [Node -> SUBSET [t : Nat, rel : Nat, base : BaseKey]]
  BY <1>1 DEF Inv, TypeOK
<1>9. QED
  BY <1>1, <1>4, <1>5, <1>6, <1>7, <1>8, TxidsKept DEF Inv, TypeOK, Structure

\* What AcceptRelationship and SendMessage put together.
LEMMA BuildKeepsInv ==
    ASSUME Inv, NEW p \in Node, NEW c \in Conn,
           NEW kind \in {"accept", "message"}, NEW k \in DOMAIN rs[p],
           Build(p, c, kind, k)
    PROVE  Inv'
<1> DEFINE r == rs[p][k]
           to == IF r.enc = 0
                 THEN [i \in 1..Len(r.members) |-> MemberKey(r, r.members[i])]
                 ELSE <<>>
           built == [pc |-> "built", kind |-> kind, k |-> k, hash |-> r.next,
                     to |-> to, t |-> 0]
<1>1. /\ SetCmd(p, c, built)
      /\ UNCHANGED network /\ UNCHANGED rs /\ UNCHANGED out /\ UNCHANGED indep
      /\ UNCHANGED inbox /\ UNCHANGED <<txs, promoted>>
  BY DEF Build
<1>2. r \in Relationship /\ RecordOK(p, r) /\ k \in Nat
  BY RecordType
<1>3. /\ to \in Seq(PublicKey)
      /\ \A i \in DOMAIN to : to[i].seed = r.txid
      /\ r.enc = 1 => to = <<>>
  <2>1. ASSUME NEW s \in Relationship
        PROVE  LET pks == [i \in 1..Len(s.members) |->
                              MemberKey(s, s.members[i])] IN
               /\ pks \in Seq(PublicKey)
               /\ \A i \in DOMAIN pks : pks[i].seed = s.txid
    <3>1. /\ s.members \in Seq(MemberRecord) /\ Len(s.members) \in Nat
          /\ \A i \in 1..Len(s.members) : s.members[i] \in MemberRecord
      BY LenProperties, ElementOfSeq DEF Relationship
    <3>2. \A i \in 1..Len(s.members) :
             /\ MemberKey(s, s.members[i]) \in PublicKey
             /\ MemberKey(s, s.members[i]).seed = s.txid
      BY <3>1, KeyTypes DEF MemberKey, Derived
    <3>3. QED
      BY <3>1, <3>2
  <2>2. <<>> \in Seq(PublicKey) /\ DOMAIN <<>> = {}
    BY EmptySeq
  <2>3. CASE r.enc = 0
    <3>1. to = [i \in 1..Len(r.members) |-> MemberKey(r, r.members[i])]
      BY <2>3
    <3> HIDE DEF r, to
    <3>2. to \in Seq(PublicKey) /\ \A i \in DOMAIN to : to[i].seed = r.txid
      BY <1>2, <2>1, <3>1
    <3>3. QED
      BY <2>3, <3>2
  <2>4. CASE r.enc # 0
    BY <2>2, <2>4
  <2>5. QED
    BY <2>3, <2>4
<1>4. PICK d \in Command :
          /\ d = built
          /\ d.pc = "built" /\ d.kind = kind /\ d.k = k /\ d.to = to
  <2>1. r.next \in Nat
    BY <1>2 DEF Relationship
  <2> HIDE DEF r, to
  <2>2. built \in Command
    BY <1>2, <1>3, <2>1 DEF Command
  <2>3. QED
    BY <2>2
<1>5. network' \in Seq(Tx) /\ TxsOK' /\ NetworkExtends
  BY <1>1, NetworkKept
<1>6. RecordsOK' /\ RecordsExtend
  BY <1>1, <1>5, RecordsKept
<1>7. CommandOK(p, d)'
  <2>1. UNCHANGED rs
    BY <1>1
  <2>2. CommandOK(p, d)
    <3> HIDE DEF to
    <3>1. QED
      BY <1>3, <1>4 DEF CommandOK
  <2>3. QED
    BY <1>4, <2>1, <2>2 DEF CommandOK
<1> HIDE DEF built
<1>8. cmd' \in [Node -> [Conn -> Command]] /\ CommandsOK'
  <2>1. SetCmd(p, c, d)
    BY <1>1, <1>4
  <2>2. QED
    BY <1>5, <1>6, <1>7, <2>1, CommandSet
<1>9. /\ out' \in [Node -> Nat]
      /\ rs' \in [Node -> Seq(Relationship)]
      /\ indep' \in [Node -> SUBSET PublicKey]
      /\ inbox' \in [Node -> SUBSET [t : Nat, rel : Nat, base : BaseKey]]
  BY <1>1 DEF Inv, TypeOK
<1>10. QED
  BY <1>1, <1>5, <1>6, <1>8, <1>9, TxidsKept DEF Inv, TypeOK, Structure

\* What a command under way holds.
LEMMA CommandHeld ==
    ASSUME Inv, NEW p \in Node, NEW c \in Conn
    PROVE  /\ cmd[p][c] \in Command
           /\ cmd[p][c].pc \in {"recorded", "built", "sent", "advanced"} =>
                  cmd[p][c].k \in DOMAIN rs[p]
           /\ cmd[p][c].pc = "built" =>
                  /\ cmd[p][c].kind # "none"
                  /\ \A i \in DOMAIN cmd[p][c].to :
                        cmd[p][c].to[i].seed = rs[p][cmd[p][c].k].txid
                  /\ rs[p][cmd[p][c].k].enc = 1 => cmd[p][c].to = <<>>
           /\ cmd[p][c].pc = "initiated" =>
                  /\ cmd[p][c].t \in DOMAIN network
                  /\ network[cmd[p][c].t].kind = "initiate"
                  /\ network[cmd[p][c].t].from.base.node = p
<1>1. cmd[p][c] \in Command
  BY DEF Inv, TypeOK
<1>2. CommandsOK
  BY DEF Inv, Structure
<1>3. QED
  BY <1>1, <1>2 DEF CommandsOK

\* A command that has broadcast an initiate names it.
LEMMA CommandInitiated ==
    ASSUME Inv, NEW p \in Node, NEW c \in Conn, cmd[p][c].pc = "initiated"
    PROVE  /\ cmd[p][c].t \in DOMAIN network
           /\ network[cmd[p][c].t].kind = "initiate"
           /\ network[cmd[p][c].t].from.base.node = p
<1>1. CommandsOK
  BY DEF Inv, Structure
<1>2. QED
  BY <1>1 DEF CommandsOK

\* An accept or a message joins a sound network.
LEMMA CommandTxAdded ==
    ASSUME Inv, NEW p \in Node, NEW c \in Conn, cmd[p][c].pc = "built",
           network' = Append(network, CommandTx(p, c))
    PROVE  network' \in Seq(Tx) /\ TxsOK' /\ NetworkExtends
<1> DEFINE d == cmd[p][c]
<1>1. /\ d.k \in DOMAIN rs[p]
      /\ \A i \in DOMAIN d.to : d.to[i].seed = rs[p][d.k].txid
      /\ rs[p][d.k].enc = 1 => d.to = <<>>
  BY CommandHeld
<1>2. PICK r \in Relationship : r = rs[p][d.k] /\ RecordOK(p, r)
  BY <1>1, RecordType
<1>3. PICK tx \in Tx :
          /\ tx = CommandTx(p, c) /\ tx.kind # "initiate"
          /\ tx.rel = r.txid /\ tx.enc = r.enc
          /\ tx.from = NextKey(r) /\ tx.to = d.to
  BY <1>2, CommandTxType DEF Inv, Structure
<1>4. network' = Append(network, tx)
  BY <1>3
<1>5. tx.rel \in 1..Len(network) /\ Len(network) \in Nat
  <2>1. Len(network) \in Nat /\ DOMAIN network = 1..Len(network)
    BY LenProperties DEF Inv, TypeOK
  <2>2. QED
    BY <1>2, <1>3, <2>1 DEF RecordOK
<1>6. tx.rel \in 1..Len(network) + 1 /\ tx.rel # Len(network) + 1
  BY <1>5
<1>7. /\ network[tx.rel].kind = "initiate"
      /\ network[tx.rel].enc = tx.enc
      /\ tx.from.seed = tx.rel
      /\ tx.from.i > 0
      /\ \A i \in DOMAIN tx.to : tx.to[i].seed = tx.rel
      /\ tx.enc = 1 => tx.to = <<>>
  <2>1. tx.from.seed = r.txid /\ tx.from.i = r.next /\ r.next > 0
    <3>1. NextKey(r).seed = r.txid /\ NextKey(r).i = r.next
      BY DEF NextKey, Derived
    <3>2. tx.from = NextKey(r)
      BY <1>3
    <3>3. r.next > 0
      BY <1>2 DEF RecordOK
    <3>4. QED
      BY <3>1, <3>2, <3>3
  <2>2. network[r.txid].kind = "initiate" /\ network[r.txid].enc = r.enc
    BY <1>2 DEF RecordOK
  <2>3. QED
    BY <1>1, <1>2, <1>3, <2>1, <2>2
<1>8. /\ network' \in Seq(Tx)
      /\ DOMAIN network' = DOMAIN network \cup {Len(network) + 1}
      /\ \A t \in DOMAIN network : network'[t] = network[t]
      /\ TxsOK'
  BY <1>3, <1>4, <1>6, <1>7, NetworkGrows
<1>9. QED
  BY <1>8 DEF NetworkExtends

\* The command goes on, with its record.
LEMMA CommandGoesOn ==
    ASSUME Inv, NetworkExtends, RecordsExtend, NEW p \in Node, NEW c \in Conn,
           cmd[p][c].pc \in {"built", "sent"}, NEW pc \in {"sent", "advanced"},
           SetCmd(p, c, At(cmd[p][c], pc))
    PROVE  cmd' \in [Node -> [Conn -> Command]] /\ CommandsOK'
<1>1. cmd[p][c] \in Command /\ cmd[p][c].k \in DOMAIN rs[p]
  BY CommandHeld
<1>2. PICK d \in Command : /\ d = At(cmd[p][c], pc)
                          /\ d.pc = pc /\ d.k = cmd[p][c].k
  BY <1>1, CommandTypes
<1>3. d.k \in DOMAIN rs'[p]
  BY <1>1, <1>2 DEF RecordsExtend
<1>4. CommandOK(p, d)'
  BY <1>2, <1>3 DEF CommandOK
<1>5. SetCmd(p, c, d)
  BY <1>2
<1>6. QED
  BY <1>4, <1>5, CommandSet

\* The broadcast of an accept or a message ...
LEMMA BroadcastKeepsInv ==
    ASSUME Inv, NEW p \in Node, NEW c \in Conn, Broadcast(p, c)
    PROVE  Inv'
<1>1. /\ cmd[p][c].pc = "built"
      /\ network' = Append(network, CommandTx(p, c))
      /\ SetCmd(p, c, At(cmd[p][c], "sent"))
      /\ UNCHANGED rs /\ UNCHANGED out /\ UNCHANGED indep
      /\ UNCHANGED inbox /\ UNCHANGED <<txs, promoted>>
  BY DEF Broadcast, At
<1>2. network' \in Seq(Tx) /\ TxsOK' /\ NetworkExtends
  BY <1>1, CommandTxAdded
<1>3. RecordsOK' /\ RecordsExtend
  BY <1>1, <1>2, RecordsKept
<1>4. cmd' \in [Node -> [Conn -> Command]] /\ CommandsOK'
  BY <1>1, <1>2, <1>3, CommandGoesOn
<1>5. /\ out' \in [Node -> Nat]
      /\ rs' \in [Node -> Seq(Relationship)]
      /\ indep' \in [Node -> SUBSET PublicKey]
      /\ inbox' \in [Node -> SUBSET [t : Nat, rel : Nat, base : BaseKey]]
  BY <1>1 DEF Inv, TypeOK
<1>6. QED
  BY <1>1, <1>2, <1>3, <1>4, <1>5, TxidsKept DEF Inv, TypeOK, Structure

\* ... and its failures.
LEMMA BroadcastFailsKeepsInv ==
    ASSUME Inv, NEW p \in Node, NEW c \in Conn, BroadcastFails(p, c)
    PROVE  Inv'
<1>1. /\ cmd[p][c].pc = "built"
      /\ UNCHANGED network \/ network' = Append(network, CommandTx(p, c))
      /\ SetCmd(p, c, NoCommand)
      /\ UNCHANGED rs /\ UNCHANGED out /\ UNCHANGED indep
      /\ UNCHANGED inbox /\ UNCHANGED <<txs, promoted>>
  BY DEF BroadcastFails
<1>2. network' \in Seq(Tx) /\ TxsOK' /\ NetworkExtends
  BY <1>1, CommandTxAdded, NetworkKept
<1>3. RecordsOK' /\ RecordsExtend
  BY <1>1, <1>2, RecordsKept
<1>4. cmd' \in [Node -> [Conn -> Command]] /\ CommandsOK'
  BY <1>1, <1>2, <1>3, CommandEnds
<1>5. /\ out' \in [Node -> Nat]
      /\ rs' \in [Node -> Seq(Relationship)]
      /\ indep' \in [Node -> SUBSET PublicKey]
      /\ inbox' \in [Node -> SUBSET [t : Nat, rel : Nat, base : BaseKey]]
  BY <1>1 DEF Inv, TypeOK
<1>6. QED
  BY <1>1, <1>2, <1>3, <1>4, <1>5, TxidsKept DEF Inv, TypeOK, Structure

\* The index of the command's own key moves on.
LEMMA AdvanceOwnKeepsInv ==
    ASSUME Inv, NEW p \in Node, NEW c \in Conn, AdvanceOwn(p, c)
    PROVE  Inv'
<1> DEFINE k == cmd[p][c].k
<1>1. /\ cmd[p][c].pc = "sent"
      /\ rs' = [rs EXCEPT ![p][k] = IncrementHash(rs[p][k])]
      /\ indep' = [indep EXCEPT ![p] = @ \cup {NextKey(IncrementHash(rs[p][k]))}]
      /\ SetCmd(p, c, At(cmd[p][c], "advanced"))
      /\ UNCHANGED network /\ UNCHANGED out
      /\ UNCHANGED inbox /\ UNCHANGED <<txs, promoted>>
  BY DEF AdvanceOwn, At
<1>2. k \in DOMAIN rs[p]
  BY <1>1 DEF Inv, Structure, CommandsOK
<1>3. rs[p][k] \in Relationship /\ RecordOK(p, rs[p][k])
  BY <1>2, RecordType
<1>4. PICK s \in Relationship :
          /\ s = IncrementHash(rs[p][k])
          /\ s.txid = rs[p][k].txid /\ s.enc = rs[p][k].enc
          /\ s.key = rs[p][k].key /\ s.members = rs[p][k].members
          /\ s.next = rs[p][k].next + 1 /\ s.next >= rs[p][k].next
  <2>1. ASSUME NEW r \in Relationship
        PROVE  LET s == IncrementHash(r) IN
               /\ s \in Relationship
               /\ s.txid = r.txid /\ s.enc = r.enc /\ s.key = r.key
               /\ s.members = r.members
               /\ s.next = r.next + 1 /\ s.next >= r.next
    BY DEF IncrementHash, Relationship
  <2>2. QED
    BY <1>3, <2>1
<1>5. /\ rs' \in [Node -> Seq(Relationship)]
      /\ RecordsOK' /\ RecordsExtend /\ NetworkExtends
  <2>1. rs' = [rs EXCEPT ![p][k] = s]
    BY <1>1, <1>4
  <2>2. s.members # <<>> /\ \A i \in DOMAIN s.members : s.members[i].next > 0
    BY <1>3, <1>4 DEF RecordOK
  <2>3. Replaces(s, rs[p][k])
    BY <1>4, <2>2 DEF Replaces
  <2>4. UNCHANGED network
    BY <1>1
  <2> HIDE DEF k
  <2>5. QED
    BY <1>2, <2>1, <2>3, <2>4, RecordUpdated
<1>6. indep' \in [Node -> SUBSET PublicKey]
  <2>1. indep' = [indep EXCEPT ![p] = @ \cup {NextKey(s)}]
    BY <1>1, <1>4
  <2>2. QED
    BY <2>1, KeyRegistered
<1>7. network' \in Seq(Tx) /\ TxsOK'
  BY <1>1, NetworkKept
<1>8. cmd' \in [Node -> [Conn -> Command]] /\ CommandsOK'
  BY <1>1, <1>5, CommandGoesOn
<1>9. /\ out' \in [Node -> Nat]
      /\ inbox' \in [Node -> SUBSET [t : Nat, rel : Nat, base : BaseKey]]
  BY <1>1 DEF Inv, TypeOK
<1>10. QED
  BY <1>1, <1>5, <1>6, <1>7, <1>8, <1>9, TxidsKept DEF Inv, TypeOK, Structure

\* IncrementMembers keeps a record sound.
LEMMA IncrementMembersSound ==
    ASSUME NEW p \in Node, NEW r \in Relationship, RecordOK(p, r), NEW which
    PROVE  LET s == IncrementMembers(r, which) IN
           s \in Relationship /\ Replaces(s, r)
<1> DEFINE s == IncrementMembers(r, which)
<1>1. /\ s \in Relationship
      /\ s.txid = r.txid /\ s.enc = r.enc /\ s.key = r.key
      /\ s.next = r.next
      /\ DOMAIN s.members = DOMAIN r.members
  BY IncrementMembersType
<1>2. ASSUME NEW i \in DOMAIN r.members
      PROVE  s.members[i].next > 0
  <2>1. s.members[i].next = IF i \in which THEN r.members[i].next + 1
                            ELSE r.members[i].next
    BY IncrementMembersType
  <2>2. r.members[i].next > 0
    BY DEF RecordOK
  <2>3. r.members[i].next \in Nat
    <3>1. r.members \in Seq(MemberRecord)
      BY DEF Relationship
    <3>2. r.members[i] \in MemberRecord
      BY <3>1, LenProperties, ElementOfSeq
    <3>3. QED
      BY <3>2 DEF MemberRecord
  <2> HIDE DEF s
  <2>4. QED
    BY <2>1, <2>2, <2>3
<1>3. s.members # <<>>
  <2>1. r.members \in Seq(MemberRecord) /\ r.members # <<>>
    BY DEF Relationship, RecordOK
  <2>2. DOMAIN r.members # {}
    <3>1. Len(r.members) \in Nat /\ Len(r.members) # 0
      BY <2>1, LenProperties, EmptySeq
    <3>2. DOMAIN r.members = 1..Len(r.members)
      BY <2>1, LenProperties
    <3>3. 1 \in 1..Len(r.members)
      BY <3>1
    <3>4. QED
      BY <3>2, <3>3
  <2>3. DOMAIN <<>> = {}
    OBVIOUS
  <2>4. QED
    BY <1>1, <2>2, <2>3
<1>4. r.next \in Nat
  BY DEF Relationship
<1> HIDE DEF s
<1>5. s \in Relationship /\ Replaces(s, r)
  BY <1>1, <1>2, <1>3, <1>4 DEF Replaces
<1>6. QED
  BY <1>5 DEF s

\* The members' keys move on, an accept is marked, the command returns.
LEMMA AdvanceMembersKeepsInv ==
    ASSUME Inv, NEW p \in Node, NEW c \in Conn, AdvanceMembers(p, c)
    PROVE  Inv'
<1> DEFINE k == cmd[p][c].k
           paid == {i \in DOMAIN rs[p][k].members : rs[p][k].enc = 0}
           m == IncrementMembers(rs[p][k], paid)
           accepted == m.accepted \/ cmd[p][c].kind = "accept"
<1>1. /\ cmd[p][c].pc = "advanced"
      /\ rs' = [rs EXCEPT ![p][k] = [m EXCEPT !.accepted = accepted]]
      /\ SetCmd(p, c, NoCommand)
      /\ UNCHANGED network /\ UNCHANGED out /\ UNCHANGED indep
      /\ UNCHANGED inbox /\ UNCHANGED <<txs, promoted>>
  BY DEF AdvanceMembers
<1>2. k \in DOMAIN rs[p]
  BY <1>1 DEF Inv, Structure, CommandsOK
<1>3. PICK r \in Relationship : r = rs[p][k] /\ RecordOK(p, r)
  BY <1>2, RecordType
<1>4. PICK x \in Relationship : x = m /\ Replaces(x, r)
  <2> HIDE DEF paid, k
  <2>1. m = IncrementMembers(r, paid)
    BY <1>3
  <2> HIDE DEF m
  <2>2. QED
    BY <1>3, <2>1, IncrementMembersSound
<1>5. PICK s \in Relationship :
          s = [m EXCEPT !.accepted = accepted] /\ Replaces(s, r)
  <2>1. PICK b \in BOOLEAN : b = accepted
    <3>1. x.accepted \in BOOLEAN
      BY DEF Relationship
    <3> HIDE DEF m
    <3>2. accepted \in BOOLEAN
      BY <1>4, <3>1
    <3>3. QED
      BY <3>2
  <2>2. [x EXCEPT !.accepted = b] \in Relationship
    BY DEF Relationship
  <2>3. Replaces([x EXCEPT !.accepted = b], r)
    BY <1>4 DEF Replaces, Relationship
  <2>4. [m EXCEPT !.accepted = accepted] = [x EXCEPT !.accepted = b]
    BY <1>4, <2>1
  <2>5. QED
    BY <2>2, <2>3, <2>4
<1>z. /\ rs' \in [Node -> Seq(Relationship)]
      /\ RecordsOK' /\ RecordsExtend /\ NetworkExtends
  <2>1. rs' = [rs EXCEPT ![p][k] = s]
    BY <1>1, <1>5
  <2>2. Replaces(s, rs[p][k])
    BY <1>3, <1>5
  <2>3. UNCHANGED network
    BY <1>1
  <2> HIDE DEF k
  <2>4. QED
    BY <1>2, <2>1, <2>2, <2>3, RecordUpdated
<1>6. network' \in Seq(Tx) /\ TxsOK'
  BY <1>1, NetworkKept
<1>7. cmd' \in [Node -> [Conn -> Command]] /\ CommandsOK'
  BY <1>1, <1>z, CommandEnds
<1>8. /\ out' \in [Node -> Nat]
      /\ indep' \in [Node -> SUBSET PublicKey]
      /\ inbox' \in [Node -> SUBSET [t : Nat, rel : Nat, base : BaseKey]]
  BY <1>1 DEF Inv, TypeOK
<1>9. QED
  BY <1>1, <1>z, <1>6, <1>7, <1>8, TxidsKept DEF Inv, TypeOK, Structure

\* HandleTx only takes a transaction.
LEMMA HandleTxKeepsInv ==
    ASSUME Inv, NEW p \in Node, NEW t \in DOMAIN network, HandleTx(p, t)
    PROVE  Inv'
<1>1. /\ txs' = [txs EXCEPT ![p] = @ \cup {t}]
      /\ UNCHANGED network /\ UNCHANGED rs /\ UNCHANGED out
      /\ UNCHANGED indep /\ UNCHANGED inbox /\ UNCHANGED cmd
      /\ UNCHANGED promoted
  BY DEF HandleTx
<1>2. network' \in Seq(Tx) /\ TxsOK' /\ NetworkExtends
  BY <1>1, NetworkKept
<1>3. RecordsOK' /\ RecordsExtend
  BY <1>1, <1>2, RecordsKept
<1>4. CommandsOK'
  BY <1>1, <1>2, <1>3, CommandsKept
<1>5. /\ txs' \in [Node -> SUBSET (DOMAIN network')]
      /\ promoted' \in [Node -> SUBSET (DOMAIN network')]
      /\ \A q \in Node : promoted'[q] \subseteq txs'[q]
  BY <1>1 DEF Inv, TypeOK
<1>6. /\ out' \in [Node -> Nat]
      /\ rs' \in [Node -> Seq(Relationship)]
      /\ indep' \in [Node -> SUBSET PublicKey]
      /\ cmd' \in [Node -> [Conn -> Command]]
      /\ inbox' \in [Node -> SUBSET [t : Nat, rel : Nat, base : BaseKey]]
  BY <1>1 DEF Inv, TypeOK
<1>7. QED
  BY <1>2, <1>3, <1>4, <1>5, <1>6 DEF Inv, TypeOK, Structure

\* The key that makes a transaction ours is one the wallet finds.
LEMMA OurKeyOurs ==
    ASSUME NEW p \in Node, NEW tx \in Tx, IsOurs(p, tx)
    PROVE  /\ OurKey(p, tx) \in PublicKey
           /\ Owns(p, OurKey(p, tx))
           /\ OurKey(p, tx).base \in BaseKey
           /\ OurKey(p, tx).base.node = p
           /\ ~Owns(p, tx.from) => OwnReceiver(p, tx) \in 1..Len(tx.to)
<1>1. tx.from \in PublicKey /\ tx.to \in Seq(PublicKey)
  BY DEF Tx
<1>2. ASSUME ~Owns(p, tx.from)
      PROVE  /\ OwnReceiver(p, tx) \in 1..Len(tx.to)
             /\ Owns(p, tx.to[OwnReceiver(p, tx)])
  <2>1. OwnReceiver(p, tx) # 0
    BY <1>2 DEF IsOurs
  <2>2. OwnReceiver(p, tx) \in {i \in 1..Len(tx.to) : Owns(p, tx.to[i])}
    BY <1>1, <2>1, OwnReceiverFinds
  <2>3. QED
    BY <2>2
<1>3. OurKey(p, tx) \in PublicKey /\ Owns(p, OurKey(p, tx))
  <2>1. CASE Owns(p, tx.from)
    BY <1>1, <2>1 DEF OurKey
  <2>2. CASE ~Owns(p, tx.from)
    BY <1>1, <1>2, <2>2, ElementOfSeq DEF OurKey
  <2>3. QED
    BY <2>1, <2>2
<1>4. OurKey(p, tx).base \in BaseKey
  BY <1>3 DEF PublicKey
<1>5. OurKey(p, tx).base.node = p
  BY <1>3 DEF Owns
<1>6. QED
  BY <1>2, <1>3, <1>4, <1>5

\* What is left of a sequence that loses an element.
LEMMA RemoveAtType ==
    ASSUME NEW S, NEW seq \in Seq(S), NEW i \in 1..Len(seq)
    PROVE  RemoveAt(seq, i) \in Seq(S)
<1>1. Len(seq) \in Nat
  BY LenProperties
<1>2. SubSeq(seq, 1, i-1) \in Seq(S)
  BY <1>1, SubSeqProperties
<1>3. SubSeq(seq, i+1, Len(seq)) \in Seq(S)
  BY <1>1, SubSeqProperties
<1>4. QED
  BY <1>2, <1>3, ConcatProperties DEF RemoveAt

\* The parties other than the node, of an initiate that involves it.
Others(p, tx) ==
    IF Owns(p, tx.from) THEN tx.to
    ELSE <<tx.from>> \o RemoveAt(tx.to, OwnReceiver(p, tx))

\* There is always another party: the sender, if it is not the node itself.
LEMMA OthersType ==
    ASSUME NEW p \in Node, NEW tx \in Tx, IsOurs(p, tx), tx.to # <<>>
    PROVE  Others(p, tx) \in Seq(PublicKey) /\ Others(p, tx) # <<>>
<1>1. tx.from \in PublicKey /\ tx.to \in Seq(PublicKey)
  BY DEF Tx
<1>2. CASE Owns(p, tx.from)
  BY <1>1, <1>2 DEF Others
<1>3. CASE ~Owns(p, tx.from)
  <2> DEFINE rest == RemoveAt(tx.to, OwnReceiver(p, tx))
  <2>1. rest \in Seq(PublicKey) /\ Len(rest) \in Nat
    BY <1>1, <1>3, OurKeyOurs, RemoveAtType, LenProperties
  <2>2. <<tx.from>> \in Seq(PublicKey) /\ Len(<<tx.from>>) = 1
    BY <1>1
  <2> HIDE DEF rest
  <2>3. /\ <<tx.from>> \o rest \in Seq(PublicKey)
        /\ Len(<<tx.from>> \o rest) = 1 + Len(rest)
    BY <2>1, <2>2, ConcatProperties
  <2>4. <<tx.from>> \o rest # <<>>
    BY <2>1, <2>3, EmptySeq
  <2>5. Others(p, tx) = <<tx.from>> \o rest
    BY <1>3 DEF Others, rest
  <2>6. QED
    BY <2>3, <2>4, <2>5
<1>4. QED
  BY <1>2, <1>3

\* The transactions that the listener looks at.
LEMMA TxType ==
    ASSUME Inv, NEW t \in DOMAIN network
    PROVE  network[t] \in Tx /\ t \in Nat
<1>1. network \in Seq(Tx)
  BY DEF Inv, TypeOK
<1>2. QED
  BY <1>1, LenProperties, ElementOfSeq

\* ProcessInitiateRelationship makes a sound record.
LEMMA InitiatedRecordSound ==
    ASSUME Inv, NEW p \in Node, NEW t \in DOMAIN network,
           network[t].kind = "initiate", IsOurs(p, network[t])
    PROVE  /\ InitiatedRecord(p, t) \in Relationship
           /\ RecordOK(p, InitiatedRecord(p, t))
           /\ InitiatedRecord(p, t).txid = t
<1>1. PICK tx \in Tx : tx = network[t] /\ t \in Nat
  BY TxType
<1>2. tx.to # <<>> /\ IsOurs(p, tx) /\ tx.kind = "initiate"
  BY <1>1 DEF Inv, Structure, TxsOK
<1>3. OurKey(p, tx).base \in BaseKey /\ OurKey(p, tx).base.node = p
  BY <1>2, OurKeyOurs
<1>4. PICK pks \in Seq(PublicKey) : pks = Others(p, tx) /\ pks # <<>>
  BY <1>2, OthersType
<1>5. /\ NewMembers(pks) \in Seq(MemberRecord)
      /\ NewMembers(pks) # <<>>
      /\ \A i \in DOMAIN NewMembers(pks) : NewMembers(pks)[i].next > 0
  BY <1>4, NewMembersSound
<1>6. InitiatedRecord(p, t) =
         [txid |-> t, key |-> OurKey(p, tx).base, next |-> 1, enc |-> tx.enc,
          accepted |-> FALSE, members |-> NewMembers(pks)]
  BY <1>1, <1>4 DEF InitiatedRecord, Others
<1>7. tx.enc \in {0, 1}
  BY DEF Tx
<1>8. InitiatedRecord(p, t) \in Relationship
  BY <1>1, <1>3, <1>5, <1>6, <1>7 DEF Relationship
<1>9. RecordOK(p, InitiatedRecord(p, t))
  BY <1>1, <1>2, <1>3, <1>5, <1>6 DEF RecordOK
<1>10. QED
  BY <1>6, <1>8, <1>9

\* GetRelationshipForTx finds a record of the node, or none.
LEMMA RelationshipForTxFinds ==
    ASSUME Inv, NEW p \in Node, NEW tx
    PROVE  RelationshipForTx(p, tx) # 0 =>
               /\ RelationshipForTx(p, tx) \in DOMAIN rs[p]
               /\ \A pk \in OurKeys(p, tx) :
                     pk.base = rs[p][RelationshipForTx(p, tx)].key
<1> DEFINE flagged == IF tx.enc = 1 THEN FindForFlag(p, tx.rel) ELSE 0
           k == IF flagged # 0 THEN flagged
                ELSE IF ~IsOurs(p, tx) THEN 0
                ELSE GetRelationship(p, OurKey(p, tx).base)
<1>1. rs[p] \in Seq(Relationship) /\ Len(rs[p]) \in Nat
      /\ DOMAIN rs[p] = 1..Len(rs[p])
  BY LenProperties DEF Inv, TypeOK
<1>2. k \in 0..Len(rs[p])
  <2>1. FindForFlag(p, tx.rel) \in 0..Len(rs[p])
    BY <1>1, FindForFlagFinds
  <2>2. GetRelationship(p, OurKey(p, tx).base) \in 0..Len(rs[p])
    BY <1>1, GetRelationshipFinds
  <2>3. 0 \in 0..Len(rs[p])
    BY <1>1
  <2>4. QED
    BY <2>1, <2>2, <2>3
<1>3. RelationshipForTx(p, tx) =
         IF k # 0 /\ \A pk \in OurKeys(p, tx) : pk.base = rs[p][k].key
         THEN k ELSE 0
  BY DEF RelationshipForTx
<1> HIDE DEF k
<1>4. QED
  BY <1>1, <1>2, <1>3

\* GetRelationshipForTx moves indexes on, and leaves the rest of the record.
LEMMA AdvanceForTxSound ==
    ASSUME NEW p \in Node, NEW tx, NEW r \in Relationship, RecordOK(p, r)
    PROVE  LET s == AdvanceForTx(p, tx, r) IN
           /\ s \in Relationship /\ Replaces(s, r)
           /\ DOMAIN s.members = DOMAIN r.members
<1> DEFINE q == IF UsesNextKey(p, tx, r) THEN IncrementHash(r) ELSE r
           which == {i \in DOMAIN r.members :
                        MemberKey(r, r.members[i]) \in KeysUsed(tx)}
<1>1. ASSUME NEW x, x = IncrementHash(r) \/ x = r
      PROVE  /\ x \in Relationship /\ RecordOK(p, x) /\ Replaces(x, r)
             /\ x.members = r.members
  <2>1. CASE x = IncrementHash(r)
    BY <2>1 DEF IncrementHash, Relationship, RecordOK, Replaces
  <2>2. CASE x = r
    BY <2>2 DEF Relationship, RecordOK, Replaces
  <2>3. QED
    BY <1>1, <2>1, <2>2
<1>2. PICK x \in Relationship : /\ x = q /\ RecordOK(p, x)
                               /\ Replaces(x, r) /\ x.members = r.members
  BY <1>1
<1>3. AdvanceForTx(p, tx, r) = IncrementMembers(x, which)
  BY <1>2 DEF AdvanceForTx
<1> HIDE DEF q, which
<1>4. PICK s \in Relationship : s = IncrementMembers(x, which) /\ Replaces(s, x)
                               /\ DOMAIN s.members = DOMAIN x.members
  BY <1>2, IncrementMembersSound, IncrementMembersType
<1>5. Replaces(s, r)
  BY <1>2, <1>4 DEF Replaces, Relationship
<1>6. QED
  BY <1>2, <1>3, <1>4, <1>5

\* What the listener may do to records, registered keys and inbox.
ListenerOK ==
    /\ rs' \in [Node -> Seq(Relationship)]
    /\ indep' \in [Node -> SUBSET PublicKey]
    /\ inbox' \in [Node -> SUBSET [t : Nat, rel : Nat, base : BaseKey]]
    /\ RecordsOK' /\ RecordsExtend /\ NetworkExtends

\* Nothing is allowed.
LEMMA ListenerIgnores ==
    ASSUME Inv, UNCHANGED network, UNCHANGED <<rs, indep, inbox>>
    PROVE  ListenerOK
<1>1. NetworkExtends
  BY NetworkKept
<1>2. RecordsOK' /\ RecordsExtend
  BY <1>1, RecordsKept
<1>3. QED
  BY <1>1, <1>2 DEF ListenerOK, Inv, TypeOK

\* ProcessInitiateRelationship.
LEMMA ProcessInitiateSound ==
    ASSUME Inv, NEW p \in Node, NEW t \in DOMAIN network,
           network[t].kind = "initiate", IsOurs(p, network[t]),
           UNCHANGED network, ProcessInitiate(p, t)
    PROVE  ListenerOK
<1>1. CASE FindForTxId(p, t) # 0
  BY <1>1, ListenerIgnores DEF ProcessInitiate
<1>2. CASE FindForTxId(p, t) = 0
  <2>1. /\ rs' = [rs EXCEPT ![p] = Append(@, InitiatedRecord(p, t))]
        /\ indep' = [indep EXCEPT ![p] = @ \cup {NextKey(InitiatedRecord(p, t))}]
        /\ UNCHANGED inbox
    BY <1>2 DEF ProcessInitiate
  <2>2. PICK r \in Relationship : r = InitiatedRecord(p, t) /\ RecordOK(p, r)
    BY InitiatedRecordSound
  <2>3. rs' = [rs EXCEPT ![p] = Append(rs[p], r)]
    BY <2>1, <2>2
  <2>4. /\ rs' \in [Node -> Seq(Relationship)]
        /\ RecordsOK' /\ RecordsExtend /\ NetworkExtends
    BY <2>2, <2>3, RecordAdded
  <2>5. indep' = [indep EXCEPT ![p] = @ \cup {NextKey(r)}]
    BY <2>1, <2>2
  <2>6. indep' \in [Node -> SUBSET PublicKey]
    BY <2>5, KeyRegistered
  <2>7. QED
    BY <2>1, <2>4, <2>6 DEF ListenerOK, Inv, TypeOK
<1>3. QED
  BY <1>1, <1>2

\* What an accept or a message makes of its record is still the record of
\* that relationship.
LEMMA ProcessedSound ==
    ASSUME NEW r \in Relationship, NEW a \in Relationship, Replaces(a, r),
           NEW m \in DOMAIN a.members, NEW tx, NEW sending \in BOOLEAN
    PROVE  /\ Processed(tx, sending, m, a) \in Relationship
           /\ Replaces(Processed(tx, sending, m, a), r)
<1>1. LET s == [a EXCEPT !.accepted = TRUE] IN
      s \in Relationship /\ Replaces(s, r)
  BY DEF Relationship, Replaces
<1>2. LET s == [a EXCEPT !.members[m].accepted = TRUE] IN
      s \in Relationship /\ Replaces(s, r)
  <2> DEFINE ms == [a.members EXCEPT ![m] = [a.members[m] EXCEPT !.accepted = TRUE]]
             s == [a EXCEPT !.members = ms]
  <2>1. a.members \in Seq(MemberRecord) /\ m \in 1..Len(a.members)
        /\ DOMAIN a.members = 1..Len(a.members)
    BY LenProperties DEF Relationship
  <2>2. \A x \in MemberRecord :
           LET y == [x EXCEPT !.accepted = TRUE] IN
           y \in MemberRecord /\ y.next = x.next
    BY DEF MemberRecord
  <2>3. a.members[m] \in MemberRecord
    BY <2>1, ElementOfSeq
  <2>4. PICK y \in MemberRecord : /\ y = [a.members[m] EXCEPT !.accepted = TRUE]
                                 /\ y.next = a.members[m].next
    BY <2>2, <2>3
  <2>5. ms = [a.members EXCEPT ![m] = y]
    BY <2>4
  <2>a. /\ [a.members EXCEPT ![m] = y] \in Seq(MemberRecord)
        /\ Len([a.members EXCEPT ![m] = y]) = Len(a.members)
        /\ \A i \in 1..Len(a.members) : [a.members EXCEPT ![m] = y][i]
                                          = IF i = m THEN y ELSE a.members[i]
    BY <2>1, ExceptSeq
  <2> HIDE DEF ms
  <2>6. /\ ms \in Seq(MemberRecord)
        /\ Len(ms) = Len(a.members)
        /\ \A i \in 1..Len(a.members) :
              ms[i] = IF i = m THEN y ELSE a.members[i]
    BY <2>5, <2>a
  <2>7. DOMAIN ms = DOMAIN a.members
    BY <2>1, <2>6, LenProperties
  <2>8. \A i \in DOMAIN ms : ms[i].next > 0
    BY <2>1, <2>4, <2>6, <2>7 DEF Replaces
  <2>9. ms # <<>>
    <3>1. DOMAIN ms # {}
      BY <2>7
    <3>2. DOMAIN <<>> = {}
      OBVIOUS
    <3>3. QED
      BY <3>1, <3>2
  <2>10. /\ s \in Relationship
         /\ s.txid = a.txid /\ s.enc = a.enc /\ s.key = a.key
         /\ s.next = a.next /\ s.members = ms
    BY <2>6 DEF Relationship
  <2>11. Replaces(s, r)
    <3> HIDE DEF s
    <3>1. QED
      BY <2>8, <2>9, <2>10 DEF Replaces
  <2>12. s = [a EXCEPT !.members[m].accepted = TRUE]
    BY DEF ms
  <2>13. QED
    BY <2>10, <2>11, <2>12
<1>3. QED
  BY <1>1, <1>2 DEF Processed

\* ProcessAcceptRelationship and ProcessPrivateMessage.
LEMMA ProcessInRelationshipSound ==
    ASSUME Inv, NEW p \in Node, NEW t \in DOMAIN network,
           UNCHANGED network, ProcessInRelationship(p, t)
    PROVE  ListenerOK
<1> DEFINE tx == network[t]
           k == RelationshipForTx(p, tx)
           advanced == AdvanceForTx(p, tx, rs[p][k])
           sending == Owns(p, tx.from)
           m == SendingMember(rs[p][k], tx)
<1>1. CASE k = 0
  BY <1>1, ListenerIgnores DEF ProcessInRelationship
<1>2. CASE k # 0
  <2>1. /\ rs' = [rs EXCEPT ![p][k] = Processed(tx, sending, m, advanced)]
        /\ indep' = [indep EXCEPT ![p] =
                        IF UsesNextKey(p, tx, rs[p][k])
                        THEN @ \cup {NextKey(advanced)} ELSE @]
        /\ inbox' = [inbox EXCEPT ![p] =
                        IF sending THEN @
                        ELSE @ \cup {[t |-> t, rel |-> rs[p][k].txid,
                                      base |-> rs[p][k].members[m].base]}]
    BY <1>2 DEF ProcessInRelationship, Logged
  <2>2. k \in DOMAIN rs[p] /\ t \in Nat
    BY <1>2, RelationshipForTxFinds, TxType
  <2> HIDE DEF k
  <2>3. PICK r \in Relationship : r = rs[p][k] /\ RecordOK(p, r)
    BY <2>2, RecordType
  <2>4. PICK a \in Relationship : /\ a = advanced /\ Replaces(a, r)
                                 /\ DOMAIN a.members = DOMAIN r.members
    BY <2>3, AdvanceForTxSound
  <2>5. m \in DOMAIN r.members
    BY <2>3, SendingMemberFinds DEF RecordOK
  <2>6. sending \in BOOLEAN
    BY DEF Owns
  <2>7. PICK s \in Relationship : /\ s = Processed(tx, sending, m, advanced)
                                 /\ Replaces(s, r)
    <3> HIDE DEF m, sending, tx, advanced
    <3>1. QED
      BY <2>4, <2>5, <2>6, ProcessedSound
  <2>8. /\ rs' \in [Node -> Seq(Relationship)]
        /\ RecordsOK' /\ RecordsExtend /\ NetworkExtends
    <3>1. rs' = [rs EXCEPT ![p][k] = s]
      BY <2>1, <2>7
    <3>2. Replaces(s, rs[p][k])
      BY <2>3, <2>7
    <3>3. QED
      BY <2>2, <3>1, <3>2, RecordUpdated
  <2>9. indep' \in [Node -> SUBSET PublicKey]
    <3>1. NextKey(a) \in PublicKey
      BY DEF NextKey, Derived, PublicKey, Relationship
    <3>2. indep \in [Node -> SUBSET PublicKey]
      BY DEF Inv, TypeOK
    <3>3. indep' = [indep EXCEPT ![p] = IF UsesNextKey(p, tx, rs[p][k])
                                        THEN @ \cup {NextKey(a)} ELSE @]
      BY <2>1, <2>4
    <3>4. QED
      BY <3>1, <3>2, <3>3
  <2>10. inbox' \in [Node -> SUBSET [t : Nat, rel : Nat, base : BaseKey]]
    <3>1. rs[p][k].members[m].base \in BaseKey
      <4>1. r.members \in Seq(MemberRecord)
        BY DEF Relationship
      <4> HIDE DEF m
      <4>2. r.members[m] \in MemberRecord
        BY <2>5, <4>1, LenProperties, ElementOfSeq
      <4>3. QED
        BY <2>3, <4>2 DEF MemberRecord
    <3>2. rs[p][k].txid \in Nat
      BY <2>3 DEF Relationship
    <3>3. PICK e \in [t : Nat, rel : Nat, base : BaseKey] :
              e = [t |-> t, rel |-> rs[p][k].txid,
                   base |-> rs[p][k].members[m].base]
      BY <2>2, <3>1, <3>2
    <3>4. inbox' = [inbox EXCEPT ![p] = IF sending THEN @ ELSE @ \cup {e}]
      BY <2>1, <3>3
    <3>5. inbox \in [Node -> SUBSET [t : Nat, rel : Nat, base : BaseKey]]
      BY DEF Inv, TypeOK
    <3> HIDE DEF sending
    <3>6. QED
      BY <3>4, <3>5
  <2>11. QED
    BY <2>8, <2>9, <2>10 DEF ListenerOK
<1>3. QED
  BY <1>1, <1>2

\* ProcessTx: decrypted or not, an initiate or a later transaction.
LEMMA ProcessTxKeepsInv ==
    ASSUME Inv, NEW p \in Node, NEW t \in DOMAIN network, ProcessTx(p, t)
    PROVE  Inv'
<1>1. /\ t \in txs[p]
      /\ promoted' = [promoted EXCEPT ![p] = @ \cup {t}]
      /\ UNCHANGED network /\ UNCHANGED out /\ UNCHANGED cmd /\ UNCHANGED txs
  BY DEF ProcessTx
<1>2. ListenerOK
  <2>1. CASE ~Decrypts(p, network[t])
    BY <1>1, <2>1, ListenerIgnores DEF ProcessTx
  <2>2. CASE Decrypts(p, network[t]) /\ network[t].kind = "initiate"
    <3>1. ProcessInitiate(p, t)
      BY <2>2 DEF ProcessTx
    <3>2. IsOurs(p, network[t])
      BY <2>2 DEF Decrypts, DecryptDirect
    <3>3. QED
      BY <1>1, <2>2, <3>1, <3>2, ProcessInitiateSound
  <2>3. CASE Decrypts(p, network[t]) /\ network[t].kind # "initiate"
    <3>1. ProcessInRelationship(p, t)
      BY <2>3 DEF ProcessTx
    <3>2. QED
      BY <1>1, <3>1, ProcessInRelationshipSound
  <2>4. QED
    BY <2>1, <2>2, <2>3
<1>3. network' \in Seq(Tx) /\ TxsOK'
  BY <1>1, NetworkKept
<1>4. CommandsOK'
  BY <1>1, <1>2, CommandsKept DEF ListenerOK
<1>5. /\ txs' \in [Node -> SUBSET (DOMAIN network')]
      /\ promoted' \in [Node -> SUBSET (DOMAIN network')]
      /\ \A q \in Node : promoted'[q] \subseteq txs'[q]
  BY <1>1 DEF Inv, TypeOK
<1>6. /\ out' \in [Node -> Nat]
      /\ cmd' \in [Node -> [Conn -> Command]]
  BY <1>1 DEF Inv, TypeOK
<1>7. QED
  BY <1>2, <1>3, <1>4, <1>5, <1>6 DEF ListenerOK, Inv, TypeOK, Structure

-----------------------------------------------------------------------------
(* The invariant, and with it type correctness and structure.              *)

\* The daemons start with nothing.
LEMMA InitInv == Init => Inv
<1> SUFFICES ASSUME Init PROVE Inv
  OBVIOUS
<1>1. network = <<>> /\ <<>> \in Seq(Tx) /\ DOMAIN network = {}
  BY EmptySeq DEF Init
<1>2. /\ rs = [p \in Node |-> <<>>]
      /\ <<>> \in Seq(Relationship)
      /\ \A p \in Node : DOMAIN rs[p] = {}
  BY EmptySeq DEF Init
<1>3. /\ cmd = [p \in Node |-> [c \in Conn |-> NoCommand]]
      /\ NoCommand \in Command
      /\ \A p \in Node, c \in Conn : CommandOK(p, cmd[p][c])
  BY NoCommandOK DEF Init
<1>4. TypeOK
  BY <1>1, <1>2, <1>3 DEF TypeOK, Init
<1>5. TxsOK
  BY <1>1 DEF TxsOK
<1>6. RecordsOK
  BY <1>2 DEF RecordsOK
<1>7. CommandsOK
  BY <1>3 DEF CommandsOK, CommandOK
<1>8. QED
  BY <1>4, <1>5, <1>6, <1>7 DEF Inv, Structure

\* Every step of a client command or of the listener keeps it.
LEMMA NextInv == Inv /\ [Next]_vars => Inv'
<1> SUFFICES ASSUME Inv, [Next]_vars PROVE Inv'
  OBVIOUS
<1>1. CASE UNCHANGED vars
  <2>1. TypeOK'
    BY <1>1 DEF vars, Inv, TypeOK
  <2>2. UNCHANGED network /\ UNCHANGED rs /\ UNCHANGED cmd
    BY <1>1 DEF vars
  <2>3. TxsOK /\ RecordsOK /\ CommandsOK
    BY DEF Inv, Structure
  <2>4. TxsOK' /\ RecordsOK'
    BY <2>2, <2>3 DEF TxsOK, RecordsOK
  <2>5. CommandsOK'
    <3>1. ASSUME NEW q \in Node, NEW c \in Conn PROVE CommandOK(q, cmd[q][c])'
      <4>1. CommandOK(q, cmd[q][c])
        BY <2>3 DEF CommandsOK, CommandOK
      <4>2. QED
        BY <2>2, <4>1 DEF CommandOK
    <3>2. QED
      BY <3>1 DEF CommandsOK, CommandOK
  <2>6. QED
    BY <2>1, <2>4, <2>5 DEF Inv, Structure
<1>2. CASE Next
  <2>1. PICK p \in Node :
            \/ \E c \in Conn : UserStep(p, c) \/ CommandStep(p, c)
            \/ ListenerStep(p)
    BY <1>2 DEF Next
  <2>2. ASSUME NEW c \in Conn, UserStep(p, c) PROVE Inv'
    BY <2>2, InitiateKeepsInv, InitiateFailsKeepsInv, BuildKeepsInv DEF UserStep
  <2>3. ASSUME NEW c \in Conn, CommandStep(p, c) PROVE Inv'
    BY <2>3, RecordInitiatedKeepsInv, RegisterInitiatedKeepsInv,
       BroadcastKeepsInv, BroadcastFailsKeepsInv, AdvanceOwnKeepsInv,
       AdvanceMembersKeepsInv DEF CommandStep
  <2>4. ASSUME ListenerStep(p) PROVE Inv'
    BY <2>4, HandleTxKeepsInv, ProcessTxKeepsInv DEF ListenerStep
  <2>5. QED
    BY <2>1, <2>2, <2>3, <2>4
<1>3. QED
  BY <1>1, <1>2

\* Inv holds in every reachable state.
THEOREM InvHolds == Spec => []Inv
BY InitInv, NextInv, PTL DEF Spec

\* Type correctness: what a daemon keeps, takes and processes has the declared
\* form, whatever client commands and listener callbacks interleave.
THEOREM TypeCorrect == Spec => []TypeOK
<1>1. Inv => TypeOK
  BY DEF Inv
<1>2. QED
  BY <1>1, InvHolds, PTL

\* Transactions, records and running commands never dangle nor cross from one
\* relationship into another.
THEOREM StructureHolds == Spec => []Structure
<1>1. Inv => Structure
  BY DEF Inv
<1>2. QED
  BY <1>1, InvHolds, PTL

-----------------------------------------------------------------------------
(* KeysRegistered is inductive together with: a command that has broadcast *)
(* has a record whose keys are all registered, since it could not have     *)
(* signed otherwise.                                                       *)

Registered(p, k) ==
    \A i \in 1..rs[p][k].next : Derived(rs[p][k].key, rs[p][k].txid, i) \in indep[p]
Recording(p, k) ==
    /\ rs[p][k].next = 1
    /\ \E c \in Conn : cmd[p][c].pc = "recorded" /\ cmd[p][c].k = k

KeyInv ==
    /\ \A p \in Node : \A k \in DOMAIN rs[p] : Registered(p, k) \/ Recording(p, k)
    /\ \A p \in Node : \A c \in Conn :
          cmd[p][c].pc = "sent" => Registered(p, cmd[p][c].k)

\* A record whose next key is registered has all of them registered.
LEMMA NextKeyRegistered ==
    ASSUME Inv, KeyInv, NEW p \in Node, NEW k \in DOMAIN rs[p],
           NextKey(rs[p][k]) \in indep[p]
    PROVE  Registered(p, k)
<1>1. Registered(p, k) \/ rs[p][k].next = 1
  BY DEF KeyInv, Recording
<1>2. CASE rs[p][k].next = 1
  BY <1>2 DEF Registered, NextKey
<1>3. QED
  BY <1>1, <1>2

\* What a step has to do with keys: it forgets none, it registers those of a
\* record it makes or moves on, and a command goes from "recorded", or to
\* "sent", with all keys registered.
LEMMA KeyStep ==
    ASSUME Inv, KeyInv, RecordsExtend,
           \A q \in Node : indep[q] \subseteq indep'[q],
           \A q \in Node : \A k \in DOMAIN rs'[q] :
              \/ k \in DOMAIN rs[q] /\ rs'[q][k].next = rs[q][k].next
              \/ Registered(q, k)'
              \/ Recording(q, k)',
           \A q \in Node : \A e \in Conn :
              \/ cmd'[q][e] = cmd[q][e]
              \/ \A k :
                    /\ cmd'[q][e].pc = "sent" /\ cmd'[q][e].k = k =>
                          Registered(q, k)'
                    /\ cmd[q][e].pc = "recorded" /\ cmd[q][e].k = k =>
                          Registered(q, k)'
    PROVE  KeyInv'
<1>1. ASSUME NEW q \in Node, NEW k \in DOMAIN rs[q], Registered(q, k),
             rs'[q][k].next = rs[q][k].next
      PROVE  Registered(q, k)'
  BY <1>1 DEF Registered, RecordsExtend
<1>2. ASSUME NEW q \in Node, NEW k \in DOMAIN rs'[q]
      PROVE  Registered(q, k)' \/ Recording(q, k)'
  <2>1. CASE k \in DOMAIN rs[q] /\ rs'[q][k].next = rs[q][k].next
    <3>1. CASE Registered(q, k)
      BY <1>1, <2>1, <3>1
    <3>2. CASE Recording(q, k)
      <4>1. PICK e \in Conn : cmd[q][e].pc = "recorded" /\ cmd[q][e].k = k
        BY <3>2 DEF Recording
      <4>2. CASE cmd'[q][e] = cmd[q][e]
        BY <2>1, <3>2, <4>1, <4>2 DEF Recording
      <4>3. CASE cmd'[q][e] # cmd[q][e]
        BY <4>1, <4>3
      <4>4. QED
        BY <4>2, <4>3
    <3>3. QED
      BY <2>1, <3>1, <3>2 DEF KeyInv
  <2>2. QED
    BY <2>1
<1>3. ASSUME NEW q \in Node, NEW e \in Conn, NEW k,
             cmd'[q][e].pc = "sent", cmd'[q][e].k = k
      PROVE  Registered(q, k)'
  <2>1. CASE cmd'[q][e] # cmd[q][e]
    BY <1>3, <2>1
  <2>2. CASE cmd'[q][e] = cmd[q][e]
    <3>1. k \in DOMAIN rs[q] /\ Registered(q, k)
      BY <1>3, <2>2 DEF KeyInv, Inv, Structure, CommandsOK
    <3>2. k \in DOMAIN rs'[q]
      BY <3>1 DEF RecordsExtend
    <3>3. CASE rs'[q][k].next = rs[q][k].next
      BY <1>1, <3>1, <3>3
    <3>4. CASE Recording(q, k)'
      <4>1. rs'[q][k].next = 1
        BY <3>4 DEF Recording
      <4>2. rs[q][k].next \in Nat /\ rs[q][k].next > 0
        BY <3>1, RecordType DEF RecordOK, Relationship
      <4>3. Derived(rs[q][k].key, rs[q][k].txid, 1) \in indep[q]
        BY <3>1, <4>2 DEF Registered
      <4>4. QED
        BY <3>1, <4>1, <4>3 DEF Registered, RecordsExtend
    <3>5. QED
      BY <3>2, <3>3, <3>4
  <2>3. QED
    BY <2>1, <2>2
<1>4. QED
  BY <1>2, <1>3 DEF KeyInv

\* Steps that leave records and keys alone, and take a command neither from
\* "recorded" nor to "sent".
LEMMA KeyFrame ==
    ASSUME Inv, KeyInv, UNCHANGED rs, UNCHANGED indep,
           \A q \in Node : \A e \in Conn :
              \/ cmd'[q][e] = cmd[q][e]
              \/ cmd[q][e].pc # "recorded" /\ cmd'[q][e].pc # "sent"
    PROVE  KeyInv'
<1>1. RecordsExtend
  BY DEF RecordsExtend
<1>2. QED
  BY <1>1, KeyStep

\* What SetCmd does to every command.
LEMMA SetCmdEffect ==
    ASSUME Inv, NEW p \in Node, NEW c \in Conn, NEW d, SetCmd(p, c, d)
    PROVE  \A q \in Node : \A e \in Conn :
              cmd'[q][e] = IF q = p /\ e = c THEN d ELSE cmd[q][e]
BY DEF Inv, TypeOK, SetCmd

\* What an append does to every record.
LEMMA AppendedRecords ==
    ASSUME Inv, NEW p \in Node, NEW r, rs' = [rs EXCEPT ![p] = Append(rs[p], r)]
    PROVE  /\ DOMAIN rs'[p] = DOMAIN rs[p] \cup {Len(rs[p]) + 1}
           /\ rs'[p][Len(rs[p]) + 1] = r
           /\ \A q \in Node \ {p} : rs'[q] = rs[q]
           /\ \A q \in Node : \A k \in DOMAIN rs[q] : rs'[q][k] = rs[q][k]
<1> DEFINE S == Relationship \cup {r}
<1>1. rs[p] \in Seq(S)
  <2>1. rs[p] \in Seq(Relationship)
    BY DEF Inv, TypeOK
  <2>2. \A i \in 1..Len(rs[p]) : rs[p][i] \in S
    BY <2>1, ElementOfSeq
  <2>3. Len(rs[p]) \in Nat /\ rs[p] = [i \in 1..Len(rs[p]) |-> rs[p][i]]
    BY <2>1, LenProperties
  <2> HIDE DEF S
  <2>4. QED
    BY <2>2, <2>3, SeqDef
<1>2. r \in S
  OBVIOUS
<1> HIDE DEF S
<1>3. /\ Append(rs[p], r) \in Seq(S)
      /\ Len(Append(rs[p], r)) = Len(rs[p]) + 1
      /\ \A i \in 1..Len(rs[p]) : Append(rs[p], r)[i] = rs[p][i]
      /\ Append(rs[p], r)[Len(rs[p]) + 1] = r
  BY <1>1, <1>2, AppendProperties
<1>4. /\ DOMAIN rs[p] = 1..Len(rs[p])
      /\ DOMAIN Append(rs[p], r) = 1..Len(rs[p]) + 1
      /\ Len(rs[p]) \in Nat
  BY <1>1, <1>3, LenProperties
<1>5. \A q \in Node : rs'[q] = IF q = p THEN Append(rs[p], r) ELSE rs[q]
  BY DEF Inv, TypeOK
<1>6. /\ rs'[p] = Append(rs[p], r)
      /\ \A q \in Node \ {p} : rs'[q] = rs[q]
  BY <1>5
<1>7. DOMAIN rs'[p] = DOMAIN rs[p] \cup {Len(rs[p]) + 1}
  BY <1>4, <1>6
<1>8. \A k \in DOMAIN rs[p] : rs'[p][k] = rs[p][k]
  BY <1>3, <1>4, <1>6
<1>9. QED
  BY <1>3, <1>6, <1>7, <1>8

\* The steps that leave records and keys alone.
LEMMA QuietStepsKeepKeys ==
    ASSUME Inv, KeyInv, NEW p \in Node, NEW c \in Conn,
           \/ \E recv \in Invites[p] :
                 Initiate(p, c, recv) \/ InitiateFails(p, c, recv)
           \/ \E kind \in {"accept", "message"}, k \in DOMAIN rs[p] :
                 Build(p, c, kind, k)
           \/ BroadcastFails(p, c)
           \/ \E t \in DOMAIN network : HandleTx(p, t)
    PROVE  KeyInv'
<1>1. UNCHANGED rs /\ UNCHANGED indep
  BY DEF Initiate, InitiateFails, Build, BroadcastFails, HandleTx
<1>2. \/ UNCHANGED cmd
      \/ \E d : /\ SetCmd(p, c, d) /\ d.pc # "sent"
                /\ cmd[p][c].pc # "recorded"
  <2>1. ASSUME NEW recv \in Invites[p], Initiate(p, c, recv)
        PROVE  \E d : /\ SetCmd(p, c, d) /\ d.pc # "sent"
                      /\ cmd[p][c].pc # "recorded"
    <3>1. SetCmd(p, c, Initiated(Len(network) + 1)) /\ cmd[p][c] = NoCommand
      BY <2>1 DEF Initiate, MayInitiate, Initiated
    <3>2. Initiated(Len(network) + 1).pc = "initiated"
      BY NextInitiated DEF Inv, TypeOK
    <3>3. QED
      BY <3>1, <3>2 DEF NoCommand
  <2>2. ASSUME NEW kind \in {"accept", "message"}, NEW k \in DOMAIN rs[p],
               Build(p, c, kind, k)
        PROVE  \E d : /\ SetCmd(p, c, d) /\ d.pc # "sent"
                      /\ cmd[p][c].pc # "recorded"
    BY <2>2, BuildSets
  <2>3. ASSUME BroadcastFails(p, c)
        PROVE  \E d : /\ SetCmd(p, c, d) /\ d.pc # "sent"
                      /\ cmd[p][c].pc # "recorded"
    BY <2>3 DEF BroadcastFails, NoCommand
  <2>4. QED
    BY <2>1, <2>2, <2>3 DEF InitiateFails, HandleTx
<1>3. CASE UNCHANGED cmd
  BY <1>1, <1>3, KeyFrame
<1>4. ASSUME NEW d, SetCmd(p, c, d), d.pc # "sent", cmd[p][c].pc # "recorded"
      PROVE  KeyInv'
  BY <1>1, <1>4, SetCmdEffect, KeyFrame
<1>5. QED
  BY <1>2, <1>3, <1>4

\* The initiator's record, not registered yet.
LEMMA RecordInitiatedKeepsKeys ==
    ASSUME Inv, KeyInv, NEW p \in Node, NEW c \in Conn, RecordInitiated(p, c)
    PROVE  KeyInv'
<1> DEFINE r == InitiatorRecord(cmd[p][c].t)
<1>1. /\ rs' = [rs EXCEPT ![p] = Append(rs[p], r)]
      /\ SetCmd(p, c, Recorded(Len(rs[p]) + 1))
      /\ cmd[p][c].pc = "initiated"
      /\ UNCHANGED indep
  BY DEF RecordInitiated, Recorded
<1>2. r.next = 1
  BY DEF InitiatorRecord
<1>3. PICK d : /\ d = Recorded(Len(rs[p]) + 1)
              /\ d.pc = "recorded" /\ d.k = Len(rs[p]) + 1
  BY CommandTypes, LenProperties DEF Inv, TypeOK
<1>4. \A q \in Node : \A e \in Conn :
         cmd'[q][e] = IF q = p /\ e = c THEN d ELSE cmd[q][e]
  BY <1>1, <1>3, SetCmdEffect
<1> HIDE DEF r
<1>5. /\ DOMAIN rs'[p] = DOMAIN rs[p] \cup {Len(rs[p]) + 1}
      /\ rs'[p][Len(rs[p]) + 1] = r
      /\ \A q \in Node \ {p} : rs'[q] = rs[q]
      /\ \A q \in Node : \A k \in DOMAIN rs[q] : rs'[q][k] = rs[q][k]
  BY <1>1, AppendedRecords
<1>6. RecordsExtend
  BY <1>5 DEF RecordsExtend
<1>7. ASSUME NEW q \in Node, NEW k \in DOMAIN rs'[q]
      PROVE  \/ k \in DOMAIN rs[q] /\ rs'[q][k].next = rs[q][k].next
             \/ Recording(q, k)'
  <2>1. CASE k \in DOMAIN rs[q]
    BY <1>5, <2>1
  <2>2. CASE k \notin DOMAIN rs[q]
    <3>1. q = p /\ k = Len(rs[p]) + 1
      BY <1>5, <2>2
    <3>2. rs'[q][k].next = 1
      BY <1>2, <1>5, <3>1
    <3>3. cmd'[p][c].pc = "recorded" /\ cmd'[p][c].k = k
      BY <1>3, <1>4, <3>1
    <3>4. QED
      BY <3>1, <3>2, <3>3 DEF Recording
  <2>3. QED
    BY <2>1, <2>2
<1>8. QED
  BY <1>1, <1>3, <1>4, <1>6, <1>7, KeyStep

\* ... until AddIndependentKey.
LEMMA RegisterInitiatedKeepsKeys ==
    ASSUME Inv, KeyInv, NEW p \in Node, NEW c \in Conn, RegisterInitiated(p, c)
    PROVE  KeyInv'
<1>1. /\ indep' = [indep EXCEPT ![p] = @ \cup {NextKey(rs[p][cmd[p][c].k])}]
      /\ SetCmd(p, c, NoCommand)
      /\ cmd[p][c].pc = "recorded"
      /\ UNCHANGED rs
  BY DEF RegisterInitiated
<1>2. PICK k : k = cmd[p][c].k /\ k \in DOMAIN rs[p]
  BY <1>1 DEF Inv, Structure, CommandsOK
<1>3. \A q \in Node : indep'[q] = IF q = p THEN indep[p] \cup {NextKey(rs[p][k])}
                                  ELSE indep[q]
  BY <1>1, <1>2 DEF Inv, TypeOK
<1>4. Registered(p, k)'
  <2>1. CASE Registered(p, k)
    BY <1>1, <1>3, <2>1 DEF Registered
  <2>2. CASE rs[p][k].next = 1
    <3>1. 1..rs[p][k].next = {1} /\ rs'[p][k] = rs[p][k]
      BY <1>1, <2>2
    <3>2. Derived(rs[p][k].key, rs[p][k].txid, 1) \in indep'[p]
      BY <1>3, <2>2 DEF NextKey
    <3>3. QED
      BY <3>1, <3>2 DEF Registered
  <2>3. QED
    BY <1>2, <2>1, <2>2 DEF KeyInv, Recording
<1>5. \A q \in Node : \A e \in Conn :
         cmd'[q][e] = IF q = p /\ e = c THEN NoCommand ELSE cmd[q][e]
  BY <1>1, SetCmdEffect
<1>6. NoCommand.pc # "sent"
  BY DEF NoCommand
<1>7. RecordsExtend
  BY <1>1 DEF RecordsExtend
<1>8. \A q \in Node : indep[q] \subseteq indep'[q]
  BY <1>3
<1>9. \A q \in Node : \A j \in DOMAIN rs'[q] :
         j \in DOMAIN rs[q] /\ rs'[q][j].next = rs[q][j].next
  BY <1>1
<1>10. ASSUME NEW q \in Node, NEW e \in Conn, cmd'[q][e] # cmd[q][e], NEW j
       PROVE  /\ cmd'[q][e].pc = "sent" /\ cmd'[q][e].k = j => Registered(q, j)'
              /\ cmd[q][e].pc = "recorded" /\ cmd[q][e].k = j => Registered(q, j)'
  <2>1. q = p /\ e = c /\ cmd'[q][e] = NoCommand
    BY <1>5, <1>10
  <2>2. ASSUME cmd[q][e].k = j PROVE j = k
    BY <1>2, <2>1, <2>2
  <2>3. QED
    BY <1>4, <1>6, <2>1, <2>2
<1>11. QED
  BY <1>7, <1>8, <1>9, <1>10, KeyStep

\* A command can only sign with a registered key.
LEMMA BroadcastKeepsKeys ==
    ASSUME Inv, KeyInv, NEW p \in Node, NEW c \in Conn, Broadcast(p, c)
    PROVE  KeyInv'
<1>1. /\ cmd[p][c].pc = "built"
      /\ Owns(p, NextKey(rs[p][cmd[p][c].k]))
      /\ SetCmd(p, c, At(cmd[p][c], "sent"))
      /\ UNCHANGED rs /\ UNCHANGED indep
  BY DEF Broadcast, At
<1>2. PICK k : k = cmd[p][c].k /\ k \in DOMAIN rs[p]
  BY <1>1 DEF Inv, Structure, CommandsOK
<1>3. Registered(p, k)
  <2>1. rs[p][k].next > 0 /\ rs[p][k].next \in Nat
    BY <1>2, RecordType DEF RecordOK, Relationship
  <2>2. NextKey(rs[p][k]).i # 0
    BY <2>1 DEF NextKey, Derived
  <2>3. NextKey(rs[p][k]) \in indep[p]
    BY <1>1, <1>2, <2>2 DEF Owns
  <2>4. QED
    BY <1>2, <2>3, NextKeyRegistered
<1>4. Registered(p, k)'
  BY <1>1, <1>3 DEF Registered
<1>5. PICK d : d = At(cmd[p][c], "sent") /\ d.k = k
  <2>1. cmd[p][c] \in Command
    BY DEF Inv, TypeOK
  <2>2. QED
    BY <1>2, <2>1, CommandTypes
<1>6. \A q \in Node : \A e \in Conn :
         cmd'[q][e] = IF q = p /\ e = c THEN d ELSE cmd[q][e]
  BY <1>1, <1>5, SetCmdEffect
<1>7. RecordsExtend
  BY <1>1 DEF RecordsExtend
<1>8. ASSUME NEW q \in Node, NEW e \in Conn, cmd'[q][e] # cmd[q][e], NEW j
      PROVE  /\ cmd'[q][e].pc = "sent" /\ cmd'[q][e].k = j => Registered(q, j)'
             /\ cmd[q][e].pc = "recorded" /\ cmd[q][e].k = j => Registered(q, j)'
  BY <1>1, <1>4, <1>5, <1>6, <1>8
<1>9. \A q \in Node : indep[q] \subseteq indep'[q]
  BY <1>1
<1>10. \A q \in Node : \A j \in DOMAIN rs'[q] :
          j \in DOMAIN rs[q] /\ rs'[q][j].next = rs[q][j].next
  BY <1>1
<1>11. QED
  BY <1>7, <1>8, <1>9, <1>10, KeyStep

\* IncrementHash moves the next index on, and nothing else.
LEMMA IncrementHashType ==
    ASSUME NEW r \in Relationship
    PROVE  LET s == IncrementHash(r) IN
           /\ s \in Relationship
           /\ s.txid = r.txid /\ s.enc = r.enc /\ s.key = r.key
           /\ s.members = r.members
           /\ s.next = r.next + 1
BY DEF IncrementHash, Relationship

\* A record updated in place: its next index stays, or moves on by one to a
\* key that is registered.
LEMMA UpdateKeepsKeys ==
    ASSUME Inv, KeyInv, NEW p \in Node, NEW k \in DOMAIN rs[p], NEW s,
           rs' = [rs EXCEPT ![p][k] = s],
           s.txid = rs[p][k].txid, s.enc = rs[p][k].enc, s.key = rs[p][k].key,
           \A q \in Node : indep[q] \subseteq indep'[q],
           \/ s.next = rs[p][k].next
           \/ /\ s.next = rs[p][k].next + 1
              /\ Registered(p, k)
              /\ NextKey(s) \in indep'[p],
           \A q \in Node : \A e \in Conn :
              \/ cmd'[q][e] = cmd[q][e]
              \/ cmd[q][e].pc # "recorded" /\ cmd'[q][e].pc # "sent"
    PROVE  KeyInv'
<1>1. /\ \A q \in Node : DOMAIN rs'[q] = DOMAIN rs[q]
      /\ \A q \in Node : \A j \in DOMAIN rs[q] :
            rs'[q][j] = IF q = p /\ j = k THEN s ELSE rs[q][j]
  BY DEF Inv, TypeOK
<1>2. RecordsExtend
  BY <1>1 DEF RecordsExtend
<1>3. ASSUME s.next = rs[p][k].next + 1, Registered(p, k), NextKey(s) \in indep'[p]
      PROVE  Registered(p, k)'
  <2>1. rs[p][k].next \in Nat
    BY RecordType DEF RecordOK, Relationship
  <2>2. rs'[p][k] = s
    BY <1>1
  <2>3. ASSUME NEW i \in 1..s.next
        PROVE  Derived(s.key, s.txid, i) \in indep'[p]
    <3>1. CASE i = s.next
      BY <1>3, <3>1 DEF NextKey
    <3>2. CASE i # s.next
      <4>1. i \in 1..rs[p][k].next
        BY <1>3, <2>1, <3>2
      <4>2. QED
        BY <1>3, <4>1 DEF Registered
    <3>3. QED
      BY <3>1, <3>2
  <2>4. QED
    BY <2>2, <2>3 DEF Registered
<1>4. \A q \in Node : \A j \in DOMAIN rs'[q] :
         \/ j \in DOMAIN rs[q] /\ rs'[q][j].next = rs[q][j].next
         \/ Registered(q, j)'
  BY <1>1, <1>3
<1>5. QED
  BY <1>2, <1>4, KeyStep

\* The index of the sender moves on, to a key that joins the wallet's.
LEMMA AdvanceOwnKeepsKeys ==
    ASSUME Inv, KeyInv, NEW p \in Node, NEW c \in Conn, AdvanceOwn(p, c)
    PROVE  KeyInv'
<1>1. /\ cmd[p][c].pc = "sent"
      /\ rs' = [rs EXCEPT ![p][cmd[p][c].k] = IncrementHash(rs[p][cmd[p][c].k])]
      /\ indep' = [indep EXCEPT ![p] = @ \cup {NextKey(IncrementHash(rs[p][cmd[p][c].k]))}]
      /\ SetCmd(p, c, At(cmd[p][c], "advanced"))
  BY DEF AdvanceOwn, At
<1>2. PICK k : k = cmd[p][c].k /\ k \in DOMAIN rs[p] /\ Registered(p, k)
  <2>1. cmd[p][c].k \in DOMAIN rs[p]
    BY <1>1, CommandHeld
  <2>2. Registered(p, cmd[p][c].k)
    BY <1>1 DEF KeyInv
  <2>3. QED
    BY <2>1, <2>2
<1>3. PICK s \in Relationship :
          /\ s = IncrementHash(rs[p][k])
          /\ s.txid = rs[p][k].txid /\ s.enc = rs[p][k].enc
          /\ s.key = rs[p][k].key /\ s.next = rs[p][k].next + 1
  <2>1. rs[p][k] \in Relationship
    BY <1>2, RecordType
  <2>2. QED
    BY <2>1, IncrementHashType
<1>4. /\ NextKey(s) \in indep'[p]
      /\ \A q \in Node : indep[q] \subseteq indep'[q]
  BY <1>1, <1>2, <1>3 DEF Inv, TypeOK
<1>5. PICK d : d = At(cmd[p][c], "advanced") /\ d.pc = "advanced"
  <2>1. cmd[p][c] \in Command
    BY DEF Inv, TypeOK
  <2>2. QED
    BY <2>1, CommandTypes
<1>6. \A q \in Node : \A e \in Conn :
         cmd'[q][e] = IF q = p /\ e = c THEN d ELSE cmd[q][e]
  BY <1>1, <1>5, SetCmdEffect
<1>7. \A q \in Node : \A e \in Conn :
         \/ cmd'[q][e] = cmd[q][e]
         \/ cmd[q][e].pc # "recorded" /\ cmd'[q][e].pc # "sent"
  BY <1>1, <1>5, <1>6
<1>8. rs' = [rs EXCEPT ![p][k] = s]
  BY <1>1, <1>2, <1>3
<1>9. QED
  BY <1>2, <1>3, <1>4, <1>7, <1>8, UpdateKeepsKeys

\* The keys of the others are not ours to watch.
LEMMA AdvanceMembersKeepsKeys ==
    ASSUME Inv, KeyInv, NEW p \in Node, NEW c \in Conn, AdvanceMembers(p, c)
    PROVE  KeyInv'
<1> DEFINE k == cmd[p][c].k
           paid == {i \in DOMAIN rs[p][k].members : rs[p][k].enc = 0}
           m == IncrementMembers(rs[p][k], paid)
           s == [m EXCEPT !.accepted = @ \/ cmd[p][c].kind = "accept"]
<1>1. /\ cmd[p][c].pc = "advanced"
      /\ rs' = [rs EXCEPT ![p][k] = s]
      /\ SetCmd(p, c, NoCommand)
      /\ UNCHANGED indep
  BY DEF AdvanceMembers
<1>2. k \in DOMAIN rs[p]
  BY <1>1 DEF Inv, Structure, CommandsOK
<1>3. PICK x \in Relationship :
          /\ x = m
          /\ x.txid = rs[p][k].txid /\ x.enc = rs[p][k].enc
          /\ x.key = rs[p][k].key /\ x.next = rs[p][k].next
  <2>1. rs[p][k] \in Relationship
    BY <1>2, RecordType
  <2> HIDE DEF k, paid
  <2>2. QED
    BY <2>1, IncrementMembersType
<1>4. /\ s.txid = rs[p][k].txid /\ s.enc = rs[p][k].enc
      /\ s.key = rs[p][k].key /\ s.next = rs[p][k].next
  <2> HIDE DEF m, k
  <2>1. s = [x EXCEPT !.accepted = @ \/ cmd[p][c].kind = "accept"]
    BY <1>3
  <2> HIDE DEF s
  <2>2. QED
    BY <1>3, <2>1 DEF Relationship
<1>5. \A q \in Node : \A e \in Conn :
         cmd'[q][e] = IF q = p /\ e = c THEN NoCommand ELSE cmd[q][e]
  <2>1. SetCmd(p, c, NoCommand)
    BY <1>1
  <2>2. QED
    BY <2>1, SetCmdEffect
<1>6. \A q \in Node : \A e \in Conn :
         \/ cmd'[q][e] = cmd[q][e]
         \/ cmd[q][e].pc # "recorded" /\ cmd'[q][e].pc # "sent"
  <2>1. cmd[p][c].pc = "advanced"
    BY <1>1
  <2>2. NoCommand.pc # "sent"
    BY DEF NoCommand
  <2>3. QED
    BY <1>5, <2>1, <2>2
<1> HIDE DEF k, s
<1>7. QED
  BY <1>1, <1>2, <1>4, <1>6, UpdateKeepsKeys

\* ProcessInitiateRelationship registers the first key of the record it makes.
LEMMA ProcessInitiateKeepsKeys ==
    ASSUME Inv, KeyInv, NEW p \in Node, NEW t \in DOMAIN network,
           UNCHANGED cmd, ProcessInitiate(p, t)
    PROVE  KeyInv'
<1>1. CASE FindForTxId(p, t) # 0
  BY <1>1, KeyFrame DEF ProcessInitiate
<1>2. CASE FindForTxId(p, t) = 0
  <2>1. PICK r : /\ r = InitiatedRecord(p, t)
                 /\ rs' = [rs EXCEPT ![p] = Append(rs[p], r)]
                 /\ indep' = [indep EXCEPT ![p] = @ \cup {NextKey(r)}]
    BY <1>2 DEF ProcessInitiate
  <2>2. r.next = 1
    BY <2>1 DEF InitiatedRecord
  <2>3. /\ DOMAIN rs'[p] = DOMAIN rs[p] \cup {Len(rs[p]) + 1}
        /\ rs'[p][Len(rs[p]) + 1] = r
        /\ \A q \in Node \ {p} : rs'[q] = rs[q]
        /\ \A q \in Node : \A k \in DOMAIN rs[q] : rs'[q][k] = rs[q][k]
    BY <2>1, AppendedRecords
  <2>4. RecordsExtend
    BY <2>3 DEF RecordsExtend
  <2>5. /\ NextKey(r) \in indep'[p]
        /\ \A q \in Node : indep[q] \subseteq indep'[q]
    BY <2>1 DEF Inv, TypeOK
  <2>6. PICK k : k = Len(rs[p]) + 1
    OBVIOUS
  <2>7. Registered(p, k)'
    <3>1. \A i \in 1..r.next : Derived(r.key, r.txid, i) \in indep'[p]
      BY <2>2, <2>5 DEF NextKey
    <3>2. QED
      BY <2>3, <2>6, <3>1 DEF Registered
  <2>8. \A q \in Node : \A j \in DOMAIN rs'[q] :
           \/ j \in DOMAIN rs[q] /\ rs'[q][j].next = rs[q][j].next
           \/ Registered(q, j)'
    BY <2>3, <2>6, <2>7
  <2>9. QED
    BY <2>4, <2>5, <2>8, KeyStep
<1>3. QED
  BY <1>1, <1>2

\* What an accept or a message marks is not an index.
LEMMA ProcessedFrame ==
    ASSUME NEW tx, NEW sending \in BOOLEAN, NEW m, NEW a \in Relationship
    PROVE  LET s == Processed(tx, sending, m, a) IN
           /\ s.txid = a.txid /\ s.enc = a.enc
           /\ s.key = a.key /\ s.next = a.next
BY DEF Processed, Relationship

\* GetRelationshipForTx moves our index on only past a key of ours that was
\* used, and a key that was used is registered.
LEMMA ProcessInRelationshipKeepsKeys ==
    ASSUME Inv, KeyInv, NEW p \in Node, NEW t \in DOMAIN network,
           UNCHANGED cmd, ProcessInRelationship(p, t)
    PROVE  KeyInv'
<1>1. PICK tx \in Tx : tx = network[t]
  BY TxType
<1> DEFINE k == RelationshipForTx(p, tx)
           advanced == AdvanceForTx(p, tx, rs[p][k])
           sending == Owns(p, tx.from)
           m == SendingMember(rs[p][k], tx)
<1>2. CASE k = 0
  BY <1>1, <1>2, KeyFrame DEF ProcessInRelationship
<1>3. CASE k # 0
  <2>1. /\ rs' = [rs EXCEPT ![p][k] = Processed(tx, sending, m, advanced)]
        /\ indep' = [indep EXCEPT ![p] =
                        IF UsesNextKey(p, tx, rs[p][k])
                        THEN @ \cup {NextKey(advanced)} ELSE @]
    BY <1>1, <1>3 DEF ProcessInRelationship
  <2>2. k \in DOMAIN rs[p]
    BY <1>3, RelationshipForTxFinds
  <2> HIDE DEF k
  <2>3. PICK r \in Relationship : r = rs[p][k] /\ RecordOK(p, r)
    BY <2>2, RecordType
  <2>4. PICK a \in Relationship :
            /\ a = advanced /\ a.txid = r.txid /\ a.key = r.key /\ a.enc = r.enc
            /\ a.next = IF UsesNextKey(p, tx, r) THEN r.next + 1 ELSE r.next
    <3> DEFINE x == IF UsesNextKey(p, tx, r) THEN IncrementHash(r) ELSE r
               which == {i \in DOMAIN r.members :
                            MemberKey(r, r.members[i]) \in KeysUsed(tx)}
    <3>1. PICK y \in Relationship :
              /\ y = x /\ y.txid = r.txid /\ y.key = r.key /\ y.enc = r.enc
              /\ y.next = IF UsesNextKey(p, tx, r) THEN r.next + 1 ELSE r.next
      <4>1. PICK y \in Relationship :
                /\ y = IncrementHash(r)
                /\ y.txid = r.txid /\ y.key = r.key /\ y.enc = r.enc
                /\ y.next = r.next + 1
        BY IncrementHashType
      <4>2. CASE UsesNextKey(p, tx, r)
        BY <4>1, <4>2
      <4>3. CASE ~UsesNextKey(p, tx, r)
        BY <4>3
      <4>4. QED
        BY <4>2, <4>3
    <3>2. advanced = IncrementMembers(x, which)
      BY <2>3 DEF AdvanceForTx
    <3> HIDE DEF x, which, advanced
    <3>3. QED
      BY <3>1, <3>2, IncrementMembersType
  <2>5. PICK s : /\ s = Processed(tx, sending, m, advanced)
                 /\ s.txid = r.txid /\ s.enc = r.enc /\ s.key = r.key
                 /\ s.next = a.next
    <3>1. sending \in BOOLEAN
      BY DEF Owns
    <3> HIDE DEF sending, m, advanced
    <3>2. QED
      BY <2>4, <3>1, ProcessedFrame
  <2>6. \A q \in Node : indep[q] \subseteq indep'[q]
    BY <2>1 DEF Inv, TypeOK
  <2>7. ASSUME UsesNextKey(p, tx, r)
        PROVE  Registered(p, k) /\ NextKey(s) \in indep'[p]
    <3>1. OurKey(p, tx) = NextKey(r) /\ Owns(p, OurKey(p, tx))
      BY <2>7, OurKeyOurs DEF UsesNextKey
    <3>2. NextKey(r).i # 0
      BY <2>3 DEF NextKey, Derived, RecordOK, Relationship
    <3>3. NextKey(rs[p][k]) \in indep[p]
      BY <2>3, <3>1, <3>2 DEF Owns
    <3>4. NextKey(s) = NextKey(advanced)
      BY <2>4, <2>5 DEF NextKey
    <3> HIDE DEF advanced
    <3>5. NextKey(advanced) \in indep'[p]
      BY <2>1, <2>3, <2>7 DEF Inv, TypeOK
    <3>6. QED
      BY <2>2, <3>3, <3>4, <3>5, NextKeyRegistered
  <2>8. \/ s.next = rs[p][k].next
        \/ /\ s.next = rs[p][k].next + 1
           /\ Registered(p, k)
           /\ NextKey(s) \in indep'[p]
    BY <2>3, <2>4, <2>5, <2>7
  <2>9. rs' = [rs EXCEPT ![p][k] = s]
    BY <2>1, <2>5
  <2>10. QED
    BY <2>2, <2>3, <2>5, <2>6, <2>8, <2>9, UpdateKeepsKeys
<1>4. QED
  BY <1>2, <1>3

\* The listener keeps KeyInv, whatever it is shown.
LEMMA ProcessTxKeepsKeys ==
    ASSUME Inv, KeyInv, NEW p \in Node, NEW t \in DOMAIN network, ProcessTx(p, t)
    PROVE  KeyInv'
<1>1. UNCHANGED cmd
  BY DEF ProcessTx
<1>2. CASE UNCHANGED <<rs, indep, inbox>>
  BY <1>1, <1>2, KeyFrame
<1>3. CASE ProcessInitiate(p, t)
  BY <1>1, <1>3, ProcessInitiateKeepsKeys
<1>4. CASE ProcessInRelationship(p, t)
  BY <1>1, <1>4, ProcessInRelationshipKeepsKeys
<1>5. QED
  BY <1>2, <1>3, <1>4 DEF ProcessTx

\* Every step keeps KeyInv.
LEMMA NextKeyInv == Inv /\ KeyInv /\ [Next]_vars => KeyInv'
<1> SUFFICES ASSUME Inv, KeyInv, [Next]_vars PROVE KeyInv'
  OBVIOUS
<1>1. CASE UNCHANGED vars
  BY <1>1, KeyFrame DEF vars
<1>2. CASE Next
  <2>1. PICK p \in Node :
            \/ \E c \in Conn : UserStep(p, c) \/ CommandStep(p, c)
            \/ ListenerStep(p)
    BY <1>2 DEF Next
  <2>2. ASSUME NEW c \in Conn, UserStep(p, c) PROVE KeyInv'
    BY <2>2, QuietStepsKeepKeys DEF UserStep
  <2>3. ASSUME NEW c \in Conn, CommandStep(p, c) PROVE KeyInv'
    BY <2>3, QuietStepsKeepKeys, RecordInitiatedKeepsKeys,
       RegisterInitiatedKeepsKeys, BroadcastKeepsKeys, AdvanceOwnKeepsKeys,
       AdvanceMembersKeepsKeys DEF CommandStep
  <2>4. ASSUME NEW t \in DOMAIN network, HandleTx(p, t) PROVE KeyInv'
    BY <2>4, KeyFrame DEF HandleTx
  <2>5. ASSUME NEW t \in DOMAIN network, ProcessTx(p, t) PROVE KeyInv'
    BY <2>5, ProcessTxKeepsKeys
  <2>6. QED
    BY <2>1, <2>2, <2>3, <2>4, <2>5 DEF ListenerStep
<1>3. QED
  BY <1>1, <1>2

\* KeyInv holds in every reachable state.
THEOREM KeyInvHolds == Spec => [](Inv /\ KeyInv)
<1>1. Init => KeyInv
  <2> SUFFICES ASSUME Init PROVE KeyInv
    OBVIOUS
  <2>1. \A p \in Node : rs[p] = <<>> /\ DOMAIN rs[p] = {}
    BY EmptySeq DEF Init
  <2>2. \A p \in Node : \A c \in Conn : cmd[p][c].pc # "sent"
    BY DEF Init, NoCommand
  <2>3. QED
    BY <2>1, <2>2 DEF KeyInv
<1>2. Inv /\ KeyInv /\ [Next]_vars => (Inv /\ KeyInv)'
  BY NextInv, NextKeyInv
<1>3. QED
  BY InitInv, <1>1, <1>2, PTL DEF Spec

\* The wallet watches every key a peer can have reason to use (IncrementHash
\* and AddIndependentKey), whatever interleaves, fails or is reordered.
THEOREM KeysRegisteredHolds == Spec => []KeysRegistered
<1>1. KeyInv => KeysRegistered
  BY DEF KeyInv, KeysRegistered, Registered, Recording
<1>2. QED
  BY <1>1, KeyInvHolds, PTL

-----------------------------------------------------------------------------
(* What a step makes of a record.                                          *)

\* A record that takes the place of another keeps its parties, and their
\* indexes do not go back.
Continues(s, r) ==
    /\ s.txid = r.txid /\ s.enc = r.enc /\ s.key = r.key
    /\ DOMAIN s.members = DOMAIN r.members
    /\ \A i \in DOMAIN r.members : s.members[i].base = r.members[i].base

SameView(s, r) ==
    \A i \in DOMAIN r.members : s.members[i].next = r.members[i].next

\* Relationship.IncrementHash leaves the parties alone.
LEMMA IncrementedRecord ==
    ASSUME NEW r \in Relationship
    PROVE  \E s \in Relationship :
              /\ s = IncrementHash(r)
              /\ s.txid = r.txid /\ s.key = r.key /\ s.enc = r.enc
              /\ s.next = r.next + 1
              /\ s.accepted = r.accepted /\ s.members = r.members
<1>1. IncrementHash(r).accepted = r.accepted
  BY DEF IncrementHash, Relationship
<1>2. QED
  BY <1>1, IncrementHashType

\* IncrementHash moves our index on and no other.
LEMMA AdvanceOwnEffect ==
    ASSUME Inv, NEW p \in Node, NEW c \in Conn, AdvanceOwn(p, c)
    PROVE  \E k \in DOMAIN rs[p] : \E s \in Relationship :
              /\ k = cmd[p][c].k
              /\ rs' = [rs EXCEPT ![p][k] = s]
              /\ s.next = rs[p][k].next + 1
              /\ Continues(s, rs[p][k]) /\ SameView(s, rs[p][k])
              /\ s.accepted = rs[p][k].accepted
              /\ s.members = rs[p][k].members
<1>1. rs' = [rs EXCEPT ![p][cmd[p][c].k] = IncrementHash(rs[p][cmd[p][c].k])]
      /\ cmd[p][c].pc = "sent"
  BY DEF AdvanceOwn
<1>2. PICK k : k = cmd[p][c].k /\ k \in DOMAIN rs[p]
  BY <1>1 DEF Inv, Structure, CommandsOK
<1>3. PICK r \in Relationship : r = rs[p][k]
  BY <1>2, RecordType
<1>4. PICK s \in Relationship :
          /\ s = IncrementHash(r)
          /\ s.txid = r.txid /\ s.enc = r.enc /\ s.key = r.key
          /\ s.next = r.next + 1
          /\ s.members = r.members /\ s.accepted = r.accepted
  BY IncrementedRecord
<1>5. Continues(s, r) /\ SameView(s, r)
  BY <1>4 DEF Continues, SameView
<1>6. QED
  BY <1>1, <1>2, <1>3, <1>4, <1>5

\* The end of an accept or message: with indirect encryption nobody was paid.
LEMMA AdvanceMembersEffect ==
    ASSUME Inv, NEW p \in Node, NEW c \in Conn, AdvanceMembers(p, c)
    PROVE  \E k \in DOMAIN rs[p] : \E s \in Relationship :
              /\ k = cmd[p][c].k
              /\ rs' = [rs EXCEPT ![p][k] = s]
              /\ s.next = rs[p][k].next
              /\ Continues(s, rs[p][k])
              /\ rs[p][k].enc = 1 => SameView(s, rs[p][k])
              /\ rs[p][k].enc = 0 =>
                    \A i \in DOMAIN rs[p][k].members :
                       s.members[i].next = rs[p][k].members[i].next + 1
              /\ s.accepted = (rs[p][k].accepted \/ cmd[p][c].kind = "accept")
              /\ \A i \in DOMAIN rs[p][k].members :
                    s.members[i].accepted = rs[p][k].members[i].accepted
<1> DEFINE paid(r) == {i \in DOMAIN r.members : r.enc = 0}
           ends(r) == r.accepted \/ cmd[p][c].kind = "accept"
<1>1. /\ rs' = [rs EXCEPT ![p][cmd[p][c].k] =
                   [IncrementMembers(rs[p][cmd[p][c].k], paid(rs[p][cmd[p][c].k]))
                       EXCEPT !.accepted = @ \/ cmd[p][c].kind = "accept"]]
      /\ cmd[p][c].pc = "advanced"
  BY DEF AdvanceMembers
<1>2. PICK k : k = cmd[p][c].k /\ k \in DOMAIN rs[p]
  BY <1>1 DEF Inv, Structure, CommandsOK
<1>3. PICK r \in Relationship : r = rs[p][k]
  BY <1>2, RecordType
<1>4. PICK x \in Relationship :
          /\ x = IncrementMembers(r, paid(r))
          /\ x.txid = r.txid /\ x.key = r.key /\ x.enc = r.enc
          /\ x.next = r.next /\ x.accepted = r.accepted
          /\ DOMAIN x.members = DOMAIN r.members
          /\ \A i \in DOMAIN r.members :
                /\ x.members[i].base = r.members[i].base
                /\ x.members[i].accepted = r.members[i].accepted
                /\ x.members[i].next = IF i \in paid(r) THEN r.members[i].next + 1
                                       ELSE r.members[i].next
  <2> HIDE DEF paid
  <2>1. QED
    BY IncrementMembersType
<1>5. r.enc = 1 => paid(r) = {}
  OBVIOUS
<1>5a. r.enc = 0 => paid(r) = DOMAIN r.members
  OBVIOUS
<1>6. PICK s : s = [x EXCEPT !.accepted = @ \/ cmd[p][c].kind = "accept"]
  OBVIOUS
<1>7. /\ s \in Relationship
      /\ s.txid = x.txid /\ s.key = x.key /\ s.enc = x.enc
      /\ s.next = x.next /\ s.members = x.members
      /\ s.accepted = (x.accepted \/ cmd[p][c].kind = "accept")
  BY <1>6 DEF Relationship
<1>8. Continues(s, r) /\ (r.enc = 1 => SameView(s, r))
  BY <1>4, <1>5, <1>7 DEF Continues, SameView
<1>8a. r.enc = 0 =>
          \A i \in DOMAIN r.members : s.members[i].next = r.members[i].next + 1
  <2> HIDE DEF paid
  <2>1. QED
    BY <1>4, <1>5a, <1>7
<1>9. rs' = [rs EXCEPT ![p][k] = s]
  <2> HIDE DEF paid
  <2>1. rs' = [rs EXCEPT ![p][k] =
                  [IncrementMembers(r, paid(r)) EXCEPT !.accepted = @ \/ cmd[p][c].kind = "accept"]]
    BY <1>1, <1>2, <1>3
  <2>2. QED
    BY <1>4, <1>6, <2>1
<1> HIDE DEF paid
<1>10. s.accepted = (r.accepted \/ cmd[p][c].kind = "accept")
  BY <1>4, <1>7
<1>11. \A i \in DOMAIN r.members : s.members[i].accepted = r.members[i].accepted
  BY <1>4, <1>7
<1>12. s.next = r.next
  BY <1>4, <1>7
<1>13. /\ Continues(s, rs[p][k]) /\ (rs[p][k].enc = 1 => SameView(s, rs[p][k]))
       /\ s.next = rs[p][k].next
       /\ rs[p][k].enc = 0 =>
             \A i \in DOMAIN rs[p][k].members :
                s.members[i].next = rs[p][k].members[i].next + 1
       /\ s.accepted = (rs[p][k].accepted \/ cmd[p][c].kind = "accept")
       /\ \A i \in DOMAIN rs[p][k].members :
             s.members[i].accepted = rs[p][k].members[i].accepted
  BY <1>3, <1>8, <1>8a, <1>10, <1>11, <1>12, Zenon
<1>14. QED
  BY <1>2, <1>7, <1>9, <1>13, Zenon

\* What GetRelationshipForTx makes of the record it finds.
LEMMA AdvanceForTxEffect ==
    ASSUME NEW p \in Node, NEW tx, NEW r \in Relationship
    PROVE  LET s == AdvanceForTx(p, tx, r) IN
           /\ s \in Relationship
           /\ Continues(s, r)
           /\ s.next = IF UsesNextKey(p, tx, r) THEN r.next + 1 ELSE r.next
           /\ s.accepted = r.accepted
           /\ \A i \in DOMAIN r.members :
                 /\ s.members[i].accepted = r.members[i].accepted
                 /\ s.members[i].next =
                       IF MemberKey(r, r.members[i]) \in KeysUsed(tx)
                       THEN r.members[i].next + 1 ELSE r.members[i].next
<1> DEFINE x == IF UsesNextKey(p, tx, r) THEN IncrementHash(r) ELSE r
           which == {i \in DOMAIN r.members :
                        MemberKey(r, r.members[i]) \in KeysUsed(tx)}
<1>1. PICK y \in Relationship :
          /\ y = x /\ y.txid = r.txid /\ y.key = r.key /\ y.enc = r.enc
          /\ y.accepted = r.accepted /\ y.members = r.members
          /\ y.next = IF UsesNextKey(p, tx, r) THEN r.next + 1 ELSE r.next
  <2>1. PICK y \in Relationship :
            /\ y = IncrementHash(r)
            /\ y.txid = r.txid /\ y.key = r.key /\ y.enc = r.enc
            /\ y.accepted = r.accepted /\ y.members = r.members
            /\ y.next = r.next + 1
    BY IncrementedRecord
  <2>2. CASE UsesNextKey(p, tx, r)
    BY <2>1, <2>2
  <2>3. CASE ~UsesNextKey(p, tx, r)
    BY <2>3
  <2>4. QED
    BY <2>2, <2>3
<1>2. AdvanceForTx(p, tx, r) = IncrementMembers(y, which)
  BY <1>1 DEF AdvanceForTx
<1>3. \A i \in DOMAIN r.members :
         i \in which <=> MemberKey(r, r.members[i]) \in KeysUsed(tx)
  OBVIOUS
<1> HIDE DEF x, which
<1>4. PICK s \in Relationship :
          /\ s = IncrementMembers(y, which)
          /\ s.txid = y.txid /\ s.key = y.key /\ s.enc = y.enc
          /\ s.accepted = y.accepted /\ s.next = y.next
          /\ DOMAIN s.members = DOMAIN y.members
          /\ \A i \in DOMAIN y.members :
                /\ s.members[i].base = y.members[i].base
                /\ s.members[i].accepted = y.members[i].accepted
                /\ s.members[i].next = IF i \in which THEN y.members[i].next + 1
                                       ELSE y.members[i].next
  BY IncrementMembersType
<1>5. Continues(s, r)
  BY <1>1, <1>4 DEF Continues
<1>6. QED
  BY <1>1, <1>2, <1>3, <1>4, <1>5

\* ProcessAcceptRelationship marks who accepted, ourselves or a member, and
\* ProcessPrivateMessage nobody.
LEMMA ProcessedEffect ==
    ASSUME NEW a \in Relationship, NEW tx, NEW sending,
           NEW m \in DOMAIN a.members
    PROVE  LET s == Processed(tx, sending, m, a) IN
           /\ s \in Relationship
           /\ Continues(s, a) /\ SameView(s, a)
           /\ s.accepted => a.accepted \/ (tx.kind = "accept" /\ sending)
           /\ \A i \in DOMAIN a.members :
                 s.members[i].accepted =>
                    \/ a.members[i].accepted
                    \/ tx.kind = "accept" /\ ~sending /\ i = m
<1>1. CASE tx.kind # "accept"
  <2>1. Processed(tx, sending, m, a) = a
    BY <1>1 DEF Processed
  <2>2. QED
    BY <2>1 DEF Continues, SameView
<1>2. CASE tx.kind = "accept" /\ sending
  <2>1. Processed(tx, sending, m, a) = [a EXCEPT !.accepted = TRUE]
    BY <1>2 DEF Processed
  <2>2. PICK s : s = [a EXCEPT !.accepted = TRUE]
    OBVIOUS
  <2>3. /\ s \in Relationship
        /\ s.txid = a.txid /\ s.key = a.key /\ s.enc = a.enc
        /\ s.members = a.members
    BY <2>2 DEF Relationship
  <2>4. QED
    BY <1>2, <2>1, <2>2, <2>3 DEF Continues, SameView
<1>3. CASE tx.kind = "accept" /\ ~sending
  <2>1. Processed(tx, sending, m, a) = [a EXCEPT !.members[m].accepted = TRUE]
    BY <1>3 DEF Processed
  <2>2. PICK y : y = [a.members[m] EXCEPT !.accepted = TRUE]
    OBVIOUS
  <2>3. a.members \in Seq(MemberRecord) /\ DOMAIN a.members = 1..Len(a.members)
    BY LenProperties DEF Relationship
  <2>4. \A i \in DOMAIN a.members : a.members[i] \in MemberRecord
    BY <2>3, ElementOfSeq
  <2>5. /\ y \in MemberRecord /\ y.accepted = TRUE
        /\ y.base = a.members[m].base /\ y.next = a.members[m].next
    BY <2>2, <2>4 DEF MemberRecord
  <2>6. PICK ms \in Seq(MemberRecord) :
            /\ ms = [a.members EXCEPT ![m] = y]
            /\ DOMAIN ms = DOMAIN a.members
            /\ \A i \in DOMAIN a.members : ms[i] = IF i = m THEN y ELSE a.members[i]
    <3>1. /\ [a.members EXCEPT ![m] = y] \in Seq(MemberRecord)
          /\ Len([a.members EXCEPT ![m] = y]) = Len(a.members)
          /\ \A i \in 1..Len(a.members) : [a.members EXCEPT ![m] = y][i]
                                            = IF i = m THEN y ELSE a.members[i]
      BY <2>3, <2>5, ExceptSeq
    <3>2. QED
      BY <2>3, <3>1
  <2>7. PICK s : s = [a EXCEPT !.members = ms]
    OBVIOUS
  <2>8. /\ s \in Relationship
        /\ s.txid = a.txid /\ s.key = a.key /\ s.enc = a.enc
        /\ s.accepted = a.accepted /\ s.members = ms
    BY <2>7 DEF Relationship
  <2>9. Processed(tx, sending, m, a) = s
    BY <2>1, <2>2, <2>6, <2>7
  <2>10. Continues(s, a) /\ SameView(s, a)
    BY <2>5, <2>6, <2>8 DEF Continues, SameView
  <2>11. \A i \in DOMAIN a.members :
            s.members[i].accepted =>
               \/ a.members[i].accepted
               \/ tx.kind = "accept" /\ ~sending /\ i = m
    BY <1>3, <2>6, <2>8
  <2>12. QED
    BY <2>8, <2>9, <2>10, <2>11
<1>4. QED
  BY <1>1, <1>2, <1>3

\* What ProcessTx makes of record r on a transaction that members[m] sent,
\* or the node itself.
ReadInto(s, r, tx, sending, m) ==
    /\ Continues(s, r)
    /\ m \in DOMAIN r.members
    /\ s.accepted => r.accepted \/ (tx.kind = "accept" /\ sending)
    /\ \A i \in DOMAIN r.members :
          /\ s.members[i].next =
                IF MemberKey(r, r.members[i]) \in KeysUsed(tx)
                THEN r.members[i].next + 1 ELSE r.members[i].next
          /\ s.members[i].accepted =>
                \/ r.members[i].accepted
                \/ tx.kind = "accept" /\ ~sending /\ i = m

\* What the listener makes of the record a transaction is found in, and what it
\* notes of it.
LEMMA ProcessInRelationshipEffect ==
    ASSUME Inv, NEW p \in Node, NEW t \in DOMAIN network, NEW tx, tx = network[t],
           RelationshipForTx(p, tx) # 0, ProcessInRelationship(p, t)
    PROVE  \E k \in DOMAIN rs[p] : \E r \in Relationship, s \in Relationship :
              \E m \in DOMAIN r.members :
                 /\ k = RelationshipForTx(p, tx)
                 /\ r = rs[p][k]
                 /\ m = SendingMember(r, tx)
                 /\ rs' = [rs EXCEPT ![p][k] = s]
                 /\ inbox' = [inbox EXCEPT ![p] =
                                 IF Owns(p, tx.from) THEN @
                                 ELSE @ \cup {Logged(t, r, m)}]
                 /\ ReadInto(s, r, tx, Owns(p, tx.from), m)
                 /\ s.next = IF UsesNextKey(p, tx, r) THEN r.next + 1 ELSE r.next
<1>1. tx \in Tx
  BY TxType
<1>2. PICK k \in DOMAIN rs[p] : k = RelationshipForTx(p, tx)
  BY RelationshipForTxFinds
<1>3. PICK r \in Relationship : r = rs[p][k] /\ r.members # <<>>
  BY <1>2, RecordType DEF RecordOK
<1>4. PICK sending : sending = Owns(p, tx.from)
  OBVIOUS
<1>5. PICK m \in DOMAIN r.members : m = SendingMember(r, tx)
  BY <1>3, SendingMemberFinds
<1>6. PICK a \in Relationship :
          /\ a = AdvanceForTx(p, tx, r)
          /\ Continues(a, r)
          /\ a.next = IF UsesNextKey(p, tx, r) THEN r.next + 1 ELSE r.next
          /\ a.accepted = r.accepted
          /\ \A i \in DOMAIN r.members :
                /\ a.members[i].accepted = r.members[i].accepted
                /\ a.members[i].next =
                      IF MemberKey(r, r.members[i]) \in KeysUsed(tx)
                      THEN r.members[i].next + 1 ELSE r.members[i].next
  BY AdvanceForTxEffect
<1>7. m \in DOMAIN a.members
  BY <1>6 DEF Continues
<1>8. PICK s \in Relationship :
          /\ s = Processed(tx, sending, m, a)
          /\ Continues(s, a) /\ SameView(s, a) /\ s.next = a.next
          /\ s.accepted => a.accepted \/ (tx.kind = "accept" /\ sending)
          /\ \A i \in DOMAIN a.members :
                s.members[i].accepted =>
                   \/ a.members[i].accepted
                   \/ tx.kind = "accept" /\ ~sending /\ i = m
  <2>1. PICK x : x = Processed(tx, sending, m, a)
    OBVIOUS
  <2>2. /\ x \in Relationship
        /\ Continues(x, a) /\ SameView(x, a)
        /\ x.accepted => a.accepted \/ (tx.kind = "accept" /\ sending)
        /\ \A i \in DOMAIN a.members :
              x.members[i].accepted =>
                 \/ a.members[i].accepted
                 \/ tx.kind = "accept" /\ ~sending /\ i = m
    BY <1>7, <2>1, ProcessedEffect
  <2>3. sending \in BOOLEAN
    BY <1>4 DEF Owns
  <2>4. x.next = a.next
    BY <2>1, <2>3, ProcessedFrame
  <2>5. QED
    BY <2>1, <2>2, <2>4
<1>9. /\ rs' = [rs EXCEPT ![p][k] = s]
       /\ inbox' = [inbox EXCEPT ![p] =
                       IF sending THEN @ ELSE @ \cup {Logged(t, r, m)}]
  BY <1>2, <1>3, <1>4, <1>5, <1>6, <1>8 DEF ProcessInRelationship
<1>10. Continues(s, r) /\ DOMAIN a.members = DOMAIN r.members
  BY <1>6, <1>8 DEF Continues
<1>11. \A i \in DOMAIN r.members : s.members[i].next = a.members[i].next
  BY <1>8, <1>10 DEF SameView
<1>12. \A i \in DOMAIN r.members :
          /\ s.members[i].next =
                IF MemberKey(r, r.members[i]) \in KeysUsed(tx)
                THEN r.members[i].next + 1 ELSE r.members[i].next
          /\ s.members[i].accepted =>
                \/ r.members[i].accepted
                \/ tx.kind = "accept" /\ ~sending /\ i = m
  BY <1>6, <1>8, <1>10, <1>11
<1>13. s.accepted => r.accepted \/ (tx.kind = "accept" /\ sending)
  BY <1>6, <1>8
<1>14. ReadInto(s, r, tx, sending, m)
  BY <1>10, <1>12, <1>13 DEF ReadInto
<1>15. s.next = IF UsesNextKey(p, tx, r) THEN r.next + 1 ELSE r.next
  BY <1>6, <1>8
<1>16. QED
  BY <1>2, <1>3, <1>4, <1>5, <1>9, <1>14, <1>15

-----------------------------------------------------------------------------
(* A view of a member is backed by what that member signed.                *)

\* What GroupViewBacked asks of one record.
Backed(r) ==
    r.enc = 1 =>
        \A j \in DOMAIN r.members : \A i \in 1..r.members[j].next-1 :
            \E t \in DOMAIN network :
                network[t].from = Derived(r.members[j].base, r.txid, i)

\* A record stays backed while its view stays.
LEMMA StaysBacked ==
    ASSUME NetworkExtends, NEW r, NEW s, Continues(s, r), SameView(s, r), Backed(r)
    PROVE  Backed(s)'
BY DEF NetworkExtends, Continues, SameView, Backed

\* A new record shows nobody past the first index.
LEMMA StartsBacked ==
    ASSUME NEW s, NEW pks, pks \in Seq(PublicKey), s.members = NewMembers(pks)
    PROVE  Backed(s)'
<1>1. \A i \in DOMAIN s.members : s.members[i].next = 1
  <2>1. PICK ms : ms = NewMembers(pks)
    OBVIOUS
  <2>2. /\ ms \in Seq(MemberRecord) /\ Len(ms) = Len(pks)
        /\ \A i \in 1..Len(pks) : ms[i].next = 1
    BY <2>1, NewMembersType
  <2>3. DOMAIN ms = 1..Len(ms)
    BY <2>2, LenProperties
  <2>4. \A i \in DOMAIN ms : ms[i].next = 1
    BY <2>2, <2>3
  <2>5. QED
    BY <2>1, <2>4
<1>2. \A i \in DOMAIN s.members : 1..s.members[i].next-1 = {}
  BY <1>1
<1>3. QED
  BY <1>2 DEF Backed

\* Every record is as it was, or is backed.
LEMMA ViewStep ==
    ASSUME Inv, GroupViewBacked, NetworkExtends, NEW s,
           \A q \in Node : \A k \in DOMAIN rs'[q] :
              \/ k \in DOMAIN rs[q] /\ rs'[q][k] = rs[q][k]
              \/ rs'[q][k] = s,
           Backed(s)'
    PROVE  GroupViewBacked'
<1>1. ASSUME NEW q \in Node, NEW k, k \in DOMAIN rs'[q]
      PROVE  \E x : x = rs'[q][k] /\ Backed(x)'
  <2>1. CASE k \in DOMAIN rs[q] /\ rs'[q][k] = rs[q][k]
    <3>1. PICK x : x = rs[q][k]
      OBVIOUS
    <3>2. Backed(x)
      BY <2>1, <3>1 DEF GroupViewBacked, Backed
    <3>3. Continues(x, x) /\ SameView(x, x)
      BY DEF Continues, SameView
    <3>4. Backed(x)'
      BY <3>2, <3>3, StaysBacked
    <3>5. QED
      BY <2>1, <3>1, <3>4
  <2>2. CASE rs'[q][k] = s
    BY <2>2
  <2>3. QED
    BY <1>1, <2>1, <2>2
<1>2. QED
  BY <1>1 DEF GroupViewBacked, Backed

\* Steps that leave the records alone leave the views backed.
LEMMA ViewFrame ==
    ASSUME Inv, GroupViewBacked, NetworkExtends, UNCHANGED rs
    PROVE  GroupViewBacked'
BY DEF GroupViewBacked, NetworkExtends

\* A record in another's place.
LEMMA UpdatedViews ==
    ASSUME Inv, GroupViewBacked, NetworkExtends,
           NEW p \in Node, NEW k \in DOMAIN rs[p], NEW s,
           rs' = [rs EXCEPT ![p][k] = s], Backed(s)'
    PROVE  GroupViewBacked'
<1>1. /\ \A q \in Node : DOMAIN rs'[q] = DOMAIN rs[q]
      /\ \A q \in Node : \A j \in DOMAIN rs[q] :
            rs'[q][j] = IF q = p /\ j = k THEN s ELSE rs[q][j]
  BY DEF Inv, TypeOK
<1>2. QED
  BY <1>1, ViewStep

\* A record more.
LEMMA AppendedViews ==
    ASSUME Inv, GroupViewBacked, NetworkExtends, NEW p \in Node, NEW s,
           rs' = [rs EXCEPT ![p] = Append(rs[p], s)], Backed(s)'
    PROVE  GroupViewBacked'
<1>1. /\ DOMAIN rs'[p] = DOMAIN rs[p] \cup {Len(rs[p]) + 1}
      /\ rs'[p][Len(rs[p]) + 1] = s
      /\ \A q \in Node \ {p} : rs'[q] = rs[q]
      /\ \A q \in Node : \A j \in DOMAIN rs[q] : rs'[q][j] = rs[q][j]
  BY AppendedRecords
<1>2. \A q \in Node : \A k \in DOMAIN rs'[q] :
         \/ k \in DOMAIN rs[q] /\ rs'[q][k] = rs[q][k]
         \/ rs'[q][k] = s
  BY <1>1
<1>3. QED
  BY <1>2, ViewStep

\* Whatever a step broadcasts comes after what was broadcast before.
LEMMA QuietStepsExtend ==
    ASSUME Inv, NEW p \in Node, NEW c \in Conn,
           \/ \E recv \in Invites[p] :
                 Initiate(p, c, recv) \/ InitiateFails(p, c, recv)
           \/ \E kind \in {"accept", "message"}, k \in DOMAIN rs[p] :
                 Build(p, c, kind, k)
           \/ RegisterInitiated(p, c) \/ Broadcast(p, c) \/ BroadcastFails(p, c)
           \/ \E t \in DOMAIN network : HandleTx(p, t)
    PROVE  NetworkExtends /\ UNCHANGED rs
<1>1. ASSUME NEW recv \in Invites[p], Initiate(p, c, recv) \/ InitiateFails(p, c, recv)
      PROVE  NetworkExtends
  <2>1. \/ network' = Append(network, InitiateTx(p, recv))
        \/ UNCHANGED network
    BY <1>1 DEF Initiate, InitiateFails
  <2>2. QED
    BY <2>1, InitiateTxAdded, NetworkKept
<1>2. ASSUME Broadcast(p, c) \/ BroadcastFails(p, c)
      PROVE  NetworkExtends
  <2>1. /\ cmd[p][c].pc = "built"
        /\ \/ network' = Append(network, CommandTx(p, c))
           \/ UNCHANGED network
    BY <1>2 DEF Broadcast, BroadcastFails
  <2>2. QED
    BY <2>1, CommandTxAdded, NetworkKept
<1>3. ASSUME \/ RegisterInitiated(p, c)
             \/ \E kind \in {"accept", "message"}, k \in DOMAIN rs[p] :
                   Build(p, c, kind, k)
             \/ \E t \in DOMAIN network : HandleTx(p, t)
      PROVE  NetworkExtends
  <2>1. UNCHANGED network
    BY <1>3 DEF RegisterInitiated, Build, HandleTx
  <2>2. QED
    BY <2>1, NetworkKept
<1>4. UNCHANGED rs
  BY DEF Initiate, InitiateFails, Build, RegisterInitiated, Broadcast, BroadcastFails,
         HandleTx
<1>5. QED
  BY <1>1, <1>2, <1>3, <1>4

\* The commands: a new record shows nobody past the first index, and in a
\* group a command moves only our own.
LEMMA CommandKeepsViews ==
    ASSUME Inv, GroupViewBacked, NEW p \in Node, NEW c \in Conn,
           RecordInitiated(p, c) \/ AdvanceOwn(p, c) \/ AdvanceMembers(p, c)
    PROVE  GroupViewBacked'
<1>1. UNCHANGED network /\ NetworkExtends
  <2>1. UNCHANGED network
    BY DEF RecordInitiated, AdvanceOwn, AdvanceMembers
  <2>2. QED
    BY <2>1, NetworkKept
<1>2. CASE RecordInitiated(p, c)
  <2>1. PICK t : /\ t = cmd[p][c].t
                 /\ rs' = [rs EXCEPT ![p] = Append(rs[p], InitiatorRecord(t))]
                 /\ t \in DOMAIN network
    BY <1>2 DEF RecordInitiated, Inv, Structure, CommandsOK
  <2>2. PICK s : s = InitiatorRecord(t)
    OBVIOUS
  <2>3. s.members = NewMembers(network[t].to)
    BY <2>2 DEF InitiatorRecord
  <2>4. PICK pks : pks = network[t].to /\ pks \in Seq(PublicKey)
    BY <2>1, TxType DEF Tx
  <2>5. Backed(s)'
    BY <2>3, <2>4, StartsBacked
  <2>6. QED
    BY <1>1, <2>1, <2>2, <2>5, AppendedViews
<1>3. CASE AdvanceOwn(p, c)
  <2>1. PICK k \in DOMAIN rs[p], s \in Relationship :
            /\ rs' = [rs EXCEPT ![p][k] = s]
            /\ Continues(s, rs[p][k]) /\ SameView(s, rs[p][k])
    BY <1>3, AdvanceOwnEffect
  <2>2. PICK r : r = rs[p][k]
    OBVIOUS
  <2>3. Backed(r)
    BY <2>2 DEF GroupViewBacked, Backed
  <2>4. Backed(s)'
    BY <1>1, <2>1, <2>2, <2>3, StaysBacked
  <2>5. QED
    BY <1>1, <2>1, <2>4, UpdatedViews
<1>4. CASE AdvanceMembers(p, c)
  <2>1. PICK k \in DOMAIN rs[p], s \in Relationship :
            /\ rs' = [rs EXCEPT ![p][k] = s]
            /\ Continues(s, rs[p][k])
            /\ rs[p][k].enc = 1 => SameView(s, rs[p][k])
    BY <1>4, AdvanceMembersEffect
  <2>2. PICK r : r = rs[p][k]
    OBVIOUS
  <2>3. Backed(r)
    BY <2>2 DEF GroupViewBacked, Backed
  <2>4. CASE r.enc = 1
    <3>1. Backed(s)'
      BY <1>1, <2>1, <2>2, <2>3, <2>4, StaysBacked
    <3>2. QED
      BY <1>1, <2>1, <3>1, UpdatedViews
  <2>5. CASE r.enc # 1
    <3>1. Backed(s)'
      BY <2>1, <2>2, <2>5 DEF Backed, Continues
    <3>2. QED
      BY <1>1, <2>1, <3>1, UpdatedViews
  <2>6. QED
    BY <2>4, <2>5
<1>5. QED
  BY <1>2, <1>3, <1>4

\* In a group a message pays nobody: the key it uses is its author's.
LEMMA GroupKeySigns ==
    ASSUME Inv, NEW t \in DOMAIN network, NEW tx, tx = network[t],
           tx.kind # "initiate",
           NEW p \in Node, NEW k \in DOMAIN rs[p], NEW r, r = rs[p][k], r.enc = 1,
           NEW m, MemberKey(r, m) \in KeysUsed(tx)
    PROVE  tx.from = MemberKey(r, m)
<1>1. /\ \A i \in DOMAIN tx.to : tx.to[i].seed = tx.rel
      /\ tx.enc = 1 => tx.to = <<>>
      /\ network[tx.rel].enc = tx.enc
  BY DEF Inv, Structure, TxsOK
<1>2. network[r.txid].enc = r.enc
  BY DEF Inv, Structure, RecordsOK
<1>3. MemberKey(r, m).seed = r.txid
  BY DEF MemberKey, Derived
<1>4. ASSUME MemberKey(r, m) \in ToSet(tx.to)
      PROVE  FALSE
  <2>1. PICK i \in DOMAIN tx.to : tx.to[i] = MemberKey(r, m)
    BY <1>4 DEF ToSet
  <2>2. tx.rel = r.txid
    BY <1>1, <1>3, <2>1
  <2>3. tx.to = <<>>
    BY <1>1, <1>2, <2>2
  <2>4. QED
    BY <2>1, <2>3
<1>5. QED
  BY <1>4 DEF KeysUsed

\* The listener moves a member of a group on only past a key that signed.
LEMMA ReadingKeepsViews ==
    ASSUME Inv, GroupViewBacked, NEW p \in Node, NEW t \in DOMAIN network,
           network[t].kind # "initiate", UNCHANGED network,
           ProcessInRelationship(p, t)
    PROVE  GroupViewBacked'
<1>1. NetworkExtends
  BY NetworkKept
<1>2. CASE RelationshipForTx(p, network[t]) = 0
  BY <1>1, <1>2, ViewFrame DEF ProcessInRelationship
<1>3. CASE RelationshipForTx(p, network[t]) # 0
  <2>1. PICK tx : tx = network[t]
    OBVIOUS
  <2>2. PICK k \in DOMAIN rs[p], r \in Relationship, s \in Relationship :
            /\ r = rs[p][k]
            /\ rs' = [rs EXCEPT ![p][k] = s]
            /\ \E m : ReadInto(s, r, tx, Owns(p, tx.from), m)
    BY <1>3, <2>1, ProcessInRelationshipEffect
  <2>3. Backed(r)
    BY <2>2 DEF GroupViewBacked, Backed
  <2>4. ASSUME r.enc = 1, NEW j \in DOMAIN r.members,
               NEW i, i \in 1..s.members[j].next-1
        PROVE  \E u \in DOMAIN network :
                  network[u].from = Derived(r.members[j].base, r.txid, i)
    <3>1. r.members[j].next \in Nat
      <4>1. r.members \in Seq(MemberRecord) /\ j \in 1..Len(r.members)
        BY <2>4, LenProperties DEF Relationship
      <4>2. r.members[j] \in MemberRecord
        BY <4>1, ElementOfSeq
      <4>3. QED
        BY <4>2 DEF MemberRecord
    <3>2. CASE i \in 1..r.members[j].next-1
      BY <2>3, <2>4, <3>2 DEF Backed
    <3>3. CASE i \notin 1..r.members[j].next-1
      <4>1. /\ MemberKey(r, r.members[j]) \in KeysUsed(tx)
            /\ s.members[j].next = r.members[j].next + 1
        BY <2>2, <2>4, <3>3 DEF ReadInto
      <4>2. i = r.members[j].next
        BY <2>4, <3>1, <3>3, <4>1
      <4>3. tx.from = MemberKey(r, r.members[j])
        <5>1. PICK mj : mj = r.members[j]
          OBVIOUS
        <5>2. tx.kind # "initiate" /\ MemberKey(r, mj) \in KeysUsed(tx)
          BY <2>1, <4>1, <5>1
        <5>3. tx.from = MemberKey(r, mj)
          BY <2>1, <2>2, <2>4, <5>2, GroupKeySigns
        <5>4. QED
          BY <5>1, <5>3
      <4>4. QED
        BY <2>1, <4>2, <4>3 DEF MemberKey
    <3>4. QED
      BY <3>2, <3>3
  <2>5. Backed(s)'
    <3>1. /\ s.txid = r.txid /\ s.enc = r.enc
          /\ DOMAIN s.members = DOMAIN r.members
          /\ \A i \in DOMAIN r.members : s.members[i].base = r.members[i].base
      BY <2>2 DEF ReadInto, Continues
    <3>2. QED
      BY <2>4, <3>1 DEF Backed
  <2>6. QED
    BY <1>1, <2>2, <2>5, UpdatedViews
<1>4. QED
  BY <1>2, <1>3

\* ... and starts a relationship with everybody at the first index.
LEMMA JoiningKeepsViews ==
    ASSUME Inv, GroupViewBacked, NEW p \in Node, NEW t \in DOMAIN network,
           IsOurs(p, network[t]), network[t].kind = "initiate",
           UNCHANGED network, ProcessInitiate(p, t)
    PROVE  GroupViewBacked'
<1>1. NetworkExtends
  BY NetworkKept
<1>2. CASE UNCHANGED rs
  BY <1>1, <1>2, ViewFrame
<1>3. CASE rs' = [rs EXCEPT ![p] = Append(rs[p], InitiatedRecord(p, t))]
  <2>1. PICK tx \in Tx : tx = network[t]
    BY TxType
  <2>2. PICK pks : pks = Others(p, tx) /\ pks \in Seq(PublicKey)
    BY <2>1, OthersType DEF Inv, Structure, TxsOK
  <2>3. PICK s : s = InitiatedRecord(p, t)
    OBVIOUS
  <2>4. s.members = NewMembers(pks)
    BY <2>1, <2>2, <2>3 DEF InitiatedRecord, Others
  <2>5. Backed(s)'
    BY <2>2, <2>4, StartsBacked
  <2>6. QED
    BY <1>1, <1>3, <2>3, <2>5, AppendedViews
<1>4. QED
  BY <1>2, <1>3 DEF ProcessInitiate

\* What a decrypted initiate has in common with ours.
LEMMA DecryptedIsOurs ==
    ASSUME NEW p, NEW tx, tx.kind = "initiate", Decrypts(p, tx)
    PROVE  IsOurs(p, tx)
BY DEF Decrypts, DecryptDirect

\* Every step keeps the views backed.
LEMMA NextViews == Inv /\ GroupViewBacked /\ [Next]_vars => GroupViewBacked'
<1> SUFFICES ASSUME Inv, GroupViewBacked, [Next]_vars PROVE GroupViewBacked'
  OBVIOUS
<1>1. CASE UNCHANGED vars
  <2>1. UNCHANGED network /\ UNCHANGED rs
    BY <1>1 DEF vars
  <2>2. QED
    BY <2>1, NetworkKept, ViewFrame
<1>2. CASE Next
  <2>1. PICK p \in Node :
            \/ \E c \in Conn : UserStep(p, c) \/ CommandStep(p, c)
            \/ ListenerStep(p)
    BY <1>2 DEF Next
  <2>2. ASSUME NEW c \in Conn, UserStep(p, c) \/ CommandStep(p, c)
        PROVE  GroupViewBacked'
    BY <2>2, QuietStepsExtend, ViewFrame, CommandKeepsViews DEF UserStep, CommandStep
  <2>3. ASSUME NEW t \in DOMAIN network, HandleTx(p, t) PROVE GroupViewBacked'
    <3>1. UNCHANGED network /\ UNCHANGED rs
      BY <2>3 DEF HandleTx
    <3>2. QED
      BY <3>1, NetworkKept, ViewFrame
  <2>4. ASSUME NEW t \in DOMAIN network, ProcessTx(p, t) PROVE GroupViewBacked'
    <3>1. UNCHANGED network
      BY <2>4 DEF ProcessTx
    <3>2. CASE UNCHANGED rs
      BY <3>1, <3>2, NetworkKept, ViewFrame
    <3>3. CASE /\ Decrypts(p, network[t]) /\ network[t].kind = "initiate"
               /\ ProcessInitiate(p, t)
      BY <3>1, <3>3, DecryptedIsOurs, JoiningKeepsViews
    <3>4. CASE network[t].kind # "initiate" /\ ProcessInRelationship(p, t)
      BY <3>1, <3>4, ReadingKeepsViews
    <3>5. QED
      BY <2>4, <3>2, <3>3, <3>4 DEF ProcessTx
  <2>5. QED
    BY <2>1, <2>2, <2>3, <2>4 DEF ListenerStep
<1>3. QED
  BY <1>1, <1>2

\* With indirect encryption a view of a member never runs ahead of what the
\* member has signed (GetRelationshipForTx), whatever fails, and in whatever
\* order transactions and commands come.
THEOREM GroupViewBackedHolds == Spec => []GroupViewBacked
<1>1. Init => GroupViewBacked
  <2>1. Init => \A p \in Node : DOMAIN rs[p] = {}
    BY EmptySeq DEF Init
  <2>2. QED
    BY <2>1 DEF GroupViewBacked
<1>2. QED
  BY <1>1, InvHolds, NextViews, PTL DEF Spec

=============================================================================
