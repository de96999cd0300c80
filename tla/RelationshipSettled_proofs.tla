--------------------- MODULE RelationshipSettled_proofs ---------------------
(***************************************************************************)
(* That the parties agree once everything has been processed and that      *)
(* nothing processed is lost, for every number of daemons and              *)
(* transactions, as long as a daemon serves one client, the listener waits *)
(* for commands, no RelateIn key is invited twice and groups are shown     *)
(* their transactions in order.                                            *)
(***************************************************************************)
EXTENDS RelationshipChannel_proofs

-----------------------------------------------------------------------------
(* The invariant.                                                          *)

\* The keys a record expects next, its own and the members'.
Keys(r) == {NextKey(r)} \cup {MemberKey(r, r.members[j]) : j \in DOMAIN r.members}
Following(pk) == Derived(pk.base, pk.seed, pk.i + 1)
Alike(pk, nk) == pk.base = nk.base /\ pk.seed = nk.seed

HasRecord(p, txid) == \E k \in DOMAIN rs[p] : rs[p][k].txid = txid

\* No key that a node has seen used is one that a record of its still expects.
Behind(p, r) ==
    \A t \in promoted[p] : \A pk \in KeysUsed(network[t]) : \A nk \in Keys(r) :
        Alike(pk, nk) => pk.i < nk.i

\* No record expects a key unless the one before it was used.
UsedBy(t, nk) == \E pk \in KeysUsed(network[t]) : nk = Following(pk)
Reached(nk) == nk.i > 1 => \E t \in DOMAIN network : UsedBy(t, nk)

\* What commands broadcast: in a pair, the keys of both at one index; in a group,
\* one key, which follows one that was used before.
SentOK(tx) ==
    /\ tx.from.i = tx.hash
    /\ tx.kind # "initiate" /\ tx.enc = 0 =>
          /\ tx.to # <<>>
          /\ \A n \in DOMAIN tx.to :
                tx.to[n].i = tx.from.i /\ tx.to[n].base # tx.from.base
GapOK(t) ==
    network[t].enc = 1 /\ network[t].from.i > 1 =>
        \E s \in DOMAIN network : s < t /\ UsedBy(s, network[t].from)

\* Every key the wallet watches is, or was, the next one of a record.
Known(p, pk) ==
    \E k \in DOMAIN rs[p] :
        rs[p][k].txid = pk.seed /\ rs[p][k].key = pk.base /\ pk.i <= rs[p][k].next

\* What HandleTx has taken.
TakenOK(p, t) ==
    LET tx == network[t] IN
    /\ tx.kind = "initiate" \/ tx.enc = 0 => IsOurs(p, tx)
    /\ tx.kind # "initiate" => HasRecord(p, tx.rel)
    /\ InOrder => \A s \in 1..t-1 : s \in promoted[p] \/ p \notin Parties(s)
\* ... and what ProcessTx has processed.
Opened(p, t) == network[t].kind = "initiate" => HasRecord(p, t)

\* In a pair both indexes move together, but between AdvanceOwn and
\* AdvanceMembers.
Ahead(p, k) == \E c \in Conn : cmd[p][c].pc = "advanced" /\ cmd[p][c].k = k
Level(p, k) ==
    LET r == rs[p][k] IN
    r.enc = 0 => \A j \in DOMAIN r.members :
        r.next = IF Ahead(p, k) THEN r.members[j].next + 1 ELSE r.members[j].next

\* The record of a running command is as it was when the payload was built, but
\* for what the command itself has done to it.
Paid(r) == IF r.enc = 0 THEN {MemberKey(r, r.members[j]) : j \in DOMAIN r.members} ELSE {}
UsedIn(S) == \E t \in DOMAIN network : S \subseteq KeysUsed(network[t])
CmdOK(p, d) ==
    LET r == rs[p][d.k] IN
    /\ d.pc = "built" => d.hash = r.next /\ ToSet(d.to) = Paid(r)
    /\ d.pc = "sent" => UsedIn({NextKey(r)} \cup Paid(r))
    /\ d.pc = "advanced" => UsedIn(Paid(r))

TxsSettled == \A t \in DOMAIN network : SentOK(network[t]) /\ GapOK(t)
KeysKnown == \A p \in Node : \A pk \in indep[p] : Known(p, pk)
TakenSettled == \A p \in Node : \A t \in txs[p] : TakenOK(p, t)
AllOpened == \A p \in Node : \A t \in promoted[p] : Opened(p, t)
RecordsLevel == \A p \in Node : \A k \in DOMAIN rs[p] : Level(p, k)
RecordsBehind == \A p \in Node : \A k \in DOMAIN rs[p] : Behind(p, rs[p][k])
RecordsReached ==
    \A p \in Node : \A k \in DOMAIN rs[p] : \A nk \in Keys(rs[p][k]) : Reached(nk)
CommandsSettled == \A p \in Node : \A c \in Conn : CmdOK(p, cmd[p][c])

\* Receiver lists that make pairs: without groups, the order does not matter.
Pairs == \A p \in Node : \A recv \in Invites[p] : Len(recv) = 1
Orderly == (InOrder /\ ~Pairs) \/ \A t \in DOMAIN network : network[t].enc = 0

SettledInv ==
    /\ TxsSettled /\ KeysKnown /\ TakenSettled /\ AllOpened
    /\ RecordsLevel /\ RecordsBehind /\ RecordsReached
    /\ CommandsSettled /\ Orderly
-----------------------------------------------------------------------------
(* How the records and the keys of the wallets move.                       *)

\* A record that takes the place of another expects the keys that the other did,
\* or the one after a key that was used.
Advances(s, r) ==
    /\ Continues(s, r)
    /\ \A nk \in Keys(s) :
          \/ nk \in Keys(r)
          \/ \E t \in DOMAIN network : \E pk \in Keys(r) :
                pk \in KeysUsed(network[t]) /\ nk = Following(pk)

Begun(s) == \A nk \in Keys(s) : nk.i = 1

RecordsAdvance ==
    \A q \in Node : \A k \in DOMAIN rs'[q] :
        \/ k \in DOMAIN rs[q] /\ Advances(rs'[q][k], rs[q][k])
        \/ ~HasRecord(q, rs'[q][k].txid) /\ Begun(rs'[q][k])

\* The wallets only gain keys, each the next one of a record.
KeysAdded ==
    \A q \in Node :
        /\ indep[q] \subseteq indep'[q]
        /\ \A pk \in indep'[q] :
              pk \in indep[q] \/ \E k \in DOMAIN rs'[q] : pk = NextKey(rs'[q][k])

\* The parts of a derived key.
LEMMA DerivedParts ==
    ASSUME NEW b, NEW u, NEW i
    PROVE  /\ Derived(b, u, i).base = b /\ Derived(b, u, i).seed = u
           /\ Derived(b, u, i).i = i
BY DEF Derived

\* The keys of a record, one by one.
LEMMA KeyOf ==
    ASSUME NEW r, NEW nk \in Keys(r)
    PROVE  \/ nk = Derived(r.key, r.txid, r.next)
           \/ \E j \in DOMAIN r.members :
                 nk = Derived(r.members[j].base, r.txid, r.members[j].next)
BY DEF Keys, NextKey, MemberKey

\* A record of the node expects derived keys of its relationship.
LEMMA KeysType ==
    ASSUME Inv, NEW p \in Node, NEW k \in DOMAIN rs[p], NEW nk \in Keys(rs[p][k])
    PROVE  nk \in PublicKey /\ nk.seed = rs[p][k].txid /\ nk.i \in Nat \ {0}
<1>1. PICK r \in Relationship : r = rs[p][k] /\ RecordOK(p, r)
  BY RecordType
<1>2. r.key \in BaseKey /\ r.txid \in Nat /\ r.next \in Nat \ {0}
  BY <1>1 DEF RecordOK, Relationship
<1>3. \A j \in DOMAIN r.members : r.members[j] \in MemberRecord /\ r.members[j].next > 0
  BY <1>1, MemberTypes DEF RecordOK
<1>4. \A j \in DOMAIN r.members :
         r.members[j].base \in BaseKey /\ r.members[j].next \in Nat \ {0}
  BY <1>3 DEF MemberRecord
<1>5. ASSUME NEW b \in BaseKey, NEW i \in Nat \ {0}, nk = Derived(b, r.txid, i)
      PROVE  nk \in PublicKey /\ nk.seed = r.txid /\ nk.i \in Nat \ {0}
  BY <1>2, <1>5 DEF Derived, PublicKey
<1>6. QED
  BY <1>1, <1>2, <1>4, <1>5, KeyOf

\* A record stays, or takes the place of itself.
LEMMA Stands ==
    ASSUME NEW r
    PROVE  Advances(r, r)
BY DEF Advances, Continues

\* No record changes.
LEMMA FrameAdvances ==
    ASSUME UNCHANGED rs
    PROVE  RecordsAdvance
BY Stands DEF RecordsAdvance

\* One record goes on.
LEMMA UpdateAdvances ==
    ASSUME Inv, NEW p \in Node, NEW k \in DOMAIN rs[p], NEW s,
           rs' = [rs EXCEPT ![p][k] = s], Advances(s, rs[p][k])
    PROVE  RecordsAdvance
<1>1. \A q \in Node : DOMAIN rs'[q] = DOMAIN rs[q]
  BY DEF Inv, TypeOK
<1>2. ASSUME NEW q \in Node, NEW j \in DOMAIN rs[q]
      PROVE  rs'[q][j] = IF q = p /\ j = k THEN s ELSE rs[q][j]
  BY DEF Inv, TypeOK
<1>3. ASSUME NEW q \in Node, NEW j \in DOMAIN rs[q]
      PROVE  Advances(rs'[q][j], rs[q][j])
  <2>1. CASE q = p /\ j = k
    BY <1>2, <2>1
  <2>2. CASE ~(q = p /\ j = k)
    BY <1>2, <2>2, Stands
  <2>3. QED
    BY <2>1, <2>2
<1>4. QED
  BY <1>1, <1>3 DEF RecordsAdvance

\* A record is added, of a relationship of which the node had none.
LEMMA AppendAdvances ==
    ASSUME Inv, NEW p \in Node, NEW s, rs' = [rs EXCEPT ![p] = Append(rs[p], s)],
           ~HasRecord(p, s.txid), Begun(s)
    PROVE  RecordsAdvance
<1>1. /\ DOMAIN rs'[p] = DOMAIN rs[p] \cup {Len(rs[p]) + 1}
      /\ rs'[p][Len(rs[p]) + 1] = s
      /\ \A q \in Node \ {p} : rs'[q] = rs[q]
      /\ \A q \in Node : \A k \in DOMAIN rs[q] : rs'[q][k] = rs[q][k]
  BY AppendedRecords
<1>2. ASSUME NEW q \in Node, NEW k \in DOMAIN rs'[q]
      PROVE  k \in DOMAIN rs[q] \/ (q = p /\ rs'[q][k] = s)
  BY <1>1
<1>3. ASSUME NEW q \in Node, NEW k \in DOMAIN rs[q]
      PROVE  Advances(rs'[q][k], rs[q][k])
  BY <1>1, Stands
<1>4. QED
  BY <1>2, <1>3 DEF RecordsAdvance

\* Members are new at the first index.
LEMMA NewlyBegun ==
    ASSUME NEW s, NEW pks \in Seq(PublicKey), s.members = NewMembers(pks), s.next = 1
    PROVE  Begun(s)
<1>1. \A j \in DOMAIN s.members : s.members[j].next = 1
  BY NewMembersFresh
<1>2. QED
  BY <1>1, KeyOf, DerivedParts DEF Begun

\* The record of an update is where the other was.
LEMMA UpdatedRecords ==
    ASSUME Inv, NEW p \in Node, NEW k \in DOMAIN rs[p], NEW s,
           rs' = [rs EXCEPT ![p][k] = s]
    PROVE  k \in DOMAIN rs'[p] /\ rs'[p][k] = s
BY DEF Inv, TypeOK

\* No key is registered, or the next one of a record is.
LEMMA FrameKeys ==
    ASSUME UNCHANGED indep
    PROVE  KeysAdded
BY DEF KeysAdded

\* AddIndependentKey.
LEMMA Registering ==
    ASSUME Inv, NEW p \in Node, NEW k \in DOMAIN rs'[p], NEW pk, pk = NextKey(rs'[p][k]),
           indep' = [indep EXCEPT ![p] = @ \cup {pk}]
    PROVE  KeysAdded
<1>1. \A q \in Node : indep'[q] = IF q = p THEN indep[p] \cup {pk} ELSE indep[q]
  BY DEF Inv, TypeOK
<1>2. QED
  BY <1>1 DEF KeysAdded

\* A record of which some indexes move on by one, past keys that were used.
LEMMA MovesOn ==
    ASSUME NEW r, NEW s, Continues(s, r), NEW t \in DOMAIN network,
           \/ s.next = r.next
           \/ s.next = r.next + 1 /\ NextKey(r) \in KeysUsed(network[t]),
           \A j \in DOMAIN r.members :
              \/ s.members[j].next = r.members[j].next
              \/ /\ s.members[j].next = r.members[j].next + 1
                 /\ MemberKey(r, r.members[j]) \in KeysUsed(network[t])
    PROVE  Advances(s, r)
<1> DEFINE Goes(nk) ==
              \/ nk \in Keys(r)
              \/ \E v \in DOMAIN network : \E pk \in Keys(r) :
                    pk \in KeysUsed(network[v]) /\ nk = Following(pk)
<1>1. ASSUME NEW nk, nk = NextKey(s) PROVE Goes(nk)
  <2>1. CASE s.next = r.next
    <3>1. nk = NextKey(r)
      BY <1>1, <2>1 DEF NextKey, Continues
    <3>2. QED
      BY <3>1 DEF Keys
  <2>2. CASE s.next = r.next + 1 /\ NextKey(r) \in KeysUsed(network[t])
    <3>1. nk = Following(NextKey(r))
      BY <1>1, <2>2, DerivedParts DEF NextKey, Following, Continues
    <3>2. NextKey(r) \in Keys(r)
      BY DEF Keys
    <3>3. QED
      BY <2>2, <3>1, <3>2
  <2>3. QED
    BY <2>1, <2>2
<1>2. ASSUME NEW nk, NEW j \in DOMAIN s.members, nk = MemberKey(s, s.members[j])
      PROVE  Goes(nk)
  <2>1. j \in DOMAIN r.members /\ s.members[j].base = r.members[j].base /\ s.txid = r.txid
    BY DEF Continues
  <2>2. MemberKey(r, r.members[j]) \in Keys(r)
    BY <2>1 DEF Keys
  <2>3. CASE s.members[j].next = r.members[j].next
    <3>1. nk = MemberKey(r, r.members[j])
      BY <1>2, <2>1, <2>3 DEF MemberKey
    <3>2. QED
      BY <2>2, <3>1
  <2>4. CASE /\ s.members[j].next = r.members[j].next + 1
             /\ MemberKey(r, r.members[j]) \in KeysUsed(network[t])
    <3>1. nk = Following(MemberKey(r, r.members[j]))
      BY <1>2, <2>1, <2>4, DerivedParts DEF MemberKey, Following
    <3>2. QED
      BY <2>2, <2>4, <3>1
  <2>5. QED
    BY <2>1, <2>3, <2>4
<1> HIDE DEF Goes
<1>3. \A nk \in Keys(s) : Goes(nk)
  BY <1>1, <1>2 DEF Keys
<1>4. QED
  BY <1>3 DEF Advances, Goes

\* The initiator's record.
LEMMA RecordInitiatedAdvances ==
    ASSUME Inv, UniqueInv, NEW p \in Node, NEW c \in Conn, RecordInitiated(p, c)
    PROVE  RecordsAdvance /\ KeysAdded
<1>1. PICK t, s : t = cmd[p][c].t /\ s = InitiatorRecord(t)
  OBVIOUS
<1>2. /\ rs' = [rs EXCEPT ![p] = Append(rs[p], s)] /\ cmd[p][c].pc = "initiated"
      /\ UNCHANGED indep
  BY <1>1 DEF RecordInitiated
<1>3. t \in DOMAIN network
  BY <1>1, <1>2, CommandInitiated
<1>4. PICK pks \in Seq(PublicKey) : pks = network[t].to
  BY <1>3, TxType DEF Tx
<1>5. s.txid = t /\ s.next = 1 /\ s.members = NewMembers(pks)
  BY <1>1, <1>4 DEF InitiatorRecord
<1>6. Fresh(p, c)
  BY DEF UniqueInv
<1>7. ~HasRecord(p, s.txid)
  BY <1>1, <1>2, <1>5, <1>6 DEF Fresh, HasRecord
<1>8. Begun(s)
  BY <1>4, <1>5, NewlyBegun
<1>9. QED
  BY <1>2, <1>7, <1>8, AppendAdvances, FrameKeys

\* The receiver's record.
LEMMA JoiningAdvances ==
    ASSUME Inv, NEW p \in Node, NEW t \in DOMAIN network,
           network[t].kind = "initiate", IsOurs(p, network[t]), ProcessInitiate(p, t)
    PROVE  RecordsAdvance /\ KeysAdded
<1>1. CASE FindForTxId(p, t) # 0
  BY <1>1, FrameAdvances, FrameKeys DEF ProcessInitiate
<1>2. CASE FindForTxId(p, t) = 0
  <2>1. PICK s : s = InitiatedRecord(p, t)
    OBVIOUS
  <2>2. /\ rs' = [rs EXCEPT ![p] = Append(rs[p], s)] /\ s.txid = t /\ s.next = 1
        /\ indep' = [indep EXCEPT ![p] = @ \cup {NextKey(s)}]
    BY <1>2, <2>1 DEF ProcessInitiate, InitiatedRecord
  <2>3. PICK tx \in Tx : tx = network[t]
    BY TxType
  <2>4. PICK pks \in Seq(PublicKey) : pks = Others(p, tx)
    BY <2>3, OthersType DEF Inv, Structure, TxsOK
  <2>5. s.members = NewMembers(pks)
    BY <2>1, <2>3, <2>4 DEF InitiatedRecord, Others
  <2>6. ~HasRecord(p, s.txid)
    <3>1. rs[p] \in Seq(Relationship) /\ DOMAIN rs[p] = 1..Len(rs[p])
      BY LenProperties DEF Inv, TypeOK
    <3>2. QED
      BY <1>2, <2>2, <3>1, FindForTxIdFinds DEF HasRecord
  <2>7. RecordsAdvance
    BY <2>2, <2>4, <2>5, <2>6, NewlyBegun, AppendAdvances
  <2>8. Len(rs[p]) + 1 \in DOMAIN rs'[p] /\ rs'[p][Len(rs[p]) + 1] = s
    BY <2>2, AppendedRecords
  <2>9. KeysAdded
    BY <2>2, <2>8, Registering
  <2>10. QED
    BY <2>7, <2>9
<1>3. QED
  BY <1>1, <1>2

\* The command moves its own index on.
LEMMA AdvanceOwnAdvances ==
    ASSUME Inv, CommandsSettled, NEW p \in Node, NEW c \in Conn, AdvanceOwn(p, c)
    PROVE  RecordsAdvance /\ KeysAdded
<1>1. PICK k \in DOMAIN rs[p], s \in Relationship :
          /\ k = cmd[p][c].k
          /\ rs' = [rs EXCEPT ![p][k] = s]
          /\ s.next = rs[p][k].next + 1
          /\ Continues(s, rs[p][k]) /\ SameView(s, rs[p][k])
  BY AdvanceOwnEffect
<1>2. PICK r : r = rs[p][k]
  OBVIOUS
<1>3. cmd[p][c].pc = "sent" /\ CmdOK(p, cmd[p][c])
  BY DEF AdvanceOwn, CommandsSettled
<1>4. PICK t \in DOMAIN network : NextKey(r) \in KeysUsed(network[t])
  BY <1>1, <1>2, <1>3 DEF CmdOK, UsedIn
<1>5. Advances(s, r)
  <2>1. Continues(s, r) /\ s.next = r.next + 1
    BY <1>1, <1>2
  <2>2. \A j \in DOMAIN r.members : s.members[j].next = r.members[j].next
    BY <1>1, <1>2 DEF SameView
  <2>3. QED
    BY <1>4, <2>1, <2>2, MovesOn
<1>6. rs'[p][k] = s /\ k \in DOMAIN rs'[p]
  BY <1>1, UpdatedRecords
<1>7. indep' = [indep EXCEPT ![p] = @ \cup {NextKey(rs'[p][k])}]
  <2>1. indep' = [indep EXCEPT ![p] = @ \cup {NextKey(IncrementHash(r))}]
    BY <1>1, <1>2 DEF AdvanceOwn
  <2>2. PICK x : x = IncrementHash(r) /\ x.txid = r.txid /\ x.key = r.key /\ x.next = r.next + 1
    BY <1>2, RecordType, IncrementedRecord
  <2>3. NextKey(x) = NextKey(s)
    BY <1>1, <1>2, <2>2 DEF NextKey, Continues
  <2>4. QED
    BY <1>6, <2>1, <2>2, <2>3
<1>8. KeysAdded
  BY <1>6, <1>7, Registering
<1>9. QED
  BY <1>1, <1>2, <1>5, <1>8, UpdateAdvances

\* ... and the members' it has paid.
LEMMA AdvanceMembersAdvances ==
    ASSUME Inv, CommandsSettled, NEW p \in Node, NEW c \in Conn, AdvanceMembers(p, c)
    PROVE  RecordsAdvance /\ KeysAdded
<1>1. PICK k \in DOMAIN rs[p], s \in Relationship :
          /\ k = cmd[p][c].k
          /\ rs' = [rs EXCEPT ![p][k] = s]
          /\ s.next = rs[p][k].next
          /\ Continues(s, rs[p][k])
          /\ rs[p][k].enc = 1 => SameView(s, rs[p][k])
          /\ rs[p][k].enc = 0 =>
                \A i \in DOMAIN rs[p][k].members :
                   s.members[i].next = rs[p][k].members[i].next + 1
          /\ s.accepted = (rs[p][k].accepted \/ cmd[p][c].kind = "accept")
          /\ \A i \in DOMAIN rs[p][k].members :
                s.members[i].accepted = rs[p][k].members[i].accepted
  BY AdvanceMembersEffect
<1>2. PICK r \in Relationship : r = rs[p][k]
  BY RecordType
<1>3. cmd[p][c].pc = "advanced" /\ CmdOK(p, cmd[p][c]) /\ UNCHANGED indep
  BY DEF AdvanceMembers, CommandsSettled
<1>4. PICK t \in DOMAIN network : Paid(r) \subseteq KeysUsed(network[t])
  BY <1>1, <1>2, <1>3 DEF CmdOK, UsedIn
<1>5. r.enc = 0 \/ r.enc = 1
  BY DEF Relationship
<1>6. \A j \in DOMAIN r.members :
         \/ s.members[j].next = r.members[j].next
         \/ /\ s.members[j].next = r.members[j].next + 1
            /\ MemberKey(r, r.members[j]) \in KeysUsed(network[t])
  BY <1>1, <1>2, <1>4, <1>5 DEF SameView, Paid
<1>7. Advances(s, r)
  BY <1>1, <1>2, <1>6, MovesOn
<1>8. QED
  BY <1>1, <1>2, <1>3, <1>7, UpdateAdvances, FrameKeys

\* The key that makes a transaction ours is one that it uses.
LEMMA OurKeyUsed ==
    ASSUME NEW p \in Node, NEW tx \in Tx, IsOurs(p, tx)
    PROVE  OurKey(p, tx) \in KeysUsed(tx)
<1>1. CASE Owns(p, tx.from)
  BY <1>1 DEF OurKey, KeysUsed
<1>2. CASE ~Owns(p, tx.from)
  <2>1. OwnReceiver(p, tx) \in 1..Len(tx.to) /\ OurKey(p, tx) = tx.to[OwnReceiver(p, tx)]
    BY <1>2, OurKeyOurs DEF OurKey
  <2>2. tx.to \in Seq(PublicKey) /\ DOMAIN tx.to = 1..Len(tx.to)
    BY LenProperties DEF Tx
  <2>3. OurKey(p, tx) \in ToSet(tx.to)
    BY <2>1, <2>2 DEF ToSet
  <2>4. QED
    BY <2>3 DEF KeysUsed
<1>3. QED
  BY <1>1, <1>2

\* Reading moves on what was used.
LEMMA ReadingAdvances ==
    ASSUME Inv, NEW p \in Node, NEW t \in DOMAIN network, ProcessInRelationship(p, t)
    PROVE  RecordsAdvance /\ KeysAdded
<1>1. PICK tx \in Tx : tx = network[t]
  BY TxType
<1>2. CASE RelationshipForTx(p, tx) = 0
  BY <1>1, <1>2, FrameAdvances, FrameKeys DEF ProcessInRelationship
<1>3. CASE RelationshipForTx(p, tx) # 0
  <2>1. PICK k \in DOMAIN rs[p], r \in Relationship, s \in Relationship :
            /\ k = RelationshipForTx(p, tx) /\ r = rs[p][k]
            /\ rs' = [rs EXCEPT ![p][k] = s]
            /\ \E m : ReadInto(s, r, tx, Owns(p, tx.from), m)
            /\ s.next = IF UsesNextKey(p, tx, r) THEN r.next + 1 ELSE r.next
    BY <1>1, <1>3, ProcessInRelationshipEffect
  <2>2. /\ Continues(s, r)
        /\ \A j \in DOMAIN r.members :
              s.members[j].next = IF MemberKey(r, r.members[j]) \in KeysUsed(tx)
                                  THEN r.members[j].next + 1 ELSE r.members[j].next
    BY <2>1 DEF ReadInto
  <2>3. UsesNextKey(p, tx, r) => NextKey(r) \in KeysUsed(tx)
    BY <1>1, OurKeyUsed DEF UsesNextKey
  <2>4. Advances(s, r)
    BY <1>1, <2>1, <2>2, <2>3, MovesOn
  <2>5. KeysAdded
    <3>1. indep' = [indep EXCEPT ![p] =
                       IF UsesNextKey(p, tx, r)
                       THEN @ \cup {NextKey(AdvanceForTx(p, tx, r))} ELSE @]
      BY <1>1, <1>3, <2>1 DEF ProcessInRelationship
    <3>2. CASE ~UsesNextKey(p, tx, r)
      BY <3>1, <3>2, FrameKeys DEF Inv, TypeOK
    <3>3. CASE UsesNextKey(p, tx, r)
      <4>1. PICK a : /\ a = AdvanceForTx(p, tx, r) /\ Continues(a, r)
                     /\ a.next = r.next + 1
        BY <3>3, AdvanceForTxEffect
      <4>2. NextKey(a) = NextKey(s)
        <5>1. a.key = s.key /\ a.txid = s.txid /\ a.next = s.next
          BY <2>1, <2>2, <3>3, <4>1 DEF Continues
        <5>2. QED
          BY <5>1 DEF NextKey
      <4>3. rs'[p][k] = s /\ k \in DOMAIN rs'[p]
        <5>1. rs' = [rs EXCEPT ![p][k] = s]
          BY <2>1
        <5>2. QED
          BY <5>1, UpdatedRecords
      <4>4. indep' = [indep EXCEPT ![p] = @ \cup {NextKey(s)}]
        BY <3>1, <3>3, <4>1, <4>2
      <4>5. QED
        BY <4>3, <4>4, Registering
    <3>4. QED
      BY <3>2, <3>3
  <2>6. QED
    BY <2>1, <2>4, <2>5, UpdateAdvances
<1>4. QED
  BY <1>2, <1>3

\* So it is with every step.
LEMMA NextAdvances ==
    ASSUME Inv, UniqueInv, CommandsSettled, [Next]_vars
    PROVE  RecordsAdvance /\ KeysAdded
<1>1. CASE UNCHANGED rs /\ UNCHANGED indep
  BY <1>1, FrameAdvances, FrameKeys
<1>2. ASSUME NEW p \in Node, NEW c \in Conn, UserStep(p, c) \/ CommandStep(p, c)
      PROVE  RecordsAdvance /\ KeysAdded
  <2>1. CASE RecordInitiated(p, c)
    BY <2>1, RecordInitiatedAdvances
  <2>2. CASE AdvanceOwn(p, c)
    BY <2>2, AdvanceOwnAdvances
  <2>3. CASE AdvanceMembers(p, c)
    BY <2>3, AdvanceMembersAdvances
  <2>4. CASE RegisterInitiated(p, c)
    <3>1. PICK k : k = cmd[p][c].k
      OBVIOUS
    <3>2. /\ cmd[p][c].pc = "recorded" /\ UNCHANGED rs
          /\ indep' = [indep EXCEPT ![p] = @ \cup {NextKey(rs[p][k])}]
      BY <2>4, <3>1 DEF RegisterInitiated
    <3>3. k \in DOMAIN rs[p]
      BY <3>1, <3>2, CommandHeld
    <3>4. k \in DOMAIN rs'[p] /\ NextKey(rs[p][k]) = NextKey(rs'[p][k])
      BY <3>2, <3>3
    <3>5. KeysAdded
      BY <3>2, <3>4, Registering
    <3>6. QED
      BY <3>2, <3>5, FrameAdvances
  <2>5. CASE UserStep(p, c)
    BY <1>1, <2>5 DEF UserStep, Initiate, InitiateFails, Build
  <2>6. CASE Broadcast(p, c) \/ BroadcastFails(p, c)
    BY <1>1, <2>6 DEF Broadcast, BroadcastFails
  <2>7. QED
    BY <1>2, <2>1, <2>2, <2>3, <2>4, <2>5, <2>6 DEF CommandStep
<1>3. ASSUME NEW p \in Node, NEW t \in DOMAIN network, HandleTx(p, t)
      PROVE  RecordsAdvance /\ KeysAdded
  BY <1>1, <1>3 DEF HandleTx
<1>4. ASSUME NEW p \in Node, NEW t \in DOMAIN network, ProcessTx(p, t)
      PROVE  RecordsAdvance /\ KeysAdded
  <2>1. CASE ~Decrypts(p, network[t])
    BY <1>1, <1>4, <2>1 DEF ProcessTx
  <2>2. CASE Decrypts(p, network[t]) /\ network[t].kind = "initiate"
    BY <1>4, <2>2, DecryptedIsOurs, JoiningAdvances DEF ProcessTx
  <2>3. CASE Decrypts(p, network[t]) /\ network[t].kind # "initiate"
    BY <1>4, <2>3, ReadingAdvances DEF ProcessTx
  <2>4. QED
    BY <2>1, <2>2, <2>3
<1>5. QED
  BY <1>1, <1>2, <1>3, <1>4 DEF Next, ListenerStep, vars

\* Transactions stay as they were broadcast.
LEMMA NextExtends ==
    ASSUME Inv, CommandsHold, [Next]_vars
    PROVE  NetworkExtends
<1>1. CASE UNCHANGED network
  BY <1>1, NetworkKept
<1>2. ASSUME NEW tx \in Tx, network' = Append(network, tx) PROVE NetworkExtends
  BY <1>2, NetworkAppended
<1>3. QED
  BY <1>1, <1>2, NextNetwork

\* What a node has taken and processed it has taken and processed in some step.
LEMMA NextTakes ==
    ASSUME Inv, [Next]_vars, NEW q \in Node
    PROVE  /\ txs[q] \subseteq txs'[q]
           /\ \A t \in txs'[q] : t \in txs[q] \/ (t \in DOMAIN network /\ HandleTx(q, t))
           /\ \A t \in promoted'[q] :
                 t \in promoted[q] \/ (t \in DOMAIN network /\ ProcessTx(q, t))
<1>1. CASE UNCHANGED txs /\ UNCHANGED promoted
  BY <1>1
<1>2. ASSUME NEW p \in Node, NEW c \in Conn, UserStep(p, c) \/ CommandStep(p, c)
      PROVE  UNCHANGED txs /\ UNCHANGED promoted
  BY <1>2 DEF UserStep, CommandStep, Initiate, InitiateFails, Build, RecordInitiated,
     RegisterInitiated, Broadcast, BroadcastFails, AdvanceOwn, AdvanceMembers
<1>3. ASSUME NEW p \in Node, NEW t \in DOMAIN network, HandleTx(p, t)
      PROVE  /\ UNCHANGED promoted
             /\ txs'[q] = IF q = p THEN txs[q] \cup {t} ELSE txs[q]
  BY <1>3 DEF HandleTx, Inv, TypeOK
<1>4. ASSUME NEW p \in Node, NEW t \in DOMAIN network, ProcessTx(p, t)
      PROVE  /\ UNCHANGED txs
             /\ promoted'[q] = IF q = p THEN promoted[q] \cup {t} ELSE promoted[q]
  BY <1>4 DEF ProcessTx, Inv, TypeOK
<1>5. CASE UNCHANGED vars
  BY <1>1, <1>5 DEF vars
<1>6. ASSUME NEW p \in Node, NEW t \in DOMAIN network, HandleTx(p, t) \/ ProcessTx(p, t)
      PROVE  /\ txs[q] \subseteq txs'[q]
             /\ \A v \in txs'[q] : v \in txs[q] \/ (v = t /\ q = p /\ HandleTx(p, t))
             /\ \A v \in promoted'[q] :
                   v \in promoted[q] \/ (v = t /\ q = p /\ ProcessTx(p, t))
  BY <1>3, <1>4, <1>6
<1>7. QED
  BY <1>1, <1>2, <1>5, <1>6 DEF Next, ListenerStep

-----------------------------------------------------------------------------
(* What follows for records, keys and transactions.                        *)

\* A record stays where it is and moves on.
LEMMA RecordGoesOn ==
    ASSUME Moves, RecordsAdvance, NEW q \in Node, NEW k \in DOMAIN rs[q]
    PROVE  /\ k \in DOMAIN rs'[q] /\ Advances(rs'[q][k], rs[q][k])
           /\ rs'[q][k].txid = rs[q][k].txid /\ rs'[q][k].key = rs[q][k].key
           /\ rs'[q][k].next >= rs[q][k].next
<1>1. /\ k \in DOMAIN rs'[q] /\ rs'[q][k].txid = rs[q][k].txid
      /\ rs'[q][k].next >= rs[q][k].next
  BY DEF Moves
<1>2. HasRecord(q, rs'[q][k].txid)
  BY <1>1 DEF HasRecord
<1>3. Advances(rs'[q][k], rs[q][k])
  BY <1>1, <1>2 DEF RecordsAdvance
<1>4. QED
  BY <1>1, <1>3 DEF Advances, Continues

\* A relationship is not forgotten.
LEMMA RecordRemains ==
    ASSUME Moves, NEW q \in Node, NEW u, HasRecord(q, u)
    PROVE  HasRecord(q, u)'
BY DEF Moves, HasRecord

\* A key that was used stays used.
LEMMA ReachedStays ==
    ASSUME NetworkExtends, NEW nk, Reached(nk)
    PROVE  Reached(nk)'
BY DEF NetworkExtends, Reached, UsedBy

\* A record expects the first key, or the one after a key that was used.
LEMMA NextReached ==
    ASSUME Inv, RecordsReached, RecordsAdvance, NetworkExtends
    PROVE  RecordsReached'
<1>1. ASSUME NEW q \in Node, NEW k \in DOMAIN rs'[q], NEW nk \in Keys(rs'[q][k])
      PROVE  Reached(nk)'
  <2>1. CASE k \in DOMAIN rs[q] /\ Advances(rs'[q][k], rs[q][k])
    <3>1. CASE nk \in Keys(rs[q][k])
      BY <2>1, <3>1, ReachedStays DEF RecordsReached
    <3>2. ASSUME NEW t \in DOMAIN network, NEW pk \in Keys(rs[q][k]),
                 pk \in KeysUsed(network[t]), nk = Following(pk)
          PROVE  Reached(nk)'
      <4>1. Reached(nk)
        BY <3>2 DEF Reached, UsedBy
      <4>2. QED
        BY <4>1, ReachedStays
    <3>3. QED
      BY <2>1, <3>1, <3>2 DEF Advances
  <2>2. CASE Begun(rs'[q][k])
    BY <2>2 DEF Begun, Reached
  <2>3. QED
    BY <2>1, <2>2 DEF RecordsAdvance
<1>2. QED
  BY <1>1 DEF RecordsReached, Keys, NextKey, MemberKey

\* The records after a step.
LEMMA RecordTypes ==
    ASSUME Inv', NEW q \in Node, NEW k \in DOMAIN rs'[q]
    PROVE  rs'[q][k] \in Relationship
<1>1. rs'[q] \in Seq(Relationship)
  BY DEF Inv, TypeOK
<1>2. QED
  BY <1>1, ElementOfSeq, LenProperties

\* Every key that is registered is the next one of a record, and stays at or
\* behind it.
LEMMA NextKnown ==
    ASSUME Inv, Inv', KeysKnown, Moves, RecordsAdvance, KeysAdded
    PROVE  KeysKnown'
<1>1. ASSUME NEW q \in Node, NEW pk \in indep'[q], pk \in indep[q]
      PROVE  Known(q, pk)'
  <2>1. PICK k \in DOMAIN rs[q] :
            rs[q][k].txid = pk.seed /\ rs[q][k].key = pk.base /\ pk.i <= rs[q][k].next
    BY <1>1 DEF KeysKnown, Known
  <2>2. /\ k \in DOMAIN rs'[q]
        /\ rs'[q][k].txid = rs[q][k].txid /\ rs'[q][k].key = rs[q][k].key
        /\ rs'[q][k].next >= rs[q][k].next
    BY RecordGoesOn
  <2>3. PICK i \in Nat, m \in Nat, n \in Nat :
            i = pk.i /\ m = rs[q][k].next /\ n = rs'[q][k].next
    <3>1. pk \in PublicKey
      BY <1>1 DEF Inv, TypeOK
    <3>2. rs[q][k] \in Relationship /\ rs'[q][k] \in Relationship
      BY <2>2, RecordType, RecordTypes
    <3>3. QED
      BY <3>1, <3>2 DEF PublicKey, Relationship
  <2>4. pk.i <= rs'[q][k].next
    BY <2>1, <2>2, <2>3
  <2>5. QED
    BY <2>1, <2>2, <2>4 DEF Known
<1>2. ASSUME NEW q \in Node, NEW pk \in indep'[q], NEW k \in DOMAIN rs'[q],
             pk = NextKey(rs'[q][k])
      PROVE  Known(q, pk)'
  <2>1. rs'[q][k].next \in Nat
    BY RecordTypes DEF Relationship
  <2>2. /\ pk.base = rs'[q][k].key /\ pk.seed = rs'[q][k].txid /\ pk.i = rs'[q][k].next
    BY <1>2, DerivedParts DEF NextKey
  <2>3. QED
    BY <2>1, <2>2 DEF Known
<1>3. QED
  BY <1>1, <1>2 DEF KeysKnown, KeysAdded

\* A transaction is ours if it uses a key that the wallet finds.
LEMMA OursMeans ==
    ASSUME NEW p \in Node, NEW tx \in Tx
    PROVE  IsOurs(p, tx) <=> \E pk \in KeysUsed(tx) : Owns(p, pk)
<1>1. tx.to \in Seq(PublicKey) /\ DOMAIN tx.to = 1..Len(tx.to)
  BY LenProperties DEF Tx
<1>2. ASSUME IsOurs(p, tx) PROVE \E pk \in KeysUsed(tx) : Owns(p, pk)
  BY <1>2, OurKeyOurs, OurKeyUsed
<1>3. ASSUME NEW pk \in KeysUsed(tx), Owns(p, pk) PROVE IsOurs(p, tx)
  <2>1. CASE pk = tx.from
    BY <1>3, <2>1 DEF IsOurs
  <2>2. CASE pk \in ToSet(tx.to)
    <3>1. PICK j \in 1..Len(tx.to) : pk = tx.to[j]
      BY <1>1, <2>2 DEF ToSet
    <3>2. OwnReceiver(p, tx) # 0
      BY <1>1, <1>3, <3>1, OwnReceiverFinds
    <3>3. QED
      BY <3>2 DEF IsOurs
  <2>3. QED
    BY <2>1, <2>2 DEF KeysUsed
<1>4. QED
  BY <1>2, <1>3

\* It stays ours, as no key is forgotten.
LEMMA OursStays ==
    ASSUME KeysAdded, NEW p \in Node, NEW tx \in Tx, IsOurs(p, tx)
    PROVE  IsOurs(p, tx)'
<1>1. PICK pk \in KeysUsed(tx) : Owns(p, pk)
  BY OursMeans
<1>2. Owns(p, pk)'
  BY <1>1 DEF Owns, KeysAdded
<1>3. CASE pk = tx.from
  BY <1>2, <1>3 DEF IsOurs
<1>4. CASE pk \in ToSet(tx.to)
  <2> DEFINE I == {i \in 1..Len(tx.to) : Owns(p, tx.to[i])'}
  <2>1. tx.to \in Seq(PublicKey) /\ DOMAIN tx.to = 1..Len(tx.to) /\ Len(tx.to) \in Nat
    BY LenProperties DEF Tx
  <2>2. I # {} /\ I \in SUBSET (1..Len(tx.to))
    BY <1>2, <1>4, <2>1 DEF ToSet
  <2>3. OwnReceiver(p, tx)' = IF I # {} THEN Min(I) ELSE 0
    BY DEF OwnReceiver, SelectInSeq
  <2> HIDE DEF I
  <2>4. OwnReceiver(p, tx)' # 0
    BY <2>1, <2>2, <2>3, FirstPosition
  <2>5. QED
    BY <2>4 DEF IsOurs
<1>5. QED
  BY <1>1, <1>3, <1>4 DEF KeysUsed

\* The keys that an accept or a message uses.
LEMMA LaterKeys ==
    ASSUME Inv, NEW t \in DOMAIN network, NEW tx, tx = network[t], SentOK(tx),
           tx.kind # "initiate", NEW pk \in KeysUsed(tx)
    PROVE  /\ pk \in PublicKey /\ pk.seed = tx.rel /\ pk.i = tx.from.i
           /\ tx.from.i \in Nat \ {0}
           /\ tx.enc = 1 => pk = tx.from
<1>1. tx \in Tx
  BY TxType
<1>2. /\ tx.from.seed = tx.rel /\ tx.from.i > 0
      /\ \A i \in DOMAIN tx.to : tx.to[i].seed = tx.rel
      /\ tx.enc = 1 => tx.to = <<>>
  BY DEF Inv, Structure, TxsOK
<1>3. /\ tx.from \in PublicKey /\ tx.to \in Seq(PublicKey) /\ tx.enc \in {0, 1}
      /\ DOMAIN tx.to = 1..Len(tx.to)
  BY <1>1, LenProperties DEF Tx
<1>4. tx.from.i \in Nat \ {0}
  BY <1>2, <1>3 DEF PublicKey
<1>5. CASE pk = tx.from
  BY <1>2, <1>3, <1>4, <1>5
<1>6. CASE pk \in ToSet(tx.to)
  <2>1. PICK i \in DOMAIN tx.to : pk = tx.to[i]
    BY <1>3, <1>6 DEF ToSet
  <2>2. pk \in PublicKey
    BY <1>3, <2>1, ElementOfSeq
  <2>3. tx.enc = 0
    <3>1. tx.to # <<>>
      BY <2>1
    <3>2. QED
      BY <1>2, <1>3, <3>1
  <2>4. QED
    BY <1>2, <1>4, <2>1, <2>2, <2>3 DEF SentOK
<1>7. QED
  BY <1>5, <1>6 DEF KeysUsed

\* HandleTx takes what is of a relationship of the node, or initiates one.
LEMMA HandleTakes ==
    ASSUME Inv, TxsSettled, KeysKnown, NEW p \in Node, NEW t \in DOMAIN network, HandleTx(p, t)
    PROVE  TakenOK(p, t)
<1>1. PICK tx \in Tx : tx = network[t]
  BY TxType
<1>2. /\ Relevant(p, tx)
      /\ InOrder => \A s \in 1..t-1 : s \in promoted[p] \/ p \notin Parties(s)
  BY <1>1 DEF HandleTx
<1>3. tx.kind = "initiate" \/ tx.enc = 0 => IsOurs(p, tx)
  BY <1>2 DEF Relevant
<1>4. ASSUME tx.kind # "initiate" PROVE HasRecord(p, tx.rel)
  <2>1. CASE IsOurs(p, tx)
    <3>1. PICK pk \in KeysUsed(tx) : Owns(p, pk)
      BY <2>1, OursMeans
    <3>2. pk.seed = tx.rel /\ pk.i \in Nat \ {0}
      BY <1>1, <1>4, LaterKeys DEF TxsSettled
    <3>3. Known(p, pk)
      BY <3>1, <3>2 DEF Owns, KeysKnown
    <3>4. QED
      BY <3>2, <3>3 DEF Known, HasRecord
  <2>2. CASE FindForFlag(p, tx.rel) # 0
    <3>1. rs[p] \in Seq(Relationship) /\ DOMAIN rs[p] = 1..Len(rs[p])
      BY LenProperties DEF Inv, TypeOK
    <3>2. QED
      BY <2>2, <3>1, FindForFlagFinds DEF HasRecord
  <2>3. QED
    BY <1>2, <2>1, <2>2 DEF Relevant
<1>5. QED
  BY <1>1, <1>2, <1>3, <1>4 DEF TakenOK

\* The parties of a transaction stay the same.
LEMMA PartiesKept ==
    ASSUME Inv, NetworkExtends, NEW s \in DOMAIN network
    PROVE  Parties(s)' = Parties(s)
<1>1. PICK u \in DOMAIN network : u = network[s].rel
  BY NamesInitiate
<1>2. network'[s] = network[s] /\ network'[u] = network[u]
  BY <1>1 DEF NetworkExtends
<1>3. QED
  BY <1>1, <1>2 DEF Parties

\* What is taken is of a relationship of the node from then on.
LEMMA NextTaken ==
    ASSUME Inv, TxsSettled, KeysKnown, TakenSettled, Moves, NetworkExtends, KeysAdded,
           [Next]_vars
    PROVE  TakenSettled'
<1>1. ASSUME NEW q \in Node, NEW t \in DOMAIN network, TakenOK(q, t)
      PROVE  TakenOK(q, t)'
  <2>1. PICK tx \in Tx : tx = network[t]
    BY TxType
  <2>2. network'[t] = tx /\ t \in Nat
    BY <2>1, TxType DEF NetworkExtends
  <2>3. tx.kind = "initiate" \/ tx.enc = 0 => IsOurs(q, tx)'
    BY <1>1, <2>1, OursStays DEF TakenOK
  <2>4. tx.kind # "initiate" => HasRecord(q, tx.rel)'
    BY <1>1, <2>1, RecordRemains DEF TakenOK
  <2>5. ASSUME InOrder, NEW s \in 1..t-1
        PROVE  s \in promoted'[q] \/ q \notin Parties(s)'
    <3>1. s \in DOMAIN network
      <4>1. DOMAIN network = 1..Len(network) /\ Len(network) \in Nat
        BY LenProperties DEF Inv, TypeOK
      <4>2. QED
        BY <2>2, <4>1
    <3>2. s \in promoted[q] \/ q \notin Parties(s)
      BY <1>1, <2>5 DEF TakenOK
    <3>3. promoted[q] \subseteq promoted'[q]
      BY PromotedStays
    <3>4. Parties(s)' = Parties(s)
      BY <3>1, PartiesKept
    <3>5. QED
      BY <3>2, <3>3, <3>4
  <2>6. QED
    BY <2>2, <2>3, <2>4, <2>5 DEF TakenOK
<1>2. ASSUME NEW q \in Node, NEW t \in txs'[q]
      PROVE  t \in DOMAIN network /\ TakenOK(q, t)
  <2>1. CASE t \in txs[q]
    BY <2>1 DEF TakenSettled, Inv, TypeOK
  <2>2. CASE t \in DOMAIN network /\ HandleTx(q, t)
    BY <2>2, HandleTakes
  <2>3. QED
    BY <2>1, <2>2, NextTakes
<1>3. QED
  BY <1>1, <1>2 DEF TakenSettled

\* ProcessTx on an initiate that reached us leaves a record of it.
LEMMA NextOpened ==
    ASSUME Inv, TxsSettled, TakenSettled, AllOpened, Moves, NetworkExtends, [Next]_vars
    PROVE  AllOpened'
<1>1. ASSUME NEW q \in Node, NEW t \in DOMAIN network, Opened(q, t)
      PROVE  Opened(q, t)'
  <2>1. network'[t] = network[t]
    BY DEF NetworkExtends
  <2>2. QED
    BY <1>1, <2>1, RecordRemains DEF Opened
<1>2. ASSUME NEW q \in Node, NEW t \in DOMAIN network, ProcessTx(q, t),
             network[t].kind = "initiate"
      PROVE  HasRecord(q, t)'
  <2>1. PICK tx : tx = network[t] /\ SentOK(tx) /\ t \in txs[q] /\ TakenOK(q, t)
    BY <1>2 DEF ProcessTx, TxsSettled, TakenSettled
  <2>2. Decrypts(q, tx)
    BY <1>2, <2>1 DEF Decrypts, DecryptDirect, SentOK, TakenOK
  <2>3. ProcessInitiate(q, t)
    BY <1>2, <2>1, <2>2 DEF ProcessTx
  <2>4. CASE FindForTxId(q, t) # 0
    <3>1. rs[q] \in Seq(Relationship) /\ DOMAIN rs[q] = 1..Len(rs[q])
      BY LenProperties DEF Inv, TypeOK
    <3>2. HasRecord(q, t)
      BY <2>4, <3>1, FindForTxIdFinds DEF HasRecord
    <3>3. QED
      BY <3>2, RecordRemains
  <2>5. CASE FindForTxId(q, t) = 0
    <3>1. PICK s : s = InitiatedRecord(q, t)
      OBVIOUS
    <3>2. rs' = [rs EXCEPT ![q] = Append(rs[q], s)] /\ s.txid = t
      BY <2>3, <2>5, <3>1 DEF ProcessInitiate, InitiatedRecord
    <3>3. Len(rs[q]) + 1 \in DOMAIN rs'[q] /\ rs'[q][Len(rs[q]) + 1] = s
      BY <3>2, AppendedRecords
    <3>4. QED
      BY <3>2, <3>3 DEF HasRecord
  <2>6. QED
    BY <2>4, <2>5
<1>3. ASSUME NEW q \in Node, NEW t \in promoted'[q]
      PROVE  Opened(q, t)'
  <2>1. CASE t \in promoted[q]
    <3>1. t \in DOMAIN network /\ Opened(q, t)
      BY <2>1 DEF AllOpened, Inv, TypeOK
    <3>2. QED
      BY <1>1, <3>1
  <2>2. CASE t \in DOMAIN network /\ ProcessTx(q, t)
    <3>1. network'[t] = network[t]
      BY <2>2 DEF NetworkExtends
    <3>2. QED
      BY <1>2, <2>2, <3>1 DEF Opened
  <2>3. QED
    BY <2>1, <2>2, NextTakes
<1>4. QED
  BY <1>3 DEF AllOpened

-----------------------------------------------------------------------------
(* What ProcessTx makes of what HandleTx took.                             *)

\* A node has one base key in a relationship.
LEMMA OneBase ==
    ASSUME Inv, AuthorInv, NEW u \in DOMAIN network, network[u].kind = "initiate",
           NEW a \in Bases(u), NEW b \in Bases(u), a.node = b.node
    PROVE  a = b
<1>1. PICK y : y = network[u] /\ InitiateOK(y)
  BY DEF AuthorInv
<1>2. /\ \A i \in DOMAIN y.to : y.to[i].base.node # y.from.base.node
      /\ \A i, j \in DOMAIN y.to : y.to[i].base.node = y.to[j].base.node => i = j
  BY <1>1 DEF InitiateOK
<1>3. /\ a = y.from.base \/ \E i \in DOMAIN y.to : a = y.to[i].base
      /\ b = y.from.base \/ \E i \in DOMAIN y.to : b = y.to[i].base
  BY <1>1 DEF Bases
<1>4. QED
  BY <1>2, <1>3

\* An initiate uses base keys.
LEMMA InitiateKeys ==
    ASSUME Inv, AuthorInv, NEW t \in DOMAIN network, NEW tx, tx = network[t],
           tx.kind = "initiate", NEW pk \in KeysUsed(tx)
    PROVE  pk.i = 0
<1>1. tx.from.i = 0 /\ \A i \in DOMAIN tx.to : tx.to[i].i = 0
  BY DEF AuthorInv, InitiateOK
<1>2. QED
  BY <1>1 DEF KeysUsed, ToSet

\* The keys that an accept or a message uses are those of its parties.
LEMMA LaterBases ==
    ASSUME AuthorInv, NEW t \in DOMAIN network, NEW tx, tx = network[t],
           tx.kind # "initiate", NEW pk \in KeysUsed(tx)
    PROVE  pk.base \in Bases(tx.rel)
<1>1. tx.from.base \in Bases(tx.rel) /\ \A i \in DOMAIN tx.to : tx.to[i].base \in Bases(tx.rel)
  BY DEF AuthorInv, LaterOK
<1>2. QED
  BY <1>1 DEF KeysUsed, ToSet

\* ... and the node's own among them is the key of its record.
LEMMA OurBase ==
    ASSUME Inv, AuthorInv, NEW p \in Node, NEW k \in DOMAIN rs[p],
           NEW b \in Bases(rs[p][k].txid), b.node = p
    PROVE  b = rs[p][k].key
<1>1. PICK r : r = rs[p][k] /\ RecordOK(p, r) /\ RecordBases(r)
  BY RecordType DEF AuthorInv
<1>2. r.txid \in DOMAIN network /\ network[r.txid].kind = "initiate" /\ r.key.node = p
  BY <1>1 DEF RecordOK
<1>3. b \in Bases(r.txid) /\ r.key \in Bases(r.txid)
  BY <1>1 DEF RecordBases
<1>4. QED
  BY <1>1, <1>2, <1>3, OneBase

\* In a pair an accept or a message uses the keys of both at one index.
LEMMA PairKeys ==
    ASSUME Inv, AuthorInv, NEW t \in DOMAIN network, NEW tx, tx = network[t], SentOK(tx),
           tx.kind # "initiate", tx.enc = 0, NEW b \in Bases(tx.rel)
    PROVE  Derived(b, tx.rel, tx.from.i) \in KeysUsed(tx)
<1>1. PICK u, y : /\ u \in DOMAIN network /\ u = tx.rel
                  /\ y = network[u] /\ y.kind = "initiate" /\ y.enc = 0
  BY NamesInitiate
<1>2. Len(y.to) = 1 /\ y.to \in Seq(PublicKey)
  BY <1>1, TxType DEF AuthorInv, InitiateOK, Tx
<1>3. DOMAIN y.to = {1}
  BY <1>2, LenProperties
<1>4. Bases(tx.rel) = {y.from.base, y.to[1].base}
  BY <1>1, <1>3 DEF Bases
<1>5. tx.to # <<>> /\ \A n \in DOMAIN tx.to : tx.to[n].base # tx.from.base
  BY DEF SentOK
<1>6. 1 \in DOMAIN tx.to
  <2>1. tx.to \in Seq(PublicKey)
    BY TxType DEF Tx
  <2>2. Len(tx.to) \in Nat \ {0} /\ DOMAIN tx.to = 1..Len(tx.to)
    BY <1>5, <2>1, LenProperties, EmptySeq
  <2>3. QED
    BY <2>2
<1>7. tx.from \in KeysUsed(tx) /\ tx.to[1] \in KeysUsed(tx)
  BY <1>6 DEF KeysUsed, ToSet
<1>8. tx.from.base \in Bases(tx.rel) /\ tx.to[1].base \in Bases(tx.rel)
  BY <1>7, LaterBases
<1>9. PICK pk \in KeysUsed(tx) : pk.base = b
  BY <1>4, <1>5, <1>6, <1>7, <1>8
<1>10. pk \in PublicKey /\ pk.seed = tx.rel /\ pk.i = tx.from.i
  BY LaterKeys
<1>11. pk = Derived(b, tx.rel, tx.from.i)
  BY <1>9, <1>10 DEF PublicKey, Derived
<1>12. QED
  BY <1>11

\* In a pair a node reads whatever it takes.
LEMMA ReadsInPair ==
    ASSUME Inv, AuthorInv, UniqueTxId, ~ReuseAddresses, NEW p \in Node,
           NEW t \in DOMAIN network, NEW tx, tx = network[t], SentOK(tx), TakenOK(p, t),
           tx.kind # "initiate", tx.enc = 0,
           NEW k \in DOMAIN rs[p], rs[p][k].txid = tx.rel
    PROVE  /\ Decrypts(p, tx) /\ RelationshipForTx(p, tx) = k
           /\ IsOurs(p, tx) /\ OurKey(p, tx) = Derived(rs[p][k].key, tx.rel, tx.from.i)
<1>1. IsOurs(p, tx)
  BY DEF TakenOK
<1>2. Decrypts(p, tx)
  BY <1>1 DEF Decrypts, DecryptDirect, SentOK
<1>3. tx \in Tx
  BY TxType
<1>4. \A pk \in KeysUsed(tx) : Owns(p, pk) => pk.base = rs[p][k].key
  BY LaterBases, OurBase DEF Owns
<1>5. OurKey(p, tx) \in KeysUsed(tx) /\ Owns(p, OurKey(p, tx))
  BY <1>1, <1>3, OurKeyOurs, OurKeyUsed
<1>6. PICK pk \in KeysUsed(tx) : pk = OurKey(p, tx) /\ pk.base = rs[p][k].key
  BY <1>4, <1>5
<1>7. pk = Derived(rs[p][k].key, tx.rel, tx.from.i)
  <2>1. pk \in PublicKey /\ pk.seed = tx.rel /\ pk.i = tx.from.i
    BY LaterKeys
  <2>2. QED
    BY <1>6, <2>1 DEF PublicKey, Derived
<1>8. GetRelationship(p, pk.base) = k
  <2>1. PICK g : g = GetRelationship(p, pk.base)
    OBVIOUS
  <2>2. rs[p] \in Seq(Relationship) /\ DOMAIN rs[p] = 1..Len(rs[p])
    BY LenProperties DEF Inv, TypeOK
  <2>3. g \in DOMAIN rs[p] /\ rs[p][g].key = pk.base
    BY <1>6, <2>1, <2>2, GetRelationshipFinds
  <2>4. PICK u \in DOMAIN network, v \in DOMAIN network :
            /\ u = rs[p][k].txid /\ network[u].kind = "initiate"
            /\ v = rs[p][g].txid /\ network[v].kind = "initiate"
    BY <2>3, RecordType DEF RecordOK
  <2>5. pk.base \in Bases(u) /\ pk.base \in Bases(v)
    BY <1>6, <2>3, <2>4 DEF AuthorInv, RecordBases
  <2>6. u = v
    BY <2>4, <2>5, BasesApart
  <2>7. QED
    BY <2>1, <2>3, <2>4, <2>6 DEF UniqueTxId
<1>9. \A nk \in OurKeys(p, tx) : nk.base = rs[p][k].key
  BY <1>4 DEF OurKeys, KeysUsed
<1>10. k # 0
  BY RecordType, LenProperties DEF Inv, TypeOK
<1>11. RelationshipForTx(p, tx) = k
  BY <1>1, <1>6, <1>8, <1>9, <1>10 DEF RelationshipForTx
<1>12. QED
  BY <1>1, <1>2, <1>6, <1>7, <1>11

\* In a group a node reads what is signed with a key that it expects.
LEMMA ReadsInGroup ==
    ASSUME Inv, AuthorInv, UniqueTxId, NEW p \in Node,
           NEW t \in DOMAIN network, NEW tx, tx = network[t], SentOK(tx),
           tx.kind # "initiate", tx.enc = 1,
           NEW k \in DOMAIN rs[p], rs[p][k].txid = tx.rel, tx.from \in Keys(rs[p][k])
    PROVE  /\ Decrypts(p, tx) /\ RelationshipForTx(p, tx) = k
           /\ tx.from = NextKey(rs[p][k]) => UsesNextKey(p, tx, rs[p][k])
<1>1. PICK r : r = rs[p][k] /\ r \in Relationship /\ RecordOK(p, r)
  BY RecordType
<1>2. r.enc = 1
  BY <1>1, NamesInitiate DEF RecordOK
<1>3. FindForFlag(p, tx.rel) = k /\ k # 0
  <2>1. PICK g : g = FindForFlag(p, tx.rel)
    OBVIOUS
  <2>2. rs[p] \in Seq(Relationship) /\ DOMAIN rs[p] = 1..Len(rs[p])
    BY LenProperties DEF Inv, TypeOK
  <2>3. g # 0
    BY <1>1, <1>2, <2>1, <2>2, FindForFlagFinds
  <2>4. g \in DOMAIN rs[p] /\ rs[p][g].txid = tx.rel
    BY <2>1, <2>3, FlagFindsFirst
  <2>5. QED
    BY <2>1, <2>3, <2>4 DEF UniqueTxId
<1>4. /\ tx.from.seed = r.txid /\ tx.from.i \in Nat \ {0} /\ tx.from \in PublicKey
      /\ tx.from.i = tx.hash
  <2>1. tx.from \in KeysUsed(tx)
    BY DEF KeysUsed
  <2>2. QED
    BY <1>1, <2>1, LaterKeys DEF SentOK
<1>5. tx.from = NextKey(r) \/ \E i \in DOMAIN r.members : tx.from = MemberKey(r, r.members[i])
  BY <1>1 DEF Keys
<1>6. FindHash(r, tx.from) = {[eks |-> 0, i |-> tx.hash]}
  BY <1>4, <1>5 DEF FindHash
<1>7. [eks |-> 1, i |-> tx.hash] \in FindEncryptionKey(r, tx.from)
  <2>1. PICK h : h = [eks |-> 0, i |-> tx.hash]
    OBVIOUS
  <2>2. [h EXCEPT !.eks = @ + 1] = [eks |-> 1, i |-> tx.hash]
    BY <2>1
  <2>3. h \in FindHash(r, tx.from)
    BY <1>6, <2>1
  <2>4. QED
    BY <2>2, <2>3 DEF FindEncryptionKey
<1>8. Decrypts(p, tx)
  BY <1>1, <1>3, <1>7 DEF Decrypts
<1>9. \A pk \in OurKeys(p, tx) : pk.base = rs[p][k].key
  <2>1. \A pk \in KeysUsed(tx) : Owns(p, pk) => pk.base = rs[p][k].key
    BY LaterBases, OurBase DEF Owns
  <2>2. QED
    BY <2>1 DEF OurKeys, KeysUsed
<1>10. RelationshipForTx(p, tx) = k
  BY <1>3, <1>9 DEF RelationshipForTx
<1>11. ASSUME tx.from = NextKey(r) PROVE UsesNextKey(p, tx, r)
  <2>1. tx.from.base.node = p
    BY <1>1, <1>11, DerivedParts DEF NextKey, RecordOK
  <2>2. Owns(p, tx.from)
    BY <2>1 DEF AuthorInv, LaterOK
  <2>3. QED
    BY <1>11, <2>2 DEF UsesNextKey, IsOurs, OurKey
<1>12. QED
  BY <1>1, <1>8, <1>10, <1>11

\* The relationship and the parties of a transaction by a key that it uses.
LEMMA KeyNames ==
    ASSUME Inv, AuthorInv, TxsSettled, NEW s \in DOMAIN network, NEW pk \in KeysUsed(network[s]),
           pk.i # 0
    PROVE  /\ network[s].kind # "initiate" /\ network[s].rel = pk.seed /\ pk.i \in Nat
           /\ \A p \in Node : HasRecord(p, pk.seed) => p \in Parties(s)
<1>1. PICK tx : tx = network[s] /\ SentOK(tx)
  BY DEF TxsSettled
<1>2. tx.kind # "initiate"
  BY <1>1, InitiateKeys
<1>3. tx.rel = pk.seed /\ pk.i \in Nat
  BY <1>1, <1>2, LaterKeys
<1>4. ASSUME NEW p \in Node, HasRecord(p, pk.seed) PROVE p \in Parties(s)
  <2>1. PICK k \in DOMAIN rs[p] : rs[p][k].txid = pk.seed
    BY <1>4 DEF HasRecord
  <2>2. rs[p][k].key.node = p /\ rs[p][k].key \in Bases(network[s].rel)
    <3>1. rs[p][k].key.node = p
      BY <2>1, RecordType DEF RecordOK
    <3>2. rs[p][k].key \in Bases(rs[p][k].txid)
      BY <2>1 DEF AuthorInv, RecordBases
    <3>3. QED
      BY <1>1, <1>3, <2>1, <3>1, <3>2
  <2>3. QED
    BY <2>2, PartiesHold
<1>5. QED
  BY <1>1, <1>2, <1>3, <1>4

\* In a pair the only index of an idle node is behind nothing that it takes.
LEMMA PairNotPassed ==
    ASSUME Inv, AuthorInv, UniqueTxId, SettledInv, ~ReuseAddresses, NEW p \in Node, Idle(p),
           NEW t \in txs[p], NEW tx, tx = network[t], tx.kind # "initiate", tx.enc = 0,
           NEW k \in DOMAIN rs[p], rs[p][k].txid = tx.rel, NEW nk \in Keys(rs[p][k])
    PROVE  tx.from.i <= nk.i /\ nk.i = rs[p][k].next
<1>1. t \in DOMAIN network /\ SentOK(tx) /\ TakenOK(p, t) /\ tx \in Tx
  BY TxType DEF Inv, TypeOK, SettledInv, TxsSettled, TakenSettled
<1>2. PICK r : r = rs[p][k] /\ r \in Relationship /\ RecordOK(p, r)
  BY RecordType
<1>3. IsOurs(p, tx) /\ OurKey(p, tx) = Derived(r.key, tx.rel, tx.from.i)
  BY <1>1, <1>2, ReadsInPair
<1>4. PICK pk : pk = OurKey(p, tx) /\ Owns(p, pk) /\ pk.seed = tx.rel /\ pk.i = tx.from.i
  BY <1>1, <1>3, OurKeyOurs, DerivedParts
<1>5. tx.from.i \in Nat \ {0}
  <2>1. tx.from \in KeysUsed(tx)
    BY DEF KeysUsed
  <2>2. QED
    BY <1>1, <2>1, LaterKeys
<1>6. Known(p, pk)
  BY <1>4, <1>5 DEF Owns, SettledInv, KeysKnown
<1>7. tx.from.i <= r.next
  BY <1>2, <1>4, <1>6 DEF Known, UniqueTxId
<1>8. r.enc = 0
  BY <1>1, <1>2, NamesInitiate DEF RecordOK
<1>9. ~Ahead(p, k)
  BY DEF Ahead, Idle, NoCommand
<1>10. \A j \in DOMAIN r.members : r.members[j].next = r.next
  BY <1>2, <1>8, <1>9 DEF SettledInv, RecordsLevel, Level
<1>11. nk.i = r.next
  BY <1>2, <1>10, KeyOf, DerivedParts
<1>12. QED
  BY <1>2, <1>7, <1>11

\* A group is shown what its members sign in order.
LEMMA GroupNotPassed ==
    ASSUME Inv, AuthorInv, SettledInv, NEW p \in Node,
           NEW t \in txs[p], NEW tx, tx = network[t], tx.kind # "initiate", tx.enc = 1,
           NEW k \in DOMAIN rs[p], rs[p][k].txid = tx.rel, NEW nk \in Keys(rs[p][k]),
           Alike(tx.from, nk)
    PROVE  tx.from.i <= nk.i
<1>1. /\ t \in DOMAIN network /\ SentOK(tx) /\ GapOK(t) /\ TakenOK(p, t)
      /\ InOrder /\ t \in Nat
  <2>1. t \in DOMAIN network
    BY DEF Inv, TypeOK
  <2>2. SentOK(tx) /\ GapOK(t) /\ TakenOK(p, t) /\ InOrder
    BY <2>1 DEF SettledInv, TxsSettled, TakenSettled, Orderly
  <2>3. QED
    BY <2>1, <2>2, TxType
<1>2. nk.i \in Nat \ {0}
  BY KeysType
<1>3. tx.from.i \in Nat \ {0} /\ tx.from.seed = tx.rel
  <2>1. tx.from \in KeysUsed(tx)
    BY DEF KeysUsed
  <2>2. QED
    BY <1>1, <2>1, LaterKeys
<1>4. CASE tx.from.i = 1
  BY <1>2, <1>4
<1>5. CASE tx.from.i > 1
  <2>1. PICK s \in DOMAIN network : s < t /\ UsedBy(s, tx.from)
    BY <1>1, <1>5 DEF GapOK
  <2>2. PICK pk \in KeysUsed(network[s]) : tx.from = Following(pk)
    BY <2>1 DEF UsedBy
  <2>3. /\ tx.from.base = pk.base /\ tx.from.seed = pk.seed /\ tx.from.i = pk.i + 1
    BY <2>2, DerivedParts DEF Following
  <2>4. pk.i # 0
    BY <1>5, <2>3
  <2>5. HasRecord(p, pk.seed)
    BY <1>3, <2>3 DEF HasRecord
  <2>6. p \in Parties(s) /\ pk.i \in Nat
    BY <2>4, <2>5, KeyNames DEF SettledInv
  <2>7. s \in 1..t-1
    BY <1>1, <2>1, TxType, LenProperties DEF Inv, TypeOK
  <2>8. s \in promoted[p]
    BY <1>1, <2>6, <2>7 DEF TakenOK
  <2>9. Alike(pk, nk)
    BY <2>3 DEF Alike
  <2>10. pk.i < nk.i
    BY <2>8, <2>9 DEF SettledInv, RecordsBehind, Behind
  <2>11. QED
    BY <1>2, <2>3, <2>6, <2>10
<1>6. QED
  BY <1>3, <1>4, <1>5

\* So nothing that a node has taken and not processed yet is past what it expects.
LEMMA NotPassed ==
    ASSUME Inv, AuthorInv, UniqueTxId, SettledInv, ~ReuseAddresses, NEW p \in Node, Idle(p),
           NEW t \in txs[p], NEW tx, tx = network[t], tx.kind # "initiate",
           NEW k \in DOMAIN rs[p], rs[p][k].txid = tx.rel, NEW nk \in Keys(rs[p][k]),
           NEW pk \in KeysUsed(tx), Alike(pk, nk)
    PROVE  pk.i <= nk.i
<1>1. t \in DOMAIN network /\ SentOK(tx) /\ tx \in Tx
  BY TxType DEF Inv, TypeOK, SettledInv, TxsSettled
<1>2. pk.i = tx.from.i /\ (tx.enc = 1 => pk = tx.from)
  BY <1>1, LaterKeys
<1>3. tx.enc \in {0, 1}
  BY <1>1 DEF Tx
<1>4. QED
  BY <1>2, <1>3, PairNotPassed, GroupNotPassed

\* What reading makes of a record, key by key.
LEMMA ReadExactly ==
    ASSUME NEW r \in Relationship, NEW s, NEW tx, Continues(s, r),
           s.next = IF NextKey(r) \in KeysUsed(tx) THEN r.next + 1 ELSE r.next,
           \A j \in DOMAIN r.members :
              s.members[j].next = IF MemberKey(r, r.members[j]) \in KeysUsed(tx)
                                  THEN r.members[j].next + 1 ELSE r.members[j].next,
           NEW nk \in Keys(s)
    PROVE  \/ nk \in Keys(r) /\ nk \notin KeysUsed(tx)
           \/ \E pk \in Keys(r) : nk = Following(pk)
<1>1. CASE nk = NextKey(s)
  <2>1. NextKey(r) \in Keys(r) /\ s.key = r.key /\ s.txid = r.txid
    BY DEF Keys, Continues
  <2>2. CASE NextKey(r) \in KeysUsed(tx)
    <3>1. nk = Following(NextKey(r))
      BY <1>1, <2>1, <2>2, DerivedParts DEF NextKey, Following
    <3>2. QED
      BY <2>1, <3>1
  <2>3. CASE NextKey(r) \notin KeysUsed(tx)
    <3>1. nk = NextKey(r)
      BY <1>1, <2>1, <2>3 DEF NextKey
    <3>2. QED
      BY <2>1, <2>3, <3>1
  <2>4. QED
    BY <2>2, <2>3
<1>2. ASSUME NEW j \in DOMAIN s.members, nk = MemberKey(s, s.members[j])
      PROVE  \/ nk \in Keys(r) /\ nk \notin KeysUsed(tx)
             \/ \E pk \in Keys(r) : nk = Following(pk)
  <2>1. j \in DOMAIN r.members /\ s.members[j].base = r.members[j].base /\ s.txid = r.txid
    BY DEF Continues
  <2>2. PICK y : y = MemberKey(r, r.members[j]) /\ y \in Keys(r)
    BY <2>1 DEF Keys
  <2>3. CASE y \in KeysUsed(tx)
    <3>1. s.members[j].next = r.members[j].next + 1
      BY <2>1, <2>2, <2>3
    <3>2. nk = Following(y)
      BY <1>2, <2>1, <2>2, <3>1, DerivedParts DEF MemberKey, Following
    <3>3. QED
      BY <2>2, <3>2
  <2>4. CASE y \notin KeysUsed(tx)
    <3>1. s.members[j].next = r.members[j].next
      BY <2>1, <2>2, <2>4
    <3>2. nk = y
      BY <1>2, <2>1, <2>2, <3>1 DEF MemberKey
    <3>3. QED
      BY <2>2, <2>4, <3>2
  <2>5. QED
    BY <2>3, <2>4
<1>3. QED
  BY <1>1, <1>2 DEF Keys

-----------------------------------------------------------------------------
(* A record gets past whatever ProcessTx is given.                         *)

\* A key that a record expects in the place of another one, once tx is read: it
\* is not used by tx, or it is the one after a key that was expected.
IsPast(nk, r, tx) ==
    \/ nk \in Keys(r) /\ nk \notin KeysUsed(tx)
    \/ \E x \in Keys(r) : nk = Following(x)

\* A record that expects one of the keys that a transaction uses gets past it.
LEMMA ProcessingReads ==
    ASSUME Inv, AuthorInv, UniqueTxId, SettledInv, ~ReuseAddresses, NEW q \in Node,
           NEW t \in DOMAIN network, NEW tx, tx = network[t], tx.kind # "initiate",
           ProcessTx(q, t), NEW k \in DOMAIN rs[q], NEW r, r = rs[q][k], r.txid = tx.rel,
           NEW pk \in Keys(r), pk \in KeysUsed(tx), NEW nk \in Keys(rs'[q][k])
    PROVE  IsPast(nk, r, tx)
<1>1. /\ tx \in Tx /\ SentOK(tx) /\ TakenOK(q, t) /\ r \in Relationship /\ r.enc = tx.enc
      /\ tx.enc \in {0, 1} /\ RecordOK(q, r)
  <2>1. r \in Relationship /\ RecordOK(q, r) /\ tx \in Tx
    BY RecordType, TxType
  <2>2. SentOK(tx) /\ TakenOK(q, t)
    BY DEF ProcessTx, SettledInv, TxsSettled, TakenSettled
  <2>3. r.enc = tx.enc
    BY <2>1, NamesInitiate DEF RecordOK
  <2>4. QED
    BY <2>1, <2>2, <2>3 DEF Tx
<1>2. /\ Decrypts(q, tx) /\ RelationshipForTx(q, tx) = k
      /\ NextKey(r) \in KeysUsed(tx) => UsesNextKey(q, tx, r)
  <2>1. CASE tx.enc = 0
    <3>1. /\ Decrypts(q, tx) /\ RelationshipForTx(q, tx) = k
          /\ IsOurs(q, tx) /\ OurKey(q, tx) = Derived(r.key, tx.rel, tx.from.i)
      BY <1>1, <2>1, ReadsInPair
    <3>2. ASSUME NextKey(r) \in KeysUsed(tx) PROVE UsesNextKey(q, tx, r)
      <4>1. NextKey(r).i = tx.from.i
        BY <1>1, <3>2, LaterKeys
      <4>2. NextKey(r) = OurKey(q, tx)
        BY <3>1, <4>1, DerivedParts DEF NextKey
      <4>3. QED
        BY <2>1, <3>1, <4>2 DEF UsesNextKey
    <3>3. QED
      BY <3>1, <3>2
  <2>2. CASE tx.enc = 1
    <3>1. \A x \in KeysUsed(tx) : x = tx.from
      BY <1>1, <2>2, LaterKeys
    <3>2. tx.from \in Keys(r)
      BY <3>1
    <3>3. QED
      BY <1>1, <2>2, <3>1, <3>2, ReadsInGroup
  <2>3. QED
    BY <1>1, <2>1, <2>2
<1>3. ProcessInRelationship(q, t)
  BY <1>2 DEF ProcessTx
<1>4. RelationshipForTx(q, tx) # 0
  BY <1>2, RecordType, LenProperties DEF Inv, TypeOK
<1>5. PICK s \in Relationship :
          /\ rs' = [rs EXCEPT ![q][k] = s]
          /\ \E m : ReadInto(s, r, tx, Owns(q, tx.from), m)
          /\ s.next = IF UsesNextKey(q, tx, r) THEN r.next + 1 ELSE r.next
  BY <1>2, <1>3, <1>4, ProcessInRelationshipEffect
<1>6. rs'[q][k] = s
  <2>1. rs' = [rs EXCEPT ![q][k] = s]
    BY <1>5
  <2>2. rs[q] \in Seq(Relationship) /\ rs \in [Node -> Seq(Relationship)]
    BY DEF Inv, TypeOK
  <2>3. QED
    BY <2>1, <2>2
<1>7. /\ Continues(s, r)
      /\ \A j \in DOMAIN r.members :
            s.members[j].next = IF MemberKey(r, r.members[j]) \in KeysUsed(tx)
                                THEN r.members[j].next + 1 ELSE r.members[j].next
  BY <1>5 DEF ReadInto
<1>8. s.next = IF NextKey(r) \in KeysUsed(tx) THEN r.next + 1 ELSE r.next
  <2>1. UsesNextKey(q, tx, r) => NextKey(r) \in KeysUsed(tx)
    BY <1>1, OurKeyUsed DEF UsesNextKey
  <2>2. QED
    BY <1>2, <1>5, <2>1
<1>9. QED
  BY <1>1, <1>6, <1>7, <1>8, ReadExactly DEF IsPast

\* So a record is past every key that a transaction used, once that is processed.
LEMMA Passes ==
    ASSUME Inv, Inv', AuthorInv, UniqueTxId, SettledInv, Serialised, ~ReuseAddresses,
           NEW q \in Node, NEW t \in DOMAIN network, NEW tx, tx = network[t],
           tx.kind # "initiate", ProcessTx(q, t), NEW k \in DOMAIN rs[q],
           k \in DOMAIN rs'[q], Advances(rs'[q][k], rs[q][k]), rs[q][k].txid = tx.rel,
           NEW pk \in KeysUsed(tx), NEW nk \in Keys(rs'[q][k]), Alike(pk, nk)
    PROVE  pk.i < nk.i
<1>1. PICK r : r = rs[q][k]
  OBVIOUS
<1>2. t \in txs[q] /\ Idle(q) /\ SentOK(tx)
  BY DEF ProcessTx, SettledInv, TxsSettled
<1>3. pk \in PublicKey /\ pk.i \in Nat
  BY <1>2, LaterKeys
<1>4. \A x \in Keys(r) : Alike(pk, x) => pk.i <= x.i /\ x.i \in Nat /\ x \in PublicKey
  BY <1>1, <1>2, NotPassed, KeysType
<1>5. ASSUME nk \in Keys(r), nk \notin KeysUsed(tx) PROVE pk.i < nk.i
  <2>1. pk.i <= nk.i /\ nk.i \in Nat /\ nk \in PublicKey
    BY <1>4, <1>5
  <2>2. pk # nk
    BY <1>5
  <2>3. pk.i # nk.i
    BY <1>3, <2>1, <2>2 DEF PublicKey, Alike
  <2>4. QED
    BY <1>3, <2>1, <2>3
<1>6. ASSUME NEW x \in Keys(r), nk = Following(x) PROVE pk.i < nk.i
  <2>1. nk.base = x.base /\ nk.seed = x.seed /\ nk.i = x.i + 1
    BY <1>6, DerivedParts DEF Following
  <2>2. Alike(pk, x)
    BY <2>1 DEF Alike
  <2>3. pk.i <= x.i /\ x.i \in Nat
    BY <1>4, <2>2
  <2>4. QED
    BY <1>3, <2>1, <2>3
<1>7. IsPast(nk, r, tx)
  <2>1. ASSUME NEW x \in Keys(r), x \in KeysUsed(tx) PROVE IsPast(nk, r, tx)
    BY <1>1, <2>1, ProcessingReads
  <2>2. CASE \A x \in Keys(r) : x \notin KeysUsed(tx)
    BY <1>1, <2>2 DEF Advances, IsPast
  <2>3. QED
    BY <2>1, <2>2
<1>8. QED
  BY <1>5, <1>6, <1>7 DEF IsPast

\* The seed of a key that a record expects names its relationship.
LEMMA KeySeed ==
    ASSUME NEW r, NEW nk \in Keys(r)
    PROVE  nk.seed = r.txid
BY KeyOf, DerivedParts

\* Records stay past what has been processed.
LEMMA NextBehind ==
    ASSUME Inv, Inv', AuthorInv, UniqueTxId, SettledInv, Serialised, ~ReuseAddresses,
           NetworkExtends, RecordsAdvance, [Next]_vars
    PROVE  RecordsBehind'
<1>1. ASSUME NEW q \in Node, NEW k \in DOMAIN rs'[q], NEW t \in promoted'[q],
             NEW pk \in KeysUsed(network'[t]), NEW nk \in Keys(rs'[q][k]), Alike(pk, nk)
      PROVE  pk.i < nk.i
  <2>1. t \in DOMAIN network /\ t \in txs[q] /\ (t \in promoted[q] \/ ProcessTx(q, t))
    <3>1. CASE t \in promoted[q]
      BY <3>1 DEF Inv, TypeOK
    <3>2. CASE t \in DOMAIN network /\ ProcessTx(q, t)
      BY <3>2 DEF ProcessTx
    <3>3. QED
      BY <3>1, <3>2, NextTakes
  <2>2. PICK tx : tx = network[t] /\ pk \in KeysUsed(tx) /\ SentOK(tx) /\ TakenOK(q, t)
    BY <2>1 DEF NetworkExtends, SettledInv, TxsSettled, TakenSettled
  <2>3. \/ k \in DOMAIN rs[q] /\ Advances(rs'[q][k], rs[q][k])
        \/ ~HasRecord(q, rs'[q][k].txid) /\ Begun(rs'[q][k])
    BY DEF RecordsAdvance
  <2>4. ASSUME k \in DOMAIN rs[q], nk \in Keys(rs[q][k]) PROVE nk.i \in Nat \ {0}
    BY <2>4, KeysType
  <2>5. ASSUME k \in DOMAIN rs[q], NEW x \in Keys(rs[q][k]), nk = Following(x)
        PROVE  /\ nk.base = x.base /\ nk.seed = x.seed /\ nk.i = x.i + 1
               /\ x.i \in Nat \ {0}
    BY <2>5, KeysType, DerivedParts DEF Following
  <2>6. CASE tx.kind = "initiate"
    <3>1. pk.i = 0
      BY <2>1, <2>2, <2>6, InitiateKeys
    <3>2. nk.i \in Nat \ {0}
      BY <2>3, <2>4, <2>5 DEF Advances, Begun
    <3>3. QED
      BY <3>1, <3>2
  <2>7. CASE tx.kind # "initiate"
    <3>1. pk.seed = tx.rel /\ pk.i \in Nat
      BY <2>1, <2>2, <2>7, LaterKeys
    <3>2. rs'[q][k].txid = tx.rel
      BY <1>1, <3>1, KeySeed DEF Alike
    <3>3. HasRecord(q, tx.rel)
      BY <2>2, <2>7 DEF TakenOK
    <3>4. k \in DOMAIN rs[q] /\ Advances(rs'[q][k], rs[q][k])
      BY <2>3, <3>2, <3>3
    <3>5. PICK r : r = rs[q][k] /\ Advances(rs'[q][k], r) /\ r.txid = tx.rel
      BY <3>2, <3>4 DEF Advances, Continues
    <3>6. CASE ProcessTx(q, t)
      BY <1>1, <2>1, <2>2, <2>7, <3>4, <3>5, <3>6, Passes
    <3>7. CASE t \in promoted[q]
      <4>1. \A x \in Keys(r) : Alike(pk, x) => pk.i < x.i
        BY <2>2, <3>4, <3>5, <3>7 DEF SettledInv, RecordsBehind, Behind
      <4>2. CASE nk \in Keys(r)
        BY <1>1, <4>1, <4>2
      <4>3. ASSUME NEW x \in Keys(r), nk = Following(x) PROVE pk.i < nk.i
        <5>1. /\ nk.base = x.base /\ nk.seed = x.seed /\ nk.i = x.i + 1
              /\ x.i \in Nat
          BY <2>5, <3>4, <3>5, <4>3
        <5>2. Alike(pk, x)
          BY <1>1, <5>1 DEF Alike
        <5>3. pk.i < x.i
          BY <4>1, <5>2
        <5>4. QED
          BY <3>1, <5>1, <5>3
      <4>4. QED
        BY <1>1, <3>5, <4>2, <4>3 DEF Advances
    <3>8. QED
      BY <2>1, <3>6, <3>7
  <2>8. QED
    BY <2>6, <2>7
<1>2. QED
  BY <1>1 DEF RecordsBehind, Behind, Keys, NextKey, MemberKey, KeysUsed, Alike

-----------------------------------------------------------------------------
(* What is broadcast.                                                      *)

Fit(tx) ==
    /\ SentOK(tx)
    /\ tx.kind = "initiate" => tx.from.i = 0
    /\ (InOrder /\ ~Pairs) \/ tx.enc = 0

\* An initiate uses base keys, and makes a pair or a group.
LEMMA InitiateFits ==
    ASSUME NEW p \in Node, NEW recv \in Invites[p], InOrder \/ Pairs
    PROVE  Fit(InitiateTx(p, recv))
<1>1. PICK tx : tx = InitiateTx(p, recv)
  OBVIOUS
<1>2. tx.kind = "initiate" /\ tx.from.i = 0 /\ tx.hash = 0
  BY <1>1 DEF InitiateTx, BasePK, Derived
<1>3. tx.enc = IF Len(recv) > 1 THEN 1 ELSE 0
  BY <1>1 DEF InitiateTx
<1>4. (InOrder /\ ~Pairs) \/ tx.enc = 0
  <2>1. CASE Pairs
    <3>1. Len(recv) = 1
      BY <2>1 DEF Pairs
    <3>2. QED
      BY <1>3, <3>1
  <2>2. CASE ~Pairs
    BY <2>2
  <2>3. QED
    BY <2>1, <2>2
<1>5. QED
  BY <1>1, <1>2, <1>4 DEF Fit, SentOK

\* The only command of a node broadcasts what it has built.
LEMMA CommandFits ==
    ASSUME Inv, AuthorInv, SettledInv, \A x, y \in Conn : x = y,
           NEW p \in Node, NEW c \in Conn, cmd[p][c].pc = "built"
    PROVE  Fit(CommandTx(p, c))
<1>1. PICK k \in DOMAIN rs[p] : k = cmd[p][c].k
  BY CommandHeld
<1>2. PICK r \in Relationship : r = rs[p][k] /\ RecordOK(p, r) /\ RecordBases(r)
  BY RecordType DEF AuthorInv
<1>3. PICK tx \in Tx : /\ tx = CommandTx(p, c) /\ tx.kind # "initiate"
                       /\ tx.rel = r.txid /\ tx.from = NextKey(r) /\ tx.enc = r.enc
                       /\ tx.to = cmd[p][c].to
  BY <1>1, <1>2, CommandTxType DEF Inv, Structure
<1>4. tx.from.i = r.next /\ tx.from.base = r.key
  BY <1>3, DerivedParts DEF NextKey
<1>5. CmdOK(p, cmd[p][c])
  BY DEF SettledInv, CommandsSettled
<1>6. tx.hash = r.next /\ ToSet(tx.to) = Paid(r)
  BY <1>1, <1>2, <1>3, <1>5 DEF CmdOK, CommandTx
<1>7. ~Ahead(p, k)
  BY DEF Ahead
<1>8. ASSUME tx.enc = 0
      PROVE  /\ tx.to # <<>>
             /\ \A n \in DOMAIN tx.to :
                   tx.to[n].i = tx.from.i /\ tx.to[n].base # tx.from.base
  <2>1. Paid(r) = {MemberKey(r, r.members[j]) : j \in DOMAIN r.members}
    BY <1>3, <1>8 DEF Paid
  <2>2. \A j \in DOMAIN r.members : r.members[j].next = r.next
    BY <1>2, <1>3, <1>7, <1>8 DEF SettledInv, RecordsLevel, Level
  <2>3. \A j \in DOMAIN r.members : r.members[j].base # r.key
    BY <1>2 DEF RecordBases
  <2>4. tx.to \in Seq(PublicKey) /\ DOMAIN tx.to = 1..Len(tx.to)
    BY LenProperties DEF Tx
  <2>5. ASSUME NEW n \in DOMAIN tx.to
        PROVE  tx.to[n].i = tx.from.i /\ tx.to[n].base # tx.from.base
    <3>1. tx.to[n] \in ToSet(tx.to)
      BY <2>4, <2>5 DEF ToSet
    <3>2. PICK j \in DOMAIN r.members : tx.to[n] = MemberKey(r, r.members[j])
      BY <1>6, <2>1, <3>1
    <3>3. tx.to[n].i = r.members[j].next /\ tx.to[n].base = r.members[j].base
      BY <3>2, DerivedParts DEF MemberKey
    <3>4. QED
      BY <1>4, <2>2, <2>3, <3>3
  <2>6. tx.to # <<>>
    <3>1. r.members \in Seq(MemberRecord) /\ r.members # <<>>
      BY <1>2 DEF Relationship, RecordOK
    <3>2. 1 \in DOMAIN r.members
      <4>1. Len(r.members) \in Nat \ {0} /\ DOMAIN r.members = 1..Len(r.members)
        BY <3>1, LenProperties, EmptySeq
      <4>2. QED
        BY <4>1
    <3>3. ToSet(tx.to) # {}
      BY <1>6, <2>1, <3>2
    <3>4. QED
      BY <3>3 DEF ToSet
  <2>7. QED
    BY <2>5, <2>6
<1>9. (InOrder /\ ~Pairs) \/ tx.enc = 0
  BY <1>2, <1>3 DEF SettledInv, Orderly, RecordOK
<1>10. SentOK(tx)
  BY <1>4, <1>6, <1>8 DEF SentOK
<1>11. QED
  BY <1>3, <1>9, <1>10 DEF Fit

\* A step that adds a transaction adds one that fits.
LEMMA NextFits ==
    ASSUME Inv, AuthorInv, SettledInv, CommandsHold, \A x, y \in Conn : x = y,
           InOrder \/ Pairs, [Next]_vars
    PROVE  \/ UNCHANGED network
           \/ \E tx \in Tx : network' = Append(network, tx) /\ Signed(tx) /\ Fit(tx)
<1> DEFINE Adding == \E tx \in Tx : network' = Append(network, tx) /\ Signed(tx) /\ Fit(tx)
<1>1. ASSUME NEW p \in Node, NEW c \in Conn, UserStep(p, c)
      PROVE  UNCHANGED network \/ Adding
  <2>1. ASSUME NEW recv \in Invites[p],
               Initiate(p, c, recv) \/ InitiateFails(p, c, recv)
        PROVE  UNCHANGED network \/ Adding
    <3>1. UNCHANGED network \/ network' = Append(network, InitiateTx(p, recv))
      BY <2>1 DEF Initiate, InitiateFails
    <3>2. PICK tx \in Tx : /\ tx = InitiateTx(p, recv) /\ tx.kind = "initiate"
                           /\ tx.rel = Len(network) + 1
      BY InitiateTxType DEF Inv
    <3>3. Signed(tx) /\ Fit(tx)
      BY <3>2, InitiateFits DEF Signed
    <3>4. QED
      BY <3>1, <3>2, <3>3
  <2>2. ASSUME NEW kind \in {"accept", "message"}, NEW k \in DOMAIN rs[p],
               Build(p, c, kind, k)
        PROVE  UNCHANGED network
    BY <2>2 DEF Build
  <2> HIDE DEF Adding
  <2>3. QED
    BY <1>1, <2>1, <2>2 DEF UserStep
<1>2. ASSUME NEW p \in Node, NEW c \in Conn, CommandStep(p, c)
      PROVE  UNCHANGED network \/ Adding
  <2>1. CASE Broadcast(p, c) \/ BroadcastFails(p, c)
    <3>1. /\ cmd[p][c].pc = "built"
          /\ UNCHANGED network \/ network' = Append(network, CommandTx(p, c))
      BY <2>1 DEF Broadcast, BroadcastFails
    <3>2. CommandTx(p, c) \in Tx /\ Signed(CommandTx(p, c)) /\ Fit(CommandTx(p, c))
      BY <3>1, CommandSigns, CommandFits
    <3>3. QED
      BY <3>1, <3>2
  <2>2. CASE ~ (Broadcast(p, c) \/ BroadcastFails(p, c))
    BY <1>2, <2>2 DEF CommandStep, RecordInitiated, RegisterInitiated,
       AdvanceOwn, AdvanceMembers
  <2> HIDE DEF Adding
  <2>3. QED
    BY <2>1, <2>2
<1>3. ASSUME NEW p \in Node, ListenerStep(p) PROVE UNCHANGED network
  BY <1>3 DEF ListenerStep, HandleTx, ProcessTx
<1>4. Next => UNCHANGED network \/ Adding
  <2> HIDE DEF Adding
  <2>1. QED
    BY <1>1, <1>2, <1>3 DEF Next
<1>5. UNCHANGED vars => UNCHANGED network
  BY DEF vars
<1>6. QED
  BY <1>4, <1>5

\* In a group the key that signs is the first one, or the one before it was used.
LEMMA SignedReached ==
    ASSUME SettledInv, NEW tx, Signed(tx), Fit(tx), tx.from.i > 1
    PROVE  \E s \in DOMAIN network : UsedBy(s, tx.from)
<1>1. tx.kind # "initiate"
  BY DEF Fit
<1>2. PICK p \in Node : \E k \in DOMAIN rs[p] : Signs(p, k, tx)
  BY <1>1 DEF Signed
<1>3. PICK k \in DOMAIN rs[p] : Signs(p, k, tx)
  BY <1>2
<1>4. tx.from \in Keys(rs[p][k])
  BY <1>3 DEF Signs, Keys
<1>5. Reached(tx.from)
  BY <1>4 DEF SettledInv, RecordsReached
<1>6. QED
  BY <1>5 DEF Reached

\* Transactions are what commands send.
LEMMA NextTxs ==
    ASSUME Inv, AuthorInv, SettledInv, CommandsHold, \A x, y \in Conn : x = y,
           InOrder \/ Pairs, NetworkExtends, [Next]_vars
    PROVE  TxsSettled' /\ Orderly'
<1>1. ASSUME NEW t \in DOMAIN network
      PROVE  /\ t \in DOMAIN network' /\ network'[t] = network[t]
             /\ SentOK(network'[t]) /\ GapOK(t)'
  <2>1. t \in DOMAIN network' /\ network'[t] = network[t]
    BY DEF NetworkExtends
  <2>2. SentOK(network[t]) /\ GapOK(t)
    BY DEF SettledInv, TxsSettled
  <2>3. ASSUME NEW nk, NEW s \in DOMAIN network, UsedBy(s, nk) PROVE UsedBy(s, nk)'
    BY <2>3 DEF UsedBy, NetworkExtends
  <2>4. ASSUME network[t].enc = 1, network[t].from.i > 1
        PROVE  \E s \in DOMAIN network' : s < t /\ UsedBy(s, network[t].from)'
    <3>1. PICK s \in DOMAIN network : s < t /\ UsedBy(s, network[t].from)
      BY <2>2, <2>4 DEF GapOK
    <3>2. PICK nk : nk = network[t].from
      OBVIOUS
    <3>3. UsedBy(s, nk)' /\ s \in DOMAIN network'
      BY <2>3, <3>1, <3>2 DEF NetworkExtends
    <3>4. QED
      BY <2>1, <3>1, <3>2, <3>3 DEF UsedBy
  <2>5. GapOK(t)'
    BY <2>1, <2>4 DEF GapOK, UsedBy
  <2>6. QED
    BY <2>1, <2>2, <2>5
<1>2. CASE UNCHANGED network
  BY <1>1, <1>2 DEF TxsSettled, SettledInv, Orderly
<1>3. ASSUME NEW tx \in Tx, network' = Append(network, tx), Signed(tx), Fit(tx)
      PROVE  TxsSettled' /\ Orderly'
  <2>1. PICK n \in Nat : /\ n = Len(network) /\ DOMAIN network = 1..n
                         /\ DOMAIN network' = 1..n+1 /\ network'[n+1] = tx
    BY <1>3, NetworkAppended
  <2>2. SentOK(network'[n+1])
    BY <1>3, <2>1 DEF Fit
  <2>3. GapOK(n+1)'
    <3>1. ASSUME tx.from.i > 1
          PROVE  \E s \in DOMAIN network' : s < n + 1 /\ UsedBy(s, tx.from)'
      <4>1. PICK s \in DOMAIN network : UsedBy(s, tx.from)
        BY <1>3, <3>1, SignedReached
      <4>2. s < n + 1 /\ s \in DOMAIN network' /\ UsedBy(s, tx.from)'
        BY <2>1, <4>1 DEF UsedBy, NetworkExtends
      <4>3. QED
        BY <4>2
    <3>2. QED
      BY <2>1, <3>1 DEF GapOK, UsedBy
  <2>4. \A t \in DOMAIN network' : t \in DOMAIN network \/ t = n + 1
    BY <2>1
  <2>5. TxsSettled'
    BY <1>1, <2>2, <2>3, <2>4 DEF TxsSettled
  <2>6. Orderly'
    BY <1>1, <1>3, <2>1, <2>4 DEF SettledInv, Orderly, Fit
  <2>7. QED
    BY <2>5, <2>6
<1>4. QED
  BY <1>2, <1>3, NextFits

-----------------------------------------------------------------------------
(* Running commands.                                                       *)

\* Nobody else's records change.
OthersStand(p) == \A q \in Node \ {p} : rs'[q] = rs[q]

\* What was used stays used.
LEMMA UsedInStays ==
    ASSUME NetworkExtends, NEW S, UsedIn(S)
    PROVE  UsedIn(S)'
BY DEF NetworkExtends, UsedIn

\* A command whose records stand is as it was.
LEMMA CommandStands ==
    ASSUME Inv, CommandsSettled, NetworkExtends, NEW q \in Node, rs'[q] = rs[q],
           NEW e \in Conn, NEW d, d = cmd[q][e]
    PROVE  CmdOK(q, d)'
<1>1. CmdOK(q, d)
  BY DEF CommandsSettled
<1>2. PICK r : r = rs[q][d.k] /\ r = rs'[q][d.k]
  OBVIOUS
<1>3. /\ d.pc = "sent" => UsedIn({NextKey(r)} \cup Paid(r))'
      /\ d.pc = "advanced" => UsedIn(Paid(r))'
  BY <1>1, <1>2, UsedInStays DEF CmdOK
<1>4. d.pc = "built" => d.hash = r.next /\ ToSet(d.to) = Paid(r)
  BY <1>1, <1>2 DEF CmdOK
<1>5. QED
  BY <1>2, <1>3, <1>4 DEF CmdOK, UsedIn

\* The commands when no record changes.
LEMMA CommandsFrozen ==
    ASSUME Inv, CommandsSettled, NetworkExtends, UNCHANGED rs, UNCHANGED cmd
    PROVE  CommandsSettled'
<1>1. ASSUME NEW q \in Node, NEW e \in Conn PROVE CmdOK(q, cmd[q][e])'
  <2>1. PICK d : d = cmd[q][e]
    OBVIOUS
  <2>2. CmdOK(q, d)'
    BY <2>1, CommandStands
  <2>3. QED
    BY <2>1, <2>2
<1>2. QED
  BY <1>1 DEF CommandsSettled

\* The only command of a node is set.
LEMMA CommandTurns ==
    ASSUME Inv, CommandsSettled, NetworkExtends, \A x, y \in Conn : x = y,
           NEW p \in Node, NEW c \in Conn, NEW d, SetCmd(p, c, d),
           OthersStand(p), CmdOK(p, d)'
    PROVE  CommandsSettled'
<1>1. ASSUME NEW q \in Node, NEW e \in Conn PROVE CmdOK(q, cmd[q][e])'
  <2>1. cmd'[q][e] = IF q = p /\ e = c THEN d ELSE cmd[q][e]
    BY SetCmdEffect
  <2>2. CASE q = p
    BY <2>1, <2>2
  <2>3. CASE q # p
    <3>1. PICK x : x = cmd[q][e] /\ x = cmd'[q][e]
      BY <2>1, <2>3
    <3>2. rs'[q] = rs[q]
      BY <2>3 DEF OthersStand
    <3>3. CmdOK(q, x)'
      BY <3>1, <3>2, CommandStands
    <3>4. QED
      BY <3>1, <3>3
  <2>4. QED
    BY <2>2, <2>3
<1>2. QED
  BY <1>1 DEF CommandsSettled

\* ... to one that has nothing to broadcast or to move on.
LEMMA CommandTurnsQuiet ==
    ASSUME Inv, CommandsSettled, NetworkExtends, \A x, y \in Conn : x = y,
           NEW p \in Node, NEW c \in Conn, NEW d, SetCmd(p, c, d),
           OthersStand(p), d.pc \notin {"built", "sent", "advanced"}
    PROVE  CommandsSettled'
<1>1. CmdOK(p, d)'
  BY DEF CmdOK
<1>2. QED
  BY <1>1, CommandTurns

\* A payload is built for the next keys of the record.
LEMMA BuildSettled ==
    ASSUME Inv, CommandsSettled, \A x, y \in Conn : x = y, NEW p \in Node, NEW c \in Conn,
           NEW kind \in {"accept", "message"}, NEW k \in DOMAIN rs[p], Build(p, c, kind, k)
    PROVE  CommandsSettled'
<1>1. PICK r \in Relationship : r = rs[p][k]
  BY RecordType
<1>2. PICK to : to = IF r.enc = 0 THEN [i \in 1..Len(r.members) |-> MemberKey(r, r.members[i])]
                     ELSE <<>>
  OBVIOUS
<1>3. PICK d : d = [pc |-> "built", kind |-> kind, k |-> k, hash |-> r.next, to |-> to, t |-> 0]
  OBVIOUS
<1>4. SetCmd(p, c, d) /\ UNCHANGED rs /\ UNCHANGED network
  BY <1>1, <1>2, <1>3 DEF Build
<1>5. ToSet(to) = Paid(r)
  <2>1. DOMAIN r.members = 1..Len(r.members)
    BY LenProperties DEF Relationship
  <2>2. CASE r.enc = 0
    <3>1. to = [i \in 1..Len(r.members) |-> MemberKey(r, r.members[i])]
      BY <1>2, <2>2
    <3>2. ToSet(to) = {MemberKey(r, r.members[j]) : j \in 1..Len(r.members)}
      BY <3>1 DEF ToSet
    <3>3. QED
      BY <2>1, <2>2, <3>2 DEF Paid
  <2>3. CASE r.enc # 0
    <3>1. to = <<>>
      BY <1>2, <2>3
    <3>2. ToSet(to) = {}
      BY <3>1 DEF ToSet
    <3>3. QED
      BY <2>3, <3>2 DEF Paid
  <2>4. QED
    BY <2>2, <2>3
<1>6. d.pc = "built" /\ d.k = k /\ d.hash = r.next /\ d.to = to
  BY <1>3
<1>7. rs'[p][d.k] = r
  BY <1>1, <1>4, <1>6
<1>8. CmdOK(p, d)'
  BY <1>5, <1>6, <1>7 DEF CmdOK
<1>9. NetworkExtends
  BY <1>4, NetworkKept
<1>10. OthersStand(p)
  BY <1>4 DEF OthersStand
<1>11. QED
  BY <1>4, <1>8, <1>9, <1>10, CommandTurns

\* It is broadcast with them.
LEMMA BroadcastSettled ==
    ASSUME Inv, CommandsSettled, \A x, y \in Conn : x = y, NEW p \in Node, NEW c \in Conn,
           Broadcast(p, c)
    PROVE  CommandsSettled'
<1>1. /\ cmd[p][c].pc = "built" /\ UNCHANGED rs
      /\ network' = Append(network, CommandTx(p, c))
      /\ SetCmd(p, c, At(cmd[p][c], "sent"))
  BY DEF Broadcast, At
<1>2. PICK e \in Command, k \in DOMAIN rs[p] : e = cmd[p][c] /\ k = e.k
  BY <1>1, CommandHeld
<1>3. PICK r \in Relationship : r = rs[p][k]
  BY RecordType
<1>4. PICK tx \in Tx : /\ tx = CommandTx(p, c) /\ tx.from = NextKey(r) /\ tx.to = e.to
  BY <1>1, <1>2, <1>3, CommandTxType DEF Inv, Structure
<1>5. ToSet(tx.to) = Paid(r)
  BY <1>1, <1>2, <1>3, <1>4 DEF CommandsSettled, CmdOK
<1>6. KeysUsed(tx) = {NextKey(r)} \cup Paid(r)
  BY <1>4, <1>5 DEF KeysUsed
<1>7. NetworkExtends /\ Len(network) + 1 \in DOMAIN network' /\ network'[Len(network) + 1] = tx
  BY <1>1, <1>4, NetworkAppended
<1>8. UsedIn({NextKey(r)} \cup Paid(r))'
  BY <1>6, <1>7 DEF UsedIn
<1>9. PICK d : d = At(e, "sent") /\ d.pc = "sent" /\ d.k = k
  BY <1>2, CommandTypes
<1>10. rs'[p][d.k] = r
  BY <1>1, <1>3, <1>9
<1>11. CmdOK(p, d)'
  BY <1>8, <1>9, <1>10 DEF CmdOK, UsedIn
<1>12. OthersStand(p)
  BY <1>1 DEF OthersStand
<1>13. QED
  BY <1>1, <1>2, <1>7, <1>9, <1>11, <1>12, CommandTurns

\* The members are to move on past keys that were used.
LEMMA AdvanceOwnSettled ==
    ASSUME Inv, CommandsSettled, \A x, y \in Conn : x = y, NEW p \in Node, NEW c \in Conn,
           AdvanceOwn(p, c)
    PROVE  CommandsSettled'
<1>1. cmd[p][c].pc = "sent" /\ SetCmd(p, c, At(cmd[p][c], "advanced")) /\ UNCHANGED network
  BY DEF AdvanceOwn, At
<1>2. PICK e \in Command : e = cmd[p][c]
  BY CommandHeld
<1>3. PICK k \in DOMAIN rs[p], s \in Relationship :
          /\ k = cmd[p][c].k
          /\ rs' = [rs EXCEPT ![p][k] = s]
          /\ Continues(s, rs[p][k])
          /\ s.members = rs[p][k].members
  BY AdvanceOwnEffect
<1>4. PICK r : r = rs[p][k]
  OBVIOUS
<1>5. Paid(s) = Paid(r)
  BY <1>3, <1>4 DEF Paid, MemberKey, Continues
<1>6. NetworkExtends
  BY <1>1, NetworkKept
<1>7. UsedIn(Paid(r))
  BY <1>1, <1>3, <1>4 DEF CommandsSettled, CmdOK, UsedIn
<1>8. UsedIn(Paid(s))'
  BY <1>5, <1>6, <1>7, UsedInStays
<1>9. rs' = [rs EXCEPT ![p][k] = s]
  BY <1>3
<1>10. rs'[p][k] = s
  BY <1>9, UpdatedRecords
<1>11. PICK d : d = At(e, "advanced") /\ d.pc = "advanced" /\ d.k = k
  BY <1>2, <1>3, CommandTypes
<1>12. CmdOK(p, d)'
  BY <1>8, <1>10, <1>11 DEF CmdOK
<1>13. OthersStand(p)
  BY <1>9 DEF OthersStand, Inv, TypeOK
<1>14. QED
  BY <1>1, <1>2, <1>6, <1>11, <1>12, <1>13, CommandTurns

\* While the listener works the node runs no command.
LEMMA ProcessTxSettled ==
    ASSUME Inv, CommandsSettled, Serialised, NEW p \in Node, NEW t \in DOMAIN network,
           ProcessTx(p, t)
    PROVE  CommandsSettled'
<1>1. Idle(p) /\ UNCHANGED cmd /\ UNCHANGED network
  BY DEF ProcessTx
<1>2. NetworkExtends
  BY <1>1, NetworkKept
<1>3. OthersStand(p)
  <2>1. rs \in [Node -> Seq(Relationship)]
    BY DEF Inv, TypeOK
  <2>2. UNCHANGED rs \/ \E x : rs' = [rs EXCEPT ![p] = x]
    <3>1. CASE UNCHANGED rs
      BY <3>1
    <3>2. CASE ProcessInitiate(p, t) /\ ~UNCHANGED rs
      BY <3>2 DEF ProcessInitiate
    <3>3. CASE ProcessInRelationship(p, t) /\ ~UNCHANGED rs
      BY <2>1, <3>3 DEF ProcessInRelationship
    <3>4. QED
      BY <3>1, <3>2, <3>3 DEF ProcessTx
  <2>3. QED
    BY <2>1, <2>2 DEF OthersStand
<1>4. ASSUME NEW q \in Node, NEW e \in Conn PROVE CmdOK(q, cmd[q][e])'
  <2>1. PICK d : d = cmd[q][e] /\ d = cmd'[q][e]
    BY <1>1
  <2>2. CASE q = p
    <3>1. d.pc = "idle"
      BY <1>1, <2>1, <2>2 DEF Idle, NoCommand
    <3>2. CmdOK(q, d)'
      BY <3>1 DEF CmdOK
    <3>3. QED
      BY <2>1, <3>2
  <2>3. CASE q # p
    <3>1. rs'[q] = rs[q]
      BY <1>3, <2>3 DEF OthersStand
    <3>2. CmdOK(q, d)'
      BY <1>2, <2>1, <3>1, CommandStands
    <3>3. QED
      BY <2>1, <3>2
  <2>4. QED
    BY <2>2, <2>3
<1>5. QED
  BY <1>4 DEF CommandsSettled

\* Commands hold what they will pay and move on.
LEMMA NextCommands ==
    ASSUME Inv, CommandsSettled, NetworkExtends, Serialised, \A x, y \in Conn : x = y,
           [Next]_vars
    PROVE  CommandsSettled'
<1>1. CASE UNCHANGED rs /\ UNCHANGED cmd
  BY <1>1, CommandsFrozen
<1>2. ASSUME NEW p \in Node, UNCHANGED rs PROVE OthersStand(p)
  BY <1>2 DEF OthersStand
<1>3. ASSUME NEW p \in Node, NEW c \in Conn, UserStep(p, c)
      PROVE  CommandsSettled'
  <2>1. ASSUME NEW recv \in Invites[p], Initiate(p, c, recv)
        PROVE  CommandsSettled'
    <3>1. PICK d : d = Initiated(Len(network) + 1) /\ d.pc = "initiated"
      BY NextInitiated DEF Inv, TypeOK
    <3>2. SetCmd(p, c, d) /\ UNCHANGED rs
      BY <2>1, <3>1 DEF Initiate, Initiated
    <3>3. QED
      BY <1>2, <3>1, <3>2, CommandTurnsQuiet
  <2>2. ASSUME NEW recv \in Invites[p], InitiateFails(p, c, recv)
        PROVE  CommandsSettled'
    BY <1>1, <2>2 DEF InitiateFails
  <2>3. ASSUME NEW kind \in {"accept", "message"}, NEW k \in DOMAIN rs[p],
               Build(p, c, kind, k)
        PROVE  CommandsSettled'
    BY <2>3, BuildSettled
  <2>4. QED
    BY <1>3, <2>1, <2>2, <2>3 DEF UserStep
<1>4. ASSUME NEW p \in Node, NEW c \in Conn, CommandStep(p, c)
      PROVE  CommandsSettled'
  <2>1. CASE RecordInitiated(p, c)
    <3>1. Len(rs[p]) + 1 \in Nat
      BY LenProperties DEF Inv, TypeOK
    <3>2. PICK d : d = Recorded(Len(rs[p]) + 1) /\ d.pc = "recorded"
      BY <3>1, CommandTypes
    <3>3. SetCmd(p, c, d)
      BY <2>1, <3>2 DEF RecordInitiated, Recorded
    <3>4. PICK x : rs' = [rs EXCEPT ![p] = x]
      BY <2>1 DEF RecordInitiated
    <3>5. rs \in [Node -> Seq(Relationship)]
      BY DEF Inv, TypeOK
    <3>6. OthersStand(p)
      BY <3>4, <3>5 DEF OthersStand
    <3>7. QED
      BY <3>2, <3>3, <3>6, CommandTurnsQuiet
  <2>2. CASE RegisterInitiated(p, c) \/ BroadcastFails(p, c) \/ AdvanceMembers(p, c)
    <3>1. NoCommand.pc = "idle"
      BY DEF NoCommand
    <3>2. SetCmd(p, c, NoCommand)
      BY <2>2 DEF RegisterInitiated, BroadcastFails, AdvanceMembers
    <3>3. OthersStand(p)
      BY <2>2 DEF RegisterInitiated, BroadcastFails, AdvanceMembers, OthersStand, Inv, TypeOK
    <3>4. QED
      BY <3>1, <3>2, <3>3, CommandTurnsQuiet
  <2>3. CASE AdvanceOwn(p, c)
    BY <2>3, AdvanceOwnSettled
  <2>4. CASE Broadcast(p, c)
    BY <2>4, BroadcastSettled
  <2>5. QED
    BY <1>4, <2>1, <2>2, <2>3, <2>4 DEF CommandStep
<1>5. ASSUME NEW p \in Node, ListenerStep(p) PROVE CommandsSettled'
  <2>1. ASSUME NEW t \in DOMAIN network, HandleTx(p, t) PROVE CommandsSettled'
    BY <1>1, <2>1 DEF HandleTx
  <2>2. QED
    BY <1>5, <2>1, ProcessTxSettled DEF ListenerStep
<1>6. QED
  BY <1>1, <1>3, <1>4, <1>5 DEF Next, vars

-----------------------------------------------------------------------------
(* The indexes of a pair.                                                  *)

\* A record of a pair at one index.
Flush(r) == r.enc = 0 => \A j \in DOMAIN r.members : r.members[j].next = r.next

\* No command has just moved on in it, ...
LEMMA LevelFlush ==
    ASSUME NEW p, NEW k, NEW r, r = rs[p][k], ~Ahead(p, k)
    PROVE  Level(p, k) <=> Flush(r)
BY DEF Level, Flush

\* ... nor has afterwards.
LEMMA FlushLevel ==
    ASSUME NEW p, NEW k, NEW r, r = rs'[p][k], Flush(r), ~Ahead(p, k)'
    PROVE  Level(p, k)'
BY DEF Level, Flush

\* What is not touched.
LEMMA LevelStays ==
    ASSUME NEW p, NEW k, Level(p, k), rs'[p][k] = rs[p][k], Ahead(p, k)' <=> Ahead(p, k)
    PROVE  Level(p, k)'
BY DEF Level

\* A command turns without being, or having been, about to move the members on.
LEMMA AheadStays ==
    ASSUME NEW p, \A e \in Conn : \/ cmd'[p][e] = cmd[p][e]
                                  \/ cmd[p][e].pc # "advanced" /\ cmd'[p][e].pc # "advanced"
    PROVE  \A k : Ahead(p, k)' <=> Ahead(p, k)
BY DEF Ahead

\* A step of node p leaves the other nodes' records alone.
LEMMA LevelStep ==
    ASSUME Inv, RecordsLevel, NEW p \in Node, OthersStand(p),
           \A q \in Node \ {p} : \A e \in Conn : cmd'[q][e] = cmd[q][e],
           \A k \in DOMAIN rs'[p] : Level(p, k)'
    PROVE  RecordsLevel'
<1>1. ASSUME NEW q \in Node, NEW k \in DOMAIN rs'[q] PROVE Level(q, k)'
  <2>1. CASE q = p
    BY <1>1, <2>1
  <2>2. CASE q # p
    <3>1. rs'[q] = rs[q] /\ Level(q, k) /\ \A e \in Conn : cmd'[q][e] = cmd[q][e]
      BY <1>1, <2>2 DEF OthersStand, RecordsLevel
    <3>2. Ahead(q, k)' <=> Ahead(q, k)
      BY <3>1, AheadStays
    <3>3. QED
      BY <3>1, <3>2, LevelStays
  <2>3. QED
    BY <2>1, <2>2
<1>2. QED
  BY <1>1 DEF RecordsLevel

\* No record changes, and no command moves on from, or to, an index ahead.
LEMMA LevelFrame ==
    ASSUME Inv, RecordsLevel, UNCHANGED rs,
           \A q \in Node : \A e \in Conn :
              \/ cmd'[q][e] = cmd[q][e]
              \/ cmd[q][e].pc # "advanced" /\ cmd'[q][e].pc # "advanced"
    PROVE  RecordsLevel'
<1>1. ASSUME NEW q \in Node, NEW k \in DOMAIN rs'[q] PROVE Level(q, k)'
  <2>1. Level(q, k) /\ rs'[q][k] = rs[q][k]
    BY <1>1 DEF RecordsLevel
  <2>2. Ahead(q, k)' <=> Ahead(q, k)
    BY AheadStays
  <2>3. QED
    BY <2>1, <2>2, LevelStays
<1>2. QED
  BY <1>1 DEF RecordsLevel

\* A new record is level.
LEMMA AppendLevel ==
    ASSUME Inv, RecordsLevel, NEW p \in Node, NEW s, NEW pks \in Seq(PublicKey),
           rs' = [rs EXCEPT ![p] = Append(rs[p], s)], s.next = 1, s.members = NewMembers(pks),
           \A q \in Node : \A e \in Conn :
              \/ cmd'[q][e] = cmd[q][e]
              \/ q = p /\ cmd[q][e].pc # "advanced" /\ cmd'[q][e].pc # "advanced",
           \A e \in Conn : cmd'[p][e].pc # "advanced"
    PROVE  RecordsLevel'
<1>1. /\ DOMAIN rs'[p] = DOMAIN rs[p] \cup {Len(rs[p]) + 1}
      /\ rs'[p][Len(rs[p]) + 1] = s
      /\ \A q \in Node \ {p} : rs'[q] = rs[q]
      /\ \A q \in Node : \A k \in DOMAIN rs[q] : rs'[q][k] = rs[q][k]
  BY AppendedRecords
<1>2. ASSUME NEW k \in DOMAIN rs[p] PROVE Level(p, k)'
  <2>1. Level(p, k) /\ rs'[p][k] = rs[p][k]
    BY <1>1, <1>2 DEF RecordsLevel
  <2>2. Ahead(p, k)' <=> Ahead(p, k)
    BY AheadStays
  <2>3. QED
    BY <2>1, <2>2, LevelStays
<1>3. ASSUME NEW k, k = Len(rs[p]) + 1 PROVE Level(p, k)'
  <2>1. \A j \in DOMAIN s.members : s.members[j].next = 1
    BY NewMembersFresh
  <2>2. Flush(s)
    BY <2>1 DEF Flush
  <2>3. rs'[p][k] = s
    BY <1>1, <1>3
  <2>4. ~Ahead(p, k)'
    BY DEF Ahead
  <2>5. QED
    BY <2>2, <2>3, <2>4, FlushLevel
<1>4. OthersStand(p)
  BY <1>1 DEF OthersStand
<1>5. QED
  BY <1>1, <1>2, <1>3, <1>4, LevelStep

\* One record of the only command of a node changes.
LEMMA UpdateLevel ==
    ASSUME Inv, RecordsLevel, \A x, y \in Conn : x = y, NEW p \in Node, NEW c \in Conn,
           NEW k \in DOMAIN rs[p], k = cmd[p][c].k, NEW s, rs' = [rs EXCEPT ![p][k] = s],
           NEW d, SetCmd(p, c, d), d.pc = "advanced" => d.k = k, Level(p, k)'
    PROVE  RecordsLevel'
<1>1. rs \in [Node -> Seq(Relationship)]
  BY DEF Inv, TypeOK
<1>2. /\ OthersStand(p) /\ DOMAIN rs'[p] = DOMAIN rs[p]
      /\ \A j \in DOMAIN rs[p] : j # k => rs'[p][j] = rs[p][j]
  BY <1>1 DEF OthersStand
<1>3. \A q \in Node : \A e \in Conn : cmd'[q][e] = IF q = p /\ e = c THEN d ELSE cmd[q][e]
  BY SetCmdEffect
<1>4. ASSUME NEW j \in DOMAIN rs[p], j # k PROVE Level(p, j)'
  <2>1. ~Ahead(p, j) /\ ~Ahead(p, j)'
    BY <1>3, <1>4 DEF Ahead
  <2>2. Level(p, j) /\ rs'[p][j] = rs[p][j]
    BY <1>2, <1>4 DEF RecordsLevel
  <2>3. QED
    BY <2>1, <2>2, LevelStays
<1>5. QED
  BY <1>2, <1>3, <1>4, LevelStep

\* Our own index moves on, ...
LEMMA AdvanceOwnLevel ==
    ASSUME Inv, RecordsLevel, \A x, y \in Conn : x = y, NEW p \in Node, NEW c \in Conn,
           AdvanceOwn(p, c)
    PROVE  RecordsLevel'
<1>1. cmd[p][c].pc = "sent" /\ SetCmd(p, c, At(cmd[p][c], "advanced"))
  BY DEF AdvanceOwn, At
<1>2. PICK e \in Command : e = cmd[p][c]
  BY CommandHeld
<1>3. PICK k \in DOMAIN rs[p], s \in Relationship :
          /\ k = cmd[p][c].k
          /\ rs' = [rs EXCEPT ![p][k] = s]
          /\ s.next = rs[p][k].next + 1
          /\ Continues(s, rs[p][k])
          /\ s.members = rs[p][k].members
  BY AdvanceOwnEffect
<1>4. PICK d : d = At(e, "advanced") /\ d.pc = "advanced" /\ d.k = k
  <2>1. PICK d : d = At(e, "advanced")
    OBVIOUS
  <2>2. d.pc = "advanced" /\ d.k = e.k
    BY <2>1, CommandTypes
  <2>3. QED
    BY <1>2, <1>3, <2>1, <2>2
<1>5. rs' = [rs EXCEPT ![p][k] = s]
  BY <1>3
<1>6. rs'[p][k] = s
  BY <1>5, UpdatedRecords
<1>7. SetCmd(p, c, d)
  BY <1>1, <1>2, <1>4
<1>8. Ahead(p, k)'
  <2>1. cmd'[p][c] = d
    BY <1>7, SetCmdEffect
  <2>2. QED
    BY <1>4, <2>1 DEF Ahead
<1>9. Level(p, k)'
  <2>1. PICK r : r = rs[p][k]
    OBVIOUS
  <2>2. ~Ahead(p, k) /\ Level(p, k)
    BY <1>1 DEF Ahead, RecordsLevel
  <2>3. Flush(r)
    BY <2>1, <2>2, LevelFlush
  <2>4. s.enc = 0 => \A j \in DOMAIN s.members : s.next = s.members[j].next + 1
    BY <1>3, <2>1, <2>3 DEF Flush, Continues
  <2>5. QED
    BY <1>6, <1>8, <2>4 DEF Level
<1>10. QED
  BY <1>3, <1>4, <1>5, <1>7, <1>9, UpdateLevel

\* ... and then the members'.
LEMMA AdvanceMembersLevel ==
    ASSUME Inv, RecordsLevel, \A x, y \in Conn : x = y, NEW p \in Node, NEW c \in Conn,
           AdvanceMembers(p, c)
    PROVE  RecordsLevel'
<1>1. cmd[p][c].pc = "advanced" /\ SetCmd(p, c, NoCommand)
  BY DEF AdvanceMembers
<1>2. NoCommand.pc = "idle"
  BY DEF NoCommand
<1>3. PICK k \in DOMAIN rs[p], s \in Relationship :
          /\ k = cmd[p][c].k
          /\ rs' = [rs EXCEPT ![p][k] = s]
          /\ s.next = rs[p][k].next
          /\ Continues(s, rs[p][k])
          /\ rs[p][k].enc = 0 =>
                \A i \in DOMAIN rs[p][k].members :
                   s.members[i].next = rs[p][k].members[i].next + 1
  BY AdvanceMembersEffect
<1>4. rs' = [rs EXCEPT ![p][k] = s]
  BY <1>3
<1>5. rs'[p][k] = s
  BY <1>4, UpdatedRecords
<1>6. Ahead(p, k) /\ Level(p, k)
  BY <1>1, <1>3 DEF Ahead, RecordsLevel
<1>7. Flush(s)
  <2>1. PICK r : r = rs[p][k] /\ Continues(s, r) /\ s.next = r.next
    BY <1>3
  <2>2. ASSUME s.enc = 0, NEW j \in DOMAIN s.members
        PROVE  s.members[j].next = s.next
    <3>1. r.enc = 0 /\ j \in DOMAIN r.members
      BY <2>1, <2>2 DEF Continues
    <3>2. s.members[j].next = r.members[j].next + 1
      BY <1>3, <2>1, <3>1
    <3>3. r.next = r.members[j].next + 1
      BY <1>6, <2>1, <3>1 DEF Level
    <3>4. QED
      BY <2>1, <3>2, <3>3
  <2>3. QED
    BY <2>2 DEF Flush
<1>8. ~Ahead(p, k)'
  <2>1. cmd'[p][c] = NoCommand
    BY <1>1, SetCmdEffect
  <2>2. \A e \in Conn : cmd'[p][e].pc # "advanced"
    BY <1>2, <2>1
  <2>3. QED
    BY <2>2 DEF Ahead
<1>9. Level(p, k)'
  BY <1>5, <1>7, <1>8, FlushLevel
<1>10. QED
  BY <1>1, <1>2, <1>3, <1>4, <1>9, UpdateLevel

\* Reading moves both indexes of a pair on, or none.
LEMMA ReadingLevel ==
    ASSUME Inv, AuthorInv, UniqueTxId, SettledInv, ~ReuseAddresses, NEW p \in Node, Idle(p),
           NEW t \in txs[p], network[t].kind # "initiate", Decrypts(p, network[t]),
           UNCHANGED cmd, ProcessInRelationship(p, t)
    PROVE  RecordsLevel'
<1>1. PICK tx \in Tx : tx = network[t] /\ t \in DOMAIN network /\ SentOK(tx) /\ TakenOK(p, t)
  BY TxType DEF Inv, TypeOK, SettledInv, TxsSettled, TakenSettled
<1>2. CASE RelationshipForTx(p, tx) = 0
  <2>1. UNCHANGED rs
    BY <1>1, <1>2 DEF ProcessInRelationship
  <2>2. QED
    BY <2>1, LevelFrame DEF SettledInv
<1>3. CASE RelationshipForTx(p, tx) # 0
  <2>1. PICK k \in DOMAIN rs[p], r \in Relationship, s \in Relationship :
            /\ k = RelationshipForTx(p, tx) /\ r = rs[p][k]
            /\ rs' = [rs EXCEPT ![p][k] = s]
            /\ \E m : ReadInto(s, r, tx, Owns(p, tx.from), m)
            /\ s.next = IF UsesNextKey(p, tx, r) THEN r.next + 1 ELSE r.next
    <3>1. tx = network[t] /\ t \in DOMAIN network
      BY <1>1
    <3>2. PICK k \in DOMAIN rs[p], r \in Relationship, s \in Relationship :
              \E m \in DOMAIN r.members :
                 /\ k = RelationshipForTx(p, tx)
                 /\ r = rs[p][k]
                 /\ rs' = [rs EXCEPT ![p][k] = s]
                 /\ ReadInto(s, r, tx, Owns(p, tx.from), m)
                 /\ s.next = IF UsesNextKey(p, tx, r) THEN r.next + 1 ELSE r.next
      BY <1>3, <3>1, ProcessInRelationshipEffect
    <3>3. QED
      BY <3>2
  <2>2. /\ Continues(s, r)
        /\ \A j \in DOMAIN r.members :
              s.members[j].next = IF MemberKey(r, r.members[j]) \in KeysUsed(tx)
                                  THEN r.members[j].next + 1 ELSE r.members[j].next
    BY <2>1 DEF ReadInto
  <2>3. \A e \in Conn : cmd[p][e].pc # "advanced" /\ cmd'[p][e].pc # "advanced"
    BY DEF Idle, NoCommand
  <2>4. \A j : ~Ahead(p, j) /\ ~Ahead(p, j)'
    BY <2>3 DEF Ahead
  <2>5. Flush(r)
    BY <2>1, <2>4, LevelFlush DEF SettledInv, RecordsLevel
  <2>6. ASSUME r.enc = 0 PROVE Flush(s)
    <3>1. r.txid = tx.rel /\ RecordOK(p, r) /\ RecordBases(r)
      BY <1>1, <1>3, <2>1, FoundRelationship, RecordType DEF AuthorInv
    <3>2. tx.enc = 0
      BY <1>1, <2>6, <3>1, NamesInitiate DEF RecordOK
    <3>3. IsOurs(p, tx) /\ OurKey(p, tx) = Derived(r.key, tx.rel, tx.from.i)
      BY <1>1, <2>1, <3>1, <3>2, ReadsInPair
    <3>4. UsesNextKey(p, tx, r) <=> r.next = tx.from.i
      BY <3>1, <3>2, <3>3, DerivedParts DEF UsesNextKey, NextKey
    <3>5. ASSUME NEW j \in DOMAIN r.members
          PROVE  MemberKey(r, r.members[j]) \in KeysUsed(tx) <=> r.next = tx.from.i
      <4>1. PICK b : b = r.members[j].base /\ b \in Bases(tx.rel)
        BY <3>1 DEF RecordBases
      <4>2. Derived(b, tx.rel, tx.from.i) \in KeysUsed(tx)
        BY <1>1, <3>2, <4>1, PairKeys
      <4>3. MemberKey(r, r.members[j]) = Derived(b, tx.rel, r.next)
        BY <2>5, <2>6, <3>1, <4>1 DEF MemberKey, Flush
      <4>4. ASSUME MemberKey(r, r.members[j]) \in KeysUsed(tx) PROVE r.next = tx.from.i
        <5>1. MemberKey(r, r.members[j]).i = tx.from.i
          BY <1>1, <4>4, LaterKeys
        <5>2. QED
          BY <4>3, <5>1, DerivedParts
      <4>5. QED
        BY <4>2, <4>3, <4>4
    <3>6. s.next = IF r.next = tx.from.i THEN r.next + 1 ELSE r.next
      BY <2>1, <3>4
    <3>7. \A j \in DOMAIN s.members :
             s.members[j].next = IF r.next = tx.from.i THEN r.next + 1 ELSE r.next
      <4>1. \A j \in DOMAIN r.members : r.members[j].next = r.next
        BY <2>5, <2>6 DEF Flush
      <4>2. QED
        BY <2>2, <3>5, <4>1 DEF Continues
    <3>8. QED
      BY <3>6, <3>7 DEF Flush
  <2>7. Flush(s)
    BY <2>2, <2>6 DEF Flush, Continues
  <2>8. rs' = [rs EXCEPT ![p][k] = s] /\ rs \in [Node -> Seq(Relationship)]
    BY <2>1 DEF Inv, TypeOK
  <2>9. /\ OthersStand(p) /\ DOMAIN rs'[p] = DOMAIN rs[p] /\ rs'[p][k] = s
        /\ \A j \in DOMAIN rs[p] : j # k => rs'[p][j] = rs[p][j]
    BY <2>8 DEF OthersStand
  <2>10. Level(p, k)'
    BY <2>4, <2>7, <2>9, FlushLevel
  <2>11. ASSUME NEW j \in DOMAIN rs[p], j # k PROVE Level(p, j)'
    <3>1. Level(p, j) /\ rs'[p][j] = rs[p][j]
      BY <2>9, <2>11 DEF SettledInv, RecordsLevel
    <3>2. QED
      BY <2>4, <3>1, LevelStays
  <2>12. QED
    BY <2>9, <2>10, <2>11, LevelStep DEF SettledInv
<1>4. QED
  BY <1>2, <1>3

\* The records stay level.
LEMMA NextLevel ==
    ASSUME Inv, AuthorInv, UniqueTxId, SettledInv, Serialised, ~ReuseAddresses,
           \A x, y \in Conn : x = y, [Next]_vars
    PROVE  RecordsLevel'
<1>1. RecordsLevel
  BY DEF SettledInv
<1>2. CASE UNCHANGED rs /\ UNCHANGED cmd
  <2>1. \A q \in Node : \A e \in Conn : cmd'[q][e] = cmd[q][e]
    BY <1>2
  <2>2. QED
    BY <1>1, <1>2, <2>1, LevelFrame
<1>3. ASSUME NEW p \in Node, NEW c \in Conn, NEW d, SetCmd(p, c, d), UNCHANGED rs,
             cmd[p][c].pc # "advanced", d.pc # "advanced"
      PROVE  RecordsLevel'
  <2>1. \A q \in Node : \A e \in Conn : cmd'[q][e] = IF q = p /\ e = c THEN d ELSE cmd[q][e]
    BY <1>3, SetCmdEffect
  <2>2. QED
    BY <1>1, <1>3, <2>1, LevelFrame
<1>4. ASSUME NEW p \in Node, NEW c \in Conn, UserStep(p, c)
      PROVE  RecordsLevel'
  <2>1. ASSUME NEW recv \in Invites[p], Initiate(p, c, recv)
        PROVE  RecordsLevel'
    <3>1. PICK d : d = Initiated(Len(network) + 1) /\ d.pc = "initiated"
      BY NextInitiated DEF Inv, TypeOK
    <3>2. SetCmd(p, c, d) /\ UNCHANGED rs /\ cmd[p][c] = NoCommand
      BY <2>1, <3>1 DEF Initiate, MayInitiate, Initiated
    <3>3. cmd[p][c].pc # "advanced"
      BY <3>2 DEF NoCommand
    <3>4. QED
      BY <1>3, <3>1, <3>2, <3>3
  <2>2. ASSUME NEW recv \in Invites[p], InitiateFails(p, c, recv)
        PROVE  RecordsLevel'
    BY <1>2, <2>2 DEF InitiateFails
  <2>3. ASSUME NEW kind \in {"accept", "message"}, NEW k \in DOMAIN rs[p],
               Build(p, c, kind, k)
        PROVE  RecordsLevel'
    <3>1. PICK d : SetCmd(p, c, d) /\ d.pc = "built" /\ cmd[p][c].pc = "idle"
      BY <2>3, BuildSets
    <3>2. UNCHANGED rs
      BY <2>3 DEF Build
    <3>3. QED
      BY <1>3, <3>1, <3>2
  <2>4. QED
    BY <1>4, <2>1, <2>2, <2>3 DEF UserStep
<1>5. ASSUME NEW p \in Node, NEW c \in Conn, CommandStep(p, c)
      PROVE  RecordsLevel'
  <2>1. CASE RecordInitiated(p, c)
    <3>1. PICK t, s : t = cmd[p][c].t /\ s = InitiatorRecord(t)
      OBVIOUS
    <3>2. rs' = [rs EXCEPT ![p] = Append(rs[p], s)] /\ cmd[p][c].pc = "initiated"
      BY <2>1, <3>1 DEF RecordInitiated
    <3>3. t \in DOMAIN network
      BY <3>1, <3>2, CommandInitiated
    <3>4. PICK pks \in Seq(PublicKey) : pks = network[t].to
      BY <3>3, TxType DEF Tx
    <3>5. s.next = 1 /\ s.members = NewMembers(pks)
      BY <3>1, <3>4 DEF InitiatorRecord
    <3>6. Len(rs[p]) + 1 \in Nat
      BY LenProperties DEF Inv, TypeOK
    <3>7. PICK d : d = Recorded(Len(rs[p]) + 1) /\ d.pc = "recorded"
      BY <3>6, CommandTypes
    <3>8. SetCmd(p, c, d)
      BY <2>1, <3>7 DEF RecordInitiated, Recorded
    <3>9. \A q \in Node : \A e \in Conn : cmd'[q][e] = IF q = p /\ e = c THEN d ELSE cmd[q][e]
      BY <3>8, SetCmdEffect
    <3>10. \A e \in Conn : cmd'[p][e].pc # "advanced"
      BY <3>7, <3>9
    <3>11. \A q \in Node : \A e \in Conn :
              \/ cmd'[q][e] = cmd[q][e]
              \/ q = p /\ cmd[q][e].pc # "advanced" /\ cmd'[q][e].pc # "advanced"
      BY <3>2, <3>7, <3>9
    <3>12. QED
      BY <1>1, <3>2, <3>4, <3>5, <3>10, <3>11, AppendLevel
  <2>2. CASE RegisterInitiated(p, c) \/ BroadcastFails(p, c)
    <3>1. NoCommand.pc = "idle"
      BY DEF NoCommand
    <3>2. SetCmd(p, c, NoCommand) /\ UNCHANGED rs /\ cmd[p][c].pc # "advanced"
      BY <2>2 DEF RegisterInitiated, BroadcastFails
    <3>3. QED
      BY <1>3, <3>1, <3>2
  <2>3. CASE AdvanceMembers(p, c)
    BY <1>1, <2>3, AdvanceMembersLevel
  <2>4. CASE AdvanceOwn(p, c)
    BY <1>1, <2>4, AdvanceOwnLevel
  <2>5. CASE Broadcast(p, c)
    <3>1. PICK e \in Command : e = cmd[p][c]
      BY CommandHeld
    <3>2. PICK d : d = At(e, "sent")
      OBVIOUS
    <3>3. d.pc = "sent"
      BY <3>2, CommandTypes
    <3>4. SetCmd(p, c, d) /\ UNCHANGED rs /\ cmd[p][c].pc # "advanced"
      BY <2>5, <3>1, <3>2 DEF Broadcast, At
    <3>5. QED
      BY <1>3, <3>3, <3>4
  <2>6. QED
    BY <1>5, <2>1, <2>2, <2>3, <2>4, <2>5 DEF CommandStep
<1>6. ASSUME NEW p \in Node, NEW t \in DOMAIN network, ProcessTx(p, t)
      PROVE  RecordsLevel'
  <2>1. Idle(p) /\ t \in txs[p] /\ UNCHANGED cmd
    BY <1>6 DEF ProcessTx
  <2>2. CASE UNCHANGED rs
    BY <1>2, <2>1, <2>2
  <2>3. CASE Decrypts(p, network[t]) /\ network[t].kind # "initiate"
    <3>1. ProcessInRelationship(p, t)
      BY <1>6, <2>3 DEF ProcessTx
    <3>2. QED
      BY <2>1, <2>3, <3>1, ReadingLevel
  <2>4. CASE Decrypts(p, network[t]) /\ network[t].kind = "initiate" /\ ~UNCHANGED rs
    <3>1. PICK s : s = InitiatedRecord(p, t)
      OBVIOUS
    <3>2. rs' = [rs EXCEPT ![p] = Append(rs[p], s)] /\ s.next = 1
      <4>1. ProcessInitiate(p, t)
        BY <1>6, <2>4 DEF ProcessTx
      <4>2. rs' = [rs EXCEPT ![p] = Append(rs[p], InitiatedRecord(p, t))]
        BY <2>4, <4>1 DEF ProcessInitiate
      <4>3. QED
        BY <3>1, <4>2 DEF InitiatedRecord
    <3>3. PICK tx \in Tx : tx = network[t] /\ IsOurs(p, tx) /\ tx.to # <<>>
      BY <2>4, TxType, DecryptedIsOurs DEF Inv, Structure, TxsOK
    <3>4. PICK pks \in Seq(PublicKey) : pks = Others(p, tx)
      BY <3>3, OthersType
    <3>5. s.members = NewMembers(pks)
      BY <3>1, <3>3, <3>4 DEF InitiatedRecord, Others
    <3>6. \A e \in Conn : cmd'[p][e].pc # "advanced"
      BY <2>1 DEF Idle, NoCommand
    <3>7. \A q \in Node : \A e \in Conn :
             \/ cmd'[q][e] = cmd[q][e]
             \/ q = p /\ cmd[q][e].pc # "advanced" /\ cmd'[q][e].pc # "advanced"
      BY <2>1
    <3>8. rs' = [rs EXCEPT ![p] = Append(rs[p], s)]
      BY <3>2
    <3>9. s.next = 1
      BY <3>2
    <3>10. QED
      BY <1>1, <1>2, <3>4, <3>5, <3>6, <3>7, <3>8, <3>9, AppendLevel
  <2>5. QED
    BY <1>6, <2>2, <2>3, <2>4 DEF ProcessTx
<1>7. ASSUME NEW p \in Node, NEW t \in DOMAIN network, HandleTx(p, t)
      PROVE  RecordsLevel'
  BY <1>2, <1>7 DEF HandleTx
<1>8. QED
  BY <1>2, <1>4, <1>5, <1>6, <1>7 DEF Next, ListenerStep, vars

-----------------------------------------------------------------------------
(* The invariant.                                                          *)

\* Every step keeps everything settled.
LEMMA NextSettled ==
    ASSUME Inv, Inv', AuthorInv, UniqueInv, CommandsHold, SettledInv, Serialised,
           ~ReuseAddresses, \A x, y \in Conn : x = y, InOrder \/ Pairs, [Next]_vars
    PROVE  SettledInv'
<1>1. /\ TxsSettled /\ KeysKnown /\ TakenSettled /\ AllOpened /\ RecordsReached
      /\ CommandsSettled /\ UniqueTxId
  BY DEF SettledInv, UniqueInv
<1>2. Moves /\ NetworkExtends
  BY NextMoves, NextExtends
<1>3. RecordsAdvance /\ KeysAdded
  BY <1>1, NextAdvances
<1>4. TxsSettled' /\ Orderly'
  BY <1>2, NextTxs
<1>5. KeysKnown'
  BY <1>1, <1>2, <1>3, NextKnown
<1>6. TakenSettled' /\ AllOpened'
  BY <1>1, <1>2, <1>3, NextTaken, NextOpened
<1>7. RecordsLevel'
  BY <1>1, NextLevel
<1>8. RecordsBehind'
  BY <1>1, <1>2, <1>3, NextBehind
<1>9. RecordsReached'
  BY <1>1, <1>2, <1>3, NextReached
<1>10. CommandsSettled'
  BY <1>1, <1>2, NextCommands
<1>11. QED
  BY <1>4, <1>5, <1>6, <1>7, <1>8, <1>9, <1>10 DEF SettledInv

\* The daemons start settled.
LEMMA InitSettled == Init => CommandsHold /\ UniqueInv /\ SettledInv
<1> SUFFICES ASSUME Init PROVE CommandsHold /\ UniqueInv /\ SettledInv
  OBVIOUS
<1>1. /\ DOMAIN network = {} /\ \A p \in Node : DOMAIN rs[p] = {}
      /\ \A p \in Node : indep[p] = {} /\ txs[p] = {} /\ promoted[p] = {}
  BY EmptySeq DEF Init
<1>2. \A p \in Node : \A c \in Conn : cmd[p][c].pc = "idle"
  BY DEF Init, NoCommand
<1>3. CommandsHold /\ UniqueInv
  BY <1>1, <1>2 DEF CommandsHold, Holds, UniqueInv, UniqueTxId, Fresh
<1>4. CommandsSettled
  BY <1>2 DEF CommandsSettled, CmdOK
<1>5. TxsSettled /\ KeysKnown /\ TakenSettled /\ AllOpened /\ Orderly
  BY <1>1 DEF TxsSettled, KeysKnown, TakenSettled, AllOpened, Orderly
<1>6. RecordsLevel /\ RecordsBehind /\ RecordsReached
  BY <1>1 DEF RecordsLevel, RecordsBehind, RecordsReached
<1>7. QED
  BY <1>3, <1>4, <1>5, <1>6 DEF SettledInv

\* A daemon serves one client, the listener waits for running commands, no
\* RelateIn key is invited twice, and groups are shown transactions in order.
Calm ==
    /\ Serialised /\ ~ReuseAddresses
    /\ \A x, y \in Conn : x = y
    /\ InOrder \/ Pairs

\* SettledInv holds in every reachable state.
THEOREM SettledInvHolds ==
    ASSUME Calm PROVE Spec => [](Inv /\ AuthorInv /\ UniqueInv /\ SettledInv)
<1>1. Init => CommandsHold /\ UniqueInv /\ SettledInv
  BY InitSettled
<1>2. Inv /\ Inv' /\ AuthorInv /\ UniqueInv /\ CommandsHold /\ SettledInv /\ [Next]_vars
      => CommandsHold' /\ UniqueInv' /\ SettledInv'
  <2> SUFFICES ASSUME Inv, Inv', AuthorInv, UniqueInv, CommandsHold, SettledInv, [Next]_vars
               PROVE  CommandsHold' /\ UniqueInv' /\ SettledInv'
    OBVIOUS
  <2>1. CommandsHold'
    BY NextHolds
  <2>2. UniqueInv'
    BY NextUnique DEF Calm
  <2>3. SettledInv'
    BY NextSettled DEF Calm
  <2>4. QED
    BY <2>1, <2>2, <2>3
<1>3. QED
  BY <1>1, <1>2, AuthorInvHolds, PTL DEF Spec

\* Once everything is processed, no record expects a key beyond the one that
\* another record expects in its place.
LEMMA NotBeyond ==
    ASSUME Inv, AuthorInv, SettledInv, Quiescent, NEW p \in Node, NEW q \in Node,
           NEW k \in DOMAIN rs[p], NEW l \in DOMAIN rs[q],
           NEW x \in Keys(rs[p][k]), NEW y \in Keys(rs[q][l]), Alike(x, y)
    PROVE  x.i <= y.i
<1>1. x.i \in Nat \ {0} /\ y.i \in Nat \ {0}
  BY KeysType
<1>2. CASE x.i <= 1
  BY <1>1, <1>2
<1>3. CASE x.i > 1
  <2>1. PICK t \in DOMAIN network : UsedBy(t, x)
    BY <1>3 DEF SettledInv, RecordsReached, Reached
  <2>2. PICK pk \in KeysUsed(network[t]) : x = Following(pk)
    BY <2>1 DEF UsedBy
  <2>3. x.base = pk.base /\ x.seed = pk.seed /\ x.i = pk.i + 1
    BY <2>2, DerivedParts DEF Following
  <2>4. Alike(pk, y) /\ pk.i # 0
    BY <1>3, <2>3 DEF Alike
  <2>5. HasRecord(q, pk.seed)
    BY <2>4, KeySeed DEF HasRecord, Alike
  <2>6. q \in Parties(t) /\ pk.i \in Nat
    BY <2>4, <2>5, KeyNames DEF SettledInv
  <2>7. t \in promoted[q]
    BY <2>6 DEF Quiescent
  <2>8. pk.i < y.i
    BY <2>4, <2>7 DEF SettledInv, RecordsBehind, Behind
  <2>9. QED
    BY <1>1, <2>3, <2>6, <2>8
<1>4. QED
  BY <1>1, <1>2, <1>3

\* Every other party has a record then, and expects what the others expect.
LEMMA Agreement ==
    ASSUME Inv, AuthorInv, SettledInv, Quiescent
    PROVE  QuiescentAgreement
<1>1. ASSUME NEW p \in Node, NEW k \in DOMAIN rs[p], NEW i \in DOMAIN rs[p][k].members
      PROVE  LET m == rs[p][k].members[i]
                 q == m.base.node
                 j == FindForTxId(q, rs[p][k].txid)
             IN  j # 0 /\ m.next = rs[q][j].next
  <2>1. PICK m : m = rs[p][k].members[i]
    OBVIOUS
  <2>2. PICK q : q = m.base.node
    OBVIOUS
  <2>3. PICK j : j = FindForTxId(q, rs[p][k].txid)
    OBVIOUS
  <2>4. PICK r \in Relationship : r = rs[p][k] /\ RecordOK(p, r) /\ RecordBases(r)
    BY RecordType DEF AuthorInv
  <2>5. PICK u \in DOMAIN network : u = r.txid /\ network[u].kind = "initiate"
    BY <2>4 DEF RecordOK
  <2>6. m \in MemberRecord /\ m.base \in Bases(u) /\ q \in Node
    <3>1. m \in MemberRecord
      BY <2>1, <2>2, <2>3, <2>4, MemberTypes
    <3>2. m.base \in BaseKey
      BY <3>1 DEF MemberRecord
    <3>3. m.base \in Bases(u)
      BY <2>1, <2>2, <2>3, <2>4, <2>5 DEF RecordBases
    <3>4. QED
      BY <2>1, <2>2, <2>3, <3>1, <3>2, <3>3 DEF BaseKey
  <2>7. network[u].rel = u
    BY <2>5 DEF Inv, Structure, TxsOK
  <2>8. q \in Parties(u)
    BY <2>1, <2>2, <2>3, <2>6, <2>7, PartiesHold
  <2>9. HasRecord(q, u)
    BY <2>5, <2>6, <2>8 DEF Quiescent, SettledInv, AllOpened, Opened
  <2>10. j \in DOMAIN rs[q] /\ j # 0 /\ rs[q][j].txid = u
    <3>1. rs[q] \in Seq(Relationship) /\ DOMAIN rs[q] = 1..Len(rs[q])
      BY <2>6, LenProperties DEF Inv, TypeOK
    <3>2. j = FindForTxId(q, u)
      BY <2>1, <2>2, <2>3, <2>4, <2>5
    <3>3. PICK k2 \in 1..Len(rs[q]) : rs[q][k2].txid = u
      BY <2>9, <3>1 DEF HasRecord
    <3>4. j # 0 /\ j \in 0..Len(rs[q])
      BY <3>1, <3>2, <3>3, FindForTxIdFinds
    <3>5. j \in {h \in 1..Len(rs[q]) : rs[q][h].txid = u}
      BY <3>1, <3>2, <3>4, FindForTxIdFinds
    <3>6. QED
      BY <3>1, <3>4, <3>5
  <2>11. PICK v \in Relationship : v = rs[q][j] /\ v.key = m.base
    BY <2>1, <2>2, <2>3, <2>6, <2>10, OurBase, RecordType
  <2>12. PICK x, y : /\ x = MemberKey(r, m) /\ x \in Keys(rs[p][k])
                    /\ y = NextKey(v) /\ y \in Keys(rs[q][j])
    <3>1. MemberKey(r, m) \in Keys(rs[p][k])
      BY <2>1, <2>2, <2>3, <2>4 DEF Keys
    <3>2. NextKey(v) \in Keys(rs[q][j])
      BY <2>11 DEF Keys
    <3>3. QED
      BY <3>1, <3>2
  <2>13. x.i = m.next /\ y.i = v.next /\ Alike(x, y) /\ Alike(y, x)
    BY <2>5, <2>10, <2>11, <2>12, <2>4, DerivedParts DEF MemberKey, NextKey, Alike
  <2>14. x.i <= y.i /\ y.i <= x.i
    BY <2>6, <2>10, <2>12, <2>13, NotBeyond
  <2>15. m.next \in Nat /\ v.next \in Nat
    BY <2>6 DEF MemberRecord, Relationship
  <2>16. j # 0 /\ m.next = rs[q][j].next
    BY <2>10, <2>11, <2>13, <2>14, <2>15
  <2>17. QED
    BY <2>1, <2>2, <2>3, <2>16
<1>2. QED
  BY <1>1 DEF QuiescentAgreement

\* NextHash is the "next expected hash to be used in a message" (models.go): with
\* one client per daemon, a listener that waits for commands, RelateIn keys that
\* are invited once and groups that see their transactions in order, the views of
\* all parties agree once all have processed everything, whatever fails.
THEOREM QuiescentAgreementHolds == ASSUME Calm PROVE Spec => []QuiescentAgreement
<1>1. Inv /\ AuthorInv /\ SettledInv => QuiescentAgreement
  <2>1. CASE Quiescent
    BY <2>1, Agreement
  <2>2. CASE ~Quiescent
    BY <2>2 DEF QuiescentAgreement
  <2>3. QED
    BY <2>1, <2>2
<1>2. QED
  BY <1>1, SettledInvHolds, PTL

-----------------------------------------------------------------------------
(* That nothing is lost: what SettledInv leaves open of groups.            *)

\* A record has an entry for every other party.
Covers(r) ==
    \A b \in Bases(r.txid) \ {r.key} : \E j \in DOMAIN r.members : r.members[j].base = b

\* A view of a group member moves on only past keys that the node has seen used.
Follows(P, nk) == \E t \in P : t \in DOMAIN network /\ nk = Following(network[t].from)
ReadUpTo(P, r) ==
    r.enc = 1 =>
        \A j \in DOMAIN r.members :
            r.members[j].next > 1 => Follows(P, MemberKey(r, r.members[j]))

AllCovered == \A p \in Node : \A k \in DOMAIN rs[p] : Covers(rs[p][k])
ViewsRead == \A p \in Node : \A k \in DOMAIN rs[p] : ReadUpTo(promoted[p], rs[p][k])

\* What a step makes of a record: a new one covers its relationship, and one that
\* goes on moves its views past what is then processed.
Opens(s) ==
    /\ s.txid \in DOMAIN network
    /\ Covers(s)
    /\ \A j \in DOMAIN s.members : s.members[j].next = 1
GoesPast(P, s, r) ==
    /\ Continues(s, r)
    /\ r.enc = 1 =>
          \A j \in DOMAIN r.members :
              \/ s.members[j].next = r.members[j].next
              \/ Follows(P, MemberKey(s, s.members[j]))
ViewsGo ==
    \A q \in Node : \A k \in DOMAIN rs'[q] :
        \/ k \in DOMAIN rs[q] /\ GoesPast(promoted'[q], rs'[q][k], rs[q][k])
        \/ Opens(rs'[q][k])

\* Removing an element of a sequence keeps the others.
LEMMA OthersRemain ==
    ASSUME NEW S, NEW seq \in Seq(S), NEW j \in 1..Len(seq), NEW n \in DOMAIN seq, n # j
    PROVE  \E i \in DOMAIN RemoveAt(seq, j) : RemoveAt(seq, j)[i] = seq[n]
<1>1. PICK len \in Nat : len = Len(seq) /\ DOMAIN seq = 1..len
  BY LenProperties
<1>2. j \in 1..len /\ n \in 1..len
  BY <1>1
<1>3. PICK a, b, c : /\ a = SubSeq(seq, 1, j-1) /\ b = SubSeq(seq, j+1, len)
                     /\ c = a \o b
  OBVIOUS
<1>4. \A i \in 1..len : seq[i] \in S
  BY <1>1, ElementOfSeq
<1>5. a \in Seq(S) /\ Len(a) = j-1 /\ \A i \in 1..j-1 : a[i] = seq[i]
  <2>1. \A i \in 1..j-1 : seq[i] \in S
    BY <1>2, <1>4
  <2>2. /\ SubSeq(seq, 1, j-1) \in Seq(S)
        /\ Len(SubSeq(seq, 1, j-1)) = IF 1 <= j-1 THEN (j-1)-1+1 ELSE 0
        /\ \A i \in 1..(j-1)-1+1 : SubSeq(seq, 1, j-1)[i] = seq[1+i-1]
    BY <1>2, <2>1, SubSeqProperties
  <2>3. QED
    BY <1>2, <1>3, <2>2
<1>6. b \in Seq(S) /\ Len(b) = len-j /\ \A i \in 1..len-j : b[i] = seq[i+j]
  <2>1. \A i \in j+1..len : seq[i] \in S
    BY <1>2, <1>4
  <2>2. /\ SubSeq(seq, j+1, len) \in Seq(S)
        /\ Len(SubSeq(seq, j+1, len)) = IF j+1 <= len THEN len-(j+1)+1 ELSE 0
        /\ \A i \in 1..len-(j+1)+1 : SubSeq(seq, j+1, len)[i] = seq[(j+1)+i-1]
    BY <1>2, <2>1, SubSeqProperties
  <2>3. QED
    BY <1>2, <1>3, <2>2
<1>7. /\ c \in Seq(S) /\ Len(c) = Len(a) + Len(b)
      /\ \A i \in 1..Len(a)+Len(b) : c[i] = IF i <= Len(a) THEN a[i] ELSE b[i - Len(a)]
  BY <1>3, <1>5, <1>6, ConcatProperties
<1>8. DOMAIN c = 1..len-1
  BY <1>2, <1>5, <1>6, <1>7, LenProperties
<1>9. RemoveAt(seq, j) = c
  BY <1>1, <1>3 DEF RemoveAt
<1>10. CASE n < j
  <2>1. n \in 1..Len(a)+Len(b) /\ n <= Len(a) /\ n \in 1..j-1 /\ n \in 1..len-1
    BY <1>2, <1>5, <1>6, <1>10
  <2>2. c[n] = seq[n]
    BY <1>5, <1>7, <2>1
  <2>3. QED
    BY <1>8, <1>9, <2>1, <2>2
<1>11. CASE n > j
  <2>1. PICK m, i, la, lb : m = n - 1 /\ i = n - j /\ la = Len(a) /\ lb = Len(b)
    OBVIOUS
  <2>2. la = j - 1 /\ lb = len - j
    BY <1>5, <1>6, <2>1
  <2>3. /\ m \in 1..la+lb /\ ~(m <= la) /\ m - la = i
        /\ i \in 1..len-j /\ i + j = n /\ m \in 1..len-1
    <3>1. /\ n \in Nat /\ j \in Nat /\ j < n /\ n <= len /\ 1 <= j
          /\ m = n - 1 /\ i = n - j
      BY <1>2, <1>11, <2>1
    <3>2. m \in 1..len-1 /\ m - la = i /\ i + j = n /\ ~(m <= la)
      BY <2>2, <3>1
    <3>3. la + lb = len - 1 /\ i \in 1..len-j
      BY <2>2, <3>1
    <3>4. QED
      BY <3>2, <3>3
  <2>4. c[m] = b[i]
    BY <1>7, <2>1, <2>3
  <2>5. b[i] = seq[n]
    BY <1>6, <2>3
  <2>6. QED
    BY <1>8, <1>9, <2>3, <2>4, <2>5
<1>12. QED
  BY <1>2, <1>10, <1>11

\* The others are all parties but the node.
LEMMA OthersCover ==
    ASSUME Inv, AuthorInv, NEW p \in Node, NEW t \in DOMAIN network, NEW tx, tx = network[t],
           tx.kind = "initiate", IsOurs(p, tx), NEW pks, pks = Others(p, tx),
           NEW b \in Bases(t), b # OurKey(p, tx).base
    PROVE  \E i \in DOMAIN pks : pks[i].base = b
<1>1. tx \in Tx /\ tx.to \in Seq(PublicKey) /\ tx.from \in PublicKey
  BY TxType DEF Tx
<1>2. b = tx.from.base \/ \E n \in DOMAIN tx.to : b = tx.to[n].base
  BY DEF Bases
<1>3. CASE Owns(p, tx.from)
  <2>1. pks = tx.to /\ OurKey(p, tx) = tx.from
    BY <1>3 DEF Others, OurKey
  <2>2. QED
    BY <1>2, <2>1
<1>4. CASE ~Owns(p, tx.from)
  <2>1. PICK j : j = OwnReceiver(p, tx) /\ j \in 1..Len(tx.to)
    BY <1>1, <1>4, OurKeyOurs
  <2>2. OurKey(p, tx) = tx.to[j]
    BY <1>4, <2>1 DEF OurKey
  <2>3. PICK rest : rest = RemoveAt(tx.to, j)
    OBVIOUS
  <2>4. rest \in Seq(PublicKey) /\ Len(rest) \in Nat /\ DOMAIN rest = 1..Len(rest)
    BY <1>1, <2>1, <2>3, RemoveAtType, LenProperties
  <2>5. PICK first : first = <<tx.from>>
    OBVIOUS
  <2>6. first \in Seq(PublicKey) /\ Len(first) = 1 /\ first[1] = tx.from
    BY <1>1, <2>5
  <2>7. pks = first \o rest
    BY <1>4, <2>1, <2>3, <2>5 DEF Others
  <2>8. /\ pks \in Seq(PublicKey) /\ Len(pks) = Len(first) + Len(rest)
        /\ \A i \in 1..Len(first)+Len(rest) :
              pks[i] = IF i <= Len(first) THEN first[i] ELSE rest[i - Len(first)]
    <3>1. /\ first \o rest \in Seq(PublicKey) /\ Len(first \o rest) = Len(first) + Len(rest)
          /\ \A i \in 1..Len(first)+Len(rest) :
                (first \o rest)[i] = IF i <= Len(first) THEN first[i] ELSE rest[i - Len(first)]
      BY <2>4, <2>6, ConcatProperties
    <3>2. QED
      BY <2>7, <3>1
  <2>9. DOMAIN pks = 1..1+Len(rest)
    BY <2>4, <2>6, <2>8, LenProperties
  <2>10. CASE b = tx.from.base
    <3>1. 1 \in 1..1+Len(rest) /\ pks[1] = first[1]
      BY <2>4, <2>6, <2>8
    <3>2. QED
      BY <2>6, <2>9, <2>10, <3>1
  <2>11. CASE \E n \in DOMAIN tx.to : b = tx.to[n].base
    <3>1. PICK n \in DOMAIN tx.to : b = tx.to[n].base
      BY <2>11
    <3>2. n # j
      BY <2>2, <3>1
    <3>3. PICK i \in DOMAIN rest : rest[i] = tx.to[n]
      BY <1>1, <2>1, <2>3, <3>2, OthersRemain
    <3>4. PICK m \in Nat : m = i + 1
      BY <2>4
    <3>5. m \in 1..Len(first)+Len(rest) /\ ~(m <= Len(first)) /\ m - Len(first) = i
      BY <2>4, <2>6, <3>4
    <3>6. pks[m] = rest[i]
      BY <2>8, <3>5
    <3>7. QED
      BY <2>6, <2>9, <3>1, <3>3, <3>5, <3>6
  <2>12. QED
    BY <1>2, <2>10, <2>11
<1>5. QED
  BY <1>3, <1>4

\* A record made of the others opens a relationship.
LEMMA OpensWith ==
    ASSUME NEW t \in DOMAIN network, NEW pks \in Seq(PublicKey), NEW s, s.txid = t,
           s.members = NewMembers(pks),
           \A b \in Bases(t) \ {s.key} : \E i \in DOMAIN pks : pks[i].base = b
    PROVE  Opens(s)
<1>1. PICK ms : ms = NewMembers(pks)
  OBVIOUS
<1>2. /\ ms \in Seq(MemberRecord) /\ Len(ms) = Len(pks)
      /\ \A i \in 1..Len(pks) : ms[i].base = pks[i].base /\ ms[i].next = 1
  BY <1>1, NewMembersType
<1>3. DOMAIN ms = 1..Len(pks) /\ DOMAIN pks = 1..Len(pks)
  BY <1>2, LenProperties
<1>4. \A i \in DOMAIN pks : i \in DOMAIN ms /\ ms[i].base = pks[i].base
  BY <1>2, <1>3
<1>5. \A j \in DOMAIN ms : ms[j].next = 1
  BY <1>2, <1>3
<1>6. Covers(s)
  BY <1>1, <1>4 DEF Covers
<1>7. QED
  BY <1>1, <1>5, <1>6 DEF Opens

\* Steps that leave the records alone ...
LEMMA FrameGoes ==
    ASSUME Inv, UNCHANGED rs
    PROVE  ViewsGo
<1>1. \A q \in Node : \A k \in DOMAIN rs[q] : GoesPast(promoted'[q], rs[q][k], rs[q][k])
  BY DEF GoesPast, Continues
<1>2. \A q \in Node : rs'[q] = rs[q]
  OBVIOUS
<1>3. QED
  BY <1>1, <1>2 DEF ViewsGo

\* ... put a record in another's place ...
LEMMA UpdateGoes ==
    ASSUME Inv, NEW p \in Node, NEW k \in DOMAIN rs[p], NEW s,
           rs' = [rs EXCEPT ![p][k] = s], GoesPast(promoted'[p], s, rs[p][k])
    PROVE  ViewsGo
<1>1. /\ \A q \in Node : DOMAIN rs'[q] = DOMAIN rs[q]
      /\ \A q \in Node : \A j \in DOMAIN rs[q] :
            rs'[q][j] = IF q = p /\ j = k THEN s ELSE rs[q][j]
  BY DEF Inv, TypeOK
<1>2. ASSUME NEW q \in Node, NEW j \in DOMAIN rs'[q]
      PROVE  j \in DOMAIN rs[q] /\ GoesPast(promoted'[q], rs'[q][j], rs[q][j])
  <2>1. j \in DOMAIN rs[q]
    BY <1>1
  <2>2. PICK x : x = rs[q][j]
    OBVIOUS
  <2>3. GoesPast(promoted'[q], x, x)
    BY DEF GoesPast, Continues
  <2>4. CASE q = p /\ j = k
    BY <1>1, <2>1, <2>4
  <2>5. CASE ~(q = p /\ j = k)
    BY <1>1, <2>1, <2>2, <2>3, <2>5
  <2>6. QED
    BY <2>4, <2>5
<1>3. QED
  BY <1>2 DEF ViewsGo

\* ... or add one.
LEMMA AppendGoes ==
    ASSUME Inv, NEW p \in Node, NEW s, rs' = [rs EXCEPT ![p] = Append(rs[p], s)], Opens(s)
    PROVE  ViewsGo
<1>1. /\ DOMAIN rs'[p] = DOMAIN rs[p] \cup {Len(rs[p]) + 1}
      /\ rs'[p][Len(rs[p]) + 1] = s
      /\ \A q \in Node \ {p} : rs'[q] = rs[q]
      /\ \A q \in Node : \A k \in DOMAIN rs[q] : rs'[q][k] = rs[q][k]
  BY AppendedRecords
<1>2. ASSUME NEW q \in Node, NEW j \in DOMAIN rs'[q]
      PROVE  \/ j \in DOMAIN rs[q] /\ GoesPast(promoted'[q], rs'[q][j], rs[q][j])
             \/ Opens(rs'[q][j])
  <2>1. CASE j \in DOMAIN rs[q]
    <3>1. PICK x : x = rs[q][j]
      OBVIOUS
    <3>2. GoesPast(promoted'[q], x, x)
      BY DEF GoesPast, Continues
    <3>3. QED
      BY <1>1, <2>1, <3>1, <3>2
  <2>2. CASE j \notin DOMAIN rs[q]
    <3>1. rs'[q][j] = s
      BY <1>1, <2>2
    <3>2. QED
      BY <3>1
  <2>3. QED
    BY <2>1, <2>2
<1>3. QED
  BY <1>2 DEF ViewsGo

\* What a node records of its own initiate ...
LEMMA RecordInitiatedGoes ==
    ASSUME Inv, NEW p \in Node, NEW c \in Conn, RecordInitiated(p, c)
    PROVE  ViewsGo
<1>1. /\ cmd[p][c].pc = "initiated"
      /\ rs' = [rs EXCEPT ![p] = Append(rs[p], InitiatorRecord(cmd[p][c].t))]
  BY DEF RecordInitiated
<1>2. PICK t \in DOMAIN network : t = cmd[p][c].t
  BY <1>1, CommandInitiated
<1>3. PICK s : s = InitiatorRecord(t)
  OBVIOUS
<1>4. rs' = [rs EXCEPT ![p] = Append(rs[p], s)]
  BY <1>1, <1>2, <1>3
<1>5. PICK pks \in Seq(PublicKey) : pks = network[t].to
  BY TxType DEF Tx
<1>6. s.txid = t /\ s.members = NewMembers(pks) /\ s.key = network[t].from.base
  BY <1>3, <1>5 DEF InitiatorRecord
<1>7. \A b \in Bases(t) \ {s.key} : \E i \in DOMAIN pks : pks[i].base = b
  BY <1>5, <1>6 DEF Bases
<1>8. Opens(s)
  BY <1>6, <1>7, OpensWith
<1>9. QED
  BY <1>4, <1>8, AppendGoes

\* ... and of another's.
LEMMA JoiningGoes ==
    ASSUME Inv, AuthorInv, NEW p \in Node, NEW t \in DOMAIN network,
           network[t].kind = "initiate", IsOurs(p, network[t]), ProcessInitiate(p, t)
    PROVE  ViewsGo
<1>1. CASE UNCHANGED rs
  BY <1>1, FrameGoes
<1>2. CASE rs' = [rs EXCEPT ![p] = Append(rs[p], InitiatedRecord(p, t))]
  <2>1. PICK tx \in Tx : tx = network[t]
    BY TxType
  <2>2. PICK pks \in Seq(PublicKey) : pks = Others(p, tx)
    BY <2>1, OthersType DEF Inv, Structure, TxsOK
  <2>3. PICK s : s = InitiatedRecord(p, t)
    OBVIOUS
  <2>4. s.members = NewMembers(pks) /\ s.txid = t /\ s.key = OurKey(p, tx).base
    BY <2>1, <2>2, <2>3 DEF InitiatedRecord, Others
  <2>5. ASSUME NEW b \in Bases(t), b # OurKey(p, tx).base
        PROVE  \E i \in DOMAIN pks : pks[i].base = b
    BY <2>1, <2>2, <2>5, OthersCover
  <2>6. \A b \in Bases(t) \ {s.key} : \E i \in DOMAIN pks : pks[i].base = b
    BY <2>4, <2>5
  <2>7. Opens(s)
    BY <2>2, <2>4, <2>6, OpensWith
  <2>8. QED
    BY <1>2, <2>3, <2>7, AppendGoes
<1>3. QED
  BY <1>1, <1>2 DEF ProcessInitiate

\* Commands leave the views of a group alone ...
LEMMA AdvanceGoes ==
    ASSUME Inv, NEW p \in Node, NEW c \in Conn, AdvanceOwn(p, c) \/ AdvanceMembers(p, c)
    PROVE  ViewsGo
<1>1. PICK k \in DOMAIN rs[p], s \in Relationship :
          /\ rs' = [rs EXCEPT ![p][k] = s]
          /\ Continues(s, rs[p][k])
          /\ rs[p][k].enc = 1 => SameView(s, rs[p][k])
  <2>1. CASE AdvanceOwn(p, c)
    BY <2>1, AdvanceOwnEffect
  <2>2. CASE AdvanceMembers(p, c)
    BY <2>2, AdvanceMembersEffect
  <2>3. QED
    BY <2>1, <2>2
<1>2. GoesPast(promoted'[p], s, rs[p][k])
  BY <1>1 DEF GoesPast, SameView, Continues
<1>3. QED
  BY <1>1, <1>2, UpdateGoes

\* ... and a transaction moves them past the key that signed it.
LEMMA ReadingGoes ==
    ASSUME Inv, NEW p \in Node, NEW t \in DOMAIN network, network[t].kind # "initiate",
           t \in promoted'[p], ProcessInRelationship(p, t)
    PROVE  ViewsGo
<1>1. CASE RelationshipForTx(p, network[t]) = 0
  BY <1>1, FrameGoes DEF ProcessInRelationship
<1>2. CASE RelationshipForTx(p, network[t]) # 0
  <2>1. PICK tx : tx = network[t]
    OBVIOUS
  <2>2. PICK k \in DOMAIN rs[p], r \in Relationship, s \in Relationship :
            /\ r = rs[p][k]
            /\ rs' = [rs EXCEPT ![p][k] = s]
            /\ \E m : ReadInto(s, r, tx, Owns(p, tx.from), m)
    BY <1>2, <2>1, ProcessInRelationshipEffect
  <2>3. Continues(s, r)
    BY <2>2 DEF ReadInto
  <2>4. PICK P : P = promoted'[p]
    OBVIOUS
  <2>5. ASSUME r.enc = 1, NEW j \in DOMAIN r.members,
               s.members[j].next # r.members[j].next
        PROVE  Follows(P, MemberKey(s, s.members[j]))
    <3>1. /\ MemberKey(r, r.members[j]) \in KeysUsed(tx)
          /\ s.members[j].next = r.members[j].next + 1
      BY <2>2, <2>5 DEF ReadInto
    <3>2. PICK mj : mj = r.members[j]
      OBVIOUS
    <3>3. tx.kind # "initiate" /\ MemberKey(r, mj) \in KeysUsed(tx)
      BY <2>1, <3>1, <3>2
    <3>4. tx.from = MemberKey(r, mj)
      BY <2>1, <2>2, <2>5, <3>3, GroupKeySigns
    <3>5. tx.from = Derived(r.members[j].base, r.txid, r.members[j].next)
      BY <3>2, <3>4 DEF MemberKey
    <3>6. s.txid = r.txid /\ s.members[j].base = r.members[j].base
      BY <2>3, <2>5 DEF Continues
    <3>7. MemberKey(s, s.members[j]) = Following(tx.from)
      BY <3>1, <3>5, <3>6, DerivedParts DEF MemberKey, Following
    <3>8. QED
      BY <2>1, <2>4, <3>7 DEF Follows
  <2>6. GoesPast(P, s, r)
    BY <2>3, <2>5 DEF GoesPast
  <2>7. QED
    BY <2>2, <2>4, <2>6, UpdateGoes
<1>3. QED
  BY <1>1, <1>2

LEMMA NextGo ==
    ASSUME Inv, AuthorInv, [Next]_vars
    PROVE  ViewsGo
<1>1. CASE UNCHANGED vars
  BY <1>1, FrameGoes DEF vars
<1>2. CASE Next
  <2>1. PICK p \in Node :
            \/ \E c \in Conn : UserStep(p, c) \/ CommandStep(p, c)
            \/ ListenerStep(p)
    BY <1>2 DEF Next
  <2>2. ASSUME NEW c \in Conn, UserStep(p, c) \/ CommandStep(p, c)
        PROVE  ViewsGo
    BY <2>2, QuietStepsExtend, FrameGoes, RecordInitiatedGoes, AdvanceGoes
       DEF UserStep, CommandStep
  <2>3. ASSUME NEW t \in DOMAIN network, HandleTx(p, t) PROVE ViewsGo
    BY <2>3, FrameGoes DEF HandleTx
  <2>4. ASSUME NEW t \in DOMAIN network, ProcessTx(p, t) PROVE ViewsGo
    <3>1. CASE UNCHANGED rs
      BY <3>1, FrameGoes
    <3>2. CASE /\ Decrypts(p, network[t]) /\ network[t].kind = "initiate"
               /\ ProcessInitiate(p, t)
      BY <3>2, DecryptedIsOurs, JoiningGoes
    <3>3. CASE network[t].kind # "initiate" /\ ProcessInRelationship(p, t)
      <4>1. t \in promoted'[p]
        BY <2>4 DEF ProcessTx, Inv, TypeOK
      <4>2. QED
        BY <3>3, <4>1, ReadingGoes
    <3>4. QED
      BY <2>4, <3>1, <3>2, <3>3 DEF ProcessTx
  <2>5. QED
    BY <2>1, <2>2, <2>3, <2>4 DEF ListenerStep
<1>3. QED
  BY <1>1, <1>2

LEMMA CoversStays ==
    ASSUME NetworkExtends, NEW s, s.txid \in DOMAIN network, Covers(s)
    PROVE  Covers(s)'
<1>1. PICK u \in DOMAIN network : u = s.txid
  OBVIOUS
<1>2. Bases(u)' = Bases(u)
  BY BasesKept
<1>3. QED
  BY <1>1, <1>2 DEF Covers

\* Every record covers its relationship ...
LEMMA NextCovered ==
    ASSUME Inv, AllCovered, ViewsGo, NetworkExtends
    PROVE  AllCovered'
<1>1. ASSUME NEW q \in Node, NEW k, k \in DOMAIN rs'[q]
      PROVE  \E x : x = rs'[q][k] /\ Covers(x)'
  <2>1. PICK s : s = rs'[q][k]
    OBVIOUS
  <2>2. CASE Opens(s)
    <3>1. Covers(s)'
      BY <2>2, CoversStays DEF Opens
    <3>2. QED
      BY <2>1, <3>1
  <2>3. CASE k \in DOMAIN rs[q] /\ GoesPast(promoted'[q], s, rs[q][k])
    <3>1. PICK r : r = rs[q][k]
      OBVIOUS
    <3>2. Covers(r) /\ Continues(s, r) /\ r.txid \in DOMAIN network
      BY <2>3, <3>1, RecordType DEF AllCovered, GoesPast, RecordOK
    <3>3. Covers(s) /\ s.txid \in DOMAIN network
      BY <3>2 DEF Covers, Continues
    <3>4. Covers(s)'
      BY <3>3, CoversStays
    <3>5. QED
      BY <2>1, <3>4
  <2>4. QED
    BY <1>1, <2>1, <2>2, <2>3 DEF ViewsGo
<1>2. QED
  BY <1>1 DEF AllCovered, Covers

LEMMA FollowsStays ==
    ASSUME NetworkExtends, NEW P, NEW Q, P \subseteq Q, NEW nk, Follows(P, nk)
    PROVE  Follows(Q, nk)'
<1>1. PICK t \in P : t \in DOMAIN network /\ nk = Following(network[t].from)
  BY DEF Follows
<1>2. t \in Q /\ t \in DOMAIN network' /\ network'[t] = network[t]
  BY <1>1 DEF NetworkExtends
<1>3. QED
  BY <1>1, <1>2 DEF Follows

\* ... and its views have moved on only past what was processed.
LEMMA NextViewsRead ==
    ASSUME Inv, ViewsRead, ViewsGo, NetworkExtends,
           \A q \in Node : promoted[q] \subseteq promoted'[q]
    PROVE  ViewsRead'
<1>1. ASSUME NEW q \in Node, NEW k, k \in DOMAIN rs'[q]
      PROVE  \E x, Q : x = rs'[q][k] /\ Q = promoted'[q] /\ ReadUpTo(Q, x)'
  <2>1. PICK s : s = rs'[q][k]
    OBVIOUS
  <2>2. PICK P, Q : P = promoted[q] /\ Q = promoted'[q]
    OBVIOUS
  <2>3. P \subseteq Q
    BY <2>2
  <2>4. CASE Opens(s)
    <3>1. \A j \in DOMAIN s.members : s.members[j].next = 1
      BY <2>4 DEF Opens
    <3>2. ReadUpTo(Q, s)'
      BY <3>1 DEF ReadUpTo
    <3>3. QED
      BY <2>1, <2>2, <3>2
  <2>5. CASE k \in DOMAIN rs[q] /\ GoesPast(Q, s, rs[q][k])
    <3>1. PICK r : r = rs[q][k]
      OBVIOUS
    <3>2. ReadUpTo(P, r) /\ GoesPast(Q, s, r)
      BY <2>2, <2>5, <3>1 DEF ViewsRead
    <3>3. ASSUME s.enc = 1, NEW j \in DOMAIN s.members, s.members[j].next > 1,
                 NEW nk, nk = MemberKey(s, s.members[j])
          PROVE  Follows(Q, nk)'
      <4>1. r.enc = 1 /\ j \in DOMAIN r.members /\ s.txid = r.txid
            /\ s.members[j].base = r.members[j].base
        BY <3>2, <3>3 DEF GoesPast, Continues
      <4>2. CASE s.members[j].next = r.members[j].next
        <5>1. nk = MemberKey(r, r.members[j])
          BY <3>3, <4>1, <4>2 DEF MemberKey
        <5>2. Follows(P, nk)
          BY <3>2, <3>3, <4>1, <4>2, <5>1 DEF ReadUpTo
        <5>3. QED
          BY <2>3, <5>2, FollowsStays
      <4>3. CASE Follows(Q, nk)
        BY <4>3, FollowsStays
      <4>4. QED
        BY <3>2, <3>3, <4>1, <4>2, <4>3 DEF GoesPast
    <3>4. ReadUpTo(Q, s)'
      BY <3>3 DEF ReadUpTo
    <3>5. QED
      BY <2>1, <2>2, <3>4
  <2>6. QED
    BY <1>1, <2>1, <2>2, <2>4, <2>5 DEF ViewsGo
<1>2. QED
  BY <1>1 DEF ViewsRead, ReadUpTo, Follows, MemberKey

-----------------------------------------------------------------------------
(* Every accept and message is read when its turn comes.                   *)

\* What a node has processed comes before what it has only taken, in a group.
LEMMA ProcessedBefore ==
    ASSUME Inv, AuthorInv, SettledInv, InOrder, NEW p \in Node,
           NEW s \in promoted[p], NEW t \in DOMAIN network, t \notin promoted[p],
           NEW pk \in KeysUsed(network[t]), pk.i # 0, HasRecord(p, pk.seed)
    PROVE  s < t
<1>1. s \in DOMAIN network /\ TakenOK(p, s)
  BY DEF Inv, TypeOK, SettledInv, TakenSettled
<1>2. p \in Parties(t)
  BY KeyNames DEF SettledInv
<1>3. s \in Nat /\ t \in Nat /\ s # t /\ t > 0
  BY <1>1, TxType, LenProperties DEF Inv, TypeOK
<1>4. t \notin 1..s-1
  BY <1>1, <1>2 DEF TakenOK
<1>5. QED
  BY <1>3, <1>4

\* A key is its base, its seed and its index.
LEMMA SameKey ==
    ASSUME NEW x \in PublicKey, NEW y \in PublicKey,
           x.base = y.base, x.seed = y.seed, x.i = y.i
    PROVE  x = y
BY DEF PublicKey

\* In a group the key that signs is the one the others expect next.
LEMMA ReadsNext ==
    ASSUME Inv, AuthorInv, SettledInv, SendInv, NoKeyReuse, AllCovered, ViewsRead,
           NEW p \in Node, NEW t \in txs[p], t \notin promoted[p],
           NEW tx, tx = network[t], tx.kind # "initiate", tx.enc = 1,
           NEW k \in DOMAIN rs[p], NEW r, r = rs[p][k], r.txid = tx.rel,
           tx.from.base # r.key
    PROVE  tx.from \in Keys(r)
<1>1. t \in DOMAIN network /\ SentOK(tx) /\ InOrder
  <2>1. t \in DOMAIN network
    BY DEF Inv, TypeOK
  <2>2. QED
    BY <2>1 DEF SettledInv, TxsSettled, Orderly
<1>2. tx.from \in KeysUsed(tx)
  BY DEF KeysUsed
<1>3. tx.from \in PublicKey /\ tx.from.seed = r.txid /\ tx.from.base \in Bases(r.txid)
  BY <1>1, <1>2, LaterKeys, LaterBases
<1>4. PICK a \in Nat \ {0} : a = tx.from.i
  BY <1>1, <1>2, LaterKeys
<1>5. PICK j \in DOMAIN r.members : r.members[j].base = tx.from.base
  BY <1>3 DEF AllCovered, Covers
<1>6. PICK nk \in Keys(r) : nk = MemberKey(r, r.members[j])
  BY <1>5 DEF Keys
<1>7. /\ nk.base = tx.from.base /\ nk.seed = tx.from.seed /\ nk.i = r.members[j].next
      /\ Alike(tx.from, nk)
  <2>1. PICK d, n : d = r.members[j].base /\ n = r.members[j].next
    OBVIOUS
  <2>2. nk = Derived(d, r.txid, n)
    BY <1>6, <2>1 DEF MemberKey
  <2>3. nk.base = d /\ nk.seed = r.txid /\ nk.i = n
    BY <2>2, DerivedParts
  <2>4. QED
    BY <1>3, <1>5, <2>1, <2>3 DEF Alike
<1>8. PICK b \in Nat \ {0} : b = nk.i
  BY <1>6, KeysType
<1>9. nk \in PublicKey
  BY <1>6, KeysType
<1>10. a <= b
  BY <1>4, <1>6, <1>7, <1>8, GroupNotPassed
<1>11. CASE a = b
  <2>1. tx.from = nk
    <3>1. nk.base = tx.from.base /\ nk.seed = tx.from.seed /\ nk.i = tx.from.i
      BY <1>4, <1>7, <1>8, <1>11
    <3>2. QED
      BY <1>3, <1>9, <3>1, SameKey
  <2>2. QED
    BY <1>6, <2>1
<1>12. CASE a < b
  <2>1. r.enc = 1
    <3>1. network[tx.rel].enc = tx.enc
      BY <1>1, NamesInitiate
    <3>2. RecordOK(p, r)
      BY RecordType
    <3>3. QED
      BY <3>1, <3>2 DEF RecordOK
  <2>2. r.members[j].next > 1
    BY <1>4, <1>7, <1>8, <1>12
  <2>3. Follows(promoted[p], nk)
    BY <1>5, <1>6, <2>1, <2>2 DEF ViewsRead, ReadUpTo
  <2>4. PICK s \in promoted[p] : s \in DOMAIN network /\ nk = Following(network[s].from)
    BY <2>3 DEF Follows
  <2>5. PICK y \in Tx : y = network[s]
    BY <2>4, TxType
  <2>6. PICK c \in Nat : c = y.from.i
    BY <2>5 DEF Tx, PublicKey
  <2>7. nk.base = y.from.base /\ nk.seed = y.from.seed /\ b = c + 1
    BY <1>8, <2>4, <2>5, <2>6, DerivedParts DEF Following
  <2>8. y.from.i # 0 /\ y.from \in KeysUsed(network[s])
    BY <1>4, <1>12, <2>5, <2>6, <2>7 DEF KeysUsed
  <2>9. y.kind # "initiate" /\ y.rel = tx.rel
    BY <1>3, <1>7, <2>4, <2>5, <2>7, <2>8, KeyNames DEF SettledInv
  <2>10. s < t
    <3>1. HasRecord(p, tx.from.seed) /\ tx.from.i # 0
      BY <1>3, <1>4 DEF HasRecord
    <3>2. QED
      BY <1>1, <1>2, <3>1, ProcessedBefore
  <2>11. c <= a
    <3>1. SameAuthor(y, tx)
      BY <1>7, <2>7, <2>9 DEF SameAuthor
    <3>2. QED
      BY <1>1, <1>4, <2>4, <2>5, <2>6, <2>10, <3>1 DEF SendInv, SentInOrder
  <2>12. c = a
    BY <1>4, <1>8, <1>12, <2>6, <2>7, <2>11
  <2>13. y.from = tx.from
    <3>1. y.from \in PublicKey
      BY <2>5 DEF Tx
    <3>2. /\ y.from.base = tx.from.base /\ y.from.seed = tx.from.seed
          /\ y.from.i = tx.from.i
      BY <1>4, <1>7, <2>6, <2>7, <2>12
    <3>3. QED
      BY <1>3, <3>1, <3>2, SameKey
  <2>14. s = t
    BY <1>1, <2>4, <2>5, <2>13 DEF NoKeyReuse
  <2>15. QED
    BY <2>14
<1>13. QED
  BY <1>4, <1>8, <1>10, <1>11, <1>12

\* What a node processes of the others' accepts and messages it reads, whichever
\* record, key or hash decides.
LEMMA ReadsArrivals ==
    ASSUME Inv, AuthorInv, UniqueTxId, SettledInv, AllCovered, ViewsRead, ~ReuseAddresses,
           Pairs \/ (SendInv /\ NoKeyReuse),
           NEW p \in Node, NEW t \in DOMAIN network, ProcessTx(p, t),
           NEW tx, tx = network[t], tx.kind # "initiate", tx.from.base.node # p
    PROVE  \E e \in inbox'[p] : e.t = t
<1>1. /\ t \in txs[p] /\ t \notin promoted[p]
      /\ SentOK(tx) /\ TakenOK(p, t) /\ tx \in Tx
  BY TxType DEF ProcessTx, SettledInv, TxsSettled, TakenSettled
<1>2. PICK k \in DOMAIN rs[p] : rs[p][k].txid = tx.rel
  BY <1>1 DEF TakenOK, HasRecord
<1>3. PICK r : r = rs[p][k] /\ RecordOK(p, r)
  BY RecordType
<1>4. tx.from.base # r.key
  BY <1>3 DEF RecordOK
<1>5. Decrypts(p, tx) /\ RelationshipForTx(p, tx) = k
  <2>1. CASE tx.enc = 0
    BY <1>1, <1>2, <2>1, ReadsInPair
  <2>2. CASE tx.enc = 1
    <3>1. ~Pairs
      BY <2>2 DEF SettledInv, Orderly
    <3>2. tx.from \in Keys(r)
      BY <1>1, <1>2, <1>3, <1>4, <2>2, <3>1, ReadsNext
    <3>3. QED
      BY <1>1, <1>2, <1>3, <2>2, <3>2, ReadsInGroup
  <2>3. QED
    BY <1>1, <2>1, <2>2 DEF Tx
<1>6. k # 0
  BY RecordType, LenProperties DEF Inv, TypeOK
<1>7. ProcessInRelationship(p, t)
  BY <1>5 DEF ProcessTx
<1>8. ~Owns(p, tx.from)
  BY DEF Owns
<1>9. PICK m : inbox' = [inbox EXCEPT ![p] = IF Owns(p, tx.from) THEN @
                                             ELSE @ \cup {Logged(t, rs[p][k], m)}]
  BY <1>5, <1>6, <1>7, ProcessInRelationshipEffect
<1>10. PICK e : e = Logged(t, rs[p][k], m)
  OBVIOUS
<1>11. e.t = t
  BY <1>10 DEF Logged
<1>12. e \in inbox'[p]
  BY <1>8, <1>9, <1>10 DEF Inv, TypeOK
<1>13. QED
  BY <1>11, <1>12

\* What has been read stays read.
LEMMA InboxGrows ==
    ASSUME Inv, [Next]_vars, NEW q \in Node
    PROVE  inbox[q] \subseteq inbox'[q]
<1>1. CASE UNCHANGED inbox
  BY <1>1
<1>2. ASSUME NEW p \in Node, NEW t \in DOMAIN network, ProcessInRelationship(p, t)
      PROVE  inbox[q] \subseteq inbox'[q]
  <2>1. CASE RelationshipForTx(p, network[t]) = 0
    BY <2>1, <1>2 DEF ProcessInRelationship
  <2>2. CASE RelationshipForTx(p, network[t]) # 0
    <3>1. PICK tx : tx = network[t]
      OBVIOUS
    <3>2. PICK r, m :
              inbox' = [inbox EXCEPT ![p] = IF Owns(p, tx.from) THEN @
                                            ELSE @ \cup {Logged(t, r, m)}]
      BY <1>2, <2>2, <3>1, ProcessInRelationshipEffect
    <3>3. PICK x : x = Logged(t, r, m)
      OBVIOUS
    <3>4. QED
      BY <3>2, <3>3 DEF Inv, TypeOK
  <2>3. QED
    BY <2>1, <2>2
<1>3. CASE Next
  <2>1. PICK p \in Node :
            \/ \E c \in Conn : UserStep(p, c) \/ CommandStep(p, c)
            \/ \E t \in DOMAIN network : HandleTx(p, t) \/ ProcessTx(p, t)
    BY <1>3 DEF Next, ListenerStep
  <2>2. ASSUME NEW t \in DOMAIN network, ProcessTx(p, t) PROVE inbox[q] \subseteq inbox'[q]
    BY <1>1, <1>2, <2>2 DEF ProcessTx, ProcessInitiate
  <2>3. QED
    BY <1>1, <2>1, <2>2, CommandsExtend
<1>4. QED
  BY <1>1, <1>3 DEF vars

LEMMA NextLossless ==
    ASSUME Inv, AuthorInv, UniqueTxId, SettledInv, AllCovered, ViewsRead, ~ReuseAddresses,
           Pairs \/ (SendInv /\ NoKeyReuse), CommandsHold, NothingLost, [Next]_vars
    PROVE  NothingLost'
<1>1. NetworkExtends
  BY NextExtends
<1>2. ASSUME NEW p \in Node, NEW t \in promoted'[p], network'[t].kind # "initiate",
             network'[t].from.base.node # p, p \in Parties(t)'
      PROVE  \E e \in inbox'[p] : e.t = t
  <2>1. CASE t \in promoted[p]
    <3>1. t \in DOMAIN network
      BY <2>1 DEF Inv, TypeOK
    <3>2. network'[t] = network[t] /\ Parties(t)' = Parties(t)
      BY <1>1, <3>1, PartiesKept DEF NetworkExtends
    <3>3. PICK e \in inbox[p] : e.t = t
      BY <1>2, <2>1, <3>2 DEF NothingLost
    <3>4. inbox[p] \subseteq inbox'[p]
      BY InboxGrows
    <3>5. QED
      BY <3>3, <3>4
  <2>2. CASE t \in DOMAIN network /\ ProcessTx(p, t)
    <3>1. PICK tx : tx = network[t] /\ tx = network'[t]
      BY <1>1, <2>2 DEF NetworkExtends
    <3>2. tx.kind # "initiate" /\ tx.from.base.node # p
      BY <1>2, <3>1
    <3>3. QED
      BY <2>2, <3>1, <3>2, ReadsArrivals
  <2>3. QED
    BY <2>1, <2>2, NextTakes
<1>3. QED
  BY <1>2 DEF NothingLost, Parties

\* A processed accept or message has been read (HandleTx, ProcessTx): under the
\* same conditions nothing is lost, and in groups if no broadcast fails after the
\* transaction is out, which would have its key sign a second time.
THEOREM NothingLostHolds ==
    ASSUME Calm, Pairs \/ "after" \notin Failures PROVE Spec => []NothingLost
<1>1. Init => SendInv /\ AllCovered /\ ViewsRead /\ NothingLost
  <2> SUFFICES ASSUME Init PROVE SendInv /\ AllCovered /\ ViewsRead /\ NothingLost
    OBVIOUS
  <2>1. /\ DOMAIN network = {} /\ \A p \in Node : DOMAIN rs[p] = {}
        /\ \A p \in Node : promoted[p] = {}
    BY EmptySeq DEF Init
  <2>2. CommandsHold
    BY InitSettled
  <2>3. QED
    BY <2>1, <2>2 DEF SendInv, SentInOrder, AllCovered, ViewsRead, NothingLost
<1>2. Inv /\ Inv' /\ AuthorInv /\ SendInv /\ [Next]_vars => SendInv'
  BY NextSend
<1>3. Inv /\ AuthorInv /\ SendInv /\ AllCovered /\ ViewsRead /\ [Next]_vars
      => AllCovered' /\ ViewsRead'
  <2> SUFFICES ASSUME Inv, AuthorInv, SendInv, AllCovered, ViewsRead, [Next]_vars
               PROVE  AllCovered' /\ ViewsRead'
    OBVIOUS
  <2>1. ViewsGo /\ NetworkExtends /\ \A q \in Node : promoted[q] \subseteq promoted'[q]
    BY NextGo, NextExtends, PromotedStays DEF SendInv
  <2>2. QED
    BY <2>1, NextCovered, NextViewsRead
<1>4. CASE Pairs
  <2>1. /\ Inv /\ AuthorInv /\ UniqueInv /\ SettledInv /\ SendInv /\ AllCovered /\ ViewsRead
        /\ NothingLost /\ [Next]_vars
        => NothingLost'
    BY <1>4, NextLossless DEF Calm, UniqueInv, SendInv
  <2>2. QED
    BY <1>1, <1>2, <1>3, <2>1, SettledInvHolds, PTL DEF Spec
<1>5. CASE "after" \notin Failures
  <2>1. Spec => []NoKeyReuse
    BY <1>5, NoKeyReuseHolds DEF Calm
  <2>2. /\ Inv /\ AuthorInv /\ UniqueInv /\ SettledInv /\ SendInv /\ NoKeyReuse
        /\ AllCovered /\ ViewsRead /\ NothingLost /\ [Next]_vars
        => NothingLost'
    BY NextLossless DEF Calm, UniqueInv, SendInv
  <2>3. QED
    BY <1>1, <1>2, <1>3, <2>1, <2>2, SettledInvHolds, PTL DEF Spec
<1>6. QED
  BY <1>4, <1>5

=============================================================================
