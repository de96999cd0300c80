--------------------- MODULE RelationshipChannel_proofs ---------------------
(***************************************************************************)
(* That the relationships implement the channels of Channel, for every     *)
(* number of daemons, connections and transactions: whatever interleaves,  *)
(* fails or is reordered, a step opens, joins, posts, reads once under the *)
(* author's name and, in a group, in the author's order, or shows nothing. *)
(***************************************************************************)
EXTENDS RelationshipAuthors_proofs

-----------------------------------------------------------------------------
(* How records and commands go on.                                         *)

\* No step takes an index back, or a record away from its place.
LEMMA NextMoves ==
    ASSUME Inv, [Next]_vars
    PROVE  Moves
<1>1. CASE UNCHANGED rs
  BY <1>1, FrameMoves
<1>2. ASSUME NEW p \in Node, NEW c \in Conn, UserStep(p, c) \/ CommandStep(p, c)
      PROVE  Moves
  <2>1. CASE RecordInitiated(p, c)
    <3>1. PICK s : rs' = [rs EXCEPT ![p] = Append(rs[p], s)]
      BY <2>1 DEF RecordInitiated
    <3>2. QED
      BY <3>1, AppendMoves
  <2>2. CASE AdvanceOwn(p, c) \/ AdvanceMembers(p, c)
    BY <2>2, AdvanceMoves
  <2>3. CASE UserStep(p, c)
    BY <1>1, <2>3 DEF UserStep, Initiate, InitiateFails, Build
  <2>4. CASE RegisterInitiated(p, c) \/ Broadcast(p, c) \/ BroadcastFails(p, c)
    BY <1>1, <2>4 DEF RegisterInitiated, Broadcast, BroadcastFails
  <2>5. QED
    BY <1>2, <2>1, <2>2, <2>3, <2>4 DEF CommandStep
<1>3. ASSUME NEW p \in Node, ListenerStep(p) PROVE Moves
  <2>1. PICK t \in DOMAIN network : HandleTx(p, t) \/ ProcessTx(p, t)
    BY <1>3 DEF ListenerStep
  <2>2. CASE HandleTx(p, t)
    BY <1>1, <2>2 DEF HandleTx
  <2>3. QED
    BY <2>1, <2>2, ProcessTxMoves
<1>4. CASE UNCHANGED vars
  BY <1>1, <1>4 DEF vars
<1>5. QED
  BY <1>2, <1>3, <1>4 DEF Next

\* A command that is set to a state in which it holds no record, or holds the
\* first of its relationship.
LEMMA HoldSet ==
    ASSUME Inv, CommandsHold, Moves, NEW p \in Node, NEW c \in Conn, NEW d,
           SetCmd(p, c, d), Holds(p, d)'
    PROVE  CommandsHold'
<1>1. \A q \in Node : \A x \in Conn :
         \/ cmd'[q][x] = cmd[q][x]
         \/ cmd'[q][x] = d /\ Holds(q, d)'
  BY SetCmdEffect
<1>2. QED
  BY <1>1, HoldStep

\* Commands keep to the first record of their relationship (FindRelationship
\* is asked once, by Build).
LEMMA NextHolds ==
    ASSUME Inv, CommandsHold, [Next]_vars
    PROVE  CommandsHold'
<1>1. Moves
  BY NextMoves
<1>2. CASE UNCHANGED cmd
  <2>1. \A q \in Node : \A x \in Conn : cmd'[q][x] = cmd[q][x]
    BY <1>2
  <2>2. QED
    BY <1>1, <2>1, HoldStep
<1>3. ASSUME NEW p \in Node, NEW c \in Conn, NEW d, SetCmd(p, c, d),
             d.pc \notin {"built", "sent"}
      PROVE  CommandsHold'
  <2>1. Holds(p, d)'
    BY <1>3 DEF Holds
  <2>2. QED
    BY <1>1, <1>3, <2>1, HoldSet
<1>4. ASSUME NEW p \in Node, NEW c \in Conn, UserStep(p, c)
      PROVE  CommandsHold'
  <2>1. ASSUME NEW recv \in Invites[p], Initiate(p, c, recv)
        PROVE  CommandsHold'
    <3>1. SetCmd(p, c, Initiated(Len(network) + 1))
      BY <2>1 DEF Initiate, Initiated
    <3>2. Initiated(Len(network) + 1).pc = "initiated"
      BY NextInitiated DEF Inv, TypeOK
    <3>3. QED
      BY <1>3, <3>1, <3>2
  <2>2. ASSUME NEW recv \in Invites[p], InitiateFails(p, c, recv)
        PROVE  CommandsHold'
    BY <1>2, <2>2 DEF InitiateFails
  <2>3. ASSUME NEW kind \in {"accept", "message"}, NEW k \in DOMAIN rs[p],
               Build(p, c, kind, k)
        PROVE  CommandsHold'
    <3>1. PICK d : SetCmd(p, c, d) /\ d.k = k
      BY <2>3, BuildSets
    <3>2. First(p, k)
      BY <2>3, BuildFirst
    <3>3. First(p, k)'
      BY <1>1, <3>2, FirstStays
    <3>4. Holds(p, d)'
      BY <3>1, <3>3 DEF Holds
    <3>5. QED
      BY <1>1, <3>1, <3>4, HoldSet
  <2>4. QED
    BY <1>4, <2>1, <2>2, <2>3 DEF UserStep
<1>5. ASSUME NEW p \in Node, NEW c \in Conn, CommandStep(p, c)
      PROVE  CommandsHold'
  <2>1. CASE RecordInitiated(p, c)
    <3>1. SetCmd(p, c, Recorded(Len(rs[p]) + 1))
      BY <2>1 DEF RecordInitiated, Recorded
    <3>2. Len(rs[p]) + 1 \in Nat
      BY LenProperties DEF Inv, TypeOK
    <3>3. Recorded(Len(rs[p]) + 1).pc = "recorded"
      BY <3>2, CommandTypes
    <3>4. QED
      BY <1>3, <3>1, <3>3
  <2>2. CASE RegisterInitiated(p, c) \/ BroadcastFails(p, c) \/ AdvanceMembers(p, c)
    <3>1. SetCmd(p, c, NoCommand)
      BY <2>2 DEF RegisterInitiated, BroadcastFails, AdvanceMembers
    <3>2. NoCommand.pc = "idle"
      BY DEF NoCommand
    <3>3. QED
      BY <1>3, <3>1, <3>2
  <2>3. PICK e \in Command : e = cmd[p][c]
    BY CommandHeld
  <2>4. CASE AdvanceOwn(p, c)
    <3>1. SetCmd(p, c, At(e, "advanced"))
      BY <2>3, <2>4 DEF AdvanceOwn, At
    <3>2. At(e, "advanced").pc = "advanced"
      BY CommandTypes
    <3>3. QED
      BY <1>3, <3>1, <3>2
  <2>5. CASE Broadcast(p, c)
    <3>1. PICK d : d = At(e, "sent") /\ d.k = e.k
      BY CommandTypes
    <3>2. SetCmd(p, c, d) /\ e.pc = "built"
      BY <2>3, <2>5, <3>1 DEF Broadcast, At
    <3>3. e.k \in DOMAIN rs[p]
      BY <2>3, <3>2, CommandHeld
    <3>4. First(p, e.k)
      BY <2>3, <3>2 DEF CommandsHold, Holds
    <3>5. First(p, e.k)'
      BY <1>1, <3>3, <3>4, FirstStays
    <3>6. Holds(p, d)'
      BY <3>1, <3>5 DEF Holds
    <3>7. QED
      BY <1>1, <3>2, <3>6, HoldSet
  <2>6. QED
    BY <1>5, <2>1, <2>2, <2>4, <2>5 DEF CommandStep
<1>6. ASSUME NEW p \in Node, ListenerStep(p) PROVE CommandsHold'
  BY <1>2, <1>6 DEF ListenerStep, HandleTx, ProcessTx
<1>7. QED
  BY <1>2, <1>4, <1>5, <1>6 DEF Next, vars

-----------------------------------------------------------------------------
(* What is broadcast.                                                      *)

\* The transaction that a command signs with the next key of its record.
Signs(p, k, tx) ==
    /\ k \in DOMAIN rs[p] /\ First(p, k)
    /\ tx.rel = rs[p][k].txid /\ tx.from = NextKey(rs[p][k])

Signed(tx) ==
    IF tx.kind = "initiate" THEN tx.rel = Len(network) + 1
    ELSE \E p \in Node : \E k \in DOMAIN rs[p] : Signs(p, k, tx)

\* What is built is signed with the next key of the first record.
LEMMA CommandSigns ==
    ASSUME Inv, CommandsHold, NEW p \in Node, NEW c \in Conn,
           cmd[p][c].pc = "built"
    PROVE  CommandTx(p, c) \in Tx /\ Signed(CommandTx(p, c))
<1>1. PICK k \in DOMAIN rs[p] : k = cmd[p][c].k
  BY CommandHeld
<1>2. First(p, k)
  BY <1>1 DEF CommandsHold, Holds
<1>3. PICK tx \in Tx : /\ tx = CommandTx(p, c) /\ tx.kind # "initiate"
                       /\ tx.rel = rs[p][k].txid /\ tx.from = NextKey(rs[p][k])
  BY <1>1, CommandTxType DEF Inv, Structure
<1>4. Signs(p, k, tx)
  BY <1>2, <1>3 DEF Signs
<1>5. QED
  BY <1>3, <1>4 DEF Signed

\* A step that adds a transaction adds one that is signed so, and nothing else
\* that a user sees.
LEMMA NextNetwork ==
    ASSUME Inv, CommandsHold, [Next]_vars
    PROVE  \/ UNCHANGED network
           \/ /\ UNCHANGED rs /\ UNCHANGED inbox
              /\ \E tx \in Tx : network' = Append(network, tx) /\ Signed(tx)
<1> DEFINE Adds == /\ UNCHANGED rs /\ UNCHANGED inbox
                   /\ \E tx \in Tx : network' = Append(network, tx) /\ Signed(tx)
<1>1. ASSUME NEW p \in Node, NEW c \in Conn, UserStep(p, c)
      PROVE  UNCHANGED network \/ Adds
  <2>1. ASSUME NEW recv \in Invites[p],
               Initiate(p, c, recv) \/ InitiateFails(p, c, recv)
        PROVE  UNCHANGED network \/ Adds
    <3>1. /\ UNCHANGED rs /\ UNCHANGED inbox
          /\ UNCHANGED network \/ network' = Append(network, InitiateTx(p, recv))
      BY <2>1 DEF Initiate, InitiateFails
    <3>2. PICK tx \in Tx : /\ tx = InitiateTx(p, recv) /\ tx.kind = "initiate"
                           /\ tx.rel = Len(network) + 1
      BY InitiateTxType DEF Inv
    <3>3. Signed(tx)
      BY <3>2 DEF Signed
    <3>4. QED
      BY <3>1, <3>2, <3>3
  <2>2. ASSUME NEW kind \in {"accept", "message"}, NEW k \in DOMAIN rs[p],
               Build(p, c, kind, k)
        PROVE  UNCHANGED network
    BY <2>2 DEF Build
  <2> HIDE DEF Adds
  <2>3. QED
    BY <1>1, <2>1, <2>2 DEF UserStep
<1>2. ASSUME NEW p \in Node, NEW c \in Conn, CommandStep(p, c)
      PROVE  UNCHANGED network \/ Adds
  <2>1. CASE Broadcast(p, c) \/ BroadcastFails(p, c)
    <3>1. /\ UNCHANGED rs /\ UNCHANGED inbox /\ cmd[p][c].pc = "built"
          /\ UNCHANGED network \/ network' = Append(network, CommandTx(p, c))
      BY <2>1 DEF Broadcast, BroadcastFails
    <3>2. CommandTx(p, c) \in Tx /\ Signed(CommandTx(p, c))
      BY <3>1, CommandSigns
    <3>3. QED
      BY <3>1, <3>2
  <2>2. CASE ~ (Broadcast(p, c) \/ BroadcastFails(p, c))
    BY <1>2, <2>2 DEF CommandStep, RecordInitiated, RegisterInitiated,
       AdvanceOwn, AdvanceMembers
  <2> HIDE DEF Adds
  <2>3. QED
    BY <2>1, <2>2
<1>3. ASSUME NEW p \in Node, ListenerStep(p) PROVE UNCHANGED network
  BY <1>3 DEF ListenerStep, HandleTx, ProcessTx
<1>4. Next => UNCHANGED network \/ Adds
  <2> HIDE DEF Adds
  <2>1. QED
    BY <1>1, <1>2, <1>3 DEF Next
<1>5. UNCHANGED vars => UNCHANGED network
  BY DEF vars
<1>6. QED
  BY <1>4, <1>5

\* A network to which a transaction is added.
LEMMA NetworkAppended ==
    ASSUME Inv, NEW tx \in Tx, network' = Append(network, tx)
    PROVE  /\ NetworkExtends
           /\ Len(network) \in Nat /\ DOMAIN network = 1..Len(network)
           /\ DOMAIN network' = 1..Len(network) + 1
           /\ network'[Len(network) + 1] = tx
<1>1. network \in Seq(Tx) /\ Len(network) \in Nat /\ DOMAIN network = 1..Len(network)
  BY LenProperties DEF Inv, TypeOK
<1>2. /\ network' \in Seq(Tx) /\ Len(network') = Len(network) + 1
      /\ \A i \in 1..Len(network) : network'[i] = network[i]
      /\ network'[Len(network) + 1] = tx
  BY <1>1, AppendProperties
<1>3. DOMAIN network' = 1..Len(network) + 1
  BY <1>2, LenProperties
<1>4. NetworkExtends
  BY <1>1, <1>2, <1>3 DEF NetworkExtends
<1>5. QED
  BY <1>1, <1>2, <1>3, <1>4

-----------------------------------------------------------------------------
(* The messages of one author in one relationship use its keys in order.   *)

\* No transaction is signed with a key beyond the next one of the author's
\* first record.
UpTo(p, txid, i) ==
    \E k \in DOMAIN rs[p] :
        First(p, k) /\ rs[p][k].txid = txid /\ i <= rs[p][k].next
Used(tx) == tx.kind # "initiate" => UpTo(tx.from.base.node, tx.rel, tx.from.i)

SameAuthor(s, t) ==
    /\ s.kind # "initiate" /\ t.kind # "initiate"
    /\ s.rel = t.rel /\ s.from.base = t.from.base

SentInOrder ==
    \A s, t \in DOMAIN network :
        s < t /\ SameAuthor(network[s], network[t]) =>
            network[s].from.i <= network[t].from.i

SendInv ==
    /\ CommandsHold
    /\ \A t \in DOMAIN network : Used(network[t])
    /\ SentInOrder

\* A used key stays behind the next one.
LEMMA UsedStays ==
    ASSUME Inv, Inv', Moves, NEW tx \in Tx, Used(tx)
    PROVE  Used(tx)'
<1>1. CASE tx.kind = "initiate"
  BY <1>1 DEF Used
<1>2. CASE tx.kind # "initiate"
  <2>1. PICK p \in Node, i \in Nat : p = tx.from.base.node /\ i = tx.from.i
    BY DEF Tx, PublicKey, BaseKey
  <2>2. PICK k \in DOMAIN rs[p] :
            First(p, k) /\ rs[p][k].txid = tx.rel /\ i <= rs[p][k].next
    BY <1>2, <2>1 DEF Used, UpTo
  <2>3. First(p, k)'
    BY <2>2, FirstStays
  <2>4. /\ k \in DOMAIN rs'[p] /\ rs'[p][k].txid = tx.rel
        /\ rs'[p][k].next >= rs[p][k].next
    BY <2>2 DEF Moves
  <2>5. PICK a \in Nat : a = rs[p][k].next
    BY <2>2, RecordType DEF Relationship
  <2>6. PICK b \in Nat : b = rs'[p][k].next
    <3>1. rs' \in [Node -> Seq(Relationship)]
      BY DEF Inv, TypeOK
    <3>2. rs'[p] \in Seq(Relationship)
      BY <3>1
    <3>3. rs'[p][k] \in Relationship
      BY <2>4, <3>2, LenProperties, ElementOfSeq
    <3>4. QED
      BY <3>3 DEF Relationship
  <2>7. i <= rs'[p][k].next
    <3>1. i <= a /\ b >= a
      BY <2>2, <2>4, <2>5, <2>6
    <3>2. QED
      BY <2>6, <3>1
  <2>8. UpTo(p, tx.rel, i)'
    BY <2>3, <2>4, <2>7 DEF UpTo
  <2>9. QED
    BY <2>1, <2>8 DEF Used
<1>3. QED
  BY <1>1, <1>2

\* Two first records of one relationship are the same.
LEMMA OneFirst ==
    ASSUME Inv, NEW p \in Node, NEW j \in DOMAIN rs[p], NEW k \in DOMAIN rs[p],
           First(p, j), First(p, k), rs[p][j].txid = rs[p][k].txid
    PROVE  j = k
<1>1. j <= k /\ k <= j
  BY DEF First
<1>2. j \in Nat /\ k \in Nat
  BY RecordType
<1>3. QED
  BY <1>1, <1>2

\* What is signed is signed with the next key of its author's first record.
LEMMA SignedNext ==
    ASSUME Inv, NEW tx, tx.kind # "initiate", Signed(tx),
           NEW q, q = tx.from.base.node
    PROVE  /\ q \in Node
           /\ \E k \in DOMAIN rs[q] :
                 /\ First(q, k) /\ rs[q][k].txid = tx.rel
                 /\ rs[q][k].key = tx.from.base /\ rs[q][k].next = tx.from.i
<1>1. PICK p \in Node : \E k \in DOMAIN rs[p] : Signs(p, k, tx)
  BY DEF Signed
<1>2. PICK k \in DOMAIN rs[p] : Signs(p, k, tx)
  BY <1>1
<1>3. PICK r : r = rs[p][k] /\ r.key.node = p
  BY RecordType DEF RecordOK
<1>4. First(p, k) /\ r.txid = tx.rel /\ tx.from = NextKey(r)
  BY <1>2, <1>3 DEF Signs
<1>5. r.key = tx.from.base /\ r.next = tx.from.i
  BY <1>4 DEF NextKey, Derived
<1>6. q = p
  BY <1>3, <1>5
<1>7. QED
  BY <1>3, <1>4, <1>5, <1>6

\* The first record of an author is at or past every key its author used.
LEMMA NextIsLast ==
    ASSUME Inv, NEW s, NEW t, Used(s), SameAuthor(s, t), Signed(t)
    PROVE  s.from.i <= t.from.i
<1>1. /\ s.kind # "initiate" /\ t.kind # "initiate"
      /\ s.rel = t.rel /\ s.from.base = t.from.base
  BY DEF SameAuthor
<1>2. PICK q : q = t.from.base.node
  OBVIOUS
<1>3. q \in Node
  BY <1>1, <1>2, SignedNext
<1>4. PICK k \in DOMAIN rs[q] :
          First(q, k) /\ rs[q][k].txid = t.rel /\ rs[q][k].next = t.from.i
  BY <1>1, <1>2, SignedNext
<1>5. PICK j \in DOMAIN rs[q] :
          First(q, j) /\ rs[q][j].txid = s.rel /\ s.from.i <= rs[q][j].next
  BY <1>1, <1>2 DEF Used, UpTo
<1>6. j = k
  BY <1>1, <1>3, <1>4, <1>5, OneFirst
<1>7. QED
  BY <1>4, <1>5, <1>6

\* Commands sign with keys in order, whatever the listener does to the index
\* in between.
LEMMA NextSend == Inv /\ Inv' /\ SendInv /\ [Next]_vars => SendInv'
<1> SUFFICES ASSUME Inv, Inv', SendInv, [Next]_vars
             PROVE  SendInv'
  OBVIOUS
<1>1. CommandsHold' /\ Moves
  BY NextHolds, NextMoves DEF SendInv
<1>2. CASE UNCHANGED network
  <2>1. ASSUME NEW t \in DOMAIN network PROVE Used(network[t])'
    <3>1. PICK tx \in Tx : tx = network[t] /\ Used(tx)
      BY TxType DEF SendInv
    <3>2. Used(tx)'
      BY <1>1, <3>1, UsedStays
    <3>3. network'[t] = tx
      BY <1>2, <3>1
    <3>4. QED
      BY <3>2, <3>3 DEF Used
  <2>2. SentInOrder'
    BY <1>2 DEF SendInv, SentInOrder
  <2>3. QED
    BY <1>1, <1>2, <2>1, <2>2 DEF SendInv
<1>3. ASSUME NEW tx \in Tx, UNCHANGED rs, network' = Append(network, tx), Signed(tx)
      PROVE  SendInv'
  <2>1. PICK n \in Nat : n = Len(network)
    BY <1>3, NetworkAppended
  <2>2. /\ NetworkExtends /\ DOMAIN network = 1..n
        /\ DOMAIN network' = 1..n + 1 /\ network'[n + 1] = tx
    BY <1>3, <2>1, NetworkAppended
  <2>3. Used(tx)'
    <3>1. CASE tx.kind = "initiate"
      BY <3>1 DEF Used
    <3>2. CASE tx.kind # "initiate"
      <4>1. PICK q : q = tx.from.base.node
        OBVIOUS
      <4>2. PICK k \in DOMAIN rs[q] :
                First(q, k) /\ rs[q][k].txid = tx.rel /\ rs[q][k].next = tx.from.i
        BY <1>3, <3>2, <4>1, SignedNext
      <4>3. PICK i \in Nat : i = tx.from.i
        BY DEF Tx, PublicKey
      <4>4. i <= rs[q][k].next
        BY <4>2, <4>3
      <4>5. UpTo(q, tx.rel, i)
        BY <4>2, <4>4 DEF UpTo
      <4>6. UpTo(q, tx.rel, i)'
        BY <1>3, <4>5 DEF UpTo, First
      <4>7. QED
        BY <4>1, <4>3, <4>6 DEF Used
    <3>3. QED
      BY <3>1, <3>2
  <2>4. ASSUME NEW t \in DOMAIN network PROVE Used(network[t])'
    <3>1. PICK s \in Tx : s = network[t] /\ Used(s)
      BY TxType DEF SendInv
    <3>2. Used(s)'
      BY <1>1, <3>1, UsedStays
    <3>3. network'[t] = s
      BY <2>2, <3>1 DEF NetworkExtends
    <3>4. QED
      BY <3>2, <3>3 DEF Used
  <2>5. ASSUME NEW t \in DOMAIN network' PROVE Used(network[t])'
    <3>1. CASE t = n + 1
      BY <2>2, <2>3, <3>1 DEF Used
    <3>2. CASE t # n + 1
      BY <2>2, <2>4, <3>2
    <3>3. QED
      BY <3>1, <3>2
  <2>6. SentInOrder'
    <3> SUFFICES ASSUME NEW s \in DOMAIN network', NEW t \in DOMAIN network',
                        s < t, SameAuthor(network'[s], network'[t])
                 PROVE  network'[s].from.i <= network'[t].from.i
      BY DEF SentInOrder, SameAuthor
    <3>1. s \in DOMAIN network /\ network'[s] = network[s]
      BY <2>1, <2>2 DEF NetworkExtends
    <3>2. CASE t \in DOMAIN network
      BY <2>2, <3>1, <3>2 DEF NetworkExtends, SendInv, SentInOrder
    <3>3. CASE t \notin DOMAIN network
      <4>1. network'[t] = tx
        BY <2>1, <2>2, <3>3
      <4>2. PICK x : x = network[s] /\ Used(x) /\ SameAuthor(x, tx)
        BY <3>1, <4>1 DEF SendInv
      <4>3. x.from.i <= tx.from.i
        BY <1>3, <4>2, NextIsLast
      <4>4. QED
        BY <3>1, <4>1, <4>2, <4>3
    <3>4. QED
      BY <3>2, <3>3
  <2>7. QED
    BY <1>1, <2>5, <2>6 DEF SendInv
<1>4. QED
  BY <1>2, <1>3, NextNetwork DEF SendInv

-----------------------------------------------------------------------------
(* A node's view of a group moves past what it has read.                   *)

\* A member that is listed twice is seen at one index.
Even(r) ==
    r.enc = 1 =>
        \A i, j \in DOMAIN r.members :
            r.members[i].base = r.members[j].base =>
                r.members[i].next = r.members[j].next

\* A record that takes the place of another sees nobody at an earlier key.
Grows(s, r) ==
    /\ Continues(s, r)
    /\ r.enc = 1 =>
          \A i \in DOMAIN r.members : s.members[i].next >= r.members[i].next
    /\ Even(r) => Even(s)

ViewsGrow ==
    \A q \in Node :
        /\ \A k \in DOMAIN rs[q] : k \in DOMAIN rs'[q] /\ Grows(rs'[q][k], rs[q][k])
        /\ \A k \in DOMAIN rs'[q] : k \in DOMAIN rs[q] \/ Even(rs'[q][k])

\* The members of a record.
LEMMA MemberTypes ==
    ASSUME NEW r \in Relationship, NEW i \in DOMAIN r.members
    PROVE  r.members[i] \in MemberRecord /\ r.members[i].next \in Nat
<1>1. r.members \in Seq(MemberRecord) /\ i \in 1..Len(r.members)
  BY LenProperties DEF Relationship
<1>2. r.members[i] \in MemberRecord
  BY <1>1, ElementOfSeq
<1>3. QED
  BY <1>2 DEF MemberRecord

\* A step that leaves a group's view alone.
LEMMA SameGrows ==
    ASSUME NEW r \in Relationship, NEW s, Continues(s, r),
           r.enc = 1 => SameView(s, r)
    PROVE  Grows(s, r)
<1>1. \A i \in DOMAIN r.members : r.members[i].next \in Nat
  BY MemberTypes
<1>2. r.enc = 1 => \A i \in DOMAIN r.members : s.members[i].next >= r.members[i].next
  BY <1>1 DEF SameView
<1>3. Even(r) => Even(s)
  BY DEF Even, Continues, SameView
<1>4. QED
  BY <1>2, <1>3 DEF Grows

\* A transaction that is read moves on every member at the key that signed.
LEMMA ReadGrows ==
    ASSUME NEW r \in Relationship, NEW s, NEW tx, NEW sending, NEW m,
           ReadInto(s, r, tx, sending, m)
    PROVE  Grows(s, r)
<1>1. Continues(s, r)
  BY DEF ReadInto
<1>2. \A i \in DOMAIN r.members :
         s.members[i].next = IF MemberKey(r, r.members[i]) \in KeysUsed(tx)
                             THEN r.members[i].next + 1 ELSE r.members[i].next
  BY DEF ReadInto
<1>3. ASSUME NEW i \in DOMAIN r.members PROVE s.members[i].next >= r.members[i].next
  <2>1. PICK n \in Nat : n = r.members[i].next
    BY MemberTypes
  <2>2. s.members[i].next = n + 1 \/ s.members[i].next = n
    BY <1>2, <2>1
  <2>3. QED
    BY <2>1, <2>2
<1>4. ASSUME Even(r), s.enc = 1, NEW i \in DOMAIN s.members, NEW j \in DOMAIN s.members,
             s.members[i].base = s.members[j].base
      PROVE  s.members[i].next = s.members[j].next
  <2>1. /\ i \in DOMAIN r.members /\ j \in DOMAIN r.members
        /\ r.members[i].base = r.members[j].base /\ r.enc = 1
    BY <1>1, <1>4 DEF Continues
  <2>2. r.members[i].next = r.members[j].next
    BY <1>4, <2>1 DEF Even
  <2>3. MemberKey(r, r.members[i]) = MemberKey(r, r.members[j])
    BY <2>1, <2>2 DEF MemberKey
  <2>4. QED
    BY <1>2, <2>1, <2>2, <2>3
<1>5. Even(r) => Even(s)
  BY <1>4 DEF Even
<1>6. QED
  BY <1>1, <1>3, <1>5 DEF Grows

\* One record goes on.
LEMMA UpdateGrows ==
    ASSUME Inv, NEW p \in Node, NEW k \in DOMAIN rs[p], NEW s,
           rs' = [rs EXCEPT ![p][k] = s], Grows(s, rs[p][k])
    PROVE  ViewsGrow
<1>1. rs \in [Node -> Seq(Relationship)]
  BY DEF Inv, TypeOK
<1>2. \A q \in Node : /\ DOMAIN rs'[q] = DOMAIN rs[q]
                      /\ \A j \in DOMAIN rs[q] :
                            rs'[q][j] = IF q = p /\ j = k THEN s ELSE rs[q][j]
  BY <1>1
<1>3. ASSUME NEW q \in Node, NEW j \in DOMAIN rs[q]
      PROVE  Grows(rs'[q][j], rs[q][j])
  <2>1. CASE q = p /\ j = k
    BY <1>2, <2>1
  <2>2. CASE ~ (q = p /\ j = k)
    <3>1. PICK r \in Relationship : r = rs[q][j] /\ r = rs'[q][j]
      BY <1>2, <2>2, RecordType
    <3>2. Continues(r, r) /\ SameView(r, r)
      BY DEF Continues, SameView
    <3>3. QED
      BY <3>1, <3>2, SameGrows
  <2>3. QED
    BY <2>1, <2>2
<1>4. QED
  BY <1>2, <1>3 DEF ViewsGrow

\* No record changes.
LEMMA FrameGrows ==
    ASSUME Inv, UNCHANGED rs
    PROVE  ViewsGrow
<1>1. ASSUME NEW q \in Node, NEW j \in DOMAIN rs[q]
      PROVE  Grows(rs'[q][j], rs[q][j])
  <2>1. PICK r \in Relationship : r = rs[q][j] /\ r = rs'[q][j]
    BY RecordType
  <2>2. Continues(r, r) /\ SameView(r, r)
    BY DEF Continues, SameView
  <2>3. QED
    BY <2>1, <2>2, SameGrows
<1>2. QED
  BY <1>1 DEF ViewsGrow

\* A new record sees everybody at the first index.
LEMMA AppendGrows ==
    ASSUME Inv, NEW p \in Node, NEW s, rs' = [rs EXCEPT ![p] = Append(rs[p], s)],
           NEW pks \in Seq(PublicKey), s.members = NewMembers(pks)
    PROVE  ViewsGrow
<1>1. Even(s)
  BY NewMembersFresh DEF Even
<1>2. /\ DOMAIN rs'[p] = DOMAIN rs[p] \cup {Len(rs[p]) + 1}
      /\ rs'[p][Len(rs[p]) + 1] = s
      /\ \A q \in Node \ {p} : rs'[q] = rs[q]
      /\ \A q \in Node : \A k \in DOMAIN rs[q] : rs'[q][k] = rs[q][k]
  BY AppendedRecords
<1>3. ASSUME NEW q \in Node, NEW j \in DOMAIN rs[q]
      PROVE  Grows(rs'[q][j], rs[q][j])
  <2>1. PICK r \in Relationship : r = rs[q][j] /\ r = rs'[q][j]
    BY <1>2, RecordType
  <2>2. Continues(r, r) /\ SameView(r, r)
    BY DEF Continues, SameView
  <2>3. QED
    BY <2>1, <2>2, SameGrows
<1>4. ASSUME NEW q \in Node, NEW j \in DOMAIN rs[q] PROVE j \in DOMAIN rs'[q]
  BY <1>2
<1>5. ASSUME NEW q \in Node, NEW j \in DOMAIN rs'[q]
      PROVE  j \in DOMAIN rs[q] \/ Even(rs'[q][j])
  BY <1>1, <1>2
<1>6. QED
  BY <1>3, <1>4, <1>5 DEF ViewsGrow

-----------------------------------------------------------------------------
(* What a user can see of a step.                                          *)

Adds(tx) ==
    /\ UNCHANGED rs /\ UNCHANGED inbox
    /\ network' = Append(network, tx) /\ Signed(tx)

Starts(p, t) ==
    /\ UNCHANGED network /\ UNCHANGED inbox
    /\ network[t].kind = "initiate"
    /\ \E b \in Bases(t) : b.node = p
    /\ \E s : \E pks \in Seq(PublicKey) :
          /\ rs' = [rs EXCEPT ![p] = Append(rs[p], s)]
          /\ s.txid = t /\ s.members = NewMembers(pks)

GoesOn(p) ==
    /\ UNCHANGED network /\ UNCHANGED inbox
    /\ \E k \in DOMAIN rs[p] : \E s :
          rs' = [rs EXCEPT ![p][k] = s] /\ Grows(s, rs[p][k])

Reads(p, t) ==
    /\ UNCHANGED network
    /\ network[t].kind # "initiate" /\ Decrypts(p, network[t])
    /\ RelationshipForTx(p, network[t]) # 0 /\ ProcessInRelationship(p, t)
    /\ t \notin promoted[p] /\ t \in promoted'[p]

\* The initiator keeps a record.
LEMMA RecordInitiatedStarts ==
    ASSUME Inv, NEW p \in Node, NEW c \in Conn, RecordInitiated(p, c)
    PROVE  \E t \in DOMAIN network : Starts(p, t)
<1>1. /\ cmd[p][c].pc = "initiated" /\ UNCHANGED network /\ UNCHANGED inbox
      /\ rs' = [rs EXCEPT ![p] = Append(rs[p], InitiatorRecord(cmd[p][c].t))]
  BY DEF RecordInitiated
<1>2. PICK t \in DOMAIN network : t = cmd[p][c].t
  BY <1>1, CommandInitiated
<1>3. network[t].kind = "initiate" /\ network[t].from.base.node = p
  BY <1>1, <1>2, CommandInitiated
<1>4. PICK s : s = InitiatorRecord(t) /\ rs' = [rs EXCEPT ![p] = Append(rs[p], s)]
  BY <1>1, <1>2
<1>5. PICK pks \in Seq(PublicKey) : pks = network[t].to
  BY TxType DEF Tx
<1>6. s.txid = t /\ s.members = NewMembers(pks)
  BY <1>4, <1>5 DEF InitiatorRecord
<1>7. PICK b : b = network[t].from.base
  OBVIOUS
<1>8. b \in Bases(t) /\ b.node = p
  BY <1>3, <1>7 DEF Bases
<1>9. Starts(p, t)
  BY <1>1, <1>3, <1>4, <1>6, <1>8 DEF Starts
<1>10. QED
  BY <1>9

\* So does everybody whom the initiate reaches, once.
LEMMA JoiningStarts ==
    ASSUME Inv, AuthorInv, NEW p \in Node, NEW t \in DOMAIN network,
           network[t].kind = "initiate", IsOurs(p, network[t]),
           UNCHANGED network, ProcessInitiate(p, t)
    PROVE  Starts(p, t) \/ (UNCHANGED rs /\ UNCHANGED inbox)
<1>1. CASE UNCHANGED rs
  BY <1>1 DEF ProcessInitiate
<1>2. CASE rs' = [rs EXCEPT ![p] = Append(rs[p], InitiatedRecord(p, t))]
  <2>1. PICK tx \in Tx : tx = network[t]
    BY TxType
  <2>2. PICK pks \in Seq(PublicKey) : pks = Others(p, tx)
    BY <2>1, OthersType DEF Inv, Structure, TxsOK
  <2>3. PICK s : s = InitiatedRecord(p, t)
    OBVIOUS
  <2>4. s.members = NewMembers(pks) /\ s.txid = t
    BY <2>1, <2>2, <2>3 DEF InitiatedRecord, Others
  <2>5. PICK b : b = OurKey(p, tx).base
    OBVIOUS
  <2>6. b \in Bases(t) /\ b.node = p
    BY <2>1, <2>2, <2>5, OtherBases, OurKeyOurs
  <2>7. UNCHANGED inbox
    BY DEF ProcessInitiate
  <2>8. Starts(p, t)
    BY <1>2, <2>2, <2>3, <2>4, <2>6, <2>7 DEF Starts
  <2>9. QED
    BY <2>8
<1>3. QED
  BY <1>1, <1>2 DEF ProcessInitiate

\* A command that has broadcast goes on.
LEMMA AdvanceGoesOn ==
    ASSUME Inv, NEW p \in Node, NEW c \in Conn,
           AdvanceOwn(p, c) \/ AdvanceMembers(p, c)
    PROVE  GoesOn(p)
<1>1. UNCHANGED network /\ UNCHANGED inbox
  BY DEF AdvanceOwn, AdvanceMembers
<1>2. PICK k \in DOMAIN rs[p], s \in Relationship :
          /\ rs' = [rs EXCEPT ![p][k] = s]
          /\ Continues(s, rs[p][k])
          /\ rs[p][k].enc = 1 => SameView(s, rs[p][k])
  BY AdvanceOwnEffect, AdvanceMembersEffect
<1>3. PICK r \in Relationship : r = rs[p][k]
  BY RecordType
<1>4. Grows(s, r)
  BY <1>2, <1>3, SameGrows
<1>5. QED
  BY <1>1, <1>2, <1>3, <1>4 DEF GoesOn

\* The steps, as far as a user can see.
LEMMA StepKinds ==
    ASSUME Inv, AuthorInv, CommandsHold, [Next]_vars
    PROVE  \/ UNCHANGED network /\ UNCHANGED rs /\ UNCHANGED inbox
           \/ \E tx \in Tx : Adds(tx)
           \/ \E p \in Node : \E t \in DOMAIN network : Starts(p, t)
           \/ \E p \in Node : GoesOn(p)
           \/ \E p \in Node : \E t \in DOMAIN network : Reads(p, t)
<1>1. CASE ~ UNCHANGED network
  BY <1>1, NextNetwork DEF Adds
<1>2. CASE UNCHANGED vars
  BY <1>2 DEF vars
<1>3. ASSUME UNCHANGED network, NEW p \in Node, NEW c \in Conn,
             UserStep(p, c) \/ CommandStep(p, c)
      PROVE  \/ UNCHANGED network /\ UNCHANGED rs /\ UNCHANGED inbox
             \/ \E t \in DOMAIN network : Starts(p, t)
             \/ GoesOn(p)
  <2>1. CASE RecordInitiated(p, c)
    BY <2>1, RecordInitiatedStarts
  <2>2. CASE AdvanceOwn(p, c) \/ AdvanceMembers(p, c)
    BY <2>2, AdvanceGoesOn
  <2>3. CASE UserStep(p, c)
    BY <1>3, <2>3 DEF UserStep, Initiate, InitiateFails, Build
  <2>4. CASE RegisterInitiated(p, c) \/ Broadcast(p, c) \/ BroadcastFails(p, c)
    BY <1>3, <2>4 DEF RegisterInitiated, Broadcast, BroadcastFails
  <2>5. QED
    BY <1>3, <2>1, <2>2, <2>3, <2>4 DEF CommandStep
<1>4. ASSUME NEW p \in Node, NEW t \in DOMAIN network, HandleTx(p, t)
      PROVE  UNCHANGED network /\ UNCHANGED rs /\ UNCHANGED inbox
  BY <1>4 DEF HandleTx
<1>5. ASSUME NEW p \in Node, NEW t \in DOMAIN network, ProcessTx(p, t)
      PROVE  \/ UNCHANGED network /\ UNCHANGED rs /\ UNCHANGED inbox
             \/ Starts(p, t)
             \/ Reads(p, t)
  <2>1. UNCHANGED network
    BY <1>5 DEF ProcessTx
  <2>2. CASE ~ Decrypts(p, network[t])
    BY <1>5, <2>1, <2>2 DEF ProcessTx
  <2>3. CASE Decrypts(p, network[t]) /\ network[t].kind = "initiate"
    <3>1. ProcessInitiate(p, t) /\ IsOurs(p, network[t])
      BY <1>5, <2>3, DecryptedIsOurs DEF ProcessTx
    <3>2. QED
      BY <2>1, <2>3, <3>1, JoiningStarts
  <2>4. CASE Decrypts(p, network[t]) /\ network[t].kind # "initiate"
    <3>1. ProcessInRelationship(p, t) /\ t \notin promoted[p]
      BY <1>5, <2>4 DEF ProcessTx
    <3>2. CASE RelationshipForTx(p, network[t]) = 0
      BY <2>1, <3>1, <3>2 DEF ProcessInRelationship
    <3>3. CASE RelationshipForTx(p, network[t]) # 0
      <4>1. t \in promoted'[p]
        BY <1>5 DEF ProcessTx, Inv, TypeOK
      <4>2. QED
        BY <2>1, <2>4, <3>1, <3>3, <4>1 DEF Reads
    <3>4. QED
      BY <3>2, <3>3
  <2>5. QED
    BY <2>2, <2>3, <2>4
<1>6. QED
  BY <1>1, <1>2, <1>3, <1>4, <1>5 DEF Next, ListenerStep

\* Nothing that was processed is forgotten.
LEMMA PromotedStays ==
    ASSUME Inv, [Next]_vars
    PROVE  \A q \in Node : promoted[q] \subseteq promoted'[q]
<1>1. CASE UNCHANGED promoted
  BY <1>1
<1>2. ASSUME NEW p \in Node, NEW c \in Conn, UserStep(p, c) \/ CommandStep(p, c)
      PROVE  UNCHANGED promoted
  BY <1>2 DEF UserStep, CommandStep, Initiate, InitiateFails, Build, RecordInitiated,
     RegisterInitiated, Broadcast, BroadcastFails, AdvanceOwn, AdvanceMembers
<1>3. ASSUME NEW p \in Node, NEW t \in DOMAIN network, HandleTx(p, t)
      PROVE  UNCHANGED promoted
  BY <1>3 DEF HandleTx
<1>4. ASSUME NEW p \in Node, NEW t \in DOMAIN network, ProcessTx(p, t)
      PROVE  \A q \in Node : promoted[q] \subseteq promoted'[q]
  <2>1. promoted' = [promoted EXCEPT ![p] = @ \cup {t}]
    BY <1>4 DEF ProcessTx
  <2>2. QED
    BY <2>1 DEF Inv, TypeOK
<1>5. QED
  BY <1>1, <1>2, <1>3, <1>4 DEF Next, ListenerStep, vars

\* Every step leaves groups seen at one index, and at no earlier one.
LEMMA NextGrows ==
    ASSUME Inv, AuthorInv, CommandsHold, [Next]_vars
    PROVE  ViewsGrow
<1>1. CASE UNCHANGED rs
  BY <1>1, FrameGrows
<1>2. ASSUME NEW p \in Node, NEW t \in DOMAIN network, Starts(p, t)
      PROVE  ViewsGrow
  <2>1. PICK s : \E pks \in Seq(PublicKey) :
            /\ rs' = [rs EXCEPT ![p] = Append(rs[p], s)]
            /\ s.members = NewMembers(pks)
    BY <1>2 DEF Starts
  <2>2. QED
    BY <2>1, AppendGrows
<1>3. ASSUME NEW p \in Node, GoesOn(p) PROVE ViewsGrow
  BY <1>3, UpdateGrows DEF GoesOn
<1>4. ASSUME NEW p \in Node, NEW t \in DOMAIN network, Reads(p, t)
      PROVE  ViewsGrow
  <2>1. PICK tx : tx = network[t]
    OBVIOUS
  <2>2. PICK k \in DOMAIN rs[p], r \in Relationship, s \in Relationship :
            /\ r = rs[p][k]
            /\ rs' = [rs EXCEPT ![p][k] = s]
            /\ \E m : ReadInto(s, r, tx, Owns(p, tx.from), m)
    BY <1>4, <2>1, ProcessInRelationshipEffect DEF Reads
  <2>3. Grows(s, r)
    BY <2>2, ReadGrows
  <2>4. QED
    BY <2>2, <2>3, UpdateGrows
<1>5. QED
  BY <1>1, <1>2, <1>3, <1>4, StepKinds DEF Adds

\* The node's first record of a relationship is past a key.
Past(r, pk) ==
    \A j \in DOMAIN r.members :
        r.members[j].base = pk.base => pk.i < r.members[j].next
PastIn(p, txid, pk) ==
    \E k \in DOMAIN rs[p] :
        First(p, k) /\ rs[p][k].txid = txid /\ Past(rs[p][k], pk)

\* What a node has read is behind it.
ReadOK(p, t) ==
    /\ t \in promoted[p]
    /\ network[t].kind # "initiate"
    /\ network[t].enc = 1 => PastIn(p, network[t].rel, network[t].from)

ReadInv ==
    /\ \A p \in Node : \A k \in DOMAIN rs[p] : Even(rs[p][k])
    /\ \A p \in Node : \A e \in inbox[p] : ReadOK(p, e.t)

\* What is behind stays behind.
LEMMA PastStays ==
    ASSUME Inv, Inv', Moves, ViewsGrow, NEW p \in Node, NEW txid \in DOMAIN network,
           network[txid].enc = 1, NEW pk \in PublicKey, PastIn(p, txid, pk)
    PROVE  PastIn(p, txid, pk)'
<1>1. PICK k \in DOMAIN rs[p] :
          First(p, k) /\ rs[p][k].txid = txid /\ Past(rs[p][k], pk)
  BY DEF PastIn
<1>2. PICK r \in Relationship : r = rs[p][k] /\ r.enc = 1
  BY <1>1, RecordType DEF RecordOK
<1>3. k \in DOMAIN rs'[p]
  BY DEF ViewsGrow
<1>4. PICK s \in Relationship : s = rs'[p][k]
  <2>1. rs' \in [Node -> Seq(Relationship)]
    BY DEF Inv, TypeOK
  <2>2. rs'[p] \in Seq(Relationship)
    BY <2>1
  <2>3. QED
    BY <1>3, <2>2, LenProperties, ElementOfSeq
<1>5. Grows(s, r)
  BY <1>2, <1>4 DEF ViewsGrow
<1>6. ASSUME NEW j \in DOMAIN s.members, s.members[j].base = pk.base
      PROVE  pk.i < s.members[j].next
  <2>1. j \in DOMAIN r.members /\ r.members[j].base = pk.base
    BY <1>5, <1>6 DEF Grows, Continues
  <2>2. pk.i < r.members[j].next
    BY <1>1, <1>2, <2>1 DEF Past
  <2>3. s.members[j].next >= r.members[j].next
    BY <1>2, <1>5, <2>1 DEF Grows
  <2>4. PICK a \in Nat, b \in Nat, c \in Nat :
            a = pk.i /\ b = r.members[j].next /\ c = s.members[j].next
    BY <2>1, MemberTypes DEF PublicKey
  <2>5. a < b /\ c >= b
    BY <2>2, <2>3, <2>4
  <2>6. a < c
    BY <2>5
  <2>7. QED
    BY <2>4, <2>6
<1>7. Past(s, pk)
  BY <1>6 DEF Past
<1>8. First(p, k)'
  BY <1>1, FirstStays
<1>9. rs'[p][k].txid = txid
  BY <1>1 DEF Moves
<1>10. QED
  BY <1>3, <1>4, <1>7, <1>8, <1>9 DEF PastIn, Past

\* Flags are looked for as txids are: a relationship has one encryption.
LEMMA FlagFindsFirst ==
    ASSUME Inv, NEW p \in Node, NEW txid, NEW k, k = FindForFlag(p, txid), k # 0
    PROVE  /\ k \in DOMAIN rs[p] /\ First(p, k)
           /\ rs[p][k].txid = txid /\ rs[p][k].enc = 1
<1>1. rs[p] \in Seq(Relationship) /\ DOMAIN rs[p] = 1..Len(rs[p])
  BY LenProperties DEF Inv, TypeOK
<1>2. k \in DOMAIN rs[p] /\ rs[p][k].enc = 1 /\ rs[p][k].txid = txid
  BY <1>1, FindForFlagFinds
<1>3. ASSUME NEW j \in DOMAIN rs[p], rs[p][j].txid = txid
      PROVE  k <= j
  <2>1. rs[p][j].enc = 1
    BY <1>2, <1>3, RecordType DEF RecordOK
  <2>2. QED
    BY <1>1, <1>3, <2>1, FindForFlagFinds
<1>4. QED
  BY <1>2, <1>3 DEF First

\* A member of a group reads a transaction only with the view that its author
\* is at the key it is signed with.
LEMMA GroupReader ==
    ASSUME Inv, AuthorInv, ReadInv, NEW p \in Node, NEW t \in DOMAIN network,
           NEW tx, tx = network[t], tx.kind # "initiate", tx.enc = 1,
           Decrypts(p, tx), ~Owns(p, tx.from)
    PROVE  \E k \in DOMAIN rs[p] :
              /\ k = FindForFlag(p, tx.rel) /\ First(p, k) /\ rs[p][k].txid = tx.rel
              /\ \E i \in DOMAIN rs[p][k].members :
                    MemberKey(rs[p][k], rs[p][k].members[i]) = tx.from
              /\ \A j \in DOMAIN rs[p][k].members :
                    rs[p][k].members[j].base = tx.from.base =>
                       MemberKey(rs[p][k], rs[p][k].members[j]) = tx.from
<1>1. PICK k : k = FindForFlag(p, tx.rel) /\ k # 0
  BY DEF Decrypts
<1>2. /\ k \in DOMAIN rs[p] /\ First(p, k)
      /\ rs[p][k].txid = tx.rel /\ rs[p][k].enc = 1
  BY <1>1, FlagFindsFirst
<1>3. PICK r \in Relationship : r = rs[p][k] /\ r.key.node = p
  BY <1>2, RecordType DEF RecordOK
<1>4. tx.from.base # r.key
  <2>1. Owns(tx.from.base.node, tx.from)
    BY DEF AuthorInv, LaterOK
  <2>2. QED
    BY <1>3, <2>1
<1>5. PICK i \in DOMAIN r.members : MemberKey(r, r.members[i]) = tx.from
  BY <1>1, <1>3, <1>4, GroupSender
<1>6. r.members[i].base = tx.from.base
  BY <1>5 DEF MemberKey, Derived
<1>7. ASSUME NEW j \in DOMAIN r.members, r.members[j].base = tx.from.base
      PROVE  MemberKey(r, r.members[j]) = tx.from
  <2>1. r.members[j].next = r.members[i].next
    BY <1>2, <1>3, <1>6, <1>7 DEF ReadInv, Even
  <2>2. QED
    BY <1>5, <1>6, <1>7, <2>1 DEF MemberKey
<1>8. QED
  BY <1>1, <1>2, <1>3, <1>5, <1>7

\* GetRelationshipForTx looks for the flag first.
LEMMA FlaggedForTx ==
    ASSUME NEW p, NEW tx, tx.kind # "initiate", tx.enc = 1, Decrypts(p, tx),
           RelationshipForTx(p, tx) # 0
    PROVE  RelationshipForTx(p, tx) = FindForFlag(p, tx.rel)
<1>1. FindForFlag(p, tx.rel) # 0
  BY DEF Decrypts
<1>2. QED
  BY <1>1 DEF RelationshipForTx

\* The member moves on past the transaction it has read.
LEMMA ReadsPast ==
    ASSUME Inv, AuthorInv, ReadInv, Moves, NEW p \in Node, NEW t \in DOMAIN network,
           NEW tx, tx = network[t], tx.enc = 1, ~Owns(p, tx.from), Reads(p, t)
    PROVE  PastIn(p, tx.rel, tx.from)'
<1>1. /\ tx.kind # "initiate" /\ Decrypts(p, tx)
      /\ RelationshipForTx(p, tx) # 0 /\ ProcessInRelationship(p, t)
  BY DEF Reads
<1>2. PICK k \in DOMAIN rs[p], r \in Relationship, s \in Relationship :
          /\ k = RelationshipForTx(p, tx)
          /\ r = rs[p][k]
          /\ rs' = [rs EXCEPT ![p][k] = s]
          /\ \E m : ReadInto(s, r, tx, Owns(p, tx.from), m)
  BY <1>1, ProcessInRelationshipEffect
<1>3. k = FindForFlag(p, tx.rel)
  BY <1>1, <1>2, FlaggedForTx
<1>4. /\ First(p, k) /\ r.txid = tx.rel
      /\ \A j \in DOMAIN r.members :
            r.members[j].base = tx.from.base => MemberKey(r, r.members[j]) = tx.from
  <2>1. PICK i \in DOMAIN rs[p] :
            /\ i = FindForFlag(p, tx.rel) /\ First(p, i) /\ rs[p][i].txid = tx.rel
            /\ \A j \in DOMAIN rs[p][i].members :
                  rs[p][i].members[j].base = tx.from.base =>
                     MemberKey(rs[p][i], rs[p][i].members[j]) = tx.from
    BY <1>1, GroupReader
  <2>2. QED
    BY <1>2, <1>3, <2>1
<1>5. Continues(s, r)
  BY <1>2 DEF ReadInto
<1>6. ASSUME NEW j \in DOMAIN s.members, s.members[j].base = tx.from.base
      PROVE  tx.from.i < s.members[j].next
  <2>1. j \in DOMAIN r.members /\ r.members[j].base = tx.from.base
    BY <1>5, <1>6 DEF Continues
  <2>2. MemberKey(r, r.members[j]) = tx.from
    BY <1>4, <2>1
  <2>3. PICK n \in Nat : n = r.members[j].next
    BY <2>1, MemberTypes
  <2>4. tx.from.i = n
    BY <2>2, <2>3 DEF MemberKey, Derived
  <2>5. s.members[j].next = n + 1
    BY <1>2, <2>1, <2>2, <2>3 DEF ReadInto, KeysUsed
  <2>6. QED
    BY <2>4, <2>5
<1>7. Past(s, tx.from)
  BY <1>6 DEF Past
<1>8. rs'[p][k] = s /\ k \in DOMAIN rs'[p]
  BY <1>2 DEF Inv, TypeOK
<1>9. First(p, k)'
  BY <1>4, FirstStays
<1>10. s.txid = tx.rel
  BY <1>4, <1>5 DEF Continues
<1>11. QED
  BY <1>7, <1>8, <1>9, <1>10 DEF PastIn, Past

\* A node notes what it reads, unless it wrote it.
LEMMA ReadNotes ==
    ASSUME Inv, NEW p \in Node, NEW t \in DOMAIN network, NEW tx, tx = network[t],
           Reads(p, t), NEW k, k = RelationshipForTx(p, tx), NEW r, r = rs[p][k],
           NEW e, e = [t |-> t, rel |-> r.txid,
                       base |-> r.members[SendingMember(r, tx)].base]
    PROVE  /\ k \in DOMAIN rs[p] /\ k # 0 /\ r \in Relationship
           /\ \E s : rs' = [rs EXCEPT ![p][k] = s] /\ s.txid = r.txid
           /\ Owns(p, tx.from) => UNCHANGED inbox
           /\ ~Owns(p, tx.from) => inbox' = [inbox EXCEPT ![p] = @ \cup {e}]
<1>1. PICK i \in DOMAIN rs[p], x \in Relationship, s \in Relationship :
          \E m : /\ i = k /\ x = r
                 /\ m = SendingMember(r, tx)
                 /\ rs' = [rs EXCEPT ![p][k] = s]
                 /\ inbox' = [inbox EXCEPT ![p] =
                                 IF Owns(p, tx.from) THEN @
                                 ELSE @ \cup {Logged(t, r, m)}]
                 /\ ReadInto(s, r, tx, Owns(p, tx.from), m)
  BY ProcessInRelationshipEffect DEF Reads
<1>2. PICK m : /\ m = SendingMember(r, tx)
               /\ inbox' = [inbox EXCEPT ![p] =
                               IF Owns(p, tx.from) THEN @
                               ELSE @ \cup {Logged(t, r, m)}]
               /\ ReadInto(s, r, tx, Owns(p, tx.from), m)
  BY <1>1
<1>3. s.txid = r.txid
  BY <1>2 DEF ReadInto, Continues
<1>4. e = Logged(t, r, m)
  BY <1>2 DEF Logged
<1>5. Owns(p, tx.from) => UNCHANGED inbox
  BY <1>2 DEF Inv, TypeOK
<1>6. ~Owns(p, tx.from) => inbox' = [inbox EXCEPT ![p] = @ \cup {e}]
  BY <1>2, <1>4
<1>7. k # 0
  BY DEF Reads
<1>8. QED
  BY <1>1, <1>3, <1>5, <1>6, <1>7

\* What is in the log has been read in some step.
LEMMA InboxStep ==
    ASSUME Inv, AuthorInv, CommandsHold, [Next]_vars,
           NEW q \in Node, NEW e \in inbox'[q]
    PROVE  \/ e \in inbox[q]
           \/ \E t \in DOMAIN network :
                 Reads(q, t) /\ e.t = t /\ ~Owns(q, network[t].from)
<1>1. CASE UNCHANGED inbox
  BY <1>1
<1>2. ASSUME NEW p \in Node, NEW t \in DOMAIN network, Reads(p, t)
      PROVE  \/ e \in inbox[q]
             \/ Reads(q, t) /\ e.t = t /\ ~Owns(q, network[t].from)
  <2> DEFINE tx == network[t]
             r == rs[p][RelationshipForTx(p, tx)]
  <2>1. PICK x : x = [t |-> t, rel |-> r.txid,
                      base |-> r.members[SendingMember(r, tx)].base]
    OBVIOUS
  <2> HIDE DEF r
  <2>2. /\ Owns(p, tx.from) => UNCHANGED inbox
        /\ ~Owns(p, tx.from) => inbox' = [inbox EXCEPT ![p] = @ \cup {x}]
    BY <1>2, <2>1, ReadNotes DEF r
  <2>3. CASE Owns(p, tx.from)
    BY <2>2, <2>3
  <2>4. CASE ~Owns(p, tx.from)
    <3>1. e \in inbox[q] \/ (q = p /\ e = x)
      BY <2>2, <2>4 DEF Inv, TypeOK
    <3>2. x.t = t
      BY <2>1
    <3>3. QED
      BY <1>2, <2>4, <3>1, <3>2
  <2>5. QED
    BY <2>3, <2>4
<1>3. QED
  BY <1>1, <1>2, StepKinds DEF Adds, Starts, GoesOn

\* Whatever the order in which transactions come, a node's view of a group is
\* past what the node has read.
LEMMA NextRead ==
    Inv /\ Inv' /\ AuthorInv /\ CommandsHold /\ ReadInv /\ [Next]_vars => ReadInv'
<1> SUFFICES ASSUME Inv, Inv', AuthorInv, CommandsHold, ReadInv, [Next]_vars
             PROVE  ReadInv'
  OBVIOUS
<1>1. Moves /\ ViewsGrow /\ \A q \in Node : promoted[q] \subseteq promoted'[q]
  BY NextMoves, NextGrows, PromotedStays
<1>2. NetworkExtends
  <2>1. ASSUME NEW tx \in Tx, Adds(tx) PROVE NetworkExtends
    BY <2>1, NetworkAppended DEF Adds
  <2>2. CASE UNCHANGED network
    BY <2>2, NetworkKept
  <2>3. QED
    BY <2>1, <2>2, StepKinds DEF Starts, GoesOn, Reads
<1>3. ASSUME NEW q \in Node, NEW k \in DOMAIN rs'[q] PROVE Even(rs'[q][k])
  BY <1>1 DEF ViewsGrow, Grows, ReadInv
<1>4. ASSUME NEW q \in Node, NEW t \in DOMAIN network, ReadOK(q, t)
      PROVE  ReadOK(q, t)'
  <2>1. PICK tx \in Tx : tx = network[t] /\ tx = network'[t]
    BY <1>2, TxType DEF NetworkExtends
  <2>2. t \in promoted'[q] /\ tx.kind # "initiate"
    BY <1>1, <1>4, <2>1 DEF ReadOK
  <2>3. ASSUME tx.enc = 1 PROVE PastIn(q, tx.rel, tx.from)'
    <3>1. PICK rel \in DOMAIN network : rel = tx.rel /\ network[rel].enc = 1
      BY <2>1, <2>3, NamesInitiate
    <3>2. PICK pk \in PublicKey : pk = tx.from
      BY DEF Tx
    <3>3. PastIn(q, rel, pk)
      BY <1>4, <2>1, <2>3, <3>1, <3>2 DEF ReadOK
    <3>4. PastIn(q, rel, pk)'
      BY <1>1, <3>1, <3>3, PastStays
    <3>5. QED
      BY <3>1, <3>2, <3>4 DEF PastIn
  <2>4. QED
    BY <2>1, <2>2, <2>3 DEF ReadOK, PastIn
<1>5. ASSUME NEW q \in Node, NEW t \in DOMAIN network, Reads(q, t),
             ~Owns(q, network[t].from)
      PROVE  ReadOK(q, t)'
  <2>1. PICK tx : tx = network[t] /\ tx = network'[t]
    BY <1>2 DEF NetworkExtends
  <2>2. t \in promoted'[q] /\ tx.kind # "initiate"
    BY <1>5, <2>1 DEF Reads
  <2>3. tx.enc = 1 => PastIn(q, tx.rel, tx.from)'
    BY <1>1, <1>5, <2>1, ReadsPast
  <2>4. QED
    BY <2>1, <2>2, <2>3 DEF ReadOK, PastIn
<1>6. ASSUME NEW q \in Node, NEW e \in inbox'[q] PROVE ReadOK(q, e.t)'
  <2>1. CASE e \in inbox[q]
    <3>1. PICK t : t = e.t /\ ReadOK(q, t)
      BY <2>1 DEF ReadInv
    <3>2. t \in DOMAIN network
      BY <3>1 DEF ReadOK, Inv, TypeOK
    <3>3. ReadOK(q, t)'
      BY <1>4, <3>1, <3>2
    <3>4. QED
      BY <3>1, <3>3 DEF ReadOK
  <2>2. CASE \E t \in DOMAIN network :
                Reads(q, t) /\ e.t = t /\ ~Owns(q, network[t].from)
    <3>1. PICK t \in DOMAIN network : ReadOK(q, t)' /\ t = e.t
      BY <1>5, <2>2
    <3>2. QED
      BY <3>1 DEF ReadOK
  <2>3. QED
    BY <2>1, <2>2, InboxStep
<1>7. QED
  BY <1>3, <1>6 DEF ReadInv

-----------------------------------------------------------------------------
(* The relationships implement the channels.                               *)

\* A sequence of the first n elements of a sequence.
Begins(a, S, n, f) == a \in Seq(S) /\ Len(a) = n /\ \A i \in 1..n : a[i] = f[i]

\* That is what SubSeq makes.
LEMMA FirstElements ==
    ASSUME NEW S, NEW n \in Nat, NEW f, \A i \in 1..n : f[i] \in S
    PROVE  Begins(SubSeq(f, 1, n), S, n, f)
<1>1. /\ SubSeq(f, 1, n) \in Seq(S)
      /\ Len(SubSeq(f, 1, n)) = IF 1 <= n THEN n - 1 + 1 ELSE 0
      /\ \A i \in 1..n-1+1 : SubSeq(f, 1, n)[i] = f[1 + i - 1]
  BY SubSeqProperties
<1>2. n - 1 + 1 = n /\ \A i \in 1..n : 1 + i - 1 = i
  OBVIOUS
<1>3. Len(SubSeq(f, 1, n)) = n
  BY <1>1
<1>4. QED
  BY <1>1, <1>2, <1>3 DEF Begins

\* Two sequences that begin alike.
LEMMA SameBeginning ==
    ASSUME NEW S, NEW n \in Nat, NEW f, NEW g,
           \A i \in 1..n : f[i] \in S, \A i \in 1..n : g[i] = f[i]
    PROVE  SubSeq(f, 1, n) = SubSeq(g, 1, n)
<1>1. PICK x, y : x = SubSeq(f, 1, n) /\ y = SubSeq(g, 1, n)
  OBVIOUS
<1>2. \A i \in 1..n : g[i] \in S
  OBVIOUS
<1>3. Begins(x, S, n, f) /\ Begins(y, S, n, g)
  BY <1>1, <1>2, FirstElements
<1>4. /\ x \in Seq(S) /\ y \in Seq(S) /\ Len(x) = Len(y) /\ Len(x) = n
      /\ \A i \in 1..n : x[i] = y[i]
  BY <1>3 DEF Begins
<1>5. x = y
  BY <1>4, SeqEqual
<1>6. QED
  BY <1>1, <1>5

\* A sequence and one that has one more element.
LEMMA OneMore ==
    ASSUME NEW S, NEW n \in Nat, NEW f \in Seq(S), NEW g \in Seq(S),
           Len(f) = n, Len(g) = n + 1, \A i \in 1..n : g[i] = f[i]
    PROVE  Promise!IsPrefix(f, g) /\ Promise!Last(g) = g[n+1]
<1>1. \A i \in 1..n : f[i] \in S
  BY ElementOfSeq
<1>2. SubSeq(f, 1, n) = SubSeq(g, 1, n)
  BY <1>1, SameBeginning
<1>3. Promise!IsPrefix(f, g)
  BY <1>2 DEF Promise!IsPrefix
<1>4. Promise!Last(g) = g[n+1]
  BY DEF Promise!Last
<1>5. QED
  BY <1>3, <1>4

\* What is posted, by transaction.
PostOf(t) ==
    [channel |-> network[t].rel, author |-> network[t].from.base,
     ordered |-> network[t].enc = 1, parties |-> Parties(t)]

\* The parties are those whose keys the initiate names.
LEMMA PartiesHold ==
    ASSUME NEW t, NEW b \in Bases(network[t].rel)
    PROVE  b.node \in Parties(t)
<1>1. PICK u : u = network[t].rel
  OBVIOUS
<1>2. CASE b = network[u].from.base
  BY <1>1, <1>2 DEF Parties
<1>3. CASE \E i \in DOMAIN network[u].to : b = network[u].to[i].base
  BY <1>1, <1>3 DEF Parties
<1>4. QED
  BY <1>1, <1>2, <1>3 DEF Bases

\* An initiate opens a channel for those whose keys it names.
LEMMA Opening ==
    ASSUME Inv, NEW t \in DOMAIN network, network[t].kind = "initiate"
    PROVE  /\ Promise!IsOpening(t) /\ network[t].rel = t
           /\ \A b \in Bases(t) : b.node \in Posts[t].parties
<1>1. network[t].rel = t
  BY DEF Inv, Structure, TxsOK
<1>2. t \in DOMAIN Posts /\ Posts[t].channel = t /\ Posts[t].parties = Parties(t)
  BY <1>1 DEF Posts
<1>3. \A b \in Bases(t) : b.node \in Parties(t)
  BY <1>1, PartiesHold
<1>4. QED
  BY <1>1, <1>2, <1>3 DEF Promise!IsOpening

\* What was posted stays, when a transaction is added to it.
LEMMA PostsGrow ==
    ASSUME Inv, NEW tx \in Tx, network' = Append(network, tx),
           NEW n \in Nat, n = Len(network)
    PROVE  /\ Len(Posts') = n + 1 /\ Len(Posts) = n
           /\ Promise!IsPrefix(Posts, Posts')
           /\ Promise!Last(Posts') = PostOf(n + 1)'
<1>1. /\ DOMAIN network = 1..n /\ DOMAIN network' = 1..n + 1
      /\ \A t \in 1..n : network'[t] = network[t]
  BY NetworkAppended DEF NetworkExtends
<1>2. ASSUME NEW t \in 1..n PROVE PostOf(t)' = PostOf(t)
  <2>1. PICK u \in 1..n : u = network[t].rel
    BY <1>1, NamesInitiate
  <2>2. network'[t] = network[t] /\ network'[u] = network[u]
    BY <1>1
  <2>3. Parties(t)' = Parties(t)
    BY <2>1, <2>2 DEF Parties
  <2>4. QED
    BY <2>2, <2>3 DEF PostOf
<1>3. PICK f, g : f = Posts /\ g = Posts'
  OBVIOUS
<1>4. f = [t \in 1..n |-> PostOf(t)] /\ g = [t \in 1..n+1 |-> PostOf(t)']
  BY <1>1, <1>3 DEF Posts, PostOf
<1>5. PICK S : S = {g[t] : t \in 1..n+1}
  OBVIOUS
<1>6. \A t \in 1..n : g[t] = f[t]
  BY <1>2, <1>4
<1>7. /\ f \in Seq(S) /\ Len(f) = n
      /\ g \in Seq(S) /\ Len(g) = n + 1
  <2>1. \A t \in 1..n+1 : g[t] \in S
    BY <1>5
  <2>2. \A t \in 1..n : f[t] \in S
    BY <1>6, <2>1
  <2>3. f = [t \in 1..n |-> f[t]] /\ g = [t \in 1..n+1 |-> g[t]]
    BY <1>4
  <2>4. f \in [1..n -> S] /\ g \in [1..n+1 -> S]
    BY <2>1, <2>2, <2>3
  <2>5. QED
    BY <2>4
<1>8. Promise!IsPrefix(f, g) /\ Promise!Last(g) = g[n+1]
  BY <1>6, <1>7, OneMore
<1>9. g[n+1] = PostOf(n+1)'
  BY <1>4
<1>10. QED
  BY <1>3, <1>7, <1>8, <1>9

\* As long as nothing is broadcast, the posts are the same.
LEMMA PostsKept ==
    ASSUME UNCHANGED network
    PROVE  UNCHANGED Posts
BY DEF Posts, Parties

\* A record in the place of another is of the same relationship.
LEMMA JoinedKept ==
    ASSUME Inv, NEW p \in Node, NEW k \in DOMAIN rs[p], NEW s,
           rs' = [rs EXCEPT ![p][k] = s], s.txid = rs[p][k].txid
    PROVE  UNCHANGED Joined
<1>1. /\ \A q \in Node : DOMAIN rs'[q] = DOMAIN rs[q]
      /\ \A q \in Node : \A j \in DOMAIN rs[q] :
            rs'[q][j] = IF q = p /\ j = k THEN s ELSE rs[q][j]
  BY DEF Inv, TypeOK
<1>2. \A q \in Node : \A j \in DOMAIN rs[q] : rs'[q][j].txid = rs[q][j].txid
  BY <1>1
<1>3. ASSUME NEW q \in Node
      PROVE  {rs'[q][j].txid : j \in DOMAIN rs'[q]} = {rs[q][j].txid : j \in DOMAIN rs[q]}
  BY <1>1, <1>2
<1>4. QED
  BY <1>3 DEF Joined

\* A broadcast posts: an initiate opens a channel, and what follows is posted on
\* one that its author has joined.
LEMMA Posting ==
    ASSUME Inv, AuthorInv, NEW tx \in Tx, Adds(tx)
    PROVE  Promise!Post
<1>1. PICK n \in Nat : n = Len(network) /\ DOMAIN network = 1..n
  BY LenProperties DEF Inv, TypeOK
<1>2. /\ network' = Append(network, tx) /\ Signed(tx)
      /\ UNCHANGED rs /\ UNCHANGED inbox
  BY DEF Adds
<1>3. PICK x : x = PostOf(n + 1)'
  OBVIOUS
<1>4. /\ Len(Posts') = n + 1 /\ Len(Posts) = n
      /\ Promise!IsPrefix(Posts, Posts') /\ Promise!Last(Posts') = x
  BY <1>1, <1>2, <1>3, PostsGrow
<1>5. UNCHANGED <<Joined, inbox>>
  BY <1>2 DEF Joined
<1>6. network'[n+1] = tx
  BY <1>1, <1>2, NetworkAppended
<1>7. x.channel = tx.rel /\ x.author = tx.from.base /\ x.parties = Parties(n+1)'
  BY <1>3, <1>6 DEF PostOf
<1>8. CASE tx.kind = "initiate"
  <2>1. x.channel = n + 1
    BY <1>1, <1>2, <1>7, <1>8 DEF Signed
  <2>2. network'[network'[n+1].rel] = tx
    BY <1>6, <1>7, <2>1
  <2>3. tx.from.base.node \in Parties(n+1)'
    BY <2>2 DEF Parties
  <2>4. x.author.node \in x.parties
    BY <1>7, <2>3
  <2>5. QED
    BY <1>4, <1>5, <2>1, <2>4 DEF Promise!Post
<1>9. CASE tx.kind # "initiate"
  <2>1. PICK q \in Node : q = tx.from.base.node
    BY <1>2, <1>9, SignedNext
  <2>2. PICK k \in DOMAIN rs[q] : rs[q][k].txid = tx.rel /\ rs[q][k].key = tx.from.base
    BY <1>2, <1>9, <2>1, SignedNext
  <2>3. PICK u \in DOMAIN network : u = tx.rel /\ network[u].kind = "initiate"
    BY <2>2, RecordType DEF RecordOK
  <2>4. tx.from.base \in Bases(u)
    BY <2>2, <2>3 DEF AuthorInv, RecordBases
  <2>5. Promise!IsOpening(u) /\ q \in Posts[u].parties
    BY <2>1, <2>3, <2>4, Opening
  <2>6. u \in Joined[q]
    BY <2>2, <2>3 DEF Joined
  <2>7. x.channel = u /\ x.author.node = q
    BY <1>7, <2>1, <2>3
  <2>8. QED
    BY <1>4, <1>5, <2>5, <2>6, <2>7 DEF Promise!Post
<1>10. QED
  BY <1>8, <1>9

\* A record of a relationship that a node had none of, or has once more, joins it.
LEMMA Joining ==
    ASSUME Inv, NEW p \in Node, NEW t \in DOMAIN network, Starts(p, t)
    PROVE  Promise!Join(p, t)
<1>1. UNCHANGED network /\ UNCHANGED inbox /\ network[t].kind = "initiate"
  BY DEF Starts
<1>2. PICK b \in Bases(t) : b.node = p
  BY DEF Starts
<1>3. Promise!IsOpening(t) /\ p \in Posts[t].parties
  BY <1>1, <1>2, Opening
<1>4. PICK s : rs' = [rs EXCEPT ![p] = Append(rs[p], s)] /\ s.txid = t
  BY DEF Starts
<1>5. /\ DOMAIN rs'[p] = DOMAIN rs[p] \cup {Len(rs[p]) + 1}
      /\ rs'[p][Len(rs[p]) + 1] = s
      /\ \A q \in Node \ {p} : rs'[q] = rs[q]
      /\ \A q \in Node : \A k \in DOMAIN rs[q] : rs'[q][k] = rs[q][k]
  BY <1>4, AppendedRecords
<1>6. {rs'[p][k].txid : k \in DOMAIN rs'[p]} = {rs[p][k].txid : k \in DOMAIN rs[p]} \cup {t}
  <2>1. PICK n : n = Len(rs[p]) + 1
    OBVIOUS
  <2>2. DOMAIN rs'[p] = DOMAIN rs[p] \cup {n} /\ rs'[p][n].txid = t
    BY <1>4, <1>5, <2>1
  <2>3. \A k \in DOMAIN rs[p] : rs'[p][k].txid = rs[p][k].txid
    BY <1>5
  <2>4. QED
    BY <2>2, <2>3
<1>7. Joined' = [Joined EXCEPT ![p] = @ \cup {t}]
  <2>1. Joined'[p] = Joined[p] \cup {t}
    BY <1>6 DEF Joined
  <2>2. \A q \in Node \ {p} : Joined'[q] = Joined[q]
    BY <1>5 DEF Joined
  <2>3. /\ Joined = [q \in Node |-> Joined[q]]
        /\ Joined' = [q \in Node |-> Joined'[q]]
    BY DEF Joined
  <2>4. QED
    BY <2>1, <2>2, <2>3
<1>8. UNCHANGED <<Posts, inbox>>
  BY <1>1, PostsKept
<1>9. QED
  BY <1>3, <1>7, <1>8 DEF Promise!Join

\* In a group, nothing that an author broadcast later has been read before.
LEMMA NoneLater ==
    ASSUME Inv, AuthorInv, SendInv, ReadInv, NEW p \in Node, NEW t \in DOMAIN network,
           NEW tx, tx = network[t], tx.kind # "initiate", tx.enc = 1,
           Decrypts(p, tx), ~Owns(p, tx.from),
           NEW e \in inbox[p], NEW v, v = e.t, v > t, NEW y, y = network[v],
           y.rel = tx.rel, y.from.base = tx.from.base
    PROVE  FALSE
<1>1. ReadOK(p, v)
  BY DEF ReadInv
<1>2. v \in DOMAIN network /\ y.kind # "initiate"
  BY <1>1 DEF ReadOK, Inv, TypeOK
<1>3. y.enc = 1
  <2>1. network[tx.rel].enc = 1
    BY NamesInitiate
  <2>2. network[y.rel].enc = y.enc
    BY <1>2, NamesInitiate
  <2>3. QED
    BY <2>1, <2>2
<1>4. PICK j \in DOMAIN rs[p] :
          First(p, j) /\ rs[p][j].txid = tx.rel /\ Past(rs[p][j], y.from)
  BY <1>1, <1>3 DEF ReadOK, PastIn
<1>5. PICK k \in DOMAIN rs[p] :
          /\ First(p, k) /\ rs[p][k].txid = tx.rel
          /\ \E i \in DOMAIN rs[p][k].members :
                MemberKey(rs[p][k], rs[p][k].members[i]) = tx.from
  BY GroupReader
<1>6. PICK r \in Relationship : r = rs[p][k] /\ Past(r, y.from)
  <2>1. j = k
    BY <1>4, <1>5, OneFirst
  <2>2. QED
    BY <1>4, <2>1, RecordType
<1>7. PICK i \in DOMAIN r.members : MemberKey(r, r.members[i]) = tx.from
  BY <1>5, <1>6
<1>8. PICK a \in Nat, b \in Nat : a = tx.from.i /\ b = y.from.i
  BY <1>2, TxType DEF Tx, PublicKey
<1>9. b < a
  <2>1. r.members[i].base = tx.from.base /\ r.members[i].next = a
    BY <1>7, <1>8 DEF MemberKey, Derived
  <2>2. QED
    BY <1>6, <1>8, <2>1 DEF Past
<1>10. a <= b
  <2>1. SameAuthor(tx, y)
    BY <1>2 DEF SameAuthor
  <2>2. t < v
    BY <1>2, TxType
  <2>3. QED
    BY <1>2, <1>8, <2>1, <2>2 DEF SendInv, SentInOrder
<1>11. QED
  BY <1>8, <1>9, <1>10

\* What a node reads, and has not written itself, it reads from its author, once,
\* and in a group in the author's order.
LEMMA Reading ==
    ASSUME Inv, AuthorInv, SendInv, ReadInv, ~ReuseAddresses, NEW p \in Node,
           NEW t \in DOMAIN network, Reads(p, t), ~Owns(p, network[t].from)
    PROVE  Promise!Read(p, t)
<1>1. PICK tx \in Tx : tx = network[t]
  BY TxType
<1>2. PICK k : k = RelationshipForTx(p, tx)
  OBVIOUS
<1>3. PICK r : r = rs[p][k]
  OBVIOUS
<1>4. PICK e : e = [t |-> t, rel |-> r.txid,
                    base |-> r.members[SendingMember(r, tx)].base]
  OBVIOUS
<1>5. /\ k \in DOMAIN rs[p] /\ k # 0 /\ r \in Relationship
      /\ \E s : rs' = [rs EXCEPT ![p][k] = s] /\ s.txid = r.txid
      /\ inbox' = [inbox EXCEPT ![p] = @ \cup {e}]
  BY <1>1, <1>2, <1>3, <1>4, ReadNotes
<1>6. /\ UNCHANGED network /\ tx.kind # "initiate" /\ Decrypts(p, tx)
      /\ t \notin promoted[p] /\ ~Owns(p, tx.from)
  BY <1>1 DEF Reads
<1>7. r.txid = tx.rel
  BY <1>1, <1>2, <1>3, <1>5, <1>6, FoundRelationship
<1>8. r.members[SendingMember(r, tx)].base = tx.from.base
  BY <1>1, <1>2, <1>3, <1>5, <1>6, FoundMember
<1>9. /\ Posts[t].channel = tx.rel /\ Posts[t].author = tx.from.base
      /\ Posts[t].ordered => tx.enc = 1
  BY <1>1 DEF Posts
<1>10. PICK u \in DOMAIN network : u = tx.rel /\ network[u].kind = "initiate"
  BY <1>1, NamesInitiate
<1>11. p \in Promise!PartiesOf(t) \ {Posts[t].author.node}
  <2>1. r.key \in Bases(u) /\ r.key.node = p
    BY <1>3, <1>5, <1>7, <1>10, RecordType DEF RecordOK, AuthorInv, RecordBases
  <2>2. p \in Posts[u].parties
    BY <1>10, <2>1, Opening
  <2>3. p # tx.from.base.node
    BY <1>1, <1>6 DEF AuthorInv, LaterOK
  <2>4. QED
    BY <1>9, <1>10, <2>2, <2>3 DEF Promise!PartiesOf
<1>12. Posts[t].channel \in Joined[p]
  BY <1>3, <1>5, <1>7, <1>9 DEF Joined
<1>13. \A x \in inbox[p] : x.t # t
  BY <1>6 DEF ReadInv, ReadOK
<1>14. Posts[t].ordered => Promise!Later(p, t) = {}
  <2>1. ASSUME tx.enc = 1, NEW x \in inbox[p], x.t > t,
               Posts[x.t].channel = tx.rel, Posts[x.t].author = tx.from.base
        PROVE  FALSE
    <3>1. PICK v \in DOMAIN network : v = x.t
      BY DEF ReadInv, ReadOK, Inv, TypeOK
    <3>2. network[v].rel = tx.rel /\ network[v].from.base = tx.from.base
      BY <2>1, <3>1 DEF Posts
    <3>3. QED
      BY <1>1, <1>6, <2>1, <3>1, <3>2, NoneLater
  <2>2. QED
    BY <1>9, <2>1 DEF Promise!Later
<1>15. inbox' = [inbox EXCEPT ![p] = @ \cup
                    {[t |-> t, rel |-> Posts[t].channel, base |-> Posts[t].author]}]
  BY <1>4, <1>5, <1>7, <1>8, <1>9
<1>16. UNCHANGED <<Posts, Joined>>
  BY <1>3, <1>5, <1>6, PostsKept, JoinedKept
<1>17. QED
  BY <1>11, <1>12, <1>13, <1>14, <1>15, <1>16 DEF Promise!Read

\* Every step posts, joins, reads, or changes nothing a user can see.
LEMMA NextChannel ==
    ~ReuseAddresses /\ Inv /\ AuthorInv /\ SendInv /\ ReadInv /\ [Next]_vars
    => [Promise!Next]_(Promise!vars)
<1> SUFFICES ASSUME ~ReuseAddresses, Inv, AuthorInv, SendInv, ReadInv, [Next]_vars
             PROVE  Promise!Next \/ UNCHANGED <<Posts, Joined, inbox>>
  BY DEF Promise!vars
<1>1. CASE UNCHANGED network /\ UNCHANGED rs /\ UNCHANGED inbox
  BY <1>1, PostsKept DEF Joined
<1>2. ASSUME NEW tx \in Tx, Adds(tx) PROVE Promise!Next
  BY <1>2, Posting DEF Promise!Next
<1>3. ASSUME NEW p \in Node, NEW t \in DOMAIN network, Starts(p, t)
      PROVE  Promise!Next
  <2>1. t \in DOMAIN Posts
    BY DEF Posts
  <2>2. QED
    BY <1>3, <2>1, Joining DEF Promise!Next
<1>4. ASSUME NEW p \in Node, GoesOn(p) PROVE UNCHANGED <<Posts, Joined, inbox>>
  <2>1. PICK k \in DOMAIN rs[p] : \E s :
            rs' = [rs EXCEPT ![p][k] = s] /\ s.txid = rs[p][k].txid
    BY <1>4 DEF GoesOn, Grows, Continues
  <2>2. QED
    BY <1>4, <2>1, PostsKept, JoinedKept DEF GoesOn
<1>5. ASSUME NEW p \in Node, NEW t \in DOMAIN network, Reads(p, t),
             ~Owns(p, network[t].from)
      PROVE  Promise!Next
  <2>1. t \in DOMAIN Posts
    BY DEF Posts
  <2>2. QED
    BY <1>5, <2>1, Reading DEF Promise!Next
<1>6. ASSUME NEW p \in Node, NEW t \in DOMAIN network, Reads(p, t),
             Owns(p, network[t].from)
      PROVE  UNCHANGED <<Posts, Joined, inbox>>
  <2>1. PICK k : k = RelationshipForTx(p, network[t])
    OBVIOUS
  <2>2. PICK r : r = rs[p][k]
    OBVIOUS
  <2>3. PICK e : e = [t |-> t, rel |-> r.txid,
                      base |-> r.members[SendingMember(r, network[t])].base]
    OBVIOUS
  <2>4. /\ k \in DOMAIN rs[p] /\ UNCHANGED inbox
        /\ \E s : rs' = [rs EXCEPT ![p][k] = s] /\ s.txid = r.txid
    BY <1>6, <2>1, <2>2, <2>3, ReadNotes
  <2>5. QED
    BY <1>6, <2>2, <2>4, PostsKept, JoinedKept DEF Reads
<1>7. CommandsHold
  BY DEF SendInv
<1>8. QED
  BY <1>1, <1>2, <1>3, <1>4, <1>5, <1>6, <1>7, StepKinds

\* As long as no RelateIn key is invited twice, the relationships keep what
\* Channel promises, whatever fails, however many clients a daemon serves, and in
\* whatever order transactions and commands come: a node reads each transaction
\* at most once, under its author's name, in the relationship it was sent in and
\* that the node has joined, and in a group (DecryptAction, FindHash,
\* GetRelationshipForTx) never one of an author after a later one of the same.
THEOREM ChannelSpecHolds == ASSUME ~ReuseAddresses PROVE Spec => ChannelSpec
<1>1. Init => SendInv /\ ReadInv
  <2> SUFFICES ASSUME Init PROVE SendInv /\ ReadInv
    OBVIOUS
  <2>1. /\ DOMAIN network = {} /\ \A p \in Node : DOMAIN rs[p] = {}
        /\ \A p \in Node : inbox[p] = {}
    BY EmptySeq DEF Init
  <2>2. \A p \in Node : \A c \in Conn : cmd[p][c].pc = "idle"
    BY DEF Init, NoCommand
  <2>3. CommandsHold
    BY <2>2 DEF CommandsHold, Holds
  <2>4. QED
    BY <2>1, <2>3 DEF SendInv, SentInOrder, ReadInv
<1>2. Init => Promise!Init
  <2> SUFFICES ASSUME Init PROVE Promise!Init
    OBVIOUS
  <2>1. /\ DOMAIN network = {} /\ \A p \in Node : DOMAIN rs[p] = {}
        /\ inbox = [p \in Node |-> {}]
    BY EmptySeq DEF Init
  <2>2. Posts = <<>>
    BY <2>1 DEF Posts
  <2>3. \A p \in Node : {rs[p][k].txid : k \in DOMAIN rs[p]} = {}
    BY <2>1
  <2>4. Joined = [p \in Node |-> {}]
    BY <2>3 DEF Joined
  <2>5. QED
    BY <2>1, <2>2, <2>4 DEF Promise!Init
<1>3. Inv /\ Inv' /\ AuthorInv /\ SendInv /\ ReadInv /\ [Next]_vars
      => SendInv' /\ ReadInv'
  BY NextSend, NextRead DEF SendInv
<1>4. Inv /\ AuthorInv /\ SendInv /\ ReadInv /\ [Next]_vars
      => [Promise!Next]_(Promise!vars)
  BY NextChannel
<1>5. QED
  BY <1>1, <1>2, <1>3, <1>4, AuthorInvHolds, PTL
  DEF Spec, ChannelSpec, Promise!Spec

=============================================================================
