--------------------------- MODULE Relationships ---------------------------
(***************************************************************************)
(* The relationship manager of every daemon (internal/relationships), with *)
(* the client commands that call it (internal/node/command.go) and the     *)
(* listener callbacks that feed it transactions (internal/node/listener.go *)
(* and node.go).                                                           *)
(*                                                                         *)
(* A relationship is named by the txid of its initiation, and a txid is    *)
(* the position of the transaction in "network", the transactions ever     *)
(* broadcast.  The seed, the flag and the base encryption key of a         *)
(* relationship are drawn once, for that transaction, so the same number   *)
(* names them.  NextHash, NextIndex and NextKey always move together in    *)
(* IncrementHash: one counter, "next", stands for the three.               *)
(***************************************************************************)
EXTENDS Naturals, Sequences, FiniteSets, SequencesExt

CONSTANTS
    Node,            \* the daemons
    Conn,            \* the client connections each daemon serves
    Invites,         \* per node, the receiver lists its user may initiate with
    Window,          \* how far past the next index FindKey looks (10)
    MaxTx,           \* bound: transactions ever broadcast
    MaxOut,          \* bound: RelateOut keys a node has available
    Failures,        \* when broadcasting may fail: "before", "after" (SaveTX)
    ReuseAddresses,  \* may one RelateIn key be invited twice?
    Serialised,      \* do listener callbacks wait for running commands?
    InOrder          \* is every node shown the transactions in one order?

BaseKey == [node : Node, type : {"out", "in"}, index : Nat]

ASSUME WindowAssumption == Window \in Nat \ {0}
ASSUME BoundsAssumption == MaxTx \in Nat /\ MaxOut \in Nat
ASSUME FailuresAssumption == Failures \subseteq {"before", "after"}
ASSUME EnvironmentAssumption ==
    /\ ReuseAddresses \in BOOLEAN
    /\ Serialised \in BOOLEAN
    /\ InOrder \in BOOLEAN

\* A receiver list names RelateIn keys of distinct other daemons.
ASSUME InvitesAssumption ==
    \A p \in Node : \A recv \in Invites[p] :
        /\ recv \in Seq(BaseKey)
        /\ recv # <<>>
        /\ \A i \in DOMAIN recv : recv[i].type = "in" /\ recv[i].node # p
        /\ \A i, j \in DOMAIN recv : recv[i].node = recv[j].node => i = j

VARIABLES
    network,   \* the transactions broadcast so far, by txid
    rs,        \* Relationships.Relationships of every node
    indep,     \* the derived keys given to Wallet.AddIndependentKey
    out,       \* how many RelateOut keys GetUnusedKey has handed out
    txs,       \* the txids HandleTx has taken (Wallet.transactions)
    promoted,  \* the txids ProcessTx has processed (Itx.IsPromoted)
    cmd,       \* what every client connection is in the middle of
    inbox      \* messages and accepts the node has read, as it logs them

vars == <<network, rs, indep, out, txs, promoted, cmd, inbox>>

-----------------------------------------------------------------------------
(* Keys and records.                                                       *)

\* bitcoin.NextPublicKey(base, hash): the i-th key derived with a seed.
Derived(base, seed, i) == [base |-> base, seed |-> seed, i |-> i]
BasePK(base) == Derived(base, 0, 0)

NextKey(r) == Derived(r.key, r.txid, r.next)

\* Fault: a member is paid at its base key.
MemberKeyBase(r, m) == BasePK(m.base)

MemberKey(r, m) == Derived(m.base, r.txid, m.next)

NewMember(pk) == [base |-> pk.base, next |-> 1, accepted |-> FALSE]
NewMembers(pks) == [i \in 1..Len(pks) |-> NewMember(pks[i])]

\* Wallet.FindAddress: base keys are in the wallet's own lists, derived keys
\* are found once AddIndependentKey has registered them.
Owns(p, pk) == pk.base.node = p /\ (pk.i = 0 \/ pk \in indep[p])

\* The first receiver key that is ours, 0 if none is, and the key that makes
\* a tx ours: the sender's or else that receiver's.
OwnReceiver(p, tx) == SelectInSeq(tx.to, LAMBDA pk : Owns(p, pk))
IsOurs(p, tx) == Owns(p, tx.from) \/ OwnReceiver(p, tx) # 0
OurKey(p, tx) ==
    IF Owns(p, tx.from) THEN tx.from ELSE tx.to[OwnReceiver(p, tx)]

\* The first relationship with a txid (FindRelationshipForTxId) ...
FindForTxId(p, txid) == SelectInSeq(rs[p], LAMBDA r : r.txid = txid)
\* ... with a flag; only relationships with indirect encryption have one ...
FindForFlag(p, txid) ==
    SelectInSeq(rs[p], LAMBDA r : r.enc = 1 /\ r.txid = txid)
\* ... and with a key of ours (GetRelationship).
GetRelationship(p, base) == SelectInSeq(rs[p], LAMBDA r : r.key = base)

-----------------------------------------------------------------------------
(* Client commands.                                                        *)

NoCommand ==
    [pc |-> "idle", kind |-> "none", k |-> 0, hash |-> 0, to |-> <<>>, t |-> 0]

Init ==
    /\ network = <<>>
    /\ rs = [p \in Node |-> <<>>]
    /\ indep = [p \in Node |-> {}]
    /\ out = [p \in Node |-> 0]
    /\ txs = [p \in Node |-> {}]
    /\ promoted = [p \in Node |-> {}]
    /\ cmd = [p \in Node |-> [c \in Conn |-> NoCommand]]
    /\ inbox = [p \in Node |-> {}]

SetCmd(p, c, command) == cmd' = [cmd EXCEPT ![p][c] = command]

\* The bound MaxTx, leaving room for the commands that will still broadcast.
InFlight == {pc \in Node \X Conn : cmd[pc[1]][pc[2]].pc = "built"}
Room == Len(network) + Cardinality(InFlight) < MaxTx

Invited(base) ==
    \E t \in DOMAIN network :
        /\ network[t].kind = "initiate"
        /\ \E i \in DOMAIN network[t].to : network[t].to[i].base = base

InitiateTx(p, recv) ==
    [kind |-> "initiate",
     from |-> BasePK([node |-> p, type |-> "out", index |-> out[p]]),
     to   |-> [i \in 1..Len(recv) |-> BasePK(recv[i])],
     rel  |-> Len(network) + 1,
     enc  |-> IF Len(recv) > 1 THEN 1 ELSE 0,
     hash |-> 0]

MayInitiate(p, c, recv) ==
    /\ cmd[p][c] = NoCommand
    /\ Room
    /\ out[p] < MaxOut
    /\ ReuseAddresses \/ \A i \in DOMAIN recv : ~Invited(recv[i])

\* InitiateRelationship up to and including the broadcast: a fresh RelateOut
\* key signs, the outputs pay the receivers' base keys.
Initiate(p, c, recv) ==
    /\ MayInitiate(p, c, recv)
    /\ network' = Append(network, InitiateTx(p, recv))
    /\ out' = [out EXCEPT ![p] = @ + 1]
    /\ SetCmd(p, c, [NoCommand EXCEPT !.pc = "initiated",
                                      !.t = Len(network) + 1])
    /\ UNCHANGED <<rs, indep, txs, promoted, inbox>>

\* The key is taken, and the command fails before the tx is broadcast or,
\* in SaveTX, after it: no relationship is recorded either way.
InitiateFails(p, c, recv) ==
    /\ MayInitiate(p, c, recv)
    /\ \/ "before" \in Failures /\ UNCHANGED network
       \/ /\ "after" \in Failures
          /\ network' = Append(network, InitiateTx(p, recv))
    /\ out' = [out EXCEPT ![p] = @ + 1]
    /\ UNCHANGED <<rs, indep, txs, promoted, cmd, inbox>>

\* What the initiator keeps of its own initiate.
InitiatorRecord(t) ==
    [txid |-> t, key |-> network[t].from.base, next |-> 1,
     enc |-> network[t].enc, accepted |-> TRUE,
     members |-> NewMembers(network[t].to)]

\* The append under rs.lock, after the broadcast.
RecordInitiated(p, c) ==
    /\ cmd[p][c].pc = "initiated"
    /\ rs' = [rs EXCEPT ![p] = Append(@, InitiatorRecord(cmd[p][c].t))]
    /\ SetCmd(p, c, [NoCommand EXCEPT !.pc = "recorded",
                                      !.k = Len(rs[p]) + 1])
    /\ UNCHANGED <<network, indep, out, txs, promoted, inbox>>

\* AddIndependentKey with whatever NextKey the record has by then.
RegisterInitiated(p, c) ==
    /\ cmd[p][c].pc = "recorded"
    /\ indep' = [indep EXCEPT ![p] = @ \cup {NextKey(rs[p][cmd[p][c].k])}]
    /\ SetCmd(p, c, NoCommand)
    /\ UNCHANGED <<network, rs, out, txs, promoted, inbox>>

MayBuild(p, kind, k) ==
    /\ k = FindForTxId(p, rs[p][k].txid)
    /\ IF kind = "accept" THEN ~rs[p][k].accepted ELSE rs[p][k].accepted

\* AcceptRelationship and SendMessage up to the funding: the payload is
\* encrypted for our next index and, with direct encryption, addressed to
\* the next key of every member.
Build(p, c, kind, k) ==
    LET r == rs[p][k] IN
    /\ cmd[p][c] = NoCommand
    /\ Room
    /\ MayBuild(p, kind, k)
    /\ SetCmd(p, c, [pc |-> "built", kind |-> kind, k |-> k, hash |-> r.next,
                     to |-> IF r.enc = 0
                            THEN [i \in 1..Len(r.members) |->
                                      MemberKey(r, r.members[i])]
                            ELSE <<>>,
                     t |-> 0])
    /\ UNCHANGED <<network, rs, indep, out, txs, promoted, inbox>>

\* The key that signs is read again, when the funding is added.
CommandTx(p, c) ==
    LET r == rs[p][cmd[p][c].k] IN
    [kind |-> cmd[p][c].kind, from |-> NextKey(r), to |-> cmd[p][c].to,
     rel |-> r.txid, enc |-> r.enc, hash |-> cmd[p][c].hash]

\* AddKeyFunding: the wallet can only sign with a key it has registered.
Broadcast(p, c) ==
    /\ cmd[p][c].pc = "built"
    /\ Owns(p, NextKey(rs[p][cmd[p][c].k]))
    /\ network' = Append(network, CommandTx(p, c))
    /\ SetCmd(p, c, [cmd[p][c] EXCEPT !.pc = "sent"])
    /\ UNCHANGED <<rs, indep, out, txs, promoted, inbox>>

BroadcastFails(p, c) ==
    /\ cmd[p][c].pc = "built"
    /\ \/ /\ \/ "before" \in Failures
             \/ ~Owns(p, NextKey(rs[p][cmd[p][c].k]))
          /\ UNCHANGED network
       \/ /\ "after" \in Failures
          /\ Owns(p, NextKey(rs[p][cmd[p][c].k]))
          /\ network' = Append(network, CommandTx(p, c))
    /\ SetCmd(p, c, NoCommand)
    /\ UNCHANGED <<rs, indep, out, txs, promoted, inbox>>

\* Fault: the index is left where it was.
IncrementHashForgotten(r) == r

\* Relationship.IncrementHash, whose new key joins the wallet's keys.
IncrementHash(r) == [r EXCEPT !.next = @ + 1]
\* Member.IncrementHash for some of the members.
IncrementMembers(r, which) ==
    [r EXCEPT !.members =
        [i \in 1..Len(r.members) |->
            IF i \in which THEN [r.members[i] EXCEPT !.next = @ + 1]
                           ELSE r.members[i]]]

AdvanceOwn(p, c) ==
    LET k == cmd[p][c].k
        r == IncrementHash(rs[p][k]) IN
    /\ cmd[p][c].pc = "sent"
    /\ rs' = [rs EXCEPT ![p][k] = r]
    /\ indep' = [indep EXCEPT ![p] = @ \cup {NextKey(r)}]
    /\ SetCmd(p, c, [cmd[p][c] EXCEPT !.pc = "advanced"])
    /\ UNCHANGED <<network, out, txs, promoted, inbox>>

\* The members' keys were used too if the tx paid them; an accept is then
\* marked as ours, and the command returns.
AdvanceMembers(p, c) ==
    LET k == cmd[p][c].k
        paid == {i \in DOMAIN rs[p][k].members : rs[p][k].enc = 0}
        r == IncrementMembers(rs[p][k], paid) IN
    /\ cmd[p][c].pc = "advanced"
    /\ rs' = [rs EXCEPT ![p][k] =
                 [r EXCEPT !.accepted = @ \/ cmd[p][c].kind = "accept"]]
    /\ SetCmd(p, c, NoCommand)
    /\ UNCHANGED <<network, indep, out, txs, promoted, inbox>>

-----------------------------------------------------------------------------
(* Listener callbacks.                                                     *)

\* Fault: flags are not looked for.
RelevantByKey(p, tx) == IsOurs(p, tx)

\* HandleTx keeps a tx that spends from or pays to a key of ours, or that
\* carries the flag of a relationship we know.
Relevant(p, tx) ==
    \/ IsOurs(p, tx)
    \/ tx.kind # "initiate" /\ tx.enc = 1 /\ FindForFlag(p, tx.rel) # 0

\* The daemons a transaction is meant for, the sender's included.
Parties(t) ==
    LET first == network[network[t].rel] IN
    {first.from.base.node} \cup {first.to[i].base.node : i \in DOMAIN first.to}

HandleTx(p, t) ==
    /\ t \notin txs[p]
    /\ Relevant(p, network[t])
    /\ InOrder => \A s \in 1..t-1 : s \in promoted[p] \/ p \notin Parties(s)
    /\ txs' = [txs EXCEPT ![p] = @ \cup {t}]
    /\ UNCHANGED <<network, rs, indep, out, promoted, cmd, inbox>>

\* Fault: only the key a relationship uses next decrypts.
DecryptDirectNextKey(p, tx) ==
    /\ tx.from.i = tx.hash
    /\ IsOurs(p, tx)
    /\ OurKey(p, tx).i = 0 \/ OurKey(p, tx) \in {NextKey(r) : r \in ToSet(rs[p])}

\* DecryptActionDirect: as the sender or as a receiver, with the key that
\* the payload was encrypted with.
DecryptDirect(p, tx) ==
    /\ tx.from.i = tx.hash
    /\ IsOurs(p, tx)

\* Faults: the base encryption key is never added for a past key; the current
\* keys of the members are not looked at.
FindHashAnyIndex(r, pk) ==
    IF pk.seed # r.txid \/ pk.i = 0 THEN {} ELSE {[eks |-> 0, i |-> pk.i]}
FindHashOursOnly(r, pk) ==
    IF pk.seed = r.txid /\ pk.base = r.key THEN {[eks |-> 0, i |-> pk.i]}
    ELSE {}

\* FindHash: the hash of a key of the relationship, with the number of times
\* the base encryption key has already been added to it.
FindHash(r, pk) ==
    LET current == pk = NextKey(r)
                    \/ \E i \in DOMAIN r.members : pk = MemberKey(r, r.members[i])
        ours == pk.base = r.key /\ pk.i < r.next + Window
        theirs == \E i \in DOMAIN r.members :
                      /\ pk.base = r.members[i].base
                      /\ pk.i < r.members[i].next + Window
    IN  IF pk.seed # r.txid \/ pk.i = 0 THEN {}
        ELSE IF current \/ ours THEN {[eks |-> 0, i |-> pk.i]}
        ELSE IF theirs THEN {[eks |-> 1, i |-> pk.i]}
        ELSE {}

\* FindEncryptionKey: the base encryption key is added to that hash.
FindEncryptionKey(r, pk) == {[h EXCEPT !.eks = @ + 1] : h \in FindHash(r, pk)}

\* DecryptAction of the output that holds the envelope.
Decrypts(p, tx) ==
    IF tx.kind = "initiate" \/ tx.enc = 0
    THEN DecryptDirect(p, tx)
    ELSE LET k == FindForFlag(p, tx.rel) IN
         /\ k # 0
         /\ [eks |-> 1, i |-> tx.hash] \in FindEncryptionKey(rs[p][k], tx.from)

\* GetRelationshipForTx: the relationship, by flag or by the first key of
\* ours, 0 if there is none or the key is another relationship's.
OurKeys(p, tx) ==
    IF Owns(p, tx.from) THEN {tx.from} ELSE {pk \in ToSet(tx.to) : Owns(p, pk)}
RelationshipForTx(p, tx) ==
    LET flagged == IF tx.enc = 1 THEN FindForFlag(p, tx.rel) ELSE 0
        k == IF flagged # 0 THEN flagged
             ELSE IF ~IsOurs(p, tx) THEN 0
             ELSE GetRelationship(p, OurKey(p, tx).base)
    IN  IF k # 0 /\ \A pk \in OurKeys(p, tx) : pk.base = rs[p][k].key
        THEN k ELSE 0

\* Fault: our key does not move on when it was paid.
UsesNextKeyAsSender(p, tx, r) == Owns(p, tx.from) /\ tx.from = NextKey(r)

\* ... our key moves on if it is the one used: as the sender always, as a
\* receiver only when the relationship was found by its key ...
UsesNextKey(p, tx, r) ==
    /\ IsOurs(p, tx)
    /\ OurKey(p, tx) = NextKey(r)
    /\ Owns(p, tx.from) \/ tx.enc = 0

\* Fault: every member moves on, whoever sent.
AdvanceForTxAll(p, tx, r) ==
    IncrementMembers(IF UsesNextKey(p, tx, r) THEN IncrementHash(r) ELSE r,
                     DOMAIN r.members)

\* ... so does every member whose next key signed or was paid ...
KeysUsed(tx) == {tx.from} \cup ToSet(tx.to)
AdvanceForTx(p, tx, r) ==
    IncrementMembers(IF UsesNextKey(p, tx, r) THEN IncrementHash(r) ELSE r,
        {i \in DOMAIN r.members : MemberKey(r, r.members[i]) \in KeysUsed(tx)})

\* ... and the sending member is the one whose next key it was, or else the
\* first member.
SendingMember(r, tx) ==
    LET j == SelectInSeq(r.members, LAMBDA m : MemberKey(r, m) = tx.from)
    IN  IF j = 0 THEN 1 ELSE j

\* Fault: an initiate that reached us counts as accepted.
InitiatedRecordAccepted(p, t) ==
    LET tx == network[t] IN
    [txid |-> t, key |-> OurKey(p, tx).base,
     next |-> 1, enc |-> tx.enc, accepted |-> TRUE,
     members |-> NewMembers(IF Owns(p, tx.from) THEN tx.to
                            ELSE <<tx.from>> \o
                                 RemoveAt(tx.to, OwnReceiver(p, tx)))]

\* ProcessInitiateRelationship: our key and everybody else's, sender first.
InitiatedRecord(p, t) ==
    LET tx == network[t] IN
    [txid |-> t, key |-> OurKey(p, tx).base,
     next |-> 1, enc |-> tx.enc, accepted |-> FALSE,
     members |-> NewMembers(IF Owns(p, tx.from) THEN tx.to
                            ELSE <<tx.from>> \o
                                 RemoveAt(tx.to, OwnReceiver(p, tx)))]

\* Faults: no check for an existing relationship; the first derived key not
\* registered.
ProcessInitiateAnyway(p, t) ==
    /\ rs' = [rs EXCEPT ![p] = Append(@, InitiatedRecord(p, t))]
    /\ indep' = [indep EXCEPT ![p] = @ \cup {NextKey(InitiatedRecord(p, t))}]
    /\ UNCHANGED inbox
ProcessInitiateUnregistered(p, t) ==
    IF FindForTxId(p, t) # 0 THEN UNCHANGED <<rs, indep, inbox>>
    ELSE /\ rs' = [rs EXCEPT ![p] = Append(@, InitiatedRecord(p, t))]
         /\ UNCHANGED <<indep, inbox>>

ProcessInitiate(p, t) ==
    IF FindForTxId(p, t) # 0 THEN UNCHANGED <<rs, indep, inbox>>
    ELSE LET r == InitiatedRecord(p, t) IN
         /\ rs' = [rs EXCEPT ![p] = Append(@, r)]
         /\ indep' = [indep EXCEPT ![p] = @ \cup {NextKey(r)}]
         /\ UNCHANGED inbox

\* ProcessAcceptRelationship marks who accepted ...
Processed(tx, sending, m, advanced) ==
    IF tx.kind # "accept" THEN advanced
    ELSE IF sending THEN [advanced EXCEPT !.accepted = TRUE]
    ELSE [advanced EXCEPT !.members[m].accepted = TRUE]

\* ... and, like ProcessPrivateMessage, logs from whom it is.
Logged(t, r, m) == [t |-> t, rel |-> r.txid, base |-> r.members[m].base]

ProcessInRelationship(p, t) ==
    LET tx == network[t]
        k == RelationshipForTx(p, tx)
        r == rs[p][k]
        advanced == AdvanceForTx(p, tx, r)
        sending == Owns(p, tx.from)
        m == SendingMember(r, tx)
    IN  IF k = 0 THEN UNCHANGED <<rs, indep, inbox>>
        ELSE
        /\ rs' = [rs EXCEPT ![p][k] = Processed(tx, sending, m, advanced)]
        /\ indep' = [indep EXCEPT ![p] =
                        IF UsesNextKey(p, tx, r)
                        THEN @ \cup {NextKey(advanced)} ELSE @]
        /\ inbox' = [inbox EXCEPT ![p] =
                        IF sending THEN @ ELSE @ \cup {Logged(t, r, m)}]

Idle(p) == \A c \in Conn : cmd[p][c] = NoCommand

\* Fault: a state message is enough, whether the tx is kept or not.
ProcessTxUntaken(p, t) ==
    /\ promoted' = [promoted EXCEPT ![p] = @ \cup {t}]
    /\ UNCHANGED <<network, rs, indep, out, txs, cmd, inbox>>

\* ProcessTx on a tx that is safe or confirmed, once.
ProcessTx(p, t) ==
    /\ t \in txs[p] \ promoted[p]
    /\ Serialised => Idle(p)
    /\ promoted' = [promoted EXCEPT ![p] = @ \cup {t}]
    /\ IF ~Decrypts(p, network[t]) THEN UNCHANGED <<rs, indep, inbox>>
       ELSE IF network[t].kind = "initiate" THEN ProcessInitiate(p, t)
       ELSE ProcessInRelationship(p, t)
    /\ UNCHANGED <<network, out, txs, cmd>>

-----------------------------------------------------------------------------
UserStep(p, c) ==
    \/ \E recv \in Invites[p] : Initiate(p, c, recv) \/ InitiateFails(p, c, recv)
    \/ \E kind \in {"accept", "message"}, k \in DOMAIN rs[p] : Build(p, c, kind, k)

CommandStep(p, c) ==
    \/ RecordInitiated(p, c)
    \/ RegisterInitiated(p, c)
    \/ Broadcast(p, c)
    \/ BroadcastFails(p, c)
    \/ AdvanceOwn(p, c)
    \/ AdvanceMembers(p, c)

ListenerStep(p) == \E t \in DOMAIN network : HandleTx(p, t) \/ ProcessTx(p, t)

Next ==
    \E p \in Node :
        \/ \E c \in Conn : UserStep(p, c) \/ CommandStep(p, c)
        \/ ListenerStep(p)

Spec == Init /\ [][Next]_vars

\* A running command goes on, spynode shows every tx to every daemon and tells
\* of its state, and a callback that waits for a command is let in.
FairSpec ==
    /\ Spec
    /\ \A p \in Node :
        /\ WF_vars(\E c \in Conn : CommandStep(p, c))
        /\ WF_vars(\E t \in DOMAIN network : HandleTx(p, t))
        /\ SF_vars(\E t \in DOMAIN network : ProcessTx(p, t))

-----------------------------------------------------------------------------
(* Properties.                                                             *)

PublicKey == [base : BaseKey, seed : Nat, i : Nat]
Tx == [kind : {"initiate", "accept", "message"}, from : PublicKey,
       to : Seq(PublicKey), rel : Nat, enc : {0, 1}, hash : Nat]
MemberRecord == [base : BaseKey, next : Nat, accepted : BOOLEAN]
Relationship == [txid : Nat, key : BaseKey, next : Nat, enc : {0, 1},
                 accepted : BOOLEAN, members : Seq(MemberRecord)]
Command == [pc : {"idle", "initiated", "recorded", "built", "sent", "advanced"},
            kind : {"none", "accept", "message"}, k : Nat, hash : Nat,
            to : Seq(PublicKey), t : Nat]

\* The type invariant: every variable holds what its declaration says, the
\* txids a node holds are of broadcast txs, and it processes (ProcessTx) only
\* what it has taken (HandleTx).
TypeOK ==
    /\ network \in Seq(Tx)
    /\ rs \in [Node -> Seq(Relationship)]
    /\ indep \in [Node -> SUBSET PublicKey]
    /\ out \in [Node -> Nat]
    /\ txs \in [Node -> SUBSET (DOMAIN network)]
    /\ promoted \in [Node -> SUBSET (DOMAIN network)]
    /\ \A p \in Node : promoted[p] \subseteq txs[p]
    /\ cmd \in [Node -> [Conn -> Command]]
    /\ inbox \in [Node -> SUBSET [t : Nat, rel : Nat, base : BaseKey]]

\* A transaction belongs to the relationship whose initiate it names and uses
\* only keys derived with that relationship's seed.
TxsOK ==
    \A t \in DOMAIN network :
        LET tx == network[t] IN
        /\ tx.rel \in 1..t
        /\ network[tx.rel].kind = "initiate"
        /\ network[tx.rel].enc = tx.enc
        /\ tx.kind = "initiate" <=> tx.rel = t
        /\ tx.kind = "initiate" => tx.to # <<>>
        /\ tx.kind # "initiate" =>
               /\ tx.from.seed = tx.rel
               /\ tx.from.i > 0
               /\ \A i \in DOMAIN tx.to : tx.to[i].seed = tx.rel
               /\ tx.enc = 1 => tx.to = <<>>

\* A record is of a broadcast initiate, under a key of the node's own.
RecordsOK ==
    \A p \in Node : \A k \in DOMAIN rs[p] :
        LET r == rs[p][k] IN
        /\ r.txid \in DOMAIN network
        /\ network[r.txid].kind = "initiate"
        /\ network[r.txid].enc = r.enc
        /\ r.key.node = p
        /\ r.next > 0
        /\ r.members # <<>>
        /\ \A i \in DOMAIN r.members : r.members[i].next > 0

\* A running command holds a record, and what it is about to broadcast is
\* addressed with keys of that record's relationship.
CommandsOK ==
    \A p \in Node : \A c \in Conn :
        LET d == cmd[p][c] IN
        /\ d.pc \in {"recorded", "built", "sent", "advanced"} =>
               d.k \in DOMAIN rs[p]
        /\ d.pc = "built" =>
               /\ d.kind # "none"
               /\ \A i \in DOMAIN d.to : d.to[i].seed = rs[p][d.k].txid
               /\ rs[p][d.k].enc = 1 => d.to = <<>>
        /\ d.pc = "initiated" =>
               /\ d.t \in DOMAIN network
               /\ network[d.t].kind = "initiate"
               /\ network[d.t].from.base.node = p

\* Transactions, records and running commands refer to each other as the
\* pointers and txids of the code do (initiate.go, accept.go, message.go): no
\* interleaving of command and listener leaves one that dangles or crosses
\* from one relationship into another.
Structure == TxsOK /\ RecordsOK /\ CommandsOK

\* "Those keys should not be reused" (GetBitcoinUTXOs, wallet/utxos.go): no
\* two transactions are signed with the same relationship key, whatever the
\* listener does to the index while a command runs.
NoKeyReuse ==
    \A s, t \in DOMAIN network : network[s].from = network[t].from => s = t

\* The wallet watches every key a peer can have reason to use: each index up
\* to the next one of each relationship (IncrementHash, AddIndependentKey),
\* but for a relationship that InitiateRelationship is still recording.
KeysRegistered ==
    \A p \in Node : \A k \in DOMAIN rs[p] :
        LET r == rs[p][k] IN
        \/ \A i \in 1..r.next : Derived(r.key, r.txid, i) \in indep[p]
        \/ /\ r.next = 1
           /\ \E c \in Conn : cmd[p][c].pc = "recorded" /\ cmd[p][c].k = k

\* What a node logs as "Message from" or "accepted by" names the member that
\* signed, in the relationship it wrote to, although GetRelationshipForTx
\* falls back on the first member (memberIndex 0) and the first key match.
Attributed ==
    \A p \in Node : \A e \in inbox[p] :
        /\ e.rel = network[e.t].rel
        /\ e.base = network[e.t].from.base

AcceptedBy(base, txid) ==
    \E t \in DOMAIN network : /\ network[t].kind = "accept"
                             /\ network[t].rel = txid
                             /\ network[t].from.base = base

\* Nobody is taken to have accepted who has not broadcast an accept in that
\* relationship: neither a member nor, unless it initiated, the node itself
\* (AcceptRelationship, ProcessAcceptRelationship).
AcceptedIsGenuine ==
    \A p \in Node : \A k \in DOMAIN rs[p] :
        LET r == rs[p][k] IN
        /\ r.accepted => r.key.type = "out" \/ AcceptedBy(r.key, r.txid)
        /\ \A i \in DOMAIN r.members :
               r.members[i].accepted => AcceptedBy(r.members[i].base, r.txid)

\* With indirect encryption a node's view of a member moves past an index
\* only if that member signed with it (GetRelationshipForTx), so a view never
\* runs ahead of the member's own broadcasts.
GroupViewBacked ==
    \A p \in Node : \A k \in DOMAIN rs[p] :
        LET r == rs[p][k] IN
        r.enc = 1 =>
            \A j \in DOMAIN r.members : \A i \in 1..r.members[j].next-1 :
                \E t \in DOMAIN network :
                    network[t].from = Derived(r.members[j].base, r.txid, i)

\* ProcessInitiateRelationship: "already exists".  A node keeps one record
\* per relationship.
UniqueTxId ==
    \A p \in Node : \A j, k \in DOMAIN rs[p] :
        rs[p][j].txid = rs[p][k].txid => j = k

Quiescent ==
    /\ \A p \in Node : Idle(p)
    /\ \A t \in DOMAIN network : \A p \in Parties(t) : t \in promoted[p]

\* NextHash is the "next expected hash to be used in a message" (models.go):
\* once every party has processed every tx, every member's view of another
\* is the index that other will use.
QuiescentAgreement ==
    Quiescent =>
        \A p \in Node : \A k \in DOMAIN rs[p] :
            \A i \in DOMAIN rs[p][k].members :
                LET m == rs[p][k].members[i]
                    q == m.base.node
                    j == FindForTxId(q, rs[p][k].txid)
                IN  j # 0 /\ m.next = rs[q][j].next

\* A processed accept or message has been read by every other party: a tx is
\* processed once (IsPromoted), so one that fails to decrypt is lost.
NothingLost ==
    \A p \in Node : \A t \in promoted[p] :
        network[t].kind # "initiate" /\ network[t].from.base.node # p
        /\ p \in Parties(t) => \E e \in inbox[p] : e.t = t

UsedForPayload(t) == network[t].enc = 1 /\ network[t].kind # "initiate"

\* "If the sender used their 5th derived key to send the message, then the
\* encryption key is the 5th derived encryption key" (DecryptAction): whatever
\* key FindEncryptionKey comes up with for a tx is the one it was encrypted
\* with.
EncryptionKeyMatches ==
    \A p \in Node : \A t \in txs[p] :
        UsedForPayload(t) /\ FindForFlag(p, network[t].rel) # 0 =>
            FindEncryptionKey(rs[p][FindForFlag(p, network[t].rel)],
                              network[t].from)
                \subseteq {[eks |-> 1, i |-> network[t].hash]}

ReadBy(p, t) == IF network[t].kind = "initiate" THEN FindForTxId(p, t) # 0
                ELSE \E e \in inbox[p] : e.t = t

Unread(t) ==
    /\ t \in DOMAIN network
    /\ \E p \in Parties(t) \ {network[t].from.base.node} : ~ReadBy(p, t)

\* Whatever is broadcast in a relationship is in the end read by every other
\* party (HandleTx, ProcessTx), an initiate by recording the relationship.
Delivered == \A t \in 1..MaxTx : Unread(t) ~> ~Unread(t)

\* What users can see: the transactions, each on the channel that its initiate
\* opened, and the relationships every node knows of.
Posts ==
    [t \in DOMAIN network |->
        [channel |-> network[t].rel, author |-> network[t].from.base,
         ordered |-> network[t].enc = 1, parties |-> Parties(t)]]
Joined == [p \in Node |-> {rs[p][k].txid : k \in DOMAIN rs[p]}]

\* The relationships implement the channels of Channel.
Promise == INSTANCE Channel WITH posts <- Posts, joined <- Joined, read <- inbox

\* Every step joins, posts, reads under the author's name and, in a group, in
\* the author's order, or changes nothing a user can see.
ChannelSpec == Promise!Spec

=============================================================================
