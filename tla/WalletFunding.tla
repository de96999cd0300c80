--------------------------- MODULE WalletFunding ---------------------------
(***************************************************************************)
(* The outputs of one wallet and the commands that fund transactions with  *)
(* them (internal/wallet/utxos.go, funding.go), beside the listener that   *)
(* processes the same transactions (internal/node/node.go, listener.go).   *)
(*                                                                         *)
(* Amounts are left out: AddFunding may find any selection to be enough,   *)
(* or all there is not to be.                                              *)
(***************************************************************************)
EXTENDS Naturals, Sequences, FiniteSets

CONSTANTS
    Conn,       \* the clients' connections: commands that run at once
    Key,        \* our relationship keys, base or derived
    Bitcoin,    \* our external and internal keys
    Other,      \* everybody else's keys
    Failures,   \* when broadcasting may fail: "before", "after" (SaveTX)
    MaxTx,      \* bound: transactions broadcast
    MaxReverts  \* bound: transactions cancelled, unsafe or reorganised away

ASSUME OwnersAssumption == Bitcoin \notin Key /\ Other \notin Key /\ Bitcoin # Other
ASSUME FundingFailuresAssumption == Failures \subseteq {"before", "after"}
ASSUME FundingBoundsAssumption == MaxTx \in Nat /\ MaxReverts \in Nat

VARIABLES
    network,   \* the transactions broadcast; a txid is a position
    fate,      \* what the state messages for each transaction have said
    utxos,     \* Wallet.utxos: the flags of every output it has recorded
    txs,       \* Wallet.txs: the transactions taken by HandleTx
    promoted,  \* the transactions processed by ProcessTx
    booked,    \* the transactions whose command has called ProcessUTXOs
    cmd        \* each connection's command

vars == <<network, fate, utxos, txs, promoted, booked, cmd>>

Owner == Key \cup {Bitcoin, Other}
Outpoint == (Nat \ {0}) \X (Nat \ {0})
Flags == [pending : BOOLEAN, reserved : BOOLEAN, deleted : BOOLEAN]
TxIds == 1..Len(network)

\* The transactions spending outputs that the wallet had processed when the
\* inputs of another began to be selected.
Known == [booked : SUBSET Nat, taken : SUBSET Nat]
Tx == [ins : SUBSET Outpoint, outs : Seq(Owner), knew : Known]

\* Where a connection is in AddKeyIndexFunding or AddKeyFunding, which differ in
\* how they name the key, and its locals.
\* id: the transaction the command has broadcast last, if any.
Idle == [at |-> "idle"]
Command == [at : {"topup", "fund", "sendFund", "bookFund", "send", "book"}, key : Key,
            ins : SUBSET Outpoint, knew : Known, id : Nat]

\* Fault: the addresses of relationship keys are not found.
OursBitcoin(id) ==
    {<<id, k>> : k \in {j \in DOMAIN network[id].outs : network[id].outs[j] = Bitcoin}}

\* The outputs of a transaction that FindAddress finds an address of ours for.
Ours(id) == {<<id, k>> : k \in {j \in DOMAIN network[id].outs : network[id].outs[j] # Other}}
OwnerOf(o) == network[o[1]].outs[o[2]]
Spenders(o) == {i \in TxIds : o \in network[i].ins}

\* Cancelled, unsafe or reverted once, whether or not it has come back since.
Undone(id) == fate[id] \in {"off", "back"}

Init ==
    /\ network = <<>>
    /\ fate = <<>>
    /\ utxos = <<>>
    /\ txs = {}
    /\ promoted = {}
    /\ booked = {}
    /\ cmd = [c \in Conn |-> Idle]

-----------------------------------------------------------------------------
(* Outputs.                                                                *)

\* Fault: outputs that are still pending are selected.
SelectablePending(owner) ==
    {o \in DOMAIN utxos :
        OwnerOf(o) = owner /\ ~utxos[o].reserved /\ ~utxos[o].deleted}

\* GetKeyUTXOs, GetKeyHashUTXOs and GetBitcoinUTXOs.
Selectable(owner) ==
    {o \in DOMAIN utxos :
        /\ OwnerOf(o) = owner
        /\ ~utxos[o].reserved /\ ~utxos[o].deleted /\ ~utxos[o].pending}

\* Fault: an output that is there already starts again as pending.
CreateAgain(u, new) ==
    [o \in DOMAIN u \cup new |->
        IF o \in new
        THEN [pending |-> TRUE, reserved |-> FALSE, deleted |-> FALSE]
        ELSE u[o]]

\* CreateUTXO for every output of ours: one that exists is left alone.
Create(u, new) ==
    [o \in DOMAIN u \cup new |->
        IF o \in DOMAIN u
        THEN u[o]
        ELSE [pending |-> TRUE, reserved |-> FALSE, deleted |-> FALSE]]

\* ReserveUTXO, DeleteUTXO, UndeleteUTXO and FinalizeUTXO of a set of outputs:
\* those that are not recorded are skipped.
Reserve(u, S) == [o \in DOMAIN u |-> [u[o] EXCEPT !.reserved = @ \/ o \in S]]
Delete(u, S) == [o \in DOMAIN u |-> [u[o] EXCEPT !.deleted = @ \/ o \in S]]
Undelete(u, S) == [o \in DOMAIN u |-> [u[o] EXCEPT !.deleted = @ /\ o \notin S]]
Finalize(u, S) == [o \in DOMAIN u |-> [u[o] EXCEPT !.pending = @ /\ o \notin S]]

\* Fault: a command deletes nothing and reserves nothing.
ProcessUTXOsUnreserved(id, isFinal) ==
    Create(IF isFinal THEN Delete(utxos, network[id].ins) ELSE utxos, Ours(id))

ProcessUTXOs(id, isFinal) ==
    Create(IF isFinal THEN Delete(utxos, network[id].ins)
                      ELSE Reserve(utxos, network[id].ins), Ours(id))

\* Fault: the outputs of a reverted transaction stay.
RevertUTXOsInputsOnly(id) == Undelete(utxos, network[id].ins)

RevertUTXOs(id) == Delete(Undelete(utxos, network[id].ins), Ours(id))

-----------------------------------------------------------------------------
(* Commands: AddKeyIndexFunding and AddKeyFunding.                         *)

\* The key's own outputs are enough, or are not, or there are none.
Start(c, k) ==
    LET own == Selectable(k)
        known == [booked |-> booked, taken |-> {i \in txs : network[i].ins # {}}]
        to(at, ins) == cmd' = [cmd EXCEPT ![c] =
            [at |-> at, key |-> k, ins |-> ins, knew |-> known, id |-> 0]] IN
    /\ cmd[c] = Idle
    /\ \/ \E ins \in SUBSET own \ {{}} : to("send", ins)
       \/ own # {} /\ to("topup", own)
       \/ own = {} /\ to("fund", {})
    /\ UNCHANGED <<network, fate, utxos, txs, promoted, booked>>

\* The rest is funded with bitcoin: of this transaction, or of one that first
\* pays the key.
SelectBitcoin(c) ==
    /\ cmd[c].at \in {"topup", "fund"}
    /\ \E ins \in SUBSET Selectable(Bitcoin) \ {{}} :
          cmd' = [cmd EXCEPT
              ![c].at = IF @ = "fund" THEN "sendFund" ELSE "send",
              ![c].ins = @ \cup ins]
    /\ UNCHANGED <<network, fate, utxos, txs, promoted, booked>>

\* No bitcoin, or not enough; or the broadcast fails before it is out.
Fail(c) ==
    /\ \/ cmd[c].at \in {"topup", "fund"}
       \/ cmd[c].at \in {"send", "sendFund"} /\ "before" \in Failures
    /\ cmd' = [cmd EXCEPT ![c] = Idle]
    /\ UNCHANGED <<network, fate, utxos, txs, promoted, booked>>

\* What a command's transaction pays: the key it funds, or somebody else; and
\* change, if any.
Pays(c) == IF cmd[c].at = "sendFund" THEN cmd[c].key ELSE Other

\* Node.BroadcastTx, which may fail after the transaction is out.
Broadcast(c) ==
    /\ cmd[c].at \in {"send", "sendFund"}
    /\ Len(network) < MaxTx
    /\ \E change \in {<<>>, <<Bitcoin>>} :
          network' = Append(network,
              [ins |-> cmd[c].ins, outs |-> <<Pays(c)>> \o change, knew |-> cmd[c].knew])
    /\ fate' = Append(fate, "new")
    /\ \/ cmd' = [cmd EXCEPT ![c].at = IF @ = "sendFund" THEN "bookFund" ELSE "book",
                              ![c].id = Len(network) + 1]
       \/ "after" \in Failures /\ cmd' = [cmd EXCEPT ![c] = Idle]
    /\ UNCHANGED <<utxos, txs, promoted, booked>>

\* ProcessUTXOs after the broadcast. The output of a funding transaction is
\* then spent without being selected, whatever has become of it.
Book(c) ==
    LET id == cmd[c].id IN
    /\ cmd[c].at \in {"bookFund", "book"}
    /\ utxos' = ProcessUTXOs(id, FALSE)
    /\ booked' = booked \cup {id}
    /\ cmd' = [cmd EXCEPT ![c] =
          IF @.at = "book" THEN Idle
          ELSE [@ EXCEPT !.at = "send", !.ins = {<<id, 1>>}]]
    /\ UNCHANGED <<network, fate, txs, promoted>>

-----------------------------------------------------------------------------
(* The network and the listener.                                           *)

\* Somebody pays us: the user's funds, or a message to a key.
Receive(owner) ==
    /\ Len(network) < MaxTx
    /\ network' = Append(network, [ins |-> {}, outs |-> <<owner>>,
                                   knew |-> [booked |-> {}, taken |-> {}]])
    /\ fate' = Append(fate, "new")
    /\ UNCHANGED <<utxos, txs, promoted, booked, cmd>>

Relevant(id) == Ours(id) # {} \/ network[id].ins \cap DOMAIN utxos # {}

\* HandleTx and PreprocessTx, for a transaction that is not taken yet.
HandleTx(id) ==
    /\ id \notin txs /\ Relevant(id)
    /\ utxos' = ProcessUTXOs(id, TRUE)
    /\ txs' = txs \cup {id}
    /\ UNCHANGED <<network, fate, promoted, booked, cmd>>

\* Safe or confirmed: ProcessTx. A transaction promoted already is left alone,
\* also when it was reverted in between.
Confirm(id) ==
    /\ id \in txs
    /\ utxos' = IF id \in promoted THEN utxos ELSE Finalize(utxos, Ours(id))
    /\ promoted' = promoted \cup {id}
    /\ fate' = [fate EXCEPT ![id] = IF Undone(id) THEN "back" ELSE "final"]
    /\ UNCHANGED <<network, txs, booked, cmd>>

\* Cancelled, unsafe or reverted: RevertTx.
RevertTx(id) ==
    /\ id \in txs
    /\ Undone(id) \/ Cardinality({i \in TxIds : Undone(i)}) < MaxReverts
    /\ utxos' = RevertUTXOs(id)
    /\ fate' = [fate EXCEPT ![id] = "off"]
    /\ UNCHANGED <<network, txs, promoted, booked, cmd>>

Next ==
    \/ \E c \in Conn :
          \/ \E k \in Key : Start(c, k)
          \/ SelectBitcoin(c) \/ Fail(c) \/ Broadcast(c) \/ Book(c)
    \/ \E owner \in Key \cup {Bitcoin} : Receive(owner)
    \/ \E id \in TxIds : HandleTx(id) \/ Confirm(id) \/ RevertTx(id)

Spec == Init /\ [][Next]_vars

-----------------------------------------------------------------------------
(* Properties.                                                             *)

\* The type invariant. Every input of a command is an output the wallet has
\* recorded, so that GetInputKeys finds the key to sign with.
TypeOK ==
    /\ network \in Seq(Tx)
    /\ fate \in Seq({"new", "final", "off", "back"}) /\ Len(fate) = Len(network)
    /\ DOMAIN utxos \subseteq UNION {Ours(id) : id \in TxIds}
    /\ utxos \in [DOMAIN utxos -> Flags]
    /\ txs \subseteq TxIds /\ promoted \subseteq txs /\ booked \subseteq TxIds
    /\ cmd \in [Conn -> Command \cup {Idle}]
    /\ \A c \in Conn : cmd[c] # Idle => cmd[c].ins \subseteq DOMAIN utxos

\* A command does not spend an output again that a transaction spends which an
\* earlier command has booked; nor one that a transaction spends which the
\* listener has taken, unless a transaction spending it was reverted. So a
\* double spend takes two commands that overlap, a broadcast that failed after
\* the transaction was out, or a revert (AddKeyFunding selects first and
\* reserves after the broadcast).
DoubleSpendsOverlap ==
    \A i, j \in TxIds : \A o \in network[i].ins \cap network[j].ins :
        /\ i \notin network[j].knew.booked
        /\ i \in network[j].knew.taken => \E s \in Spenders(o) : Undone(s)

\* The outputs of a transaction that was reverted are not used for anything
\* else (RevertUTXOs), even when it comes back; but the revert of a
\* transaction that spends one, and that no command has booked, undeletes it.
RevertedUnusable ==
    \A id \in TxIds : Undone(id) =>
        \A o \in Ours(id) :
            \/ o \notin Selectable(OwnerOf(o))
            \/ \E s \in Spenders(o) \ booked : Undone(s)

\* Nothing unconfirmed is spent but the output of a funding transaction, by the
\* command that made it (AddKeyFunding).
UnconfirmedOnlyOwnFunding ==
    \A id \in TxIds : \A o \in network[id].ins :
        \/ o[1] \in promoted
        \/ o[1] \in booked /\ o[2] = 1 /\ OwnerOf(o) \in Key /\ network[id].ins = {o}

\* Once commands and listener are done, whatever the order they worked in, what
\* the wallet would spend is what the chain has for it: each output of ours that
\* no transaction spends. Outputs a revert has touched are left out.
Settled ==
    (txs = TxIds /\ promoted = TxIds /\ \A c \in Conn : cmd[c] = Idle) =>
        \A id \in TxIds : \A o \in Ours(id) :
            (~Undone(id) /\ \A s \in Spenders(o) : ~Undone(s)) =>
                (o \in Selectable(OwnerOf(o)) <=> Spenders(o) = {})
=============================================================================
