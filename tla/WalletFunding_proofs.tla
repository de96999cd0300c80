------------------------ MODULE WalletFunding_proofs ------------------------
(***************************************************************************)
(* What the wallet's outputs promise, for any number of commands at once,  *)
(* any transactions and any reverts.  The flags of an output only ever     *)
(* grow, but for a revert that undeletes the inputs of a transaction; so   *)
(* whatever a transaction's processing has blocked stays blocked unless a  *)
(* transaction spending it was reverted.                                   *)
(***************************************************************************)
EXTENDS WalletFunding, TLAPS

SomeUndone(o) == \E s \in Spenders(o) : Undone(s)

\* A transaction spends outputs that the wallet has recorded, of transactions
\* before it, and its command knew of none as late.
Chain ==
    \A id \in TxIds :
        /\ \A o \in network[id].ins : o \in DOMAIN utxos /\ o[1] < id
        /\ \A i \in network[id].knew.booked \cup network[id].knew.taken : i < id

BookedReserved ==
    \A id \in booked : \A o \in network[id].ins : utxos[o].reserved

TakenDeleted ==
    \A id \in txs : \A o \in network[id].ins : utxos[o].deleted \/ SomeUndone(o)

UndoneDeleted ==
    \A id \in TxIds : Undone(id) =>
        /\ id \in txs
        /\ \A o \in Ours(id) : utxos[o].deleted \/ SomeUndone(o)

Recorded == \A id \in txs \cup booked : Ours(id) \subseteq DOMAIN utxos

PendingUnconfirmed ==
    \A o \in DOMAIN utxos : utxos[o].pending <=> o[1] \notin promoted

FlagsJustified ==
    \A o \in DOMAIN utxos :
        /\ utxos[o].reserved => Spenders(o) # {}
        /\ utxos[o].deleted => Spenders(o) # {} \/ Undone(o[1])

\* Only confirmed outputs are spent, or the one output of the command's own
\* funding transaction.
OwnFunding(ins) ==
    \E o \in ins : ins = {o} /\ o[1] \in booked /\ o[2] = 1 /\ OwnerOf(o) \in Key

SpendsConfirmed ==
    \A id \in TxIds :
        (\A o \in network[id].ins : o[1] \in promoted) \/ OwnFunding(network[id].ins)

\* A command that books knows its transaction, and knew of none as late.
Books(d) ==
    /\ d.knew.booked \subseteq booked /\ d.knew.taken \subseteq txs
    /\ d.at \in {"bookFund", "book"} =>
          /\ d.id \in TxIds
          /\ \A i \in d.knew.booked \cup d.knew.taken : i < d.id
    /\ d.at = "bookFund" =>
          1 \in DOMAIN network[d.id].outs /\ network[d.id].outs[1] \in Key

\* What a command is about to spend, nothing it knew of has spent.
SpendsFresh(d) ==
    d.at \notin {"bookFund", "book"} =>
        \A o \in d.ins : \A i \in Spenders(o) :
            /\ i \notin d.knew.booked
            /\ i \in d.knew.taken => SomeUndone(o)

TakesConfirmed(d) ==
    \/ \A o \in d.ins : o[1] \in promoted
    \/ d.at \in {"send", "book"} /\ OwnFunding(d.ins)

CommandOK(d) ==
    d.ins \subseteq DOMAIN utxos /\ Books(d) /\ SpendsFresh(d) /\ TakesConfirmed(d)

Commands == \A c \in Conn : cmd[c] # Idle => CommandOK(cmd[c])

OutputsOK ==
    /\ Chain /\ BookedReserved /\ TakenDeleted /\ UndoneDeleted /\ Recorded
    /\ PendingUnconfirmed /\ FlagsJustified /\ SpendsConfirmed /\ DoubleSpendsOverlap

FundingInv == TypeOK /\ OutputsOK /\ Commands

-----------------------------------------------------------------------------
(* Outputs.                                                                *)

LEMMA FlagDomain ==
    ASSUME NEW a \in Flags
    PROVE  DOMAIN a = {"pending", "reserved", "deleted"}
BY DEF Flags

\* Reserve, Delete, Undelete and Finalize change one flag of some outputs.
LEMMA FlagsOfSet ==
    ASSUME NEW u, u \in [DOMAIN u -> Flags], NEW S
    PROVE  /\ LET v == Reserve(u, S) IN
              /\ DOMAIN v = DOMAIN u /\ v \in [DOMAIN u -> Flags]
              /\ \A o \in DOMAIN u :
                    /\ v[o].pending = u[o].pending /\ v[o].deleted = u[o].deleted
                    /\ v[o].reserved <=> u[o].reserved \/ o \in S
           /\ LET v == Delete(u, S) IN
              /\ DOMAIN v = DOMAIN u /\ v \in [DOMAIN u -> Flags]
              /\ \A o \in DOMAIN u :
                    /\ v[o].pending = u[o].pending /\ v[o].reserved = u[o].reserved
                    /\ v[o].deleted <=> u[o].deleted \/ o \in S
           /\ LET v == Undelete(u, S) IN
              /\ DOMAIN v = DOMAIN u /\ v \in [DOMAIN u -> Flags]
              /\ \A o \in DOMAIN u :
                    /\ v[o].pending = u[o].pending /\ v[o].reserved = u[o].reserved
                    /\ v[o].deleted <=> u[o].deleted /\ o \notin S
           /\ LET v == Finalize(u, S) IN
              /\ DOMAIN v = DOMAIN u /\ v \in [DOMAIN u -> Flags]
              /\ \A o \in DOMAIN u :
                    /\ v[o].reserved = u[o].reserved /\ v[o].deleted = u[o].deleted
                    /\ v[o].pending <=> u[o].pending /\ o \notin S
<1>1. \A o \in DOMAIN u : u[o] \in Flags
  OBVIOUS
<1>2. \A o \in DOMAIN u :
         /\ (u[o].reserved \/ o \in S) \in BOOLEAN
         /\ (u[o].deleted \/ o \in S) \in BOOLEAN
         /\ (u[o].deleted /\ o \notin S) \in BOOLEAN
         /\ (u[o].pending /\ o \notin S) \in BOOLEAN
  OBVIOUS
<1>3. ASSUME NEW o \in DOMAIN u
      PROVE  /\ Reserve(u, S)[o] = [u[o] EXCEPT !.reserved = u[o].reserved \/ o \in S]
             /\ Delete(u, S)[o] = [u[o] EXCEPT !.deleted = u[o].deleted \/ o \in S]
             /\ Undelete(u, S)[o] = [u[o] EXCEPT !.deleted = u[o].deleted /\ o \notin S]
             /\ Finalize(u, S)[o] = [u[o] EXCEPT !.pending = u[o].pending /\ o \notin S]
  BY DEF Reserve, Delete, Undelete, Finalize
<1>4. ASSUME NEW o \in DOMAIN u
      PROVE  /\ Reserve(u, S)[o] \in Flags
             /\ Reserve(u, S)[o].pending = u[o].pending
             /\ Reserve(u, S)[o].deleted = u[o].deleted
             /\ Reserve(u, S)[o].reserved <=> u[o].reserved \/ o \in S
  <2> DEFINE a == u[o]
             b == u[o].reserved \/ o \in S
             r == Reserve(u, S)[o]
  <2>1. a \in Flags /\ b \in BOOLEAN /\ r = [a EXCEPT !.reserved = b]
    BY <1>1, <1>2, <1>3
  <2> HIDE DEF a, b, r
  <2>2. /\ r \in Flags /\ r.pending = a.pending /\ r.deleted = a.deleted
        /\ r.reserved = b
    BY <2>1, FlagDomain, Zenon DEF Flags
  <2>3. QED
    BY <2>2 DEF a, b, r
<1>5. ASSUME NEW o \in DOMAIN u
      PROVE  /\ Delete(u, S)[o] \in Flags
             /\ Delete(u, S)[o].pending = u[o].pending
             /\ Delete(u, S)[o].reserved = u[o].reserved
             /\ Delete(u, S)[o].deleted <=> u[o].deleted \/ o \in S
  <2> DEFINE a == u[o]
             b == u[o].deleted \/ o \in S
             r == Delete(u, S)[o]
  <2>1. a \in Flags /\ b \in BOOLEAN /\ r = [a EXCEPT !.deleted = b]
    BY <1>1, <1>2, <1>3
  <2> HIDE DEF a, b, r
  <2>2. /\ r \in Flags /\ r.pending = a.pending /\ r.reserved = a.reserved
        /\ r.deleted = b
    BY <2>1, FlagDomain, Zenon DEF Flags
  <2>3. QED
    BY <2>2 DEF a, b, r
<1>6. ASSUME NEW o \in DOMAIN u
      PROVE  /\ Undelete(u, S)[o] \in Flags
             /\ Undelete(u, S)[o].pending = u[o].pending
             /\ Undelete(u, S)[o].reserved = u[o].reserved
             /\ Undelete(u, S)[o].deleted <=> u[o].deleted /\ o \notin S
  <2> DEFINE a == u[o]
             b == u[o].deleted /\ o \notin S
             r == Undelete(u, S)[o]
  <2>1. a \in Flags /\ b \in BOOLEAN /\ r = [a EXCEPT !.deleted = b]
    BY <1>1, <1>2, <1>3
  <2> HIDE DEF a, b, r
  <2>2. /\ r \in Flags /\ r.pending = a.pending /\ r.reserved = a.reserved
        /\ r.deleted = b
    BY <2>1, FlagDomain, Zenon DEF Flags
  <2>3. QED
    BY <2>2 DEF a, b, r
<1>7. ASSUME NEW o \in DOMAIN u
      PROVE  /\ Finalize(u, S)[o] \in Flags
             /\ Finalize(u, S)[o].reserved = u[o].reserved
             /\ Finalize(u, S)[o].deleted = u[o].deleted
             /\ Finalize(u, S)[o].pending <=> u[o].pending /\ o \notin S
  <2> DEFINE a == u[o]
             b == u[o].pending /\ o \notin S
             r == Finalize(u, S)[o]
  <2>1. a \in Flags /\ b \in BOOLEAN /\ r = [a EXCEPT !.pending = b]
    BY <1>1, <1>2, <1>3
  <2> HIDE DEF a, b, r
  <2>2. /\ r \in Flags /\ r.reserved = a.reserved /\ r.deleted = a.deleted
        /\ r.pending = b
    BY <2>1, FlagDomain, Zenon DEF Flags
  <2>3. QED
    BY <2>2 DEF a, b, r
<1>8. /\ DOMAIN Reserve(u, S) = DOMAIN u /\ Reserve(u, S) \in [DOMAIN u -> Flags]
      /\ DOMAIN Delete(u, S) = DOMAIN u /\ Delete(u, S) \in [DOMAIN u -> Flags]
      /\ DOMAIN Undelete(u, S) = DOMAIN u /\ Undelete(u, S) \in [DOMAIN u -> Flags]
      /\ DOMAIN Finalize(u, S) = DOMAIN u /\ Finalize(u, S) \in [DOMAIN u -> Flags]
  <2>1. /\ Reserve(u, S) = [o \in DOMAIN u |-> Reserve(u, S)[o]]
        /\ Delete(u, S) = [o \in DOMAIN u |-> Delete(u, S)[o]]
        /\ Undelete(u, S) = [o \in DOMAIN u |-> Undelete(u, S)[o]]
        /\ Finalize(u, S) = [o \in DOMAIN u |-> Finalize(u, S)[o]]
    BY <1>3 DEF Reserve, Delete, Undelete, Finalize
  <2>2. QED
    BY <2>1, <1>4, <1>5, <1>6, <1>7
<1>9. QED
  BY <1>4, <1>5, <1>6, <1>7, <1>8

\* CreateUTXO adds outputs that are pending only.
LEMMA CreateAdds ==
    ASSUME NEW u, u \in [DOMAIN u -> Flags], NEW new
    PROVE  /\ DOMAIN Create(u, new) = DOMAIN u \cup new
           /\ Create(u, new) \in [DOMAIN u \cup new -> Flags]
           /\ \A o \in DOMAIN u : Create(u, new)[o] = u[o]
           /\ \A o \in new \ DOMAIN u :
                 /\ Create(u, new)[o].pending
                 /\ ~Create(u, new)[o].reserved /\ ~Create(u, new)[o].deleted
BY DEF Create, Flags

\* An output of ours: it knows its transaction.
LEMMA OursAre ==
    ASSUME NEW id, NEW o \in Ours(id)
    PROVE  /\ o = <<id, o[2]>> /\ o[1] = id
           /\ o[2] \in DOMAIN network[id].outs
           /\ OwnerOf(o) # Other
BY DEF Ours, OwnerOf

\* What TypeOK says of one transaction and one output.
LEMMA Types ==
    ASSUME TypeOK
    PROVE  /\ Len(network) \in Nat /\ TxIds \subseteq Nat \ {0}
           /\ \A id \in TxIds : /\ network[id] \in Tx
                                /\ network[id].ins \subseteq Outpoint
                                /\ network[id].outs \in Seq(Owner)
                                /\ network[id].knew.booked \subseteq Nat
                                /\ network[id].knew.taken \subseteq Nat
           /\ \A o \in DOMAIN utxos :
                 o[1] \in TxIds /\ o \in Ours(o[1]) /\ o \in Outpoint /\ utxos[o] \in Flags
           /\ promoted \subseteq txs /\ txs \subseteq TxIds /\ booked \subseteq TxIds
<1>1. network \in Seq(Tx)
  BY DEF TypeOK
<1>2. Len(network) \in Nat /\ TxIds \subseteq Nat \ {0}
  BY <1>1 DEF TxIds
<1>3. ASSUME NEW id \in TxIds
      PROVE  /\ network[id] \in Tx
             /\ network[id].ins \subseteq Outpoint
             /\ network[id].outs \in Seq(Owner)
             /\ network[id].knew.booked \subseteq Nat
             /\ network[id].knew.taken \subseteq Nat
  <2>1. network[id] \in Tx
    BY <1>1 DEF TxIds
  <2>2. QED
    BY <2>1 DEF Tx, Known
<1>4. ASSUME NEW o \in DOMAIN utxos
      PROVE  o[1] \in TxIds /\ o \in Ours(o[1]) /\ o \in Outpoint /\ utxos[o] \in Flags
  <2>1. PICK id \in TxIds : o \in Ours(id)
    BY DEF TypeOK
  <2>2. o = <<id, o[2]>> /\ o[1] = id /\ o[2] \in DOMAIN network[id].outs
    BY <2>1, OursAre
  <2>3. o[2] \in Nat \ {0}
    BY <2>2, <1>3
  <2>4. QED
    BY <1>2, <2>1, <2>2, <2>3 DEF TypeOK, Outpoint
<1>5. QED
  BY <1>2, <1>3, <1>4 DEF TypeOK

-----------------------------------------------------------------------------
(* What no step takes back.                                                *)

Grows ==
    /\ TxIds \subseteq TxIds'
    /\ \A i \in TxIds : network'[i] = network[i] /\ (Undone(i) => Undone(i)')
    /\ DOMAIN utxos \subseteq DOMAIN utxos'
    /\ txs \subseteq txs' /\ promoted \subseteq promoted' /\ booked \subseteq booked'

LEMMA GrowsMeans ==
    ASSUME Grows
    PROVE  /\ \A i \in TxIds : Ours(i)' = Ours(i)
           /\ \A o : o[1] \in TxIds => OwnerOf(o)' = OwnerOf(o)
           /\ \A o : Spenders(o)' \cap TxIds = Spenders(o)
           /\ \A o : SomeUndone(o) => SomeUndone(o)'
<1>1. \A i \in TxIds : Ours(i)' = Ours(i)
  BY DEF Grows, Ours
<1>2. \A o : o[1] \in TxIds => OwnerOf(o)' = OwnerOf(o)
  BY DEF Grows, OwnerOf
<1>3. \A o : Spenders(o)' \cap TxIds = Spenders(o)
  BY DEF Grows, Spenders
<1>4. ASSUME NEW o, SomeUndone(o) PROVE SomeUndone(o)'
  <2>1. PICK i \in Spenders(o) : Undone(i)
    BY <1>4 DEF SomeUndone
  <2>2. i \in TxIds
    BY DEF Spenders
  <2>3. i \in Spenders(o)' /\ Undone(i)'
    BY <1>3, <2>1, <2>2 DEF Grows
  <2>4. QED
    BY <2>3 DEF SomeUndone
<1>5. QED
  BY <1>1, <1>2, <1>3, <1>4

\* A transaction funded by its command's own goes on being so.
LEMMA OwnFundingKept ==
    ASSUME TypeOK, Grows, NEW ins, OwnFunding(ins)
    PROVE  OwnFunding(ins)'
<1>1. PICK o \in ins : ins = {o} /\ o[1] \in booked /\ o[2] = 1 /\ OwnerOf(o) \in Key
  BY DEF OwnFunding
<1>2. o[1] \in TxIds /\ o[1] \in booked'
  BY <1>1, Types DEF Grows
<1>3. OwnerOf(o)' = OwnerOf(o)
  BY <1>2, GrowsMeans
<1>4. QED
  BY <1>1, <1>2, <1>3 DEF OwnFunding

\* What is true of a command stays true while others work.
LEMMA CommandKept ==
    ASSUME TypeOK, Grows, NEW d \in Command, CommandOK(d)
    PROVE  CommandOK(d)'
<1>1. d.ins \subseteq DOMAIN utxos'
  BY DEF CommandOK, Grows
<1>2. Books(d)'
  BY DEF CommandOK, Books, Grows
<1>3. SpendsFresh(d)'
  <2> SUFFICES ASSUME d.at \notin {"bookFund", "book"},
                      NEW o \in d.ins, NEW i \in Spenders(o)'
               PROVE  /\ i \notin d.knew.booked
                      /\ i \in d.knew.taken => SomeUndone(o)'
    BY DEF SpendsFresh
  <2>1. CASE i \in TxIds
    <3>1. i \in Spenders(o)
      BY <2>1, GrowsMeans
    <3>2. QED
      BY <3>1, GrowsMeans DEF CommandOK, SpendsFresh
  <2>2. CASE i \notin TxIds
    BY <2>2, Types DEF CommandOK, Books
  <2>3. QED
    BY <2>1, <2>2
<1>4. TakesConfirmed(d)'
  BY OwnFundingKept DEF CommandOK, TakesConfirmed, Grows
<1>5. QED
  BY <1>1, <1>2, <1>3, <1>4 DEF CommandOK

\* What is true of the transactions stays true of them.
LEMMA NetworkKept ==
    ASSUME TypeOK, Grows, OutputsOK, NEW id \in TxIds
    PROVE  /\ \A o \in network'[id].ins : o \in DOMAIN utxos' /\ o[1] < id
           /\ \A i \in network'[id].knew.booked \cup network'[id].knew.taken : i < id
           /\ \/ \A o \in network'[id].ins : o[1] \in promoted'
              \/ OwnFunding(network[id].ins)'
           /\ \A i \in TxIds : \A o \in network'[i].ins \cap network'[id].ins :
                 /\ i \notin network'[id].knew.booked
                 /\ i \in network'[id].knew.taken => \E s \in Spenders(o)' : Undone(s)'
<1>1. network'[id] = network[id]
  BY DEF Grows
<1>2. \/ \A o \in network[id].ins : o[1] \in promoted'
      \/ OwnFunding(network[id].ins)'
  BY OwnFundingKept DEF OutputsOK, SpendsConfirmed, Grows
<1>3. ASSUME NEW i \in TxIds, NEW o \in network'[i].ins \cap network'[id].ins
      PROVE  /\ i \notin network'[id].knew.booked
             /\ i \in network'[id].knew.taken => \E s \in Spenders(o)' : Undone(s)'
  <2>1. o \in network[i].ins \cap network[id].ins
    BY <1>1 DEF Grows
  <2>2. SomeUndone(o) => SomeUndone(o)'
    BY GrowsMeans
  <2>3. QED
    BY <1>1, <2>1, <2>2 DEF OutputsOK, DoubleSpendsOverlap, SomeUndone
<1>4. QED
  BY <1>1, <1>2, <1>3 DEF OutputsOK, Chain, Grows

-----------------------------------------------------------------------------
(* Commands.                                                               *)

\* A command that has come further, with other inputs or a transaction.
Moved(d, at, ins) == [d EXCEPT !.at = at, !.ins = ins]
Sent(d, at, id) == [d EXCEPT !.at = at, !.id = id]

LEMMA MovedIs ==
    ASSUME NEW d \in Command, NEW ins \in SUBSET Outpoint,
           NEW at \in {"topup", "fund", "sendFund", "bookFund", "send", "book"}
    PROVE  LET e == Moved(d, at, ins) IN
           e \in Command /\ e.at = at /\ e.ins = ins /\ e.knew = d.knew /\ e.id = d.id
<1> DEFINE a == [d EXCEPT !.at = at]
           e == Moved(d, at, ins)
<1>1. DOMAIN d = {"at", "key", "ins", "knew", "id"}
  BY DEF Command
<1>2. a \in Command /\ a.at = at /\ a.ins = d.ins /\ a.knew = d.knew /\ a.id = d.id
  BY <1>1, Zenon DEF Command
<1>3. e = [a EXCEPT !.ins = ins] /\ DOMAIN a = {"at", "key", "ins", "knew", "id"}
  BY <1>1 DEF Moved
<1> HIDE DEF a, e
<1>4. e \in Command /\ e.at = a.at /\ e.ins = ins /\ e.knew = a.knew /\ e.id = a.id
  BY <1>2, <1>3, Zenon DEF Command
<1>5. QED
  BY <1>2, <1>4 DEF e

LEMMA SentIs ==
    ASSUME NEW d \in Command, NEW id, id \in Nat,
           NEW at \in {"topup", "fund", "sendFund", "bookFund", "send", "book"}
    PROVE  LET e == Sent(d, at, id) IN
           e \in Command /\ e.at = at /\ e.ins = d.ins /\ e.knew = d.knew /\ e.id = id
<1> DEFINE a == [d EXCEPT !.at = at]
           e == Sent(d, at, id)
<1>1. DOMAIN d = {"at", "key", "ins", "knew", "id"}
  BY DEF Command
<1>2. a \in Command /\ a.at = at /\ a.ins = d.ins /\ a.knew = d.knew /\ a.id = d.id
  BY <1>1, Zenon DEF Command
<1>3. e = [a EXCEPT !.id = id] /\ DOMAIN a = {"at", "key", "ins", "knew", "id"}
  BY <1>1 DEF Sent
<1> HIDE DEF a, e
<1>4. e \in Command /\ e.at = a.at /\ e.ins = a.ins /\ e.knew = a.knew /\ e.id = id
  BY <1>2, <1>3, Zenon DEF Command
<1>5. QED
  BY <1>2, <1>4 DEF e

LEMMA CommandType ==
    ASSUME TypeOK, NEW c \in Conn
    PROVE  /\ cmd[c] \in Command \cup {Idle}
           /\ cmd[c] # Idle => cmd[c] \in Command /\ cmd[c].ins \subseteq DOMAIN utxos
           /\ cmd[c].at # "idle" => cmd[c] # Idle
BY DEF TypeOK, Idle

\* What may be selected has been confirmed, and nothing booked spends it.
LEMMA SelectableAre ==
    ASSUME TypeOK, OutputsOK, NEW owner, NEW o \in Selectable(owner)
    PROVE  /\ o \in DOMAIN utxos /\ o \in Outpoint
           /\ OwnerOf(o) = owner /\ o[1] \in promoted
           /\ \A i \in Spenders(o) : i \notin booked /\ (i \in txs => SomeUndone(o))
<1>1. o \in DOMAIN utxos /\ o \in Outpoint /\ OwnerOf(o) = owner /\ o[1] \in promoted
  BY Types DEF Selectable, OutputsOK, PendingUnconfirmed
<1>2. ASSUME NEW i \in Spenders(o) PROVE i \notin booked /\ (i \in txs => SomeUndone(o))
  BY DEF Spenders, Selectable, OutputsOK, BookedReserved, TakenDeleted
<1>3. QED
  BY <1>1, <1>2

\* A step of one command that changes nothing else.
LEMMA OneCommand ==
    ASSUME FundingInv, NEW c \in Conn, NEW d,
           d = Idle \/ (d \in Command /\ CommandOK(d)),
           cmd' = [cmd EXCEPT ![c] = d],
           UNCHANGED <<network, fate, utxos, txs, promoted, booked>>
    PROVE  FundingInv'
<1>1. TypeOK'
  BY DEF FundingInv, TypeOK, CommandOK, TxIds, Ours
<1>2. Grows
  BY DEF Grows, TxIds, Undone
<1>3. Commands'
  <2> SUFFICES ASSUME NEW e \in Conn, cmd'[e] # Idle PROVE CommandOK(cmd[e])'
    BY DEF Commands
  <2>1. cmd \in [Conn -> Command \cup {Idle}] /\ TypeOK
    BY DEF FundingInv, TypeOK
  <2>2. CASE e = c
    <3>1. cmd'[e] = d /\ d \in Command /\ CommandOK(d)
      BY <2>1, <2>2
    <3>2. QED
      BY <2>1, <3>1, <1>2, CommandKept
  <2>3. CASE e # c
    <3>1. cmd'[e] = cmd[e] /\ cmd[e] \in Command /\ CommandOK(cmd[e])
      BY <2>1, <2>3 DEF FundingInv, Commands
    <3>2. QED
      BY <2>1, <3>1, <1>2, CommandKept
  <2>4. QED
    BY <2>2, <2>3
<1>4. OutputsOK'
  BY DEF FundingInv, OutputsOK, Chain, BookedReserved, TakenDeleted, UndoneDeleted,
         Recorded, PendingUnconfirmed, FlagsJustified, SpendsConfirmed, OwnFunding,
         DoubleSpendsOverlap, SomeUndone, Spenders, TxIds, Ours, OwnerOf, Undone
<1>5. QED
  BY <1>1, <1>3, <1>4 DEF FundingInv

LEMMA StartKeepsInv ==
    ASSUME FundingInv, NEW c \in Conn, NEW k \in Key, Start(c, k)
    PROVE  FundingInv'
<1> DEFINE known == [booked |-> booked, taken |-> {i \in txs : network[i].ins # {}}]
<1>1. PICK at \in {"send", "topup", "fund"}, ins \in SUBSET Selectable(k) :
         /\ cmd' = [cmd EXCEPT ![c] =
               [at |-> at, key |-> k, ins |-> ins, knew |-> known, id |-> 0]]
         /\ UNCHANGED <<network, fate, utxos, txs, promoted, booked>>
  BY DEF Start
<1> DEFINE d == [at |-> at, key |-> k, ins |-> ins, knew |-> known, id |-> 0]
<1>2. TypeOK /\ OutputsOK
  BY DEF FundingInv
<1>3. /\ known \in Known /\ known.booked = booked /\ known.taken \subseteq txs
  BY <1>2, Types DEF Known
<1>4. ins \in SUBSET Outpoint /\ ins \subseteq DOMAIN utxos
  BY <1>2, SelectableAre
<1> HIDE DEF known
<1>5. /\ d \in Command /\ d.at = at /\ d.ins = ins /\ d.knew = known
      /\ d.at \notin {"bookFund", "book"}
  BY <1>3, <1>4 DEF Command
<1> HIDE DEF d
<1>6. \A o \in ins : /\ o[1] \in promoted
                     /\ \A i \in Spenders(o) : i \notin booked /\ (i \in txs => SomeUndone(o))
  BY <1>2, SelectableAre
<1>7. CommandOK(d)
  BY <1>3, <1>4, <1>5, <1>6 DEF CommandOK, Books, SpendsFresh, TakesConfirmed
<1>8. QED
  BY <1>1, <1>5, <1>7, OneCommand DEF d

LEMMA SelectBitcoinKeepsInv ==
    ASSUME FundingInv, NEW c \in Conn, SelectBitcoin(c)
    PROVE  FundingInv'
<1> DEFINE d == cmd[c]
<1>1. TypeOK /\ OutputsOK /\ d \in Command /\ CommandOK(d) /\ d.at \in {"topup", "fund"}
  <2>1. TypeOK /\ OutputsOK /\ d.at \in {"topup", "fund"}
    BY DEF FundingInv, SelectBitcoin
  <2>2. d # Idle
    BY <2>1, CommandType
  <2>3. QED
    BY <2>1, <2>2, CommandType DEF FundingInv, Commands
<1>2. PICK more \in SUBSET Selectable(Bitcoin) :
          cmd' = [cmd EXCEPT
              ![c].at = IF @ = "fund" THEN "sendFund" ELSE "send",
              ![c].ins = @ \cup more]
  BY DEF SelectBitcoin
<1> DEFINE at == IF d.at = "fund" THEN "sendFund" ELSE "send"
           ins == d.ins \cup more
           new == Moved(d, at, ins)
<1>3. more \in SUBSET Outpoint /\ more \subseteq DOMAIN utxos
  BY <1>1, SelectableAre
<1>4. /\ at \in {"send", "sendFund"} /\ ins \in SUBSET Outpoint /\ d.id \in Nat
      /\ ins \subseteq DOMAIN utxos
  BY <1>1, <1>3 DEF Command, CommandOK
<1>5. cmd' = [cmd EXCEPT ![c] = new]
  <2>1. cmd' = [cmd EXCEPT ![c] = [d EXCEPT !.at = at, !.ins = ins]]
    BY <1>1, <1>2 DEF TypeOK
  <2>2. QED
    BY <2>1 DEF Moved
<1>6. new \in Command /\ new.at = at /\ new.ins = ins /\ new.knew = d.knew
  BY <1>1, <1>4, MovedIs
<1>7. CommandOK(new)
  <2> HIDE DEF d, ins, at, new
  <2>1. new.at = at /\ new.ins = ins /\ new.knew = d.knew
    BY <1>6
  <2>2. Books(new)
    BY <1>1, <1>4, <2>1 DEF CommandOK, Books
  <2>3. SpendsFresh(new)
    <3> SUFFICES ASSUME NEW o \in ins, NEW i \in Spenders(o)
                 PROVE  /\ i \notin d.knew.booked
                        /\ i \in d.knew.taken => SomeUndone(o)
      BY <2>1 DEF SpendsFresh
    <3>1. CASE o \in d.ins
      BY <3>1, <1>1 DEF CommandOK, SpendsFresh
    <3>2. CASE o \in more
      BY <3>2, <1>1, SelectableAre DEF CommandOK, Books
    <3>3. QED
      BY <3>1, <3>2 DEF ins
  <2>4. \A o \in ins : o[1] \in promoted
    BY <1>1, SelectableAre DEF ins, CommandOK, TakesConfirmed
  <2>5. QED
    BY <1>4, <2>1, <2>2, <2>3, <2>4 DEF CommandOK, TakesConfirmed
<1>8. UNCHANGED <<network, fate, utxos, txs, promoted, booked>>
  BY DEF SelectBitcoin
<1> HIDE DEF new
<1>9. QED
  BY <1>5, <1>6, <1>7, <1>8, OneCommand

LEMMA FailKeepsInv ==
    ASSUME FundingInv, NEW c \in Conn, Fail(c)
    PROVE  FundingInv'
BY OneCommand DEF Fail

-----------------------------------------------------------------------------
(* A transaction is broadcast.                                             *)

Appended(tx) ==
    /\ network' = Append(network, tx) /\ fate' = Append(fate, "new")
    /\ UNCHANGED <<utxos, txs, promoted, booked>>

LEMMA AppendGrows ==
    ASSUME TypeOK, NEW tx \in Tx, Appended(tx), NEW n, n = Len(network) + 1
    PROVE  /\ n \notin TxIds /\ n \in Nat /\ TxIds' = TxIds \cup {n}
           /\ \A i \in TxIds : i < n
           /\ network' \in Seq(Tx) /\ network'[n] = tx
           /\ fate' \in Seq({"new", "final", "off", "back"}) /\ Len(fate') = Len(network')
           /\ \A i \in TxIds : Undone(i)' <=> Undone(i)
           /\ ~Undone(n)'
           /\ Grows
<1>1. network \in Seq(Tx) /\ fate \in Seq({"new", "final", "off", "back"})
  BY DEF TypeOK
<1>2. Len(network) \in Nat /\ Len(fate) = Len(network) /\ TxIds = 1..Len(network)
  BY <1>1 DEF TypeOK, TxIds
<1>3. /\ network' \in Seq(Tx) /\ Len(network') = n /\ network'[n] = tx
      /\ \A i \in TxIds : network'[i] = network[i]
  BY <1>1, <1>2 DEF Appended
<1>4. /\ fate' \in Seq({"new", "final", "off", "back"}) /\ Len(fate') = n
      /\ fate'[n] = "new" /\ \A i \in TxIds : fate'[i] = fate[i]
  BY <1>1, <1>2 DEF Appended
<1>5. n \notin TxIds /\ TxIds' = TxIds \cup {n} /\ \A i \in TxIds : i < n
  BY <1>2, <1>3 DEF TxIds
<1>6. ~Undone(n)' /\ \A i \in TxIds : Undone(i)' <=> Undone(i)
  BY <1>4 DEF Undone
<1>7. Grows
  BY <1>3, <1>5, <1>6 DEF Grows, Appended
<1>8. QED
  BY <1>2, <1>3, <1>4, <1>5, <1>6, <1>7

\* A transaction a command may broadcast.
Sendable(tx) ==
    /\ tx.ins \subseteq DOMAIN utxos
    /\ tx.knew.booked \subseteq TxIds /\ tx.knew.taken \subseteq TxIds
    /\ (\A o \in tx.ins : o[1] \in promoted) \/ OwnFunding(tx.ins)
    /\ \A o \in tx.ins : \A i \in Spenders(o) :
          i \notin tx.knew.booked /\ (i \in tx.knew.taken => SomeUndone(o))

LEMMA AppendKeepsOutputs ==
    ASSUME TypeOK, OutputsOK, NEW tx \in Tx, Sendable(tx), Appended(tx)
    PROVE  OutputsOK'
<1>0. PICK n : n = Len(network) + 1
  OBVIOUS
<1>1. /\ n \notin TxIds /\ n \in Nat /\ TxIds' = TxIds \cup {n}
      /\ \A i \in TxIds : i < n
      /\ network'[n] = tx /\ Grows /\ ~Undone(n)'
      /\ \A i \in TxIds : Undone(i)' <=> Undone(i)
  BY <1>0, AppendGrows
<1>2. /\ UNCHANGED <<utxos, txs, promoted, booked>>
      /\ \A i \in TxIds : network'[i] = network[i]
  BY <1>1 DEF Appended, Grows
<1>3. /\ \A o \in DOMAIN utxos : o[1] \in TxIds
      /\ promoted \subseteq txs /\ txs \subseteq TxIds /\ booked \subseteq TxIds
      /\ \A i \in TxIds : n # i /\ ~(n < i)
  BY <1>1, Types
<1>4. /\ \A i \in TxIds : Ours(i)' = Ours(i)
      /\ \A o : Spenders(o)' \cap TxIds = Spenders(o)
      /\ \A o : SomeUndone(o) => SomeUndone(o)'
  BY <1>1, GrowsMeans
<1>5. \A o : SomeUndone(o)' => SomeUndone(o)
  BY <1>1, <1>4 DEF SomeUndone, Spenders
<1>6. Chain'
  <2>1. \A o \in tx.ins : o \in DOMAIN utxos' /\ o[1] < n
    BY <1>1, <1>2, <1>3 DEF Sendable
  <2>2. \A i \in tx.knew.booked \cup tx.knew.taken : i < n
    BY <1>1 DEF Sendable
  <2>3. ASSUME NEW i \in TxIds'
        PROVE  /\ \A o \in network'[i].ins : o \in DOMAIN utxos' /\ o[1] < i
               /\ \A k \in network'[i].knew.booked \cup network'[i].knew.taken : k < i
    <3>1. CASE i = n
      BY <3>1, <1>1, <2>1, <2>2
    <3>2. CASE i \in TxIds
      BY <3>2, <1>1, NetworkKept
    <3>3. QED
      BY <3>1, <3>2, <1>1
  <2>4. QED
    BY <2>3 DEF Chain
<1>7. BookedReserved' /\ TakenDeleted' /\ Recorded' /\ PendingUnconfirmed'
  BY <1>2, <1>3, <1>4 DEF OutputsOK, BookedReserved, TakenDeleted, Recorded, PendingUnconfirmed
<1>8. UndoneDeleted'
  <2>1. SUFFICES ASSUME NEW i \in TxIds', Undone(i)'
                 PROVE  /\ i \in txs'
                        /\ \A o \in Ours(i)' : utxos'[o].deleted \/ SomeUndone(o)'
    BY DEF UndoneDeleted
  <2>2. i \in TxIds /\ Undone(i)
    BY <1>1, <2>1
  <2>3. QED
    BY <2>2, <1>2, <1>4 DEF OutputsOK, UndoneDeleted
<1>9. FlagsJustified'
  BY <1>1, <1>2, <1>3, <1>4 DEF OutputsOK, FlagsJustified
<1>10. SpendsConfirmed'
  <2>1. (\A o \in tx.ins : o[1] \in promoted') \/ OwnFunding(tx.ins)'
    BY <1>1, <1>2, OwnFundingKept DEF Sendable
  <2>2. ASSUME NEW i \in TxIds'
        PROVE  \/ \A o \in network'[i].ins : o[1] \in promoted'
               \/ OwnFunding(network[i].ins)'
    <3>1. CASE i = n
      BY <3>1, <1>1, <2>1
    <3>2. CASE i \in TxIds
      BY <3>2, <1>1, NetworkKept
    <3>3. QED
      BY <3>1, <3>2, <1>1
  <2>3. QED
    BY <2>2 DEF SpendsConfirmed
<1>11. DoubleSpendsOverlap'
  <2>1. SUFFICES ASSUME NEW i \in TxIds', NEW j \in TxIds',
                        NEW o \in network'[i].ins \cap network'[j].ins
                 PROVE  /\ i \notin network'[j].knew.booked
                        /\ i \in network'[j].knew.taken =>
                              \E s \in Spenders(o)' : Undone(s)'
    BY DEF DoubleSpendsOverlap
  <2>2. CASE i \in TxIds /\ j \in TxIds
    BY <2>2, <1>1, NetworkKept
  <2>3. CASE i = n /\ j \in TxIds
    <3>1. \A k \in network'[j].knew.booked \cup network'[j].knew.taken : k < j
      BY <2>3, <1>1, NetworkKept
    <3>2. QED
      BY <3>1, <2>3, <1>3
  <2>4. CASE i = n /\ j = n
    BY <2>4, <1>1 DEF Sendable
  <2>5. CASE i \in TxIds /\ j = n
    <3>1. o \in tx.ins /\ i \in Spenders(o)
      BY <2>5, <1>1, <1>2 DEF Spenders
    <3>2. /\ i \notin tx.knew.booked
          /\ i \in tx.knew.taken => SomeUndone(o)'
      BY <3>1, <1>4 DEF Sendable
    <3>3. QED
      BY <3>2, <2>5, <1>1 DEF SomeUndone
  <2>6. QED
    BY <2>2, <2>3, <2>4, <2>5, <1>1
<1>12. QED
  BY <1>6, <1>7, <1>8, <1>9, <1>10, <1>11 DEF OutputsOK

\* Whatever else a step does, every command is left as it is, or done, or
\* replaced by one that is in order.
LEMMA CommandsKept ==
    ASSUME TypeOK, Commands, Grows, NEW d, d \in Command => CommandOK(d)',
           cmd' \in [Conn -> Command \cup {Idle}],
           \A c \in Conn : cmd'[c] # Idle => cmd'[c] = cmd[c] \/ cmd'[c] = d
    PROVE  /\ Commands'
           /\ \A c \in Conn : cmd'[c] # Idle => cmd'[c].ins \subseteq DOMAIN utxos'
<1>1. ASSUME NEW c \in Conn, cmd'[c] # Idle
      PROVE  CommandOK(cmd[c])' /\ cmd'[c].ins \subseteq DOMAIN utxos'
  <2>1. PICK e \in Command : e = cmd'[c]
    BY <1>1
  <2>2. CommandOK(e)'
    <3>1. CASE cmd'[c] = cmd[c]
      <4>1. CommandOK(e)
        BY <3>1, <1>1, <2>1 DEF Commands
      <4>2. QED
        BY <4>1, CommandKept
    <3>2. CASE cmd'[c] = d
      BY <3>2, <2>1
    <3>3. QED
      BY <3>1, <3>2, <1>1
  <2>3. e.ins \subseteq DOMAIN utxos'
    BY <2>2 DEF CommandOK
  <2>4. QED
    BY <2>1, <2>2, <2>3
<1>2. QED
  BY <1>1 DEF Commands

LEMMA AppendKeepsInv ==
    ASSUME FundingInv, NEW tx \in Tx, Sendable(tx), Appended(tx),
           NEW d, d \in Command => CommandOK(d)',
           cmd' \in [Conn -> Command \cup {Idle}],
           \A c \in Conn : cmd'[c] # Idle => cmd'[c] = cmd[c] \/ cmd'[c] = d
    PROVE  FundingInv'
<1>1. TypeOK /\ OutputsOK /\ Commands
  BY DEF FundingInv
<1>2. PICK n : n = Len(network) + 1
  OBVIOUS
<1>3. /\ Grows /\ TxIds' = TxIds \cup {n} /\ network' \in Seq(Tx)
      /\ fate' \in Seq({"new", "final", "off", "back"}) /\ Len(fate') = Len(network')
  BY <1>1, <1>2, AppendGrows
<1>4. Commands' /\ \A c \in Conn : cmd'[c] # Idle => cmd'[c].ins \subseteq DOMAIN utxos'
  BY <1>1, <1>3, CommandsKept
<1>5. TypeOK'
  <2>1. DOMAIN utxos' \subseteq UNION {Ours(id)' : id \in TxIds'}
    BY <1>1, <1>3, GrowsMeans DEF TypeOK, Appended
  <2>2. utxos' \in [DOMAIN utxos' -> Flags]
    BY <1>1 DEF TypeOK, Appended
  <2>3. txs' \subseteq TxIds' /\ promoted' \subseteq txs' /\ booked' \subseteq TxIds'
    BY <1>1, <1>3 DEF TypeOK, Appended
  <2>4. QED
    BY <1>3, <1>4, <2>1, <2>2, <2>3 DEF TypeOK
<1>6. OutputsOK'
  BY <1>1, AppendKeepsOutputs
<1>7. QED
  BY <1>4, <1>5, <1>6 DEF FundingInv

LEMMA ReceiveKeepsInv ==
    ASSUME FundingInv, NEW owner \in Key \cup {Bitcoin}, Receive(owner)
    PROVE  FundingInv'
<1> DEFINE knew == [booked |-> {}, taken |-> {}]
           tx == [ins |-> {}, outs |-> <<owner>>, knew |-> knew]
<1>1. tx \in Tx /\ tx.ins = {} /\ tx.knew.booked = {} /\ tx.knew.taken = {}
  BY DEF Tx, Known, Owner
<1>2. Appended(tx)
  BY DEF Receive, Appended
<1> HIDE DEF tx
<1>3. Sendable(tx)
  BY <1>1 DEF Sendable
<1>4. cmd' \in [Conn -> Command \cup {Idle}] /\ cmd' = cmd
  BY DEF FundingInv, TypeOK, Receive
<1>5. PICK d : d \notin Command
  <2>1. Idle.at \notin {"topup", "fund", "sendFund", "bookFund", "send", "book"}
    BY DEF Idle
  <2>2. Idle \notin Command
    BY <2>1 DEF Command
  <2>3. QED
    BY <2>2
<1>6. QED
  BY <1>1, <1>2, <1>3, <1>4, <1>5, AppendKeepsInv

LEMMA BroadcastKeepsInv ==
    ASSUME FundingInv, NEW c \in Conn, Broadcast(c)
    PROVE  FundingInv'
<1> DEFINE d == cmd[c]
           at == IF d.at = "sendFund" THEN "bookFund" ELSE "book"
<1>1. TypeOK /\ OutputsOK /\ d \in Command /\ CommandOK(d) /\ d.at \in {"send", "sendFund"}
  <2>1. TypeOK /\ OutputsOK /\ d.at \in {"send", "sendFund"}
    BY DEF FundingInv, Broadcast
  <2>2. d # Idle
    BY <2>1, CommandType
  <2>3. QED
    BY <2>1, <2>2, CommandType DEF FundingInv, Commands
<1>2. PICK n : n = Len(network) + 1
  OBVIOUS
<1>3. PICK change \in {<<>>, <<Bitcoin>>} :
         network' = Append(network,
              [ins |-> d.ins, outs |-> <<Pays(c)>> \o change, knew |-> d.knew])
  BY DEF Broadcast
<1> DEFINE outs == <<Pays(c)>> \o change
           tx == [ins |-> d.ins, outs |-> outs, knew |-> d.knew]
<1>4. /\ Pays(c) \in Owner
      /\ at = "bookFund" => Pays(c) \in Key
  BY <1>1 DEF Pays, Owner, Command
<1>5. outs \in Seq(Owner) /\ 1 \in DOMAIN outs /\ outs[1] = Pays(c)
  <2>1. Bitcoin \in Owner /\ <<Pays(c)>> \in Seq(Owner)
    BY <1>4 DEF Owner
  <2>2. change \in Seq(Owner)
    <3>1. <<Bitcoin>> \in Seq(Owner) /\ <<>> \in Seq(Owner)
      BY <2>1
    <3>2. QED
      BY <3>1
  <2>3. QED
    BY <2>1, <2>2
<1> HIDE DEF outs
<1>6. tx \in Tx /\ tx.ins = d.ins /\ tx.knew = d.knew /\ tx.outs = outs
  BY <1>1, <1>5 DEF Tx, Command
<1>7. Appended(tx)
  BY <1>3 DEF Broadcast, Appended, outs
<1> HIDE DEF tx
<1>8. Sendable(tx)
  <2>1. d.ins \subseteq DOMAIN utxos
    BY <1>1 DEF CommandOK
  <2>2. d.knew.booked \subseteq TxIds /\ d.knew.taken \subseteq TxIds
    BY <1>1, Types DEF CommandOK, Books
  <2>3. (\A o \in d.ins : o[1] \in promoted) \/ OwnFunding(d.ins)
    BY <1>1 DEF CommandOK, TakesConfirmed
  <2>4. \A o \in d.ins : \A i \in Spenders(o) :
          i \notin d.knew.booked /\ (i \in d.knew.taken => SomeUndone(o))
    BY <1>1 DEF CommandOK, SpendsFresh
  <2>5. QED
    BY <1>6, <2>1, <2>2, <2>3, <2>4 DEF Sendable
<1>9. /\ n \in Nat /\ n \in TxIds' /\ \A i \in TxIds : i < n
      /\ network'[n] = tx /\ Grows
  BY <1>1, <1>2, <1>6, <1>7, AppendGrows
<1>10. PICK e : e = Sent(d, at, Len(network) + 1)
  OBVIOUS
<1>11. e \in Command /\ e.at = at /\ e.ins = d.ins /\ e.knew = d.knew /\ e.id = n
  <2>1. /\ at \in {"topup", "fund", "sendFund", "bookFund", "send", "book"}
        /\ d \in Command /\ n \in Nat
    BY <1>1, <1>9
  <2>2. e = Sent(d, at, n)
    BY <1>2, <1>10
  <2> HIDE DEF d, at
  <2>3. /\ Sent(d, at, n) \in Command /\ Sent(d, at, n).at = at
        /\ Sent(d, at, n).ins = d.ins /\ Sent(d, at, n).knew = d.knew
        /\ Sent(d, at, n).id = n
    BY <2>1, SentIs
  <2>4. QED
    BY <2>2, <2>3
<1>12. CommandOK(e)'
  <2>1. Books(e)'
    <3>1. d.knew.booked \subseteq booked /\ d.knew.taken \subseteq txs
      BY <1>1 DEF CommandOK, Books
    <3>2. \A i \in d.knew.booked \cup d.knew.taken : i < n
      BY <3>1, <1>1, <1>9, Types
    <3>3. e.at = "bookFund" =>
             1 \in DOMAIN network'[e.id].outs /\ network'[e.id].outs[1] \in Key
      BY <1>4, <1>5, <1>6, <1>9, <1>11
    <3>4. QED
      BY <3>1, <3>2, <3>3, <1>9, <1>11 DEF Books, Grows
  <2>2. TakesConfirmed(e)'
    <3>1. CASE \A o \in d.ins : o[1] \in promoted
      BY <3>1, <1>9, <1>11 DEF TakesConfirmed, Grows
    <3>2. CASE d.at = "send" /\ OwnFunding(d.ins)
      <4>1. OwnFunding(e.ins)'
        <5>1. OwnFunding(e.ins)
          BY <3>2, <1>11
        <5>2. QED
          BY <5>1, <1>1, <1>9, OwnFundingKept
      <4>2. e.at = "book"
        BY <3>2, <1>11
      <4>3. QED
        BY <4>1, <4>2 DEF TakesConfirmed
    <3>3. QED
      BY <3>1, <3>2, <1>1 DEF CommandOK, TakesConfirmed
  <2>3. e.ins \subseteq DOMAIN utxos' /\ SpendsFresh(e)'
    BY <1>1, <1>9, <1>11 DEF CommandOK, Grows, SpendsFresh
  <2>4. QED
    BY <2>1, <2>2, <2>3 DEF CommandOK
<1>13. cmd' = [cmd EXCEPT ![c] = e] \/ cmd' = [cmd EXCEPT ![c] = Idle]
  <2>1. CASE cmd' = [cmd EXCEPT ![c] = Idle]
    BY <2>1
  <2>2. CASE cmd' = [cmd EXCEPT ![c].at = IF @ = "sendFund" THEN "bookFund" ELSE "book",
                                ![c].id = Len(network) + 1]
    <3>1. cmd' = [cmd EXCEPT ![c] = [d EXCEPT !.at = at, !.id = Len(network) + 1]]
      BY <2>2, <1>1 DEF TypeOK
    <3>2. QED
      BY <3>1, <1>10 DEF Sent
  <2>3. QED
    BY <2>1, <2>2 DEF Broadcast
<1>14. cmd \in [Conn -> Command \cup {Idle}]
  BY <1>1 DEF TypeOK
<1> HIDE DEF d
<1>15. /\ cmd' \in [Conn -> Command \cup {Idle}]
       /\ \A b \in Conn : cmd'[b] # Idle => cmd'[b] = cmd[b] \/ cmd'[b] = e
  BY <1>11, <1>13, <1>14
<1>16. QED
  BY <1>6, <1>7, <1>8, <1>12, <1>15, AppendKeepsInv

-----------------------------------------------------------------------------
(* A transaction is processed.                                             *)

\* A command reserves the inputs of its transaction, and records its outputs.
LEMMA BookedFlags ==
    ASSUME TypeOK, NEW id
    PROVE  LET u == Create(Reserve(utxos, network[id].ins), Ours(id)) IN
           /\ DOMAIN u = DOMAIN utxos \cup Ours(id) /\ u \in [DOMAIN u -> Flags]
           /\ \A o \in DOMAIN utxos :
                 /\ u[o].pending = utxos[o].pending /\ u[o].deleted = utxos[o].deleted
                 /\ u[o].reserved <=> utxos[o].reserved \/ o \in network[id].ins
           /\ \A o \in Ours(id) \ DOMAIN utxos :
                 u[o].pending /\ ~u[o].reserved /\ ~u[o].deleted
<1> DEFINE v == Reserve(utxos, network[id].ins)
<1>1. utxos \in [DOMAIN utxos -> Flags]
  BY DEF TypeOK
<1>2. /\ DOMAIN v = DOMAIN utxos /\ v \in [DOMAIN v -> Flags]
      /\ \A o \in DOMAIN utxos :
            /\ v[o].pending = utxos[o].pending /\ v[o].deleted = utxos[o].deleted
            /\ v[o].reserved <=> utxos[o].reserved \/ o \in network[id].ins
  BY <1>1, FlagsOfSet
<1> HIDE DEF v
<1> DEFINE u == Create(v, Ours(id))
<1>3. /\ DOMAIN u = DOMAIN v \cup Ours(id) /\ u \in [DOMAIN u -> Flags]
      /\ \A o \in DOMAIN v : u[o] = v[o]
      /\ \A o \in Ours(id) \ DOMAIN v : u[o].pending /\ ~u[o].reserved /\ ~u[o].deleted
  <2>1. v \in [DOMAIN v -> Flags]
    BY <1>2
  <2>2. DOMAIN u = DOMAIN v \cup Ours(id)
    BY <2>1, CreateAdds
  <2>3. u \in [DOMAIN v \cup Ours(id) -> Flags]
    BY <2>1, CreateAdds
  <2>4. \A o \in DOMAIN v : u[o] = v[o]
    BY <2>1, CreateAdds
  <2>5. /\ \A o \in Ours(id) \ DOMAIN v : u[o].pending
        /\ \A o \in Ours(id) \ DOMAIN v : ~u[o].reserved
        /\ \A o \in Ours(id) \ DOMAIN v : ~u[o].deleted
    <3>1. \A o \in Ours(id) \ DOMAIN v : u[o].pending
      BY <2>1, CreateAdds
    <3>2. \A o \in Ours(id) \ DOMAIN v : ~u[o].reserved
      BY <2>1, CreateAdds
    <3>3. \A o \in Ours(id) \ DOMAIN v : ~u[o].deleted
      BY <2>1, CreateAdds
    <3>4. QED
      BY <3>1, <3>2, <3>3
  <2> HIDE DEF u
  <2>6. QED
    BY <2>2, <2>3, <2>4, <2>5
<1> HIDE DEF u
<1>4. /\ DOMAIN u = DOMAIN utxos \cup Ours(id) /\ u \in [DOMAIN u -> Flags]
      /\ \A o \in DOMAIN utxos :
            /\ u[o].pending = utxos[o].pending /\ u[o].deleted = utxos[o].deleted
            /\ u[o].reserved <=> utxos[o].reserved \/ o \in network[id].ins
      /\ \A o \in Ours(id) \ DOMAIN utxos :
            u[o].pending /\ ~u[o].reserved /\ ~u[o].deleted
  BY <1>2, <1>3
<1>5. QED
  BY <1>4 DEF u, v

\* The listener deletes the inputs, and records the outputs.
LEMMA TakenFlags ==
    ASSUME TypeOK, NEW id
    PROVE  LET u == Create(Delete(utxos, network[id].ins), Ours(id)) IN
           /\ DOMAIN u = DOMAIN utxos \cup Ours(id) /\ u \in [DOMAIN u -> Flags]
           /\ \A o \in DOMAIN utxos :
                 /\ u[o].pending = utxos[o].pending /\ u[o].reserved = utxos[o].reserved
                 /\ u[o].deleted <=> utxos[o].deleted \/ o \in network[id].ins
           /\ \A o \in Ours(id) \ DOMAIN utxos :
                 u[o].pending /\ ~u[o].reserved /\ ~u[o].deleted
<1> DEFINE v == Delete(utxos, network[id].ins)
<1>1. utxos \in [DOMAIN utxos -> Flags]
  BY DEF TypeOK
<1>2. /\ DOMAIN v = DOMAIN utxos /\ v \in [DOMAIN v -> Flags]
      /\ \A o \in DOMAIN utxos :
            /\ v[o].pending = utxos[o].pending /\ v[o].reserved = utxos[o].reserved
            /\ v[o].deleted <=> utxos[o].deleted \/ o \in network[id].ins
  BY <1>1, FlagsOfSet
<1> HIDE DEF v
<1> DEFINE u == Create(v, Ours(id))
<1>3. /\ DOMAIN u = DOMAIN v \cup Ours(id) /\ u \in [DOMAIN u -> Flags]
      /\ \A o \in DOMAIN v : u[o] = v[o]
      /\ \A o \in Ours(id) \ DOMAIN v : u[o].pending /\ ~u[o].reserved /\ ~u[o].deleted
  <2>1. v \in [DOMAIN v -> Flags]
    BY <1>2
  <2>2. DOMAIN u = DOMAIN v \cup Ours(id)
    BY <2>1, CreateAdds
  <2>3. u \in [DOMAIN v \cup Ours(id) -> Flags]
    BY <2>1, CreateAdds
  <2>4. \A o \in DOMAIN v : u[o] = v[o]
    BY <2>1, CreateAdds
  <2>5. /\ \A o \in Ours(id) \ DOMAIN v : u[o].pending
        /\ \A o \in Ours(id) \ DOMAIN v : ~u[o].reserved
        /\ \A o \in Ours(id) \ DOMAIN v : ~u[o].deleted
    <3>1. \A o \in Ours(id) \ DOMAIN v : u[o].pending
      BY <2>1, CreateAdds
    <3>2. \A o \in Ours(id) \ DOMAIN v : ~u[o].reserved
      BY <2>1, CreateAdds
    <3>3. \A o \in Ours(id) \ DOMAIN v : ~u[o].deleted
      BY <2>1, CreateAdds
    <3>4. QED
      BY <3>1, <3>2, <3>3
  <2> HIDE DEF u
  <2>6. QED
    BY <2>2, <2>3, <2>4, <2>5
<1> HIDE DEF u
<1>4. /\ DOMAIN u = DOMAIN utxos \cup Ours(id) /\ u \in [DOMAIN u -> Flags]
      /\ \A o \in DOMAIN utxos :
            /\ u[o].pending = utxos[o].pending /\ u[o].reserved = utxos[o].reserved
            /\ u[o].deleted <=> utxos[o].deleted \/ o \in network[id].ins
      /\ \A o \in Ours(id) \ DOMAIN utxos :
            u[o].pending /\ ~u[o].reserved /\ ~u[o].deleted
  BY <1>2, <1>3
<1>5. QED
  BY <1>4 DEF u, v

\* A revert undeletes the inputs and deletes the outputs, whose inputs come
\* before them.
LEMMA RevertedFlags ==
    ASSUME TypeOK, NEW id, NEW u, u = RevertUTXOs(id)
    PROVE  /\ DOMAIN u = DOMAIN utxos /\ u \in [DOMAIN u -> Flags]
           /\ \A o \in DOMAIN utxos :
                 /\ u[o].pending = utxos[o].pending /\ u[o].reserved = utxos[o].reserved
                 /\ u[o].deleted <=> \/ utxos[o].deleted /\ o \notin network[id].ins
                                     \/ o \in Ours(id)
<1>1. PICK v : v = Undelete(utxos, network[id].ins)
  OBVIOUS
<1>2. /\ DOMAIN v = DOMAIN utxos /\ v \in [DOMAIN v -> Flags]
      /\ \A o \in DOMAIN utxos :
            /\ v[o].pending = utxos[o].pending /\ v[o].reserved = utxos[o].reserved
            /\ v[o].deleted <=> utxos[o].deleted /\ o \notin network[id].ins
  <2>1. utxos \in [DOMAIN utxos -> Flags]
    BY DEF TypeOK
  <2>2. QED
    BY <1>1, <2>1, FlagsOfSet
<1>3. u = Delete(v, Ours(id))
  BY <1>1 DEF RevertUTXOs
<1>4. /\ DOMAIN u = DOMAIN v /\ u \in [DOMAIN u -> Flags]
      /\ \A o \in DOMAIN v :
            /\ u[o].pending = v[o].pending /\ u[o].reserved = v[o].reserved
            /\ u[o].deleted <=> v[o].deleted \/ o \in Ours(id)
  BY <1>2, <1>3, FlagsOfSet
<1>5. QED
  BY <1>2, <1>4

\* What follows when nothing is broadcast.
LEMMA SameNetwork ==
    ASSUME network' = network
    PROVE  /\ TxIds' = TxIds
           /\ \A o : Spenders(o)' = Spenders(o) /\ OwnerOf(o)' = OwnerOf(o)
           /\ \A i : Ours(i)' = Ours(i)
BY DEF TxIds, Spenders, OwnerOf, Ours

LEMMA NetworkPartsKept ==
    ASSUME TypeOK, OutputsOK, Grows, network' = network
    PROVE  Chain' /\ SpendsConfirmed' /\ DoubleSpendsOverlap'
<1>1. TxIds' = TxIds
  BY SameNetwork
<1>2. \A id \in TxIds :
         /\ \A o \in network'[id].ins : o \in DOMAIN utxos' /\ o[1] < id
         /\ \A i \in network'[id].knew.booked \cup network'[id].knew.taken : i < id
         /\ \/ \A o \in network'[id].ins : o[1] \in promoted'
            \/ OwnFunding(network[id].ins)'
         /\ \A i \in TxIds : \A o \in network'[i].ins \cap network'[id].ins :
               /\ i \notin network'[id].knew.booked
               /\ i \in network'[id].knew.taken => \E s \in Spenders(o)' : Undone(s)'
  BY NetworkKept
<1>3. QED
  BY <1>1, <1>2 DEF Chain, SpendsConfirmed, DoubleSpendsOverlap

\* The type invariant, for a step that broadcasts nothing.
LEMMA TypesKept ==
    ASSUME TypeOK, network' = network,
           DOMAIN utxos' \subseteq UNION {Ours(id) : id \in TxIds},
           utxos' \in [DOMAIN utxos' -> Flags],
           fate' \in Seq({"new", "final", "off", "back"}), Len(fate') = Len(fate),
           promoted' \subseteq txs', txs' \subseteq TxIds, booked' \subseteq TxIds,
           cmd' \in [Conn -> Command \cup {Idle}],
           \A c \in Conn : cmd'[c] # Idle => cmd'[c].ins \subseteq DOMAIN utxos'
    PROVE  TypeOK'
<1>1. TxIds' = TxIds /\ \A i : Ours(i)' = Ours(i)
  BY SameNetwork
<1>2. DOMAIN utxos' \subseteq UNION {Ours(id)' : id \in TxIds'}
  BY <1>1
<1>3. QED
  BY <1>1, <1>2 DEF TypeOK

LEMMA BookKeepsInv ==
    ASSUME FundingInv, NEW c \in Conn, Book(c)
    PROVE  FundingInv'
<1> DEFINE d == cmd[c]
<1>1. /\ TypeOK /\ OutputsOK /\ Commands /\ d \in Command /\ CommandOK(d)
      /\ d.at \in {"bookFund", "book"}
  <2>1. TypeOK /\ OutputsOK /\ Commands /\ d.at \in {"bookFund", "book"}
    BY DEF FundingInv, Book
  <2>2. d # Idle
    BY <2>1, CommandType
  <2>3. QED
    BY <2>1, <2>2, CommandType DEF Commands
<1>2. PICK id \in TxIds : id = d.id
  BY <1>1 DEF CommandOK, Books
<1> DEFINE v == Reserve(utxos, network[id].ins)
<1>3. /\ UNCHANGED <<network, fate, txs, promoted>>
      /\ utxos' = Create(v, Ours(id)) /\ booked' = booked \cup {id}
  BY <1>2 DEF Book, ProcessUTXOs
<1>4. /\ DOMAIN utxos' = DOMAIN utxos \cup Ours(id) /\ utxos' \in [DOMAIN utxos' -> Flags]
      /\ \A o \in DOMAIN utxos :
            /\ utxos'[o].pending = utxos[o].pending /\ utxos'[o].deleted = utxos[o].deleted
            /\ utxos'[o].reserved <=> utxos[o].reserved \/ o \in network[id].ins
      /\ \A o \in Ours(id) \ DOMAIN utxos :
            utxos'[o].pending /\ ~utxos'[o].reserved /\ ~utxos'[o].deleted
  BY <1>1, <1>3, BookedFlags
<1>5. /\ TxIds' = TxIds
      /\ \A o : Spenders(o)' = Spenders(o) /\ OwnerOf(o)' = OwnerOf(o)
      /\ \A i : Ours(i)' = Ours(i) /\ (Undone(i)' <=> Undone(i))
      /\ \A o : SomeUndone(o)' <=> SomeUndone(o)
  BY <1>3, SameNetwork DEF Undone, SomeUndone
<1>6. Grows
  BY <1>3, <1>4, <1>5 DEF Grows
<1>7. PICK e : e = IF d.at = "book" THEN Idle ELSE Moved(d, "send", {<<id, 1>>})
  OBVIOUS
<1>8. d.at = "bookFund" =>
          /\ <<id, 1>> \in Outpoint /\ <<id, 1>> \in Ours(id) /\ OwnerOf(<<id, 1>>) \in Key
          /\ e \in Command /\ e.at = "send" /\ e.ins = {<<id, 1>>} /\ e.knew = d.knew
  <2> SUFFICES ASSUME d.at = "bookFund"
               PROVE  /\ <<id, 1>> \in Outpoint /\ <<id, 1>> \in Ours(id)
                      /\ OwnerOf(<<id, 1>>) \in Key
                      /\ e \in Command /\ e.at = "send" /\ e.ins = {<<id, 1>>}
                      /\ e.knew = d.knew
    OBVIOUS
  <2>1. 1 \in DOMAIN network[id].outs /\ network[id].outs[1] \in Key
    BY <1>1, <1>2 DEF CommandOK, Books
  <2>2. network[id].outs[1] # Other
    BY <2>1, OwnersAssumption
  <2>3. <<id, 1>> \in Ours(id) /\ OwnerOf(<<id, 1>>) \in Key
    BY <2>1, <2>2 DEF Ours, OwnerOf
  <2>4. <<id, 1>> \in Outpoint
    BY <1>1, Types DEF Outpoint
  <2>5. {<<id, 1>>} \in SUBSET Outpoint /\ e = Moved(d, "send", {<<id, 1>>})
    BY <1>7, <2>4
  <2>6. /\ Moved(d, "send", {<<id, 1>>}) \in Command
        /\ Moved(d, "send", {<<id, 1>>}).at = "send"
        /\ Moved(d, "send", {<<id, 1>>}).ins = {<<id, 1>>}
        /\ Moved(d, "send", {<<id, 1>>}).knew = d.knew
    BY <1>1, <2>5, MovedIs
  <2>7. QED
    BY <2>3, <2>4, <2>5, <2>6
<1>9. ASSUME d.at = "bookFund" PROVE CommandOK(e)'
  <2>1. e.ins \subseteq DOMAIN utxos'
    BY <1>4, <1>8, <1>9
  <2>2. Books(e)'
    BY <1>1, <1>3, <1>8, <1>9 DEF CommandOK, Books
  <2>3. SpendsFresh(e)'
    <3> SUFFICES ASSUME NEW o \in e.ins, NEW i \in Spenders(o)'
                 PROVE  i \notin d.knew.booked /\ i \notin d.knew.taken
      BY <1>8, <1>9 DEF SpendsFresh
    <3>1. o[1] = id /\ i \in TxIds /\ o \in network[i].ins
      BY <1>5, <1>8, <1>9 DEF Spenders
    <3>2. id < i
      BY <1>1, <3>1 DEF OutputsOK, Chain
    <3>3. \A k \in d.knew.booked \cup d.knew.taken : k < id
      BY <1>1, <1>2 DEF CommandOK, Books
    <3>4. ~(i < id)
      BY <1>1, <3>1, <3>2, Types
    <3>5. QED
      BY <3>3, <3>4
  <2>4. TakesConfirmed(e)'
    <3>1. OwnerOf(<<id, 1>>)' \in Key
      BY <1>5, <1>8, <1>9
    <3>2. OwnFunding(e.ins)'
      BY <1>3, <1>8, <1>9, <3>1 DEF OwnFunding
    <3>3. QED
      BY <3>2, <1>8, <1>9 DEF TakesConfirmed
  <2>5. QED
    BY <2>1, <2>2, <2>3, <2>4 DEF CommandOK
<1>10. /\ cmd' \in [Conn -> Command \cup {Idle}]
       /\ \A b \in Conn : cmd'[b] # Idle => cmd'[b] = cmd[b] \/ cmd'[b] = e
       /\ e \in Command => d.at = "bookFund"
  <2>1. cmd \in [Conn -> Command \cup {Idle}]
    BY <1>1 DEF TypeOK
  <2>2. cmd' = [cmd EXCEPT ![c] = e]
    BY <1>2, <1>7, <2>1 DEF Book, Moved
  <2>3. e \in Command \cup {Idle} /\ (e \in Command => d.at = "bookFund")
    BY <1>1, <1>7, <1>8 DEF Idle, Command
  <2>4. QED
    BY <2>1, <2>2, <2>3
<1> HIDE DEF d
<1>11. /\ Commands'
       /\ \A b \in Conn : cmd'[b] # Idle => cmd'[b].ins \subseteq DOMAIN utxos'
  BY <1>1, <1>6, <1>9, <1>10, CommandsKept
<1>12. TypeOK'
  <2>1. DOMAIN utxos' \subseteq UNION {Ours(i) : i \in TxIds}
    BY <1>1, <1>4 DEF TypeOK
  <2>2. QED
    BY <1>1, <1>3, <1>4, <1>10, <1>11, <2>1, TypesKept DEF TypeOK
<1>13. Chain' /\ SpendsConfirmed' /\ DoubleSpendsOverlap'
  BY <1>1, <1>3, <1>6, NetworkPartsKept
<1>14. BookedReserved' /\ TakenDeleted' /\ UndoneDeleted'
  <2>1. ASSUME NEW i \in TxIds PROVE network[i].ins \subseteq DOMAIN utxos
    BY <1>1 DEF OutputsOK, Chain
  <2>2. BookedReserved'
    BY <1>1, <1>3, <1>4, <2>1, Types DEF OutputsOK, BookedReserved
  <2>3. TakenDeleted'
    BY <1>1, <1>3, <1>4, <1>5, <2>1, Types DEF OutputsOK, TakenDeleted
  <2>4. UndoneDeleted'
    BY <1>1, <1>3, <1>4, <1>5 DEF OutputsOK, UndoneDeleted, Recorded
  <2>5. QED
    BY <2>2, <2>3, <2>4
<1>15. Recorded' /\ FlagsJustified'
  <2>1. \A o \in network[id].ins : id \in Spenders(o)
    BY DEF Spenders
  <2>2. QED
    BY <1>1, <1>3, <1>4, <1>5, <2>1 DEF OutputsOK, Recorded, FlagsJustified
<1>16. PendingUnconfirmed'
  <2>1. ASSUME NEW o \in Ours(id) \ DOMAIN utxos PROVE o[1] \notin promoted
    BY <1>1, <2>1, OursAre, Types DEF OutputsOK, Recorded
  <2>2. QED
    BY <1>1, <1>3, <1>4, <2>1 DEF OutputsOK, PendingUnconfirmed
<1>17. QED
  BY <1>11, <1>12, <1>13, <1>14, <1>15, <1>16 DEF FundingInv, OutputsOK

-----------------------------------------------------------------------------
(* The listener.                                                           *)

\* What the listener's steps leave to show: what they do to the outputs.
LEMMA ListenerStep ==
    ASSUME FundingInv, Grows, network' = network, cmd' = cmd, booked' = booked,
           DOMAIN utxos' \subseteq UNION {Ours(i) : i \in TxIds},
           utxos' \in [DOMAIN utxos' -> Flags],
           fate' \in Seq({"new", "final", "off", "back"}), Len(fate') = Len(fate),
           promoted' \subseteq txs', txs' \subseteq TxIds
    PROVE  /\ TypeOK' /\ Commands'
           /\ Chain' /\ SpendsConfirmed' /\ DoubleSpendsOverlap'
<1>1. TypeOK /\ OutputsOK /\ Commands
  BY DEF FundingInv
<1>2. PICK d : d \notin Command
  <2>1. Idle.at \notin {"topup", "fund", "sendFund", "bookFund", "send", "book"}
    BY DEF Idle
  <2>2. Idle \notin Command
    BY <2>1 DEF Command
  <2>3. QED
    BY <2>2
<1>3. cmd' \in [Conn -> Command \cup {Idle}] /\ booked' \subseteq TxIds
  BY <1>1 DEF TypeOK
<1>4. Commands' /\ \A c \in Conn : cmd'[c] # Idle => cmd'[c].ins \subseteq DOMAIN utxos'
  BY <1>1, <1>2, <1>3, CommandsKept
<1>5. TypeOK'
  BY <1>1, <1>3, <1>4, TypesKept
<1>6. QED
  BY <1>1, <1>4, <1>5, NetworkPartsKept

LEMMA HandleTxKeepsInv ==
    ASSUME FundingInv, NEW id \in TxIds, HandleTx(id)
    PROVE  FundingInv'
<1>1. TypeOK /\ OutputsOK
  BY DEF FundingInv
<1> DEFINE v == Delete(utxos, network[id].ins)
<1>2. /\ UNCHANGED <<network, fate, promoted, booked, cmd>>
      /\ utxos' = Create(v, Ours(id)) /\ txs' = txs \cup {id} /\ id \notin txs
  BY DEF HandleTx, ProcessUTXOs
<1>3. /\ DOMAIN utxos' = DOMAIN utxos \cup Ours(id) /\ utxos' \in [DOMAIN utxos' -> Flags]
      /\ \A o \in DOMAIN utxos :
            /\ utxos'[o].pending = utxos[o].pending /\ utxos'[o].reserved = utxos[o].reserved
            /\ utxos'[o].deleted <=> utxos[o].deleted \/ o \in network[id].ins
      /\ \A o \in Ours(id) \ DOMAIN utxos :
            utxos'[o].pending /\ ~utxos'[o].reserved /\ ~utxos'[o].deleted
  BY <1>1, <1>2, TakenFlags
<1> HIDE DEF v
<1>4. /\ TxIds' = TxIds
      /\ \A o : Spenders(o)' = Spenders(o)
      /\ \A i : Ours(i)' = Ours(i) /\ (Undone(i)' <=> Undone(i))
      /\ \A o : SomeUndone(o)' <=> SomeUndone(o)
  BY <1>2, SameNetwork DEF Undone, SomeUndone
<1>5. Grows
  BY <1>2, <1>3, <1>4 DEF Grows
<1>6. /\ TypeOK' /\ Commands'
      /\ Chain' /\ SpendsConfirmed' /\ DoubleSpendsOverlap'
  <2>1. DOMAIN utxos' \subseteq UNION {Ours(i) : i \in TxIds}
    BY <1>1, <1>3 DEF TypeOK
  <2>2. /\ promoted' \subseteq txs' /\ txs' \subseteq TxIds
        /\ fate' \in Seq({"new", "final", "off", "back"}) /\ Len(fate') = Len(fate)
    BY <1>1, <1>2 DEF TypeOK
  <2>3. QED
    BY <1>2, <1>3, <1>5, <2>1, <2>2, ListenerStep
<1>7. ASSUME NEW i \in TxIds PROVE network[i].ins \subseteq DOMAIN utxos
  BY <1>1 DEF OutputsOK, Chain
<1>8. BookedReserved'
  BY <1>1, <1>2, <1>3, <1>7, Types DEF OutputsOK, BookedReserved
<1>9. TakenDeleted'
  BY <1>1, <1>2, <1>3, <1>4, <1>7, Types DEF OutputsOK, TakenDeleted
<1>10. UndoneDeleted'
  BY <1>1, <1>2, <1>3, <1>4 DEF OutputsOK, UndoneDeleted, Recorded
<1>11. Recorded'
  BY <1>1, <1>2, <1>3, <1>4 DEF OutputsOK, Recorded
<1>12. FlagsJustified'
  <2>1. \A o \in network[id].ins : id \in Spenders(o)
    BY DEF Spenders
  <2>2. QED
    BY <1>1, <1>2, <1>3, <1>4, <2>1 DEF OutputsOK, FlagsJustified
<1>13. PendingUnconfirmed'
  <2>1. ASSUME NEW o \in Ours(id) \ DOMAIN utxos PROVE o[1] \notin promoted
    BY <1>1, <1>2, <2>1, OursAre, Types
  <2>2. QED
    BY <1>1, <1>2, <1>3, <2>1 DEF OutputsOK, PendingUnconfirmed
<1>14. QED
  BY <1>6, <1>8, <1>9, <1>10, <1>11, <1>12, <1>13 DEF FundingInv, OutputsOK

LEMMA ConfirmKeepsInv ==
    ASSUME FundingInv, NEW id \in TxIds, Confirm(id)
    PROVE  FundingInv'
<1>1. TypeOK /\ OutputsOK
  BY DEF FundingInv
<1>2. /\ UNCHANGED <<network, txs, booked, cmd>> /\ id \in txs
      /\ utxos' = IF id \in promoted THEN utxos ELSE Finalize(utxos, Ours(id))
      /\ promoted' = promoted \cup {id}
      /\ fate' = [fate EXCEPT ![id] = IF Undone(id) THEN "back" ELSE "final"]
  BY DEF Confirm
<1>3. /\ DOMAIN utxos' = DOMAIN utxos /\ utxos' \in [DOMAIN utxos' -> Flags]
      /\ \A o \in DOMAIN utxos :
            /\ utxos'[o].reserved = utxos[o].reserved /\ utxos'[o].deleted = utxos[o].deleted
            /\ utxos'[o].pending <=>
                  utxos[o].pending /\ (id \in promoted \/ o \notin Ours(id))
  <2>1. utxos \in [DOMAIN utxos -> Flags]
    BY <1>1 DEF TypeOK
  <2>2. CASE id \in promoted
    BY <1>2, <2>1, <2>2
  <2>3. CASE id \notin promoted
    <3>1. utxos' = Finalize(utxos, Ours(id))
      BY <1>2, <2>3
    <3>2. QED
      BY <3>1, <2>1, <2>3, FlagsOfSet
  <2>4. QED
    BY <2>2, <2>3
<1>4. /\ fate' \in Seq({"new", "final", "off", "back"}) /\ Len(fate') = Len(fate)
      /\ \A i \in TxIds : Undone(i)' <=> Undone(i)
  BY <1>1, <1>2 DEF TypeOK, Undone, TxIds
<1>5. /\ TxIds' = TxIds
      /\ \A o : Spenders(o)' = Spenders(o)
      /\ \A i : Ours(i)' = Ours(i)
  BY <1>2, SameNetwork
<1>6. \A o : SomeUndone(o)' <=> SomeUndone(o)
  BY <1>4, <1>5 DEF SomeUndone, Spenders
<1>7. Grows
  BY <1>2, <1>3, <1>4, <1>5 DEF Grows
<1>8. /\ TypeOK' /\ Commands'
      /\ Chain' /\ SpendsConfirmed' /\ DoubleSpendsOverlap'
  <2>1. DOMAIN utxos' \subseteq UNION {Ours(i) : i \in TxIds}
    BY <1>1, <1>3 DEF TypeOK
  <2>2. promoted' \subseteq txs' /\ txs' \subseteq TxIds
    BY <1>1, <1>2 DEF TypeOK
  <2>3. QED
    BY <1>2, <1>3, <1>4, <1>7, <2>1, <2>2, ListenerStep
<1>9. ASSUME NEW i \in TxIds PROVE network[i].ins \subseteq DOMAIN utxos
  BY <1>1 DEF OutputsOK, Chain
<1>10. BookedReserved'
  BY <1>1, <1>2, <1>3, <1>9, Types DEF OutputsOK, BookedReserved
<1>11. TakenDeleted'
  BY <1>1, <1>2, <1>3, <1>6, <1>9, Types DEF OutputsOK, TakenDeleted
<1>12. UndoneDeleted'
  BY <1>1, <1>2, <1>3, <1>4, <1>5, <1>6 DEF OutputsOK, UndoneDeleted, Recorded
<1>13. Recorded'
  BY <1>1, <1>2, <1>3, <1>5 DEF OutputsOK, Recorded
<1>14. FlagsJustified'
  BY <1>1, <1>3, <1>4, <1>5, Types DEF OutputsOK, FlagsJustified
<1>15. PendingUnconfirmed'
  <2>1. ASSUME NEW o \in DOMAIN utxos PROVE o \in Ours(id) <=> o[1] = id
    BY <1>1, Types, OursAre
  <2>2. QED
    BY <1>1, <1>2, <1>3, <2>1 DEF OutputsOK, PendingUnconfirmed
<1>16. QED
  BY <1>8, <1>10, <1>11, <1>12, <1>13, <1>14, <1>15 DEF FundingInv, OutputsOK

LEMMA RevertTxKeepsInv ==
    ASSUME FundingInv, NEW id \in TxIds, RevertTx(id)
    PROVE  FundingInv'
<1>1. TypeOK /\ OutputsOK
  BY DEF FundingInv
<1>2. /\ UNCHANGED <<network, txs, promoted, booked, cmd>> /\ id \in txs
      /\ utxos' = RevertUTXOs(id)
      /\ fate' = [fate EXCEPT ![id] = "off"]
  BY DEF RevertTx
<1>3. /\ DOMAIN utxos' = DOMAIN utxos /\ utxos' \in [DOMAIN utxos' -> Flags]
      /\ \A o \in DOMAIN utxos :
            /\ utxos'[o].pending = utxos[o].pending /\ utxos'[o].reserved = utxos[o].reserved
            /\ utxos'[o].deleted <=> \/ utxos[o].deleted /\ o \notin network[id].ins
                                     \/ o \in Ours(id)
  BY <1>1, <1>2, RevertedFlags
<1>4. /\ fate' \in Seq({"new", "final", "off", "back"}) /\ Len(fate') = Len(fate)
      /\ \A i \in TxIds : Undone(i)' <=> Undone(i) \/ i = id
  BY <1>1, <1>2 DEF TypeOK, Undone, TxIds
<1>5. /\ TxIds' = TxIds
      /\ \A o : Spenders(o)' = Spenders(o)
      /\ \A i : Ours(i)' = Ours(i)
  BY <1>2, SameNetwork
<1>6. Grows
  BY <1>2, <1>3, <1>4, <1>5 DEF Grows
<1>7. /\ \A o : SomeUndone(o) => SomeUndone(o)'
      /\ \A o \in network[id].ins : SomeUndone(o)'
  <2>1. \A o \in network[id].ins : id \in Spenders(o)
    BY DEF Spenders
  <2>2. QED
    BY <1>4, <1>5, <1>6, <2>1, GrowsMeans DEF SomeUndone
<1>8. /\ TypeOK' /\ Commands'
      /\ Chain' /\ SpendsConfirmed' /\ DoubleSpendsOverlap'
  <2>1. DOMAIN utxos' \subseteq UNION {Ours(i) : i \in TxIds}
    BY <1>1, <1>3 DEF TypeOK
  <2>2. promoted' \subseteq txs' /\ txs' \subseteq TxIds
    BY <1>1, <1>2 DEF TypeOK
  <2>3. QED
    BY <1>2, <1>3, <1>4, <1>6, <2>1, <2>2, ListenerStep
<1>9. ASSUME NEW i \in TxIds PROVE network[i].ins \subseteq DOMAIN utxos
  BY <1>1 DEF OutputsOK, Chain
<1>10. BookedReserved'
  BY <1>1, <1>2, <1>3, <1>9, Types DEF OutputsOK, BookedReserved
<1>11. TakenDeleted'
  BY <1>1, <1>2, <1>3, <1>7, <1>9, Types DEF OutputsOK, TakenDeleted
<1>12. UndoneDeleted'
  <2>1. ASSUME NEW i \in TxIds, Undone(i)', NEW o \in Ours(i)
        PROVE  i \in txs /\ (utxos'[o].deleted \/ SomeUndone(o)')
    <3>1. i \in txs
      BY <1>1, <1>2, <1>4, <2>1 DEF OutputsOK, UndoneDeleted
    <3>2. o \in DOMAIN utxos
      BY <1>1, <2>1, <3>1 DEF OutputsOK, Recorded
    <3>3. CASE i = id
      BY <1>3, <2>1, <3>1, <3>2, <3>3
    <3>4. CASE i # id
      BY <1>1, <1>3, <1>4, <1>7, <2>1, <3>1, <3>2, <3>4 DEF OutputsOK, UndoneDeleted
    <3>5. QED
      BY <3>3, <3>4
  <2>2. ASSUME NEW i \in TxIds, Undone(i)' PROVE i \in txs
    BY <1>1, <1>2, <1>4, <2>2 DEF OutputsOK, UndoneDeleted
  <2>3. QED
    BY <1>2, <1>5, <2>1, <2>2 DEF UndoneDeleted
<1>13. Recorded'
  BY <1>1, <1>2, <1>3, <1>5 DEF OutputsOK, Recorded
<1>14. FlagsJustified'
  <2>1. ASSUME NEW o \in Ours(id) PROVE o[1] = id
    BY OursAre
  <2>2. QED
    BY <1>1, <1>3, <1>4, <1>5, <2>1, Types DEF OutputsOK, FlagsJustified
<1>15. PendingUnconfirmed'
  BY <1>1, <1>2, <1>3 DEF OutputsOK, PendingUnconfirmed
<1>16. QED
  BY <1>8, <1>10, <1>11, <1>12, <1>13, <1>14, <1>15 DEF FundingInv, OutputsOK

-----------------------------------------------------------------------------
(* The invariant holds, and what follows from it.                          *)

LEMMA InitFundingInv ==
    ASSUME Init
    PROVE  FundingInv
<1>1. /\ network = <<>> /\ fate = <<>> /\ utxos = <<>> /\ TxIds = {} /\ DOMAIN utxos = {}
      /\ txs = {} /\ promoted = {} /\ booked = {} /\ cmd = [c \in Conn |-> Idle]
  BY DEF Init, TxIds
<1>2. TypeOK
  <2>1. utxos \in [DOMAIN utxos -> Flags]
    BY <1>1
  <2>2. QED
    BY <1>1, <2>1 DEF TypeOK
<1>3. OutputsOK
  BY <1>1 DEF OutputsOK, Chain, BookedReserved, TakenDeleted, UndoneDeleted, Recorded,
              PendingUnconfirmed, FlagsJustified, SpendsConfirmed, DoubleSpendsOverlap
<1>4. Commands
  BY <1>1 DEF Commands
<1>5. QED
  BY <1>2, <1>3, <1>4 DEF FundingInv

LEMMA NextFundingInv ==
    ASSUME FundingInv, [Next]_vars
    PROVE  FundingInv'
<1>1. ASSUME NEW c \in Conn, NEW k \in Key, Start(c, k) PROVE FundingInv'
  BY <1>1, StartKeepsInv
<1>2. ASSUME NEW c \in Conn, SelectBitcoin(c) PROVE FundingInv'
  BY <1>2, SelectBitcoinKeepsInv
<1>3. ASSUME NEW c \in Conn, Fail(c) PROVE FundingInv'
  BY <1>3, FailKeepsInv
<1>4. ASSUME NEW c \in Conn, Broadcast(c) PROVE FundingInv'
  BY <1>4, BroadcastKeepsInv
<1>5. ASSUME NEW c \in Conn, Book(c) PROVE FundingInv'
  BY <1>5, BookKeepsInv
<1>6. ASSUME NEW owner \in Key \cup {Bitcoin}, Receive(owner) PROVE FundingInv'
  BY <1>6, ReceiveKeepsInv
<1>7. ASSUME NEW id \in TxIds, HandleTx(id) PROVE FundingInv'
  BY <1>7, HandleTxKeepsInv
<1>8. ASSUME NEW id \in TxIds, Confirm(id) PROVE FundingInv'
  BY <1>8, ConfirmKeepsInv
<1>9. ASSUME NEW id \in TxIds, RevertTx(id) PROVE FundingInv'
  BY <1>9, RevertTxKeepsInv
<1>10. CASE UNCHANGED vars
  <2>1. /\ UNCHANGED <<network, fate, utxos, txs, promoted, booked>> /\ cmd' = cmd
        /\ TypeOK /\ Commands
    BY <1>10 DEF vars, FundingInv
  <2>2. TypeOK'
    BY <2>1 DEF TypeOK, TxIds, Ours
  <2>3. OutputsOK'
    BY <2>1 DEF FundingInv, OutputsOK, Chain, BookedReserved, TakenDeleted,
                UndoneDeleted, Recorded, PendingUnconfirmed, FlagsJustified,
                SpendsConfirmed, OwnFunding, DoubleSpendsOverlap, SomeUndone, Spenders,
                TxIds, Ours, OwnerOf, Undone
  <2>4. Commands'
    <3>1. Grows
      BY <2>1 DEF Grows, TxIds, Undone
    <3>2. ASSUME NEW c \in Conn, cmd'[c] # Idle PROVE CommandOK(cmd[c])'
      <4>1. PICK e \in Command : e = cmd[c] /\ cmd'[c] = e /\ CommandOK(e)
        BY <2>1, <3>2 DEF TypeOK, Commands
      <4>2. QED
        BY <2>1, <3>1, <4>1, CommandKept
    <3>3. QED
      BY <3>2 DEF Commands
  <2>5. QED
    BY <2>2, <2>3, <2>4 DEF FundingInv
<1>11. QED
  BY <1>1, <1>2, <1>3, <1>4, <1>5, <1>6, <1>7, <1>8, <1>9, <1>10 DEF Next

LEMMA FundingInvHolds == Spec => []FundingInv
<1>1. Init => FundingInv
  BY InitFundingInv
<1>2. FundingInv /\ [Next]_vars => FundingInv'
  BY NextFundingInv
<1>3. QED
  BY <1>1, <1>2, PTL DEF Spec

\* The type invariant: every input of a command is an output the wallet has
\* recorded, whose key GetInputKeys finds.
THEOREM FundingTypeOK == Spec => []TypeOK
<1>1. FundingInv => TypeOK
  BY DEF FundingInv
<1>2. QED
  BY <1>1, FundingInvHolds, PTL

\* However many commands run at once, a command spends no output again that a
\* transaction booked before its selection spends, nor one that the listener
\* has seen spent, unless a spender was reverted (AddKeyFunding selects first
\* and reserves after the broadcast).
THEOREM DoubleSpendsOverlapHolds == Spec => []DoubleSpendsOverlap
<1>1. FundingInv => DoubleSpendsOverlap
  BY DEF FundingInv, OutputsOK
<1>2. QED
  BY <1>1, FundingInvHolds, PTL

\* The outputs of a reverted transaction are never selected again, whatever
\* comes back, unless the revert of a transaction that no command has booked
\* undeletes one (RevertUTXOs).
THEOREM RevertedUnusableHolds == Spec => []RevertedUnusable
<1>1. ASSUME FundingInv PROVE RevertedUnusable
  <2> SUFFICES ASSUME NEW id \in TxIds, Undone(id), NEW o \in Ours(id),
                      o \in Selectable(OwnerOf(o))
               PROVE  \E s \in Spenders(o) \ booked : Undone(s)
    BY DEF RevertedUnusable
  <2>1. o \in DOMAIN utxos /\ ~utxos[o].deleted /\ ~utxos[o].reserved
    BY DEF Selectable
  <2>2. PICK s \in Spenders(o) : Undone(s)
    BY <1>1, <2>1 DEF FundingInv, OutputsOK, UndoneDeleted, SomeUndone
  <2>3. s \notin booked
    BY <1>1, <2>1, <2>2 DEF FundingInv, OutputsOK, BookedReserved, Spenders
  <2>4. QED
    BY <2>2, <2>3
<1>2. QED
  BY <1>1, FundingInvHolds, PTL

\* A command spends unconfirmed outputs of its own funding transaction only,
\* so that its chain of unconfirmed transactions has two links at most.
THEOREM UnconfirmedOnlyOwnFundingHolds == Spec => []UnconfirmedOnlyOwnFunding
<1>1. FundingInv => UnconfirmedOnlyOwnFunding
  BY DEF FundingInv, OutputsOK, SpendsConfirmed, OwnFunding, UnconfirmedOnlyOwnFunding
<1>2. QED
  BY <1>1, FundingInvHolds, PTL

\* Once every transaction is taken and confirmed and no command runs, what the
\* wallet would spend is what the chain has for it, whatever the order in
\* which commands and listener processed the transactions (ProcessUTXOs).
THEOREM SettledHolds == Spec => []Settled
<1>1. ASSUME FundingInv PROVE Settled
  <2> SUFFICES ASSUME txs = TxIds, promoted = TxIds,
                      NEW id \in TxIds, NEW o \in Ours(id),
                      ~Undone(id), \A s \in Spenders(o) : ~Undone(s)
               PROVE  o \in Selectable(OwnerOf(o)) <=> Spenders(o) = {}
    BY DEF Settled
  <2>1. o \in DOMAIN utxos /\ o[1] = id
    BY <1>1, OursAre DEF FundingInv, OutputsOK, Recorded
  <2>2. ~utxos[o].pending
    BY <1>1, <2>1 DEF FundingInv, OutputsOK, PendingUnconfirmed
  <2>3. CASE Spenders(o) = {}
    BY <1>1, <2>1, <2>2, <2>3 DEF FundingInv, OutputsOK, FlagsJustified, Selectable
  <2>4. CASE Spenders(o) # {}
    <3>1. PICK s \in Spenders(o) : ~SomeUndone(o)
      BY <2>4 DEF SomeUndone
    <3>2. s \in txs /\ o \in network[s].ins
      BY <3>1 DEF Spenders
    <3>3. utxos[o].deleted
      BY <1>1, <3>1, <3>2 DEF FundingInv, OutputsOK, TakenDeleted
    <3>4. QED
      BY <2>4, <3>3 DEF Selectable
  <2>5. QED
    BY <2>3, <2>4
<1>2. QED
  BY <1>1, FundingInvHolds, PTL
=============================================================================
