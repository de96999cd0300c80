-------------------------- MODULE WalletAddresses --------------------------
(***************************************************************************)
(* The address lists of the wallet (internal/wallet/addresses.go, keys.go  *)
(* and the part of wallet.go that saves and loads them): addresses are     *)
(* handed out by clients' commands, paid by anybody on the network, marked *)
(* as used by the commands and listener callbacks that process the paying  *)
(* transactions, and kept AddressGap ahead of the last one used.           *)
(*                                                                         *)
(* The address with KeyIndex k is at position k + 1 of its type's list.    *)
(***************************************************************************)
EXTENDS Naturals, Sequences, SequencesExt

CONSTANTS
    KeyType,   \* external, internal, relate out, relate in
    Thread,    \* what may be in MarkAddress at once: commands, the listener
    Gap,       \* cfg.AddressGap
    MaxPaid,   \* bound: payments to addresses of one type
    Restarts,  \* how the daemon may stop: "clean" (it saves), "crash"
    NoMark     \* a thread that is not in MarkAddress

ASSUME GapAssumption == Gap \in Nat \ {0}
ASSUME MaxPaidAssumption == MaxPaid \in Nat
ASSUME RestartsAssumption == Restarts \subseteq {"clean", "crash"}

VARIABLES
    list,    \* Wallet.addressesList
    mark,    \* the address every thread is about to mark
    saved,   \* the lists as they were last saved
    handed,  \* the addresses somebody was given, which outlive the daemon
    paid     \* the positions paid, in the order of the chain

vars == <<list, mark, saved, handed, paid>>

Address == [used : BOOLEAN, given : BOOLEAN]
Marks == [type : KeyType, pos : Nat \ {0}, derived : BOOLEAN]
Fresh == [used |-> FALSE, given |-> FALSE]

ASSUME NoMarkAssumption == NoMark \notin Marks

-----------------------------------------------------------------------------
\* The unused addresses after the last used one, counted up to the gap.
Trailing(l, n) == \A i \in 1..Len(l) : i + n > Len(l) => ~l[i].used
Unused(l) == CHOOSE n \in 0..Gap :
    /\ n <= Len(l) /\ Trailing(l, n)
    /\ \A m \in 0..Gap : m <= Len(l) /\ Trailing(l, m) => m <= n

\* Fault: a whole gap is added, whatever is left of the last one.
ForwardScanWhole(l) ==
    IF Unused(l) = Gap THEN l ELSE l \o [i \in 1..Gap |-> Fresh]

\* Wallet.forwardScan: new addresses until the last ones unused fill the gap.
ForwardScan(l) == l \o [i \in 1..(Gap - Unused(l)) |-> Fresh]

\* Fault: the lists are not saved.
LoadedNone(s) == <<>>

\* Wallet.Deserialize: Given is not serialized.
Loaded(s) == [i \in 1..Len(s) |-> [used |-> s[i].used, given |-> FALSE]]

Init ==
    /\ list = [t \in KeyType |-> ForwardScan(<<>>)]
    /\ mark = [th \in Thread |-> NoMark]
    /\ saved = [t \in KeyType |-> <<>>]
    /\ handed = [t \in KeyType |-> {}]
    /\ paid = [t \in KeyType |-> <<>>]

Available(t) == {i \in DOMAIN list[t] : ~list[t][i].used /\ ~list[t][i].given}

\* Fault: the position is handed out as if it were the index.
GetUnusedIndex(t, i) ==
    /\ i \in Available(t)
    /\ \A j \in Available(t) : i <= j
    /\ list' = [list EXCEPT ![t][i].given = TRUE]
    /\ handed' = [handed EXCEPT ![t] = @ \cup {i - 1}]
    /\ UNCHANGED <<mark, saved, paid>>

\* GetUnusedRawAddress, GetUnusedAddress and GetUnusedKey: the first address
\* neither used nor given, if there is one.
GetUnused(t, i) ==
    /\ i \in Available(t)
    /\ \A j \in Available(t) : i <= j
    /\ list' = [list EXCEPT ![t][i].given = TRUE]
    /\ handed' = [handed EXCEPT ![t] = @ \cup {i}]
    /\ UNCHANGED <<mark, saved, paid>>

\* Whoever was given an address may pay it, more than once and at any time.
Pay(t, i) ==
    /\ i \in handed[t]
    /\ Len(paid[t]) < MaxPaid
    /\ paid' = [paid EXCEPT ![t] = Append(@, i)]
    /\ UNCHANGED <<list, mark, saved, handed>>

\* MarkAddress on an address that FindAddress has found in a transaction: the
\* test of Used is outside the lock.
StartMark(th, t, i) ==
    /\ mark[th] = NoMark
    /\ i \in ToSet(paid[t]) /\ i \in DOMAIN list[t]
    /\ ~list[t][i].used
    /\ mark' = [mark EXCEPT ![th] = [type |-> t, pos |-> i, derived |-> FALSE]]
    /\ UNCHANGED <<list, saved, handed, paid>>

\* MarkAddress on the address of an independent key, which has the type and
\* the index of its base key, and a Used of its own.
StartMarkDerived(th, t, i) ==
    /\ mark[th] = NoMark
    /\ i \in handed[t] \cap DOMAIN list[t]
    /\ mark' = [mark EXCEPT ![th] = [type |-> t, pos |-> i, derived |-> TRUE]]
    /\ UNCHANGED <<list, saved, handed, paid>>

Marked(l, m) == IF m.derived THEN l ELSE [l EXCEPT ![m.pos].used = TRUE]

\* Fault: the index is compared as if it were a position.
NearEndLate(l, m) == m.pos - 1 + Gap > Len(l)

NearEnd(l, m) == m.pos - 1 + Gap >= Len(l)

\* The rest of MarkAddress, under the lock.
FinishMark(th) ==
    LET m == mark[th]
        l == Marked(list[m.type], m) IN
    /\ m # NoMark
    /\ list' = [list EXCEPT ![m.type] = IF NearEnd(l, m) THEN ForwardScan(l) ELSE l]
    /\ mark' = [mark EXCEPT ![th] = NoMark]
    /\ UNCHANGED <<saved, handed, paid>>

\* The daemon stops, saving the wallet if it stops cleanly, and is started:
\* Load, and Prepare's forward scans.
Restart(how) ==
    /\ how \in Restarts
    /\ saved' = IF how = "clean" THEN list ELSE saved
    /\ list' = [t \in KeyType |-> ForwardScan(Loaded(saved'[t]))]
    /\ mark' = [th \in Thread |-> NoMark]
    /\ UNCHANGED <<handed, paid>>

Next ==
    \/ \E t \in KeyType : \E i \in DOMAIN list[t] : GetUnused(t, i)
    \/ \E t \in KeyType : \E i \in handed[t] : Pay(t, i)
    \/ \E th \in Thread, t \in KeyType : \E i \in DOMAIN list[t] :
          StartMark(th, t, i) \/ StartMarkDerived(th, t, i)
    \/ \E th \in Thread : FinishMark(th)
    \/ \E how \in {"clean", "crash"} : Restart(how)

Spec == Init /\ [][Next]_vars

-----------------------------------------------------------------------------
(* Properties.                                                             *)

\* The type invariant: lists of addresses, and threads that mark addresses
\* which the lists have.
TypeOK ==
    /\ list \in [KeyType -> Seq(Address)]
    /\ mark \in [Thread -> Marks \cup {NoMark}]
    /\ saved \in [KeyType -> Seq(Address)]
    /\ handed \in [KeyType -> SUBSET (Nat \ {0})]
    /\ paid \in [KeyType -> Seq(Nat \ {0})]
    /\ \A th \in Thread : mark[th] # NoMark =>
          mark[th].pos \in DOMAIN list[mark[th].type]

\* However marks interleave, and whatever was saved when, each list ends in
\* exactly AddressGap unused addresses (forwardScan, MarkAddress): MarkAddress
\* scans often enough although it looks only at the index it marks.
GapKept ==
    \A t \in KeyType :
        /\ Len(list[t]) >= Gap
        /\ Trailing(list[t], Gap)
        /\ Len(list[t]) = Gap \/ list[t][Len(list[t]) - Gap].used

\* Addresses run out ("Not Available", GetUnusedAddress) only when a whole gap
\* of them has been given to somebody without a payment to any being marked:
\* commands that take a change address and fail can do that, nothing else.
ExhaustedOnlyUnpaid ==
    \A t \in KeyType : Available(t) = {} =>
        /\ Len(list[t]) >= Gap
        /\ \A i \in DOMAIN list[t] : i + Gap > Len(list[t]) =>
              i \in handed[t] /\ ~list[t][i].used

\* The payments can all be found by a wallet that has nothing but its key
\* (NewWallet, Prepare) and sees the chain from the start: each is within the
\* gap of one before it.
Recoverable ==
    \A t \in KeyType : \A k \in DOMAIN paid[t] :
        \/ paid[t][k] <= Gap
        \/ \E j \in 1..k-1 : paid[t][k] <= paid[t][j] + Gap

\* The wallet goes on watching the addresses it has handed out (FindAddress),
\* through clean restarts too: only a crash can lose one.
HandedWatched ==
    [][\A t \in KeyType :
          handed[t] \subseteq DOMAIN list[t] =>
              handed'[t] \subseteq DOMAIN list'[t] \/ Restart("crash")]_vars

=============================================================================
