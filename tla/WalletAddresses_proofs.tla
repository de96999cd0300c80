----------------------- MODULE WalletAddresses_proofs -----------------------
(***************************************************************************)
(* The address lists keep their gap, can be recovered, and are forgotten   *)
(* only by a crash.  Everything rests on what a forward scan leaves behind *)
(* (ForwardScanKeepsGap), which needs no more of a list than that it is    *)
(* not longer than a gap beyond a used address.                            *)
(***************************************************************************)
EXTENDS WalletAddresses, SelectionLemmas, TLAPS

\* A list no longer than a gap beyond its last used address ...
Tight(l) == Len(l) > Gap => l[Len(l) - Gap].used

\* ... and not shorter: what GapKept says of each list.
GapOK(l) == Len(l) >= Gap /\ Trailing(l, Gap) /\ Tight(l)

\* Setting one flag of an address leaves the other.
LEMMA AddressFlags ==
    ASSUME NEW a \in Address
    PROVE  /\ [a EXCEPT !.given = TRUE] \in Address
           /\ [a EXCEPT !.given = TRUE].used = a.used
           /\ [a EXCEPT !.used = TRUE] \in Address
           /\ [a EXCEPT !.used = TRUE].used
<1>1. DOMAIN a = {"used", "given"}
  BY DEF Address
<1>2. QED
  BY <1>1, Zenon DEF Address

\* GapKept, list by list.
LEMMA GapKeptOfLists ==
    ASSUME list \in [KeyType -> Seq(Address)]
    PROVE  GapKept <=> \A t \in KeyType : GapOK(list[t])
<1>1. ASSUME NEW t \in KeyType
      PROVE  /\ Len(list[t]) \in Nat
             /\ Gap \in Nat
  BY GapAssumption
<1>2. QED
  BY <1>1 DEF GapKept, GapOK, Tight

\* Unused counts the unused addresses at the end: there is such a count, as
\* zero is one and the gap bounds them.
LEMMA UnusedCounts ==
    ASSUME NEW l \in Seq(Address)
    PROVE  /\ Unused(l) \in 0..Gap
           /\ Unused(l) <= Len(l)
           /\ Trailing(l, Unused(l))
           /\ \A m \in 0..Gap : m <= Len(l) /\ Trailing(l, m) => m <= Unused(l)
<1> DEFINE OK(n) == n <= Len(l) /\ Trailing(l, n)
           S == {d \in 0..Gap : OK(Gap - d)}
           n == Gap - Min(S)
<1>1. Gap \in Nat /\ Len(l) \in Nat
  BY GapAssumption
<1>2. OK(0)
  BY <1>1 DEF Trailing
<1>3. Gap \in S
  BY <1>1, <1>2
<1>4. Min(S) \in S /\ \A y \in S : Min(S) <= y
  <2>1. S \subseteq Nat
    BY <1>1
  <2> HIDE DEF S
  <2>2. QED
    BY <2>1, <1>3, MinProperties
<1>5. n \in 0..Gap /\ OK(n)
  BY <1>1, <1>4
<1>6. ASSUME NEW m \in 0..Gap, OK(m) PROVE m <= n
  <2>1. Gap - m \in S
    <3>1. Gap - m \in 0..Gap /\ Gap - (Gap - m) = m
      BY <1>1
    <3>2. QED
      BY <3>1, <1>6
  <2>2. Min(S) <= Gap - m /\ Min(S) \in 0..Gap
    BY <2>1, <1>4
  <2>3. QED
    BY <2>2, <1>1
<1> HIDE DEF n
<1>7. QED
  BY <1>5, <1>6 DEF Unused

\* Two lists that agree on Used keep their gaps together: Given is free.
LEMMA UsedDecides ==
    ASSUME NEW l \in Seq(Address), NEW k \in Seq(Address), Len(k) = Len(l),
           \A i \in 1..Len(l) : k[i].used = l[i].used
    PROVE  /\ Tight(l) => Tight(k)
           /\ GapOK(l) => GapOK(k)
<1>1. Gap \in Nat /\ Gap > 0 /\ Len(l) \in Nat
  BY GapAssumption
<1>2. Len(l) > Gap => Len(l) - Gap \in 1..Len(l)
  BY <1>1
<1>3. Tight(l) => Tight(k)
  BY <1>2 DEF Tight
<1>4. Trailing(l, Gap) => Trailing(k, Gap)
  BY DEF Trailing
<1>5. QED
  BY <1>3, <1>4 DEF GapOK

\* forwardScan gives any tight list its gap, and only appends.
LEMMA ForwardScanKeepsGap ==
    ASSUME NEW l \in Seq(Address), Tight(l)
    PROVE  /\ ForwardScan(l) \in Seq(Address)
           /\ GapOK(ForwardScan(l))
           /\ Len(ForwardScan(l)) >= Len(l)
           /\ \A i \in 1..Len(l) : ForwardScan(l)[i] = l[i]
           /\ \A i \in 1..Len(ForwardScan(l)) : ForwardScan(l)[i].used => i <= Len(l)
<1> DEFINE n == Unused(l)
           new == [i \in 1..(Gap - n) |-> Fresh]
           k == ForwardScan(l)
<1>1. /\ Gap \in Nat /\ Gap > 0 /\ Len(l) \in Nat
      /\ n \in 0..Gap /\ n <= Len(l)
  BY UnusedCounts, GapAssumption
<1>2. new \in Seq(Address) /\ Len(new) = Gap - n
  <2>1. Fresh \in Address /\ Gap - n \in Nat
    BY <1>1 DEF Fresh, Address
  <2>2. QED
    BY <2>1
<1>3. k = l \o new /\ \A i \in 1..(Gap - n) : ~new[i].used
  BY DEF ForwardScan, Fresh
<1>4. Trailing(l, n) /\ \A m \in 0..Gap : m <= Len(l) /\ Trailing(l, m) => m <= n
  BY UnusedCounts
<1> HIDE DEF n, new, k
<1>5. /\ k \in Seq(Address)
      /\ Len(k) = Len(l) + (Gap - n)
      /\ \A i \in 1..Len(l) : k[i] = l[i]
      /\ \A i \in 1..Len(k) : i > Len(l) => ~k[i].used
  <2>1. k \in Seq(Address) /\ Len(k) = Len(l) + (Gap - n)
    BY <1>1, <1>2, <1>3
  <2>2. \A i \in 1..Len(k) : k[i] = IF i <= Len(l) THEN l[i] ELSE new[i - Len(l)]
    BY <2>1, <1>1, <1>2, <1>3
  <2>3. ASSUME NEW i \in 1..Len(l) PROVE k[i] = l[i]
    <3>1. i \in 1..Len(k) /\ i <= Len(l)
      BY <2>1, <1>1
    <3>2. QED
      BY <3>1, <2>2
  <2>4. ASSUME NEW i \in 1..Len(k), i > Len(l) PROVE ~k[i].used
    <3>1. i - Len(l) \in 1..(Gap - n) /\ ~(i <= Len(l))
      BY <2>1, <2>4, <1>1
    <3>2. QED
      BY <3>1, <2>2, <1>3
  <2>5. QED
    BY <2>1, <2>3, <2>4
<1>7. Trailing(k, Gap)
  <2>1. ASSUME NEW i \in 1..Len(k), i + Gap > Len(k) PROVE ~k[i].used
    <3>1. CASE i > Len(l)
      BY <3>1, <1>5
    <3>2. CASE i <= Len(l)
      <4>1. i \in 1..Len(l) /\ i + n > Len(l)
        BY <3>2, <2>1, <1>1, <1>5
      <4>2. QED
        BY <4>1, <1>5, <1>4 DEF Trailing
    <3>3. QED
      BY <3>1, <3>2, <1>1, <1>5
  <2>2. QED
    BY <2>1 DEF Trailing
<1>8. Tight(k)
  <2>1. SUFFICES ASSUME Len(k) > Gap PROVE k[Len(k) - Gap].used
    BY DEF Tight
  <2>2. Len(k) - Gap = Len(l) - n /\ Len(l) - n \in 1..Len(l)
    BY <2>1, <1>1, <1>5
  <2>3. CASE n = Gap
    BY <2>1, <2>2, <2>3, <1>1, <1>5 DEF Tight
  <2>4. CASE n # Gap
    <3>1. n + 1 \in 0..Gap /\ n + 1 <= Len(l) /\ ~(n + 1 <= n)
      BY <2>2, <2>4, <1>1
    <3>2. ~Trailing(l, n + 1)
      BY <3>1, <1>4
    <3>3. PICK i \in 1..Len(l) : i + (n + 1) > Len(l) /\ l[i].used
      BY <3>2 DEF Trailing
    <3>4. ~(i + n > Len(l))
      BY <3>3, <1>4 DEF Trailing
    <3>5. i = Len(l) - n
      BY <3>3, <3>4, <1>1
    <3>6. QED
      BY <3>3, <3>5, <2>2, <1>5
  <2>5. QED
    BY <2>3, <2>4
<1>9. GapOK(k)
  BY <1>7, <1>8, <1>1, <1>5 DEF GapOK
<1>10. QED
  BY <1>9, <1>5, <1>1 DEF k

-----------------------------------------------------------------------------
(* The invariant.                                                          *)

\* Nothing counts as used that nobody has paid: neither in a list, nor in the
\* database, nor for a thread about to mark it.
UsedArePaid ==
    /\ \A t \in KeyType : \A i \in 1..Len(list[t]) :
          list[t][i].used => i \in ToSet(paid[t])
    /\ \A t \in KeyType : \A i \in 1..Len(saved[t]) :
          saved[t][i].used => i \in ToSet(paid[t])
    /\ \A th \in Thread : mark[th] # NoMark /\ ~mark[th].derived =>
          mark[th].pos \in ToSet(paid[mark[th].type])

\* A position within a gap of the start or of a paid one: all that a wallet
\* recovered from its key would have.
Reach(t, i) == i <= Gap \/ \E j \in DOMAIN paid[t] : i <= paid[t][j] + Gap

\* The saved lists are tight too, so that a crash finds a list that a forward
\* scan completes; and what is handed out is within reach of what is paid.
AddressInv ==
    /\ TypeOK
    /\ \A t \in KeyType : GapOK(list[t]) /\ Tight(saved[t])
    /\ UsedArePaid
    /\ \A t \in KeyType : \A i \in handed[t] : Reach(t, i)
    /\ Recoverable

\* A list with its gap, whose used addresses are paid, is within reach.
LEMMA ListsWithinReach ==
    ASSUME NEW t \in KeyType, TypeOK, GapOK(list[t]), UsedArePaid,
           NEW i \in 1..Len(list[t])
    PROVE  Reach(t, i)
<1>1. /\ Gap \in Nat /\ Len(list[t]) \in Nat /\ Len(list[t]) >= Gap
      /\ paid[t] \in Seq(Nat \ {0})
  BY GapAssumption DEF TypeOK, GapOK
<1>2. CASE Len(list[t]) <= Gap
  BY <1>2, <1>1 DEF Reach
<1>3. CASE Len(list[t]) > Gap
  <2>1. /\ Len(list[t]) - Gap \in 1..Len(list[t])
        /\ list[t][Len(list[t]) - Gap].used
    BY <1>3, <1>1 DEF GapOK, Tight
  <2>2. Len(list[t]) - Gap \in ToSet(paid[t])
    BY <2>1 DEF UsedArePaid
  <2>3. PICK j \in DOMAIN paid[t] : paid[t][j] = Len(list[t]) - Gap
    BY <2>2 DEF ToSet
  <2>4. i <= paid[t][j] + Gap
    BY <2>3, <1>1
  <2>5. QED
    BY <2>4 DEF Reach
<1>4. QED
  BY <1>2, <1>3, <1>1

\* A scan of the empty list.
LEMMA InitAddressInv == Init => AddressInv
<1> SUFFICES ASSUME Init PROVE AddressInv
  OBVIOUS
<1>1. <<>> \in Seq(Address) /\ Tight(<<>>)
  BY GapAssumption DEF Tight
<1>2. /\ ForwardScan(<<>>) \in Seq(Address)
      /\ GapOK(ForwardScan(<<>>))
      /\ \A i \in 1..Len(ForwardScan(<<>>)) : ~ForwardScan(<<>>)[i].used
  <2> DEFINE l == <<>>
             k == ForwardScan(l)
  <2>1. l \in Seq(Address) /\ Tight(l) /\ Len(l) = 0
    BY <1>1
  <2> HIDE DEF l
  <2>2. /\ k \in Seq(Address) /\ GapOK(k)
        /\ \A i \in 1..Len(k) : k[i].used => i <= Len(l)
    BY <2>1, ForwardScanKeepsGap
  <2>3. \A i \in 1..Len(k) : ~(i <= 0)
    BY <2>2
  <2>4. QED
    BY <2>1, <2>2, <2>3 DEF l
<1>3. TypeOK
  BY <1>1, <1>2 DEF Init, TypeOK
<1>4. UsedArePaid
  BY <1>2 DEF Init, UsedArePaid
<1>5. QED
  BY <1>1, <1>2, <1>3, <1>4 DEF Init, AddressInv, Recoverable

-----------------------------------------------------------------------------
(* The steps.                                                              *)

\* What depends on the chain alone.
LEMMA PaidUnchanged ==
    ASSUME paid' = paid
    PROVE  /\ Recoverable => Recoverable'
           /\ \A t \in KeyType : \A i \in Nat : Reach(t, i) => Reach(t, i)'
BY DEF Recoverable, Reach

\* The type's list is marked as given at one position.
LEMMA GetUnusedKeepsInv ==
    ASSUME AddressInv, NEW t \in KeyType, NEW i \in DOMAIN list[t], GetUnused(t, i)
    PROVE  AddressInv'
<1> DEFINE k == [list[t] EXCEPT ![i].given = TRUE]
<1>1. TypeOK /\ list[t] \in Seq(Address) /\ i \in 1..Len(list[t])
  BY DEF AddressInv, TypeOK
<1>2. /\ k \in Seq(Address)
      /\ Len(k) = Len(list[t])
      /\ \A j \in 1..Len(list[t]) : k[j].used = list[t][j].used
  <2> DEFINE a == [list[t][i] EXCEPT !.given = TRUE]
  <2>1. a \in Address /\ a.used = list[t][i].used
    <3>1. list[t][i] \in Address
      BY <1>1
    <3>2. QED
      BY <3>1, AddressFlags
  <2>2. k = [list[t] EXCEPT ![i] = a]
    OBVIOUS
  <2> HIDE DEF a, k
  <2>3. QED
    BY <1>1, <2>1, <2>2
<1>3. list' = [list EXCEPT ![t] = k]
  BY DEF GetUnused
<1> HIDE DEF k
<1>4. /\ list' \in [KeyType -> Seq(Address)]
      /\ \A u \in KeyType :
            /\ Len(list'[u]) = Len(list[u])
            /\ \A j \in 1..Len(list[u]) : list'[u][j].used = list[u][j].used
  BY <1>1, <1>2, <1>3 DEF TypeOK
<1>5. TypeOK'
  <2>1. handed' \in [KeyType -> SUBSET (Nat \ {0})]
    BY <1>1 DEF TypeOK, GetUnused
  <2>2. \A u \in KeyType : DOMAIN list'[u] = DOMAIN list[u]
    BY <1>1, <1>4 DEF TypeOK
  <2>3. \A th \in Thread : mark[th] # NoMark => mark[th].type \in KeyType
    BY <1>1 DEF TypeOK, Marks
  <2>4. QED
    BY <1>1, <1>4, <2>1, <2>2, <2>3 DEF TypeOK, GetUnused
<1>6. \A u \in KeyType : GapOK(list'[u]) /\ Tight(saved'[u])
  <2>1. ASSUME NEW u \in KeyType PROVE GapOK(list'[u])
    <3>1. list[u] \in Seq(Address) /\ list'[u] \in Seq(Address) /\ GapOK(list[u])
      BY <1>1, <1>4 DEF TypeOK, AddressInv
    <3>2. QED
      BY <3>1, <1>4, UsedDecides
  <2>2. QED
    BY <2>1 DEF AddressInv, GetUnused
<1>7. UsedArePaid'
  BY <1>4 DEF AddressInv, UsedArePaid, GetUnused
<1>8. Recoverable' /\ \A u \in KeyType : \A j \in handed'[u] : Reach(u, j)'
  <2>1. Reach(t, i)
    BY <1>1, ListsWithinReach DEF AddressInv
  <2>2. \A u \in KeyType : handed[u] \subseteq Nat
    BY <1>1 DEF TypeOK
  <2>3. \A u \in KeyType : \A j \in handed'[u] : j \in handed[u] \/ (u = t /\ j = i)
    BY <1>1 DEF GetUnused, TypeOK
  <2>4. paid' = paid
    BY DEF GetUnused
  <2>5. QED
    BY <1>1, <2>1, <2>2, <2>3, <2>4, PaidUnchanged DEF AddressInv
<1>9. QED
  BY <1>5, <1>6, <1>7, <1>8 DEF AddressInv

\* The chain grows by an address handed out, which is within reach of it.
LEMMA PayKeepsInv ==
    ASSUME AddressInv, NEW t \in KeyType, NEW i \in handed[t], Pay(t, i)
    PROVE  AddressInv'
<1>1. TypeOK /\ paid[t] \in Seq(Nat \ {0}) /\ i \in Nat \ {0}
  BY DEF AddressInv, TypeOK
<1>2. /\ paid' \in [KeyType -> Seq(Nat \ {0})]
      /\ paid' = [paid EXCEPT ![t] = Append(paid[t], i)]
  BY <1>1 DEF Pay, TypeOK
<1>3. ASSUME NEW u \in KeyType
      PROVE  /\ Len(paid[u]) \in Nat
             /\ DOMAIN paid[u] = 1..Len(paid[u])
             /\ DOMAIN paid[u] \subseteq DOMAIN paid'[u]
             /\ \A j \in DOMAIN paid[u] : paid'[u][j] = paid[u][j]
             /\ \A j \in DOMAIN paid'[u] :
                   j \in DOMAIN paid[u] \/
                       (u = t /\ j = Len(paid[t]) + 1 /\ paid'[u][j] = i)
  <2>1. paid[u] \in Seq(Nat \ {0})
    BY <1>1 DEF TypeOK
  <2>2. CASE u = t
    BY <2>1, <2>2, <1>1, <1>2 DEF TypeOK
  <2>3. CASE u # t
    BY <2>1, <2>3, <1>1, <1>2 DEF TypeOK
  <2>4. QED
    BY <2>2, <2>3
<1>4. \A u \in KeyType : ToSet(paid[u]) \subseteq ToSet(paid'[u])
  BY <1>3 DEF ToSet
<1>5. \A u \in KeyType : \A j : Reach(u, j) => Reach(u, j)'
  BY <1>3 DEF Reach
<1>6. TypeOK'
  BY <1>1, <1>2 DEF TypeOK, Pay
<1>7. UsedArePaid'
  <2>1. UsedArePaid /\ UNCHANGED <<list, mark, saved>>
    BY DEF AddressInv, Pay
  <2>2. \A th \in Thread : mark[th] # NoMark => mark[th].type \in KeyType
    BY <1>1 DEF TypeOK, Marks
  <2>3. QED
    BY <1>4, <2>1, <2>2 DEF UsedArePaid
<1>8. Recoverable'
  <2>1. SUFFICES ASSUME NEW u \in KeyType, NEW k \in DOMAIN paid'[u]
                 PROVE  \/ paid'[u][k] <= Gap
                        \/ \E j \in 1..k-1 : paid'[u][k] <= paid'[u][j] + Gap
    BY DEF Recoverable
  <2>2. CASE k \in DOMAIN paid[u]
    <3>1. \/ paid[u][k] <= Gap
          \/ \E j \in 1..k-1 : paid[u][k] <= paid[u][j] + Gap
      BY <2>2 DEF AddressInv, Recoverable
    <3>2. \A j \in 1..k-1 : j \in DOMAIN paid[u]
      BY <2>2, <1>3
    <3>3. QED
      BY <2>2, <1>3, <3>1, <3>2
  <2>3. CASE u = t /\ k = Len(paid[t]) + 1 /\ paid'[u][k] = i
    <3>1. Reach(t, i)
      BY DEF AddressInv
    <3>2. 1..k-1 = DOMAIN paid[t]
      BY <2>3, <1>3
    <3>3. QED
      BY <2>3, <3>1, <3>2, <1>3 DEF Reach
  <2>4. QED
    BY <2>2, <2>3, <1>3
<1>9. QED
  BY <1>5, <1>6, <1>7, <1>8 DEF AddressInv, Pay

\* A thread finds an address to mark: of the list, and paid unless it is an
\* independent key's.
LEMMA MarkStartedKeepsInv ==
    ASSUME AddressInv, NEW th \in Thread, NEW m \in Marks,
           m.pos \in DOMAIN list[m.type],
           m.derived \/ m.pos \in ToSet(paid[m.type]),
           mark' = [mark EXCEPT ![th] = m],
           UNCHANGED <<list, saved, handed, paid>>
    PROVE  AddressInv'
<1>1. TypeOK'
  BY DEF AddressInv, TypeOK
<1>2. UsedArePaid'
  BY DEF AddressInv, TypeOK, UsedArePaid
<1>3. Recoverable' /\ \A t \in KeyType : \A i \in handed'[t] : Reach(t, i)'
  BY DEF AddressInv, Recoverable, Reach
<1>4. QED
  BY <1>1, <1>2, <1>3 DEF AddressInv

\* A marked list: one more address may be used.
LEMMA MarkedUses ==
    ASSUME NEW l \in Seq(Address), NEW m \in Marks, m.pos \in 1..Len(l)
    PROVE  /\ Marked(l, m) \in Seq(Address)
           /\ Len(Marked(l, m)) = Len(l)
           /\ \A i \in 1..Len(l) :
                 Marked(l, m)[i].used <=> l[i].used \/ (i = m.pos /\ ~m.derived)
<1> DEFINE a == [l[m.pos] EXCEPT !.used = TRUE]
<1>1. CASE m.derived
  BY <1>1 DEF Marked, Marks
<1>2. CASE ~m.derived
  <2>1. a \in Address /\ a.used
    <3>1. l[m.pos] \in Address
      OBVIOUS
    <3>2. QED
      BY <3>1, AddressFlags
  <2>2. Marked(l, m) = [l EXCEPT ![m.pos] = a]
    BY <1>2 DEF Marked
  <2> HIDE DEF a
  <2>3. QED
    BY <1>2, <2>1, <2>2
<1>3. QED
  BY <1>1, <1>2

\* The scan is made whenever the mark falls into the last gap, and there is no
\* need for one otherwise.
LEMMA FinishedListKeepsGap ==
    ASSUME NEW l \in Seq(Address), GapOK(l), NEW m \in Marks, m.pos \in 1..Len(l),
           NEW k, k = IF NearEnd(Marked(l, m), m) THEN ForwardScan(Marked(l, m))
                      ELSE Marked(l, m)
    PROVE  /\ k \in Seq(Address)
           /\ GapOK(k)
           /\ Len(k) >= Len(l)
           /\ \A i \in 1..Len(k) :
                 k[i].used => /\ i \in 1..Len(l)
                              /\ l[i].used \/ (i = m.pos /\ ~m.derived)
<1> DEFINE n == Marked(l, m)
<1>1. /\ n \in Seq(Address) /\ Len(n) = Len(l)
      /\ \A i \in 1..Len(l) : n[i].used <=> l[i].used \/ (i = m.pos /\ ~m.derived)
      /\ Gap \in Nat /\ Gap > 0 /\ Len(l) \in Nat /\ m.pos \in Nat
  BY MarkedUses, GapAssumption DEF Marks
<1> HIDE DEF n
<1>2. Tight(n)
  <2>1. CASE Len(l) > Gap
    <3>1. Len(l) - Gap \in 1..Len(l) /\ l[Len(l) - Gap].used
      BY <2>1, <1>1 DEF GapOK, Tight
    <3>2. QED
      BY <3>1, <1>1 DEF Tight
  <2>2. QED
    BY <2>1, <1>1 DEF Tight
<1>3. CASE NearEnd(n, m)
  <2>1. k = ForwardScan(n)
    BY <1>3 DEF n
  <2>2. /\ k \in Seq(Address) /\ GapOK(k) /\ Len(k) >= Len(n)
        /\ \A i \in 1..Len(n) : k[i] = n[i]
        /\ \A i \in 1..Len(k) : k[i].used => i <= Len(n)
    BY <2>1, <1>1, <1>2, ForwardScanKeepsGap
  <2>3. ASSUME NEW i \in 1..Len(k), k[i].used
        PROVE  i \in 1..Len(l) /\ (l[i].used \/ (i = m.pos /\ ~m.derived))
    <3>1. i \in 1..Len(l)
      BY <2>2, <2>3, <1>1
    <3>2. QED
      BY <3>1, <2>2, <2>3, <1>1
  <2>4. QED
    BY <2>2, <2>3, <1>1
<1>4. CASE ~NearEnd(n, m)
  <2>1. k = n
    BY <1>4 DEF n
  <2>2. ~(m.pos + Gap > Len(n))
    BY <1>4, <1>1 DEF NearEnd
  <2>3. Trailing(n, Gap)
    BY <2>2, <1>1 DEF Trailing, GapOK
  <2>4. QED
    BY <2>1, <2>3, <1>1, <1>2 DEF GapOK
<1>5. QED
  BY <1>3, <1>4

\* What MarkAddress does to the lists.
LEMMA FinishMarkGrows ==
    ASSUME AddressInv, NEW th \in Thread, FinishMark(th)
    PROVE  /\ list' \in [KeyType -> Seq(Address)]
           /\ \A t \in KeyType : GapOK(list'[t])
           /\ \A t \in KeyType : DOMAIN list[t] \subseteq DOMAIN list'[t]
           /\ \A t \in KeyType : \A i \in 1..Len(list'[t]) :
                 list'[t][i].used => i \in ToSet(paid[t])
<1> DEFINE m == mark[th]
           t == m.type
           k == list'[t]
<1>1. /\ TypeOK /\ m \in Marks /\ t \in KeyType
      /\ list[t] \in Seq(Address) /\ m.pos \in 1..Len(list[t])
  <2>1. TypeOK /\ m # NoMark
    BY DEF AddressInv, FinishMark
  <2>2. m \in Marks /\ m.pos \in DOMAIN list[t]
    BY <2>1 DEF TypeOK
  <2>3. t \in KeyType
    BY <2>2 DEF Marks
  <2>4. list[t] \in Seq(Address)
    BY <2>1, <2>3 DEF TypeOK
  <2>5. QED
    BY <2>1, <2>2, <2>3, <2>4
<1>2. /\ list' = [list EXCEPT ![t] = k]
      /\ k = IF NearEnd(Marked(list[t], m), m)
             THEN ForwardScan(Marked(list[t], m)) ELSE Marked(list[t], m)
  <2>1. PICK x : /\ list' = [list EXCEPT ![t] = x]
                 /\ x = IF NearEnd(Marked(list[t], m), m)
                        THEN ForwardScan(Marked(list[t], m)) ELSE Marked(list[t], m)
    BY DEF FinishMark
  <2>2. DOMAIN list = KeyType
    BY <1>1 DEF TypeOK
  <2>3. list'[t] = x
    BY <1>1, <2>1, <2>2
  <2>4. QED
    BY <2>1, <2>3
<1>3. /\ k \in Seq(Address) /\ GapOK(k) /\ Len(k) >= Len(list[t])
      /\ \A i \in 1..Len(k) :
            k[i].used => /\ i \in 1..Len(list[t])
                         /\ list[t][i].used \/ (i = m.pos /\ ~m.derived)
  <2>1. PICK l, n : /\ l = list[t] /\ n = k
                    /\ n = IF NearEnd(Marked(l, m), m)
                           THEN ForwardScan(Marked(l, m)) ELSE Marked(l, m)
    BY <1>2
  <2>2. l \in Seq(Address) /\ m \in Marks /\ m.pos \in 1..Len(l) /\ GapOK(l)
    BY <1>1, <2>1 DEF AddressInv
  <2>3. /\ n \in Seq(Address) /\ GapOK(n) /\ Len(n) >= Len(l)
        /\ \A i \in 1..Len(n) :
              n[i].used => /\ i \in 1..Len(l)
                           /\ l[i].used \/ (i = m.pos /\ ~m.derived)
    BY <2>1, <2>2, FinishedListKeepsGap
  <2>4. QED
    BY <2>1, <2>3
<1> HIDE DEF k
<1>4. /\ list' \in [KeyType -> Seq(Address)]
      /\ \A u \in KeyType : DOMAIN list[u] \subseteq DOMAIN list'[u]
  <2>1. list' \in [KeyType -> Seq(Address)]
    BY <1>1, <1>2, <1>3 DEF TypeOK
  <2>2. ASSUME NEW u \in KeyType PROVE DOMAIN list[u] \subseteq DOMAIN list'[u]
    <3>1. list[u] \in Seq(Address) /\ list'[u] \in Seq(Address)
      BY <2>1, <1>1 DEF TypeOK
    <3>2. Len(list[u]) <= Len(list'[u])
      <4>1. Len(list[u]) \in Nat
        BY <3>1
      <4>2. list'[u] = IF u = t THEN k ELSE list[u]
        BY <1>1, <1>2 DEF TypeOK
      <4>3. QED
        BY <1>3, <4>1, <4>2
    <3>3. QED
      BY <3>1, <3>2
  <2>3. QED
    BY <2>1, <2>2
<1>5. \A u \in KeyType : GapOK(list'[u])
  BY <1>1, <1>2, <1>3 DEF AddressInv, TypeOK
<1>6. \A u \in KeyType : \A i \in 1..Len(list'[u]) :
          list'[u][i].used => i \in ToSet(paid[u])
  <2>1. \A i \in 1..Len(k) : k[i].used => i \in ToSet(paid[t])
    BY <1>1, <1>3 DEF AddressInv, UsedArePaid, FinishMark
  <2>2. QED
    BY <2>1, <1>1, <1>2 DEF AddressInv, UsedArePaid, TypeOK
<1>7. QED
  BY <1>4, <1>5, <1>6

\* MarkAddress ends.
LEMMA FinishMarkKeepsInv ==
    ASSUME AddressInv, NEW th \in Thread, FinishMark(th)
    PROVE  AddressInv'
<1>1. /\ list' \in [KeyType -> Seq(Address)]
      /\ \A t \in KeyType : GapOK(list'[t])
      /\ \A t \in KeyType : DOMAIN list[t] \subseteq DOMAIN list'[t]
      /\ \A t \in KeyType : \A i \in 1..Len(list'[t]) :
            list'[t][i].used => i \in ToSet(paid[t])
  BY FinishMarkGrows
<1>2. /\ TypeOK
      /\ mark' = [mark EXCEPT ![th] = NoMark]
      /\ UNCHANGED <<saved, handed, paid>>
  BY DEF AddressInv, FinishMark
<1>3. TypeOK'
  <2>1. \A o \in Thread : mark[o] # NoMark =>
            mark[o].type \in KeyType /\ mark[o].pos \in DOMAIN list'[mark[o].type]
    BY <1>1, <1>2 DEF TypeOK, Marks
  <2>2. QED
    BY <2>1, <1>1, <1>2 DEF TypeOK
<1>4. UsedArePaid'
  BY <1>1, <1>2 DEF AddressInv, UsedArePaid, TypeOK
<1>5. Recoverable' /\ \A u \in KeyType : \A j \in handed'[u] : Reach(u, j)'
  BY <1>2 DEF AddressInv, Recoverable, Reach
<1>6. QED
  BY <1>1, <1>2, <1>3, <1>4, <1>5 DEF AddressInv

\* What is loaded is what was saved, but for Given.
LEMMA LoadedTight ==
    ASSUME NEW s \in Seq(Address), Tight(s)
    PROVE  /\ Loaded(s) \in Seq(Address)
           /\ Tight(Loaded(s))
           /\ Len(Loaded(s)) = Len(s)
           /\ \A i \in 1..Len(s) : Loaded(s)[i].used = s[i].used
<1> DEFINE a(i) == [used |-> s[i].used, given |-> FALSE]
<1>1. ASSUME NEW i \in 1..Len(s) PROVE a(i) \in Address /\ a(i).used = s[i].used
  <2>1. s[i] \in Address
    OBVIOUS
  <2>2. s[i].used \in BOOLEAN
    BY <2>1 DEF Address
  <2>3. QED
    BY <2>2 DEF Address
<1>2. Loaded(s) = [i \in 1..Len(s) |-> a(i)]
  BY DEF Loaded
<1> HIDE DEF a
<1>3. /\ Loaded(s) \in Seq(Address) /\ Len(Loaded(s)) = Len(s)
      /\ \A i \in 1..Len(s) : Loaded(s)[i].used = s[i].used
  BY <1>1, <1>2
<1>4. QED
  BY <1>3, UsedDecides

\* A restart completes whatever was saved; threads are gone.
LEMMA RestartKeepsInv ==
    ASSUME AddressInv, NEW how \in {"clean", "crash"}, Restart(how)
    PROVE  AddressInv'
<1>1. /\ TypeOK
      /\ saved' = list \/ saved' = saved
      /\ mark' = [th \in Thread |-> NoMark]
      /\ list' = [t \in KeyType |-> ForwardScan(Loaded(saved'[t]))]
      /\ UNCHANGED <<handed, paid>>
  BY DEF AddressInv, Restart
<1>2. /\ saved' \in [KeyType -> Seq(Address)]
      /\ \A t \in KeyType : Tight(saved'[t])
      /\ \A t \in KeyType : \A i \in 1..Len(saved'[t]) :
            saved'[t][i].used => i \in ToSet(paid[t])
  BY <1>1 DEF AddressInv, TypeOK, UsedArePaid, GapOK
<1>3. ASSUME NEW t \in KeyType
      PROVE  /\ list'[t] \in Seq(Address) /\ GapOK(list'[t])
             /\ \A i \in 1..Len(list'[t]) : list'[t][i].used => i \in ToSet(paid[t])
  <2> DEFINE l == Loaded(saved'[t])
             k == list'[t]
  <2>1. /\ l \in Seq(Address) /\ Tight(l) /\ Len(l) = Len(saved'[t])
        /\ \A i \in 1..Len(saved'[t]) : l[i].used = saved'[t][i].used
    BY <1>2, LoadedTight
  <2>2. k = ForwardScan(l)
    BY <1>1
  <2> HIDE DEF l, k
  <2>3. /\ k \in Seq(Address) /\ GapOK(k)
        /\ \A i \in 1..Len(l) : k[i] = l[i]
        /\ \A i \in 1..Len(k) : k[i].used => i <= Len(l)
    BY <2>1, <2>2, ForwardScanKeepsGap
  <2>4. ASSUME NEW i \in 1..Len(k), k[i].used PROVE i \in ToSet(paid[t])
    <3>1. i \in 1..Len(l)
      BY <2>1, <2>3, <2>4
    <3>2. QED
      BY <3>1, <2>1, <2>3, <2>4, <1>2
  <2>5. QED
    BY <2>3, <2>4 DEF k
<1>4. TypeOK'
  <2>1. list' \in [KeyType -> Seq(Address)]
    BY <1>1, <1>3
  <2>2. \A th \in Thread : mark'[th] = NoMark
    BY <1>1
  <2>3. QED
    BY <2>1, <2>2, <1>1, <1>2 DEF TypeOK
<1>5. UsedArePaid'
  BY <1>1, <1>2, <1>3 DEF UsedArePaid
<1>6. Recoverable' /\ \A u \in KeyType : \A j \in handed'[u] : Reach(u, j)'
  BY <1>1 DEF AddressInv, Recoverable, Reach
<1>7. QED
  BY <1>2, <1>3, <1>4, <1>5, <1>6 DEF AddressInv

LEMMA StutterKeepsAddressInv == AddressInv /\ UNCHANGED vars => AddressInv'
BY DEF AddressInv, TypeOK, UsedArePaid, Recoverable, Reach, vars

\* AddressInv is inductive.
LEMMA NextAddressInv == AddressInv /\ [Next]_vars => AddressInv'
<1> SUFFICES ASSUME AddressInv, [Next]_vars PROVE AddressInv'
  OBVIOUS
<1>1. ASSUME NEW t \in KeyType, NEW i \in DOMAIN list[t], GetUnused(t, i)
      PROVE  AddressInv'
  BY <1>1, GetUnusedKeepsInv
<1>2. ASSUME NEW t \in KeyType, NEW i \in handed[t], Pay(t, i)
      PROVE  AddressInv'
  BY <1>2, PayKeepsInv
<1>3. ASSUME NEW th \in Thread, NEW t \in KeyType, NEW i \in DOMAIN list[t],
             StartMark(th, t, i) \/ StartMarkDerived(th, t, i)
      PROVE  AddressInv'
  <2>1. i \in Nat \ {0}
    BY DEF AddressInv, TypeOK
  <2>2. PICK d \in BOOLEAN :
            /\ mark' = [mark EXCEPT ![th] = [type |-> t, pos |-> i, derived |-> d]]
            /\ d \/ i \in ToSet(paid[t])
            /\ UNCHANGED <<list, saved, handed, paid>>
    BY <1>3 DEF StartMark, StartMarkDerived
  <2> DEFINE m == [type |-> t, pos |-> i, derived |-> d]
  <2>3. /\ m \in Marks /\ m.pos \in DOMAIN list[m.type]
        /\ m.derived \/ m.pos \in ToSet(paid[m.type])
    BY <2>1, <2>2 DEF Marks
  <2> HIDE DEF m
  <2>4. QED
    BY <2>2, <2>3, MarkStartedKeepsInv DEF m
<1>4. ASSUME NEW th \in Thread, FinishMark(th) PROVE AddressInv'
  BY <1>4, FinishMarkKeepsInv
<1>5. ASSUME NEW how \in {"clean", "crash"}, Restart(how) PROVE AddressInv'
  BY <1>5, RestartKeepsInv
<1>6. CASE UNCHANGED vars
  BY <1>6, StutterKeepsAddressInv
<1>7. QED
  BY <1>1, <1>2, <1>3, <1>4, <1>5, <1>6 DEF Next

-----------------------------------------------------------------------------
(* The theorems.                                                           *)

THEOREM AddressInvHolds == Spec => []AddressInv
BY InitAddressInv, NextAddressInv, PTL DEF Spec

\* The lists are well-formed, and no thread marks an address they do not have.
THEOREM AddressTypesCorrect == Spec => []TypeOK
<1>1. AddressInv => TypeOK
  BY DEF AddressInv
<1>2. QED
  BY <1>1, AddressInvHolds, PTL

\* MarkAddress keeps the lists exactly a gap ahead of the last used address,
\* whatever the gap, however many threads mark and whenever the daemon stops.
THEOREM GapKeptHolds == Spec => []GapKept
<1>1. AddressInv => GapKept
  BY GapKeptOfLists DEF AddressInv, TypeOK
<1>2. QED
  BY <1>1, AddressInvHolds, PTL

\* A wallet restored from its key finds all it was ever paid.
THEOREM RecoverableHolds == Spec => []Recoverable
<1>1. AddressInv => Recoverable
  BY DEF AddressInv
<1>2. QED
  BY <1>1, AddressInvHolds, PTL

\* An address handed out is watched until a crash.
THEOREM HandedWatchedHolds == Spec => HandedWatched
<1>1. AddressInv /\ [Next]_vars =>
          [\A t \in KeyType :
              handed[t] \subseteq DOMAIN list[t] =>
                  handed'[t] \subseteq DOMAIN list'[t] \/ Restart("crash")]_vars
  <2> DEFINE Watched(t) == handed[t] \subseteq DOMAIN list[t]
  <2> SUFFICES ASSUME AddressInv, Next, NEW t \in KeyType,
                      Watched(t), ~Restart("crash")
               PROVE  Watched(t)'
    BY DEF vars
  <2>1. TypeOK /\ list \in [KeyType -> Seq(Address)] /\ list[t] \in Seq(Address)
    BY DEF AddressInv, TypeOK
  <2>2. ASSUME NEW u \in KeyType, NEW i \in DOMAIN list[u], GetUnused(u, i)
        PROVE  Watched(t)'
    <3>1. handed'[t] \subseteq handed[t] \cup (IF t = u THEN {i} ELSE {})
      BY <2>1, <2>2 DEF GetUnused, TypeOK
    <3>2. DOMAIN list'[t] = DOMAIN list[t]
      BY <2>1, <2>2 DEF GetUnused
    <3>3. QED
      BY <3>1, <3>2
  <2>3. ASSUME NEW th \in Thread, FinishMark(th) PROVE Watched(t)'
    <3>1. handed' = handed
      BY <2>3 DEF FinishMark
    <3>2. DOMAIN list[t] \subseteq DOMAIN list'[t]
      BY <2>1, <2>3, FinishMarkGrows
    <3>3. QED
      BY <3>1, <3>2
  <2>4. ASSUME Restart("clean") PROVE Watched(t)'
    <3>1. list'[t] = ForwardScan(Loaded(list[t])) /\ handed' = handed
      BY <2>4 DEF Restart
    <3>2. Tight(list[t])
      BY DEF AddressInv, GapOK
    <3>3. /\ Loaded(list[t]) \in Seq(Address) /\ Tight(Loaded(list[t]))
          /\ Len(Loaded(list[t])) = Len(list[t])
      BY <2>1, <3>2, LoadedTight
    <3>4. list'[t] \in Seq(Address) /\ Len(list'[t]) >= Len(list[t])
      BY <3>1, <3>3, ForwardScanKeepsGap
    <3>5. DOMAIN list[t] \subseteq DOMAIN list'[t]
      BY <2>1, <3>4
    <3>6. QED
      BY <3>1, <3>5
  <2>5. CASE UNCHANGED <<list, handed>>
    BY <2>5
  <2>6. QED
    BY <2>2, <2>3, <2>4, <2>5 DEF Next, Pay, StartMark, StartMarkDerived
<1>2. QED
  BY <1>1, AddressInvHolds, PTL DEF Spec, HandedWatched

-----------------------------------------------------------------------------
(* What is given was handed to somebody.                                   *)

GivenHanded ==
    \A t \in KeyType : \A i \in 1..Len(list[t]) : list[t][i].given => i \in handed[t]

\* Any address of a list after a scan was there before, or is fresh.
LEMMA ForwardScanAppendsFresh ==
    ASSUME NEW l \in Seq(Address), NEW i \in 1..Len(ForwardScan(l))
    PROVE  (i \in 1..Len(l) /\ ForwardScan(l)[i] = l[i]) \/ ForwardScan(l)[i] = Fresh
<1> DEFINE n == Gap - Unused(l)
           new == [j \in 1..n |-> Fresh]
<1>1. n \in Nat /\ Len(l) \in Nat
  BY UnusedCounts, GapAssumption
<1>2. new \in Seq(Address) /\ Len(new) = n /\ \A j \in 1..n : new[j] = Fresh
  <2>1. Fresh \in Address
    BY DEF Fresh, Address
  <2> HIDE DEF n
  <2>2. new \in [1..n -> Address] /\ DOMAIN new = 1..n /\ \A j \in 1..n : new[j] = Fresh
    BY <2>1
  <2> HIDE DEF new
  <2>3. new \in Seq(Address) /\ Len(new) = n
    BY <1>1, <2>2
  <2> QED
    BY <2>2, <2>3
<1>3. ForwardScan(l) = l \o new
  BY DEF ForwardScan
<1> HIDE DEF n, new
<1>4. QED
  BY <1>1, <1>2, <1>3

\* Marking leaves Given alone, and a scan gives nothing.
LEMMA FinishMarkGivesNothing ==
    ASSUME NEW l \in Seq(Address), NEW m \in Marks, m.pos \in 1..Len(l),
           NEW k, k = IF NearEnd(Marked(l, m), m) THEN ForwardScan(Marked(l, m))
                      ELSE Marked(l, m),
           NEW i \in 1..Len(k), k[i].given
    PROVE  i \in 1..Len(l) /\ l[i].given
<1> DEFINE n == Marked(l, m)
<1>1. n \in Seq(Address) /\ Len(n) = Len(l)
  BY MarkedUses
<1>2. \A j \in 1..Len(l) : n[j].given = l[j].given
  <2> DEFINE a == [l[m.pos] EXCEPT !.used = TRUE]
  <2>1. a.given = l[m.pos].given
    <3>1. l[m.pos] \in Address
      OBVIOUS
    <3>2. DOMAIN l[m.pos] = {"used", "given"}
      BY <3>1 DEF Address
    <3>3. QED
      BY <3>2
  <2>2. n = l \/ n = [l EXCEPT ![m.pos] = a]
    BY DEF Marked
  <2> HIDE DEF a, n
  <2>3. QED
    BY <2>1, <2>2
<1> HIDE DEF n
<1>3. ~Fresh.given
  BY DEF Fresh
<1>4. CASE k = n
  BY <1>1, <1>2, <1>4
<1>5. CASE k = ForwardScan(n)
  <2>1. i \in 1..Len(n) /\ k[i] = n[i]
    BY <1>1, <1>3, <1>5, ForwardScanAppendsFresh
  <2>2. QED
    BY <2>1, <1>1, <1>2
<1>6. QED
  BY <1>4, <1>5 DEF n

LEMMA NextGivenHanded ==
    ASSUME AddressInv, GivenHanded, [Next]_vars
    PROVE  GivenHanded'
<1> SUFFICES ASSUME NEW t \in KeyType, NEW i \in 1..Len(list'[t]), list'[t][i].given
             PROVE  i \in handed'[t]
  BY DEF GivenHanded
<1>1. /\ TypeOK /\ list \in [KeyType -> Seq(Address)] /\ list[t] \in Seq(Address)
      /\ handed \in [KeyType -> SUBSET (Nat \ {0})]
  BY DEF AddressInv, TypeOK
<1>2. ASSUME NEW u \in KeyType, NEW j \in DOMAIN list[u], GetUnused(u, j)
      PROVE  i \in handed'[t]
  <2>1. /\ handed' = [handed EXCEPT ![u] = @ \cup {j}]
        /\ list' = [list EXCEPT ![u][j].given = TRUE]
    BY <1>2 DEF GetUnused
  <2>2. CASE t = u /\ i = j
    BY <2>1, <2>2, <1>1
  <2>3. CASE ~(t = u /\ i = j)
    <3>1. i \in 1..Len(list[t]) /\ list[t][i].given
      BY <2>1, <2>3, <1>1
    <3>2. QED
      BY <3>1, <2>1, <1>1 DEF GivenHanded
  <2>4. QED
    BY <2>2, <2>3
<1>3. ASSUME NEW th \in Thread, FinishMark(th) PROVE i \in handed'[t]
  <2> DEFINE m == mark[th]
  <2>1. m \in Marks /\ m.pos \in DOMAIN list[m.type] /\ m.type \in KeyType
    BY <1>1, <1>3 DEF TypeOK, FinishMark, Marks
  <2>2. /\ handed' = handed
        /\ list' = [list EXCEPT ![m.type] =
              IF NearEnd(Marked(list[m.type], m), m)
              THEN ForwardScan(Marked(list[m.type], m)) ELSE Marked(list[m.type], m)]
    BY <1>3 DEF FinishMark
  <2>3. i \in 1..Len(list[t]) /\ list[t][i].given
    <3>1. CASE t # m.type
      BY <3>1, <2>2, <1>1
    <3>2. CASE t = m.type
      <4>1. list'[t] = IF NearEnd(Marked(list[t], m), m)
                       THEN ForwardScan(Marked(list[t], m)) ELSE Marked(list[t], m)
        BY <3>2, <2>2, <1>1
      <4> HIDE DEF m
      <4>2. m.pos \in 1..Len(list[t])
        BY <3>2, <2>1, <1>1
      <4>3. QED
        BY <4>1, <4>2, <2>1, <1>1, FinishMarkGivesNothing
    <3>3. QED
      BY <3>1, <3>2
  <2>4. QED
    BY <2>2, <2>3 DEF GivenHanded
<1>4. ASSUME NEW how \in {"clean", "crash"}, Restart(how) PROVE FALSE
  <2> DEFINE l == Loaded(saved'[t])
  <2>1. saved'[t] \in Seq(Address) /\ Tight(saved'[t])
    BY <1>4, <1>1 DEF Restart, AddressInv, TypeOK, GapOK
  <2>2. l \in Seq(Address) /\ Len(l) = Len(saved'[t])
    BY <2>1, LoadedTight
  <2>3. list'[t] = ForwardScan(l)
    BY <1>4 DEF Restart
  <2>4. \A j \in 1..Len(saved'[t]) : ~l[j].given
    BY DEF Loaded
  <2> HIDE DEF l
  <2>5. \/ i \in 1..Len(l) /\ list'[t][i] = l[i]
        \/ list'[t][i] = Fresh
    BY <2>2, <2>3, ForwardScanAppendsFresh
  <2>6. QED
    BY <2>2, <2>4, <2>5 DEF Fresh
<1>5. CASE UNCHANGED list /\ \A u \in KeyType : handed[u] \subseteq handed'[u]
  BY <1>5 DEF GivenHanded
<1>6. QED
  BY <1>2, <1>3, <1>4, <1>5 DEF Next, Pay, StartMark, StartMarkDerived, vars

LEMMA InitGivenHanded == Init => GivenHanded
<1> SUFFICES ASSUME Init, NEW t \in KeyType, NEW i \in 1..Len(list[t])
             PROVE  ~list[t][i].given
  BY DEF GivenHanded
<1> DEFINE l == <<>>
<1>1. l \in Seq(Address) /\ Len(l) = 0 /\ list[t] = ForwardScan(l)
  BY DEF Init
<1> HIDE DEF l
<1>2. list[t][i] = Fresh
  <2>1. ~(i \in 1..Len(l))
    BY <1>1
  <2>2. QED
    BY <1>1, <2>1, ForwardScanAppendsFresh
<1>3. QED
  BY <1>2 DEF Fresh

\* A wallet runs out of addresses only if somebody was given a whole gap of
\* them and no payment to one of these was marked.
THEOREM ExhaustedOnlyUnpaidHolds == Spec => []ExhaustedOnlyUnpaid
<1>1. AddressInv /\ GivenHanded => ExhaustedOnlyUnpaid
  <2> SUFFICES ASSUME AddressInv, GivenHanded, NEW t \in KeyType, Available(t) = {}
               PROVE  /\ Len(list[t]) >= Gap
                      /\ \A i \in DOMAIN list[t] : i + Gap > Len(list[t]) =>
                            i \in handed[t] /\ ~list[t][i].used
    BY DEF ExhaustedOnlyUnpaid
  <2>1. list[t] \in Seq(Address) /\ GapOK(list[t])
    BY DEF AddressInv, TypeOK
  <2>2. QED
    BY <2>1 DEF GapOK, Trailing, Available, GivenHanded
<1>2. Spec => []GivenHanded
  BY InitGivenHanded, NextGivenHanded, AddressInvHolds, PTL DEF Spec
<1>3. QED
  BY <1>1, <1>2, AddressInvHolds, PTL
=============================================================================
