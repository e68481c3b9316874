-------------------------- MODULE SortTableProofs --------------------------
(***************************************************************************)
(* Proofs about the Sort button of TableViewDemo, for arrays of any length *)
(* over any strings.                                                       *)
(***************************************************************************)
EXTENDS SortTable, FiniteSetTheorems, FunctionTheorems, SequenceTheorems, TLAPS

N == Len(ourStrings)

(* Between two turns of the inner loop: from position i on, the array is   *)
(* in order but for the string at j, the one being carried, which is no    *)
(* smaller than what it has been carried past.                             *)
Carrying ==
  Sorting =>
    /\ SortedOn((i..N) \ {j})
    /\ \A p \in i..(j - 1) : ourStrings[p] <= ourStrings[j]

(* Every string occurs as often as when Sort was tapped.                   *)
Places(s, x) == {p \in DOMAIN s : s[p] = x}
SameStrings ==
  given # <<>> =>
    /\ Len(ourStrings) = Len(given)
    /\ Range(ourStrings) = Range(given)
    /\ \A x \in Range(given) :
         Cardinality(Places(ourStrings, x)) = Cardinality(Places(given, x))

IInv ==
  /\ TypeOK
  /\ N >= 2
  /\ RowsShowStrings
  /\ Carrying
  /\ SameStrings
  /\ Sorting => given # <<>>
  /\ ~Sorting /\ given # <<>> => SortedOn(1..N)

LEMMA InitHolds == Init => IInv
BY StringsAssumption
   DEF Init, IInv, TypeOK, N, LastPair, Sorting, RowsShowStrings, Carrying, SameStrings

----------------------------------------------------------------------------
(* Adding keeps the rows in step with the array.                           *)
LEMMA AddPreserves ==
  ASSUME IInv, NEW s \in Strings, AddButtonTapped(s)
  PROVE  IInv'
<1>1. /\ ourStrings \in Seq(Strings) /\ cells = ourStrings /\ i = 0
      /\ ourStrings' = Append(ourStrings, s) /\ given' = <<>> /\ i' = 0
      /\ cells' = InsertAt(cells, Len(ourStrings'), ourStrings'[Len(ourStrings')])
  BY DEF IInv, TypeOK, RowsShowStrings, AddButtonTapped, Sorting, InsertRow, LastPair
<1>2. /\ ourStrings' \in Seq(Strings)
      /\ Len(ourStrings') = N + 1 /\ ourStrings'[N + 1] = s /\ N \in Nat
  BY <1>1 DEF N
<1>3. SubSeq(ourStrings, 1, N) = ourStrings /\ SubSeq(ourStrings, N + 1, N) = <<>>
  BY <1>1, <1>2 DEF N
<1>4. cells' = ourStrings'
  <2>1. cells' = SubSeq(cells, 1, (N + 1) - 1) \o <<s>> \o SubSeq(cells, N + 1, Len(cells))
    BY <1>1, <1>2 DEF InsertAt
  <2>2. (N + 1) - 1 = N BY <1>2
  <2>3. cells' = (ourStrings \o <<s>>) \o <<>>
    BY <1>1, <1>3, <2>1, <2>2 DEF N
  <2>4. ourStrings \o <<s>> = Append(ourStrings, s) BY <1>1
  <2> QED BY <1>1, <1>2, <2>3, <2>4
<1>5. ~Sorting' /\ given' = <<>> /\ (N >= 2)'
  BY <1>1, <1>2 DEF Sorting, IInv, N
<1>6. TypeOK'
  BY <1>1, <1>2, <1>4, <1>5 DEF TypeOK, LastPair, Sorting
<1> QED
  BY <1>4, <1>5, <1>6 DEF IInv, RowsShowStrings, Carrying, SameStrings

(* Before the first comparison the last string alone is in order.          *)
LEMMA SortPreserves ==
  ASSUME IInv, SortButtonTapped
  PROVE  IInv'
<1>1. /\ ourStrings \in Seq(Strings) /\ N \in Nat /\ N >= 2
      /\ i' = N - 1 /\ j' = N - 1 /\ given' = ourStrings
      /\ ourStrings' = ourStrings /\ cells' = cells /\ cells = ourStrings
  BY DEF IInv, TypeOK, SortButtonTapped, LastPair, N, RowsShowStrings
<1>2. TypeOK' /\ (N >= 2)' /\ RowsShowStrings' /\ Sorting' /\ (given # <<>>)'
  BY <1>1 DEF TypeOK, LastPair, N, RowsShowStrings, Sorting
<1>3. Carrying'
  BY <1>1 DEF Carrying, SortedOn, N
<1>4. SameStrings'
  BY <1>1 DEF SameStrings
<1> QED BY <1>2, <1>3, <1>4 DEF IInv

----------------------------------------------------------------------------
(* The exchange of neighbours k and k+1 and the row move from k to k+1 are *)
(* the same edit.                                                          *)
LEMMA MoveIsExchange ==
  ASSUME NEW S, NEW s \in Seq(S), NEW k \in 1..(Len(s) - 1)
  PROVE  InsertAt(RemoveAt(s, k), k + 1, s[k]) =
           [s EXCEPT ![k] = s[k + 1], ![k + 1] = s[k]]
<1> DEFINE n == Len(s)
           r == SubSeq(s, 1, k - 1) \o SubSeq(s, k + 1, n)
           e == [s EXCEPT ![k] = s[k + 1], ![k + 1] = s[k]]
           m == SubSeq(r, 1, k) \o <<s[k]>> \o SubSeq(r, k + 1, n - 1)
<1>1. n \in Nat /\ n >= 2 /\ k \in Nat /\ k >= 1 /\ k + 1 <= n
  OBVIOUS
<1>2. /\ r \in Seq(S) /\ Len(r) = n - 1
      /\ \A p \in 1..(n - 1) : r[p] = IF p < k THEN s[p] ELSE s[p + 1]
  BY <1>1
<1>3. /\ m \in Seq(S) /\ Len(m) = n
      /\ \A p \in 1..n : m[p] = IF p <= k THEN r[p] ELSE IF p = k + 1 THEN s[k] ELSE r[p - 1]
  <2> HIDE DEF r
  <2>1. /\ SubSeq(r, 1, k) \in Seq(S) /\ Len(SubSeq(r, 1, k)) = k
        /\ \A p \in 1..k : SubSeq(r, 1, k)[p] = r[p]
    BY <1>1, <1>2
  <2>2. /\ SubSeq(r, k + 1, n - 1) \in Seq(S)
        /\ Len(SubSeq(r, k + 1, n - 1)) = n - 1 - k
        /\ \A p \in 1..(n - 1 - k) : SubSeq(r, k + 1, n - 1)[p] = r[k + p]
    BY <1>1, <1>2
  <2>3. s[k] \in S BY <1>1
  <2> DEFINE a == SubSeq(r, 1, k)
             b == SubSeq(r, k + 1, n - 1)
  <2>4. a \in Seq(S) /\ Len(a) = k /\ (\A p \in 1..k : a[p] = r[p])
    BY <2>1
  <2>5. b \in Seq(S) /\ Len(b) = n - 1 - k /\ (\A p \in 1..(n - 1 - k) : b[p] = r[k + p])
    BY <2>2
  <2>6. m = a \o <<s[k]>> \o b
    OBVIOUS
  <2> HIDE DEF a, b, m, n
  <2>7. /\ a \o <<s[k]>> \in Seq(S) /\ Len(a \o <<s[k]>>) = k + 1
        /\ \A p \in 1..(k + 1) : (a \o <<s[k]>>)[p] = IF p <= k THEN r[p] ELSE s[k]
    BY <1>1, <2>3, <2>4
  <2> DEFINE c == a \o <<s[k]>>
  <2>8. /\ c \o b \in Seq(S) /\ Len(c \o b) = Len(c) + Len(b)
        /\ \A p \in 1..(Len(c) + Len(b)) : (c \o b)[p] = IF p <= Len(c) THEN c[p] ELSE b[p - Len(c)]
    <3> HIDE DEF c
    <3> QED BY <2>5, <2>7, ConcatProperties DEF c
  <2>9. Len(c) = k + 1 /\ Len(c) + Len(b) = n /\ m = c \o b
    BY <1>1, <2>5, <2>6, <2>7
  <2> HIDE DEF c
  <2>10. \A p \in 1..(k + 1) : c[p] = IF p <= k THEN r[p] ELSE s[k]
    BY <2>7 DEF c
  <2>11. m \in Seq(S) /\ Len(m) = n
    BY <2>8, <2>9
  <2>12. ASSUME NEW p \in 1..n
         PROVE  m[p] = IF p <= k THEN r[p] ELSE IF p = k + 1 THEN s[k] ELSE r[p - 1]
    <3>1. m[p] = IF p <= k + 1 THEN c[p] ELSE b[p - (k + 1)]
      BY <2>8, <2>9
    <3>2. CASE p <= k + 1
      BY <1>1, <2>10, <3>1, <3>2
    <3>3. CASE p > k + 1
      <4>1. p - (k + 1) \in 1..(n - 1 - k) /\ k + (p - (k + 1)) = p - 1
        BY <1>1, <3>3
      <4> QED BY <1>1, <2>5, <3>1, <3>3, <4>1
    <3> QED BY <1>1, <3>2, <3>3
  <2> QED BY <2>11, <2>12
<1>4. e \in Seq(S) /\ Len(e) = n
      /\ \A p \in 1..n : e[p] = IF p = k THEN s[k + 1] ELSE IF p = k + 1 THEN s[k] ELSE s[p]
  BY <1>1
<1>5. ASSUME NEW p \in 1..n PROVE m[p] = e[p]
  <2> HIDE DEF r, m, e, n
  <2>1. CASE p < k
    BY <1>1, <1>2, <1>3, <1>4, <2>1
  <2>2. CASE p = k
    BY <1>1, <1>2, <1>3, <1>4, <2>2
  <2>3. CASE p = k + 1
    BY <1>1, <1>3, <1>4, <2>3
  <2>4. CASE p > k + 1
    <3>1. p - 1 \in 1..(n - 1) /\ ~(p - 1 < k) /\ (p - 1) + 1 = p
      BY <1>1, <2>4
    <3>2. r[p - 1] = s[p]
      BY <1>2, <3>1
    <3> QED BY <1>1, <1>3, <1>4, <2>4, <3>2
  <2> QED BY <1>1, <2>1, <2>2, <2>3, <2>4
<1>6. m = e
  <2> HIDE DEF m, e
  <2> QED BY <1>3, <1>4, <1>5, SeqEqual
<1>7. InsertAt(RemoveAt(s, k), k + 1, s[k]) = m
  <2>1. RemoveAt(s, k) = r BY DEF RemoveAt
  <2>2. (k + 1) - 1 = k /\ Len(r) = n - 1 BY <1>1, <1>2
  <2> QED BY <2>1, <2>2 DEF InsertAt
<1> QED BY <1>6, <1>7

Swap(s, k) == [s EXCEPT ![k] = s[k + 1], ![k + 1] = s[k]]

(* An exchange leaves every string as many places as it had.               *)
LEMMA ExchangeKeepsStrings ==
  ASSUME NEW S, NEW s \in Seq(S), NEW k \in 1..(Len(s) - 1)
  PROVE  /\ Swap(s, k) \in Seq(S) /\ Len(Swap(s, k)) = Len(s)
         /\ Range(Swap(s, k)) = Range(s)
         /\ \A x : Cardinality(Places(Swap(s, k), x)) = Cardinality(Places(s, x))
<1> DEFINE t == Swap(s, k)
           f == [p \in 1..Len(s) |-> IF p = k THEN k + 1 ELSE IF p = k + 1 THEN k ELSE p]
<1>1. /\ Len(s) \in Nat /\ k \in 1..Len(s) /\ k + 1 \in 1..Len(s) /\ k \in Nat
      /\ DOMAIN s = 1..Len(s)
  OBVIOUS
<1>2. t \in Seq(S) /\ Len(t) = Len(s) /\ DOMAIN t = 1..Len(s)
  BY <1>1 DEF Swap
<1>3. f \in [1..Len(s) -> 1..Len(s)] /\ \A p \in 1..Len(s) : t[p] = s[f[p]] /\ f[f[p]] = p
  BY <1>1, <1>2 DEF Swap
<1> HIDE DEF t
<1>4. Range(t) = Range(s)
  <2> HIDE DEF f
  <2>1. \A p \in 1..Len(s) : s[p] = t[f[p]] BY <1>3
  <2> QED BY <1>1, <1>2, <1>3, <2>1 DEF Range
<1>5. ASSUME NEW x
      PROVE  Cardinality(Places(t, x)) = Cardinality(Places(s, x))
  <2> DEFINE g == [p \in Places(t, x) |-> f[p]]
  <2> HIDE DEF f
  <2>1. /\ \A p \in Places(t, x) : p \in 1..Len(s) /\ t[p] = x
        /\ \A p \in Places(s, x) : p \in 1..Len(s) /\ s[p] = x
    BY <1>1, <1>2 DEF Places
  <2>2. \A p \in Places(t, x) : g[p] = f[p] /\ f[p] \in Places(s, x)
    BY <1>1, <1>3, <2>1 DEF Places
  <2>3. \A p \in Places(s, x) : f[p] \in Places(t, x) /\ g[f[p]] = p
    <3>1. \A p \in Places(s, x) : f[p] \in Places(t, x)
      BY <1>2, <1>3, <2>1 DEF Places
    <3> QED BY <3>1, <1>3, <2>1
  <2>4. g \in [Places(t, x) -> Places(s, x)]
    BY <2>2
  <2>5. \A p, q \in Places(t, x) : g[p] = g[q] => p = q
    BY <1>3, <2>1, <2>2
  <2>6. \A q \in Places(s, x) : \E p \in Places(t, x) : g[p] = q
    BY <2>3
  <2>7. ExistsBijection(Places(t, x), Places(s, x))
    <3> HIDE DEF g
    <3> QED BY <2>4, <2>5, <2>6 DEF ExistsBijection, Bijection, Injection, Surjection, IsInjective
  <2>8. IsFiniteSet(Places(t, x))
    <3>1. Places(t, x) \in SUBSET (1..Len(s)) BY <1>2 DEF Places
    <3>2. IsFiniteSet(1..Len(s)) 
      <4>1. 1 \in Int /\ Len(s) \in Int BY <1>1
      <4> QED BY <4>1, FS_Interval
    <3> QED BY <3>1, <3>2, FS_Subset
  <2> QED BY <2>7, <2>8, FS_Bijection
<1> QED BY <1>2, <1>4, <1>5 DEF t

----------------------------------------------------------------------------
(* A turn of the inner loop carries the larger of the two strings on, and  *)
(* the last turn leaves the array in order from i on.                      *)
LEMMA ComparePreserves ==
  ASSUME IInv, ComparePair
  PROVE  IInv'
<1>1. /\ ourStrings \in Seq(Strings) /\ N \in Nat /\ N >= 2 /\ cells = ourStrings
      /\ i \in 1..(N - 1) /\ j \in i..(N - 1) /\ DOMAIN ourStrings = 1..N
      /\ given # <<>> /\ given' = given /\ given \in Seq(Strings)
      /\ SortedOn((i..N) \ {j})
      /\ \A p \in i..(j - 1) : ourStrings[p] <= ourStrings[j]
      /\ SameStrings
  BY DEF IInv, TypeOK, N, LastPair, Sorting, ComparePair, RowsShowStrings, Carrying
<1>2. \A p \in 1..N : ourStrings[p] \in Nat
  <2>1. \A p \in 1..N : ourStrings[p] \in Strings
    BY <1>1
  <2> QED BY <2>1, StringsAssumption
<1>3. /\ ourStrings' \in Seq(Strings) /\ N' = N
      /\ cells' = ourStrings'
      /\ SameStrings'
      /\ \A p \in 1..N : ourStrings'[p] =
           IF ourStrings[j] <= ourStrings[j + 1] THEN ourStrings[p]
           ELSE IF p = j THEN ourStrings[j + 1]
           ELSE IF p = j + 1 THEN ourStrings[j] ELSE ourStrings[p]
  <2>0. j \in 1..(N - 1) /\ j \in 1..N /\ j + 1 \in 1..N BY <1>1
  <2>1. CASE ourStrings[j] <= ourStrings[j + 1]
    <3>1. ~(ourStrings[j] > ourStrings[j + 1]) BY <1>2, <2>0, <2>1
    <3>2. ourStrings' = ourStrings /\ cells' = cells
      BY <3>1 DEF ComparePair
    <3> QED BY <3>2, <2>1, <1>1 DEF N, SameStrings
  <2>2. CASE ~(ourStrings[j] <= ourStrings[j + 1])
    <3>1. ourStrings[j] > ourStrings[j + 1] BY <1>2, <2>0, <2>2
    <3>2. ourStrings' = Exchanged /\ cells' = MoveRow(j, j + 1)
      BY <3>1 DEF ComparePair
    <3>3. cells' = ourStrings'
      BY <3>2, <1>1, <2>0, MoveIsExchange DEF MoveRow, Exchanged, N
    <3>4. /\ ourStrings' \in Seq(Strings) /\ Len(ourStrings') = Len(ourStrings)
          /\ Range(ourStrings') = Range(ourStrings)
          /\ \A x : Cardinality(Places(ourStrings', x)) = Cardinality(Places(ourStrings, x))
      <4>1. j \in 1..(Len(ourStrings) - 1) /\ ourStrings \in Seq(Strings)
        BY <1>1, <2>0 DEF N
      <4>2. ourStrings' = Swap(ourStrings, j)
        BY <3>2 DEF Exchanged, Swap
      <4> QED BY <4>1, <4>2, ExchangeKeepsStrings
    <3>5. SameStrings'
      BY <3>4, <1>1 DEF SameStrings
    <3>6. \A p \in 1..N : ourStrings'[p] =
            IF p = j THEN ourStrings[j + 1]
            ELSE IF p = j + 1 THEN ourStrings[j] ELSE ourStrings[p]
      BY <3>2, <1>1, <2>0 DEF Exchanged
    <3> QED BY <3>3, <3>4, <3>5, <3>6, <2>2 DEF N
  <2> QED BY <2>1, <2>2
<1>4. /\ \A p, q \in (i..N) \ {j + 1} : p < q => ourStrings'[p] <= ourStrings'[q]
      /\ \A p \in i..j : ourStrings'[p] <= ourStrings'[j + 1]
  <2>1. \A p, q \in (i..N) \ {j} : p < q => ourStrings[p] <= ourStrings[q]
    BY <1>1 DEF SortedOn
  <2>2. \A p, q \in (i..N) \ {j + 1} : p < q => ourStrings'[p] <= ourStrings'[q]
    BY <1>1, <1>2, <1>3, <2>1
  <2>3. \A p \in i..j : ourStrings'[p] <= ourStrings'[j + 1]
    BY <1>1, <1>2, <1>3, <2>1
  <2> QED BY <2>2, <2>3
<1>5. CASE j < N - 1
  <2>1. j' = j + 1 /\ i' = i
    BY <1>1, <1>5 DEF ComparePair, Advance, LastPair, N
  <2>2. TypeOK' /\ Sorting'
    BY <1>1, <1>3, <1>5, <2>1 DEF TypeOK, LastPair, Sorting, N
  <2>3. Carrying'
    <3>1. j' - 1 = j /\ N' = N BY <1>1, <1>3, <2>1
    <3> QED BY <1>4, <2>1, <3>1 DEF Carrying, SortedOn
  <2> QED BY <1>1, <1>3, <2>2, <2>3 DEF IInv, RowsShowStrings
<1>6. CASE ~(j < N - 1)
  <2>1. i' = i - 1 /\ j' = i - 1 /\ j = N - 1
    <3>1. j = N - 1 BY <1>1, <1>6
    <3>2. ~(j < LastPair) BY <1>6 DEF LastPair, N
    <3> QED BY <3>1, <3>2 DEF ComparePair, Advance
  <2>2. TypeOK'
    <3>1. i' \in 0..(N - 1) /\ (i' > 0 => j' \in i'..(N - 1))
      BY <1>1, <2>1
    <3> QED BY <1>1, <1>3, <3>1 DEF TypeOK, LastPair, Sorting, N
  <2>3. \A p, q \in i..N : p < q => ourStrings'[p] <= ourStrings'[q]
    <3>1. \A p \in i..N : p = N \/ p \in (i..N) \ {j + 1}
      BY <1>1, <2>1
    <3>2. \A p \in i..N : p < N => p \in i..j /\ j + 1 = N
      BY <1>1, <2>1
    <3> QED BY <1>1, <1>4, <3>1, <3>2
  <2>4. Carrying'
    <3>1. ((i - 1)..N) \ {i - 1} = i..N /\ N' = N
      BY <1>1, <1>3
    <3>2. (i'..N' \ {j'}) = i..N /\ i'..(j' - 1) = {}
      BY <1>1, <2>1, <3>1
    <3> QED BY <2>3, <3>2 DEF Carrying, SortedOn
  <2>5. ~Sorting' => SortedOn(1..N)'
    <3>1. ~Sorting' => i = 1 BY <1>1, <2>1 DEF Sorting
    <3> QED BY <1>3, <2>3, <3>1 DEF SortedOn
  <2> QED BY <1>1, <1>3, <2>2, <2>4, <2>5 DEF IInv, RowsShowStrings
<1> QED BY <1>5, <1>6

(* The invariant of the whole program.                                     *)
THEOREM Invariance == Spec => []IInv
<1>1. IInv /\ [Next]_vars => IInv'
  <2> SUFFICES ASSUME IInv, [Next]_vars PROVE IInv'
    OBVIOUS
  <2>1. ASSUME NEW s \in Strings, AddButtonTapped(s) PROVE IInv'
    BY <2>1, AddPreserves
  <2>2. CASE SortButtonTapped
    BY <2>2, SortPreserves
  <2>3. CASE ComparePair
    BY <2>3, ComparePreserves
  <2>4. CASE UNCHANGED vars
    BY <2>4 DEF vars, IInv, TypeOK, N, LastPair, Sorting, RowsShowStrings,
                Carrying, SortedOn, SameStrings
  <2> QED BY <2>1, <2>2, <2>3, <2>4 DEF Next
<1> QED BY <1>1, InitHolds, PTL DEF Spec

(* No comparison reads past either end of the array.                       *)
THEOREM InBounds == Spec => []TypeOK
<1>1. IInv => TypeOK BY DEF IInv
<1> QED BY <1>1, Invariance, PTL

(* Row by row the table shows the array.                                   *)
THEOREM RowsInStep == Spec => []RowsShowStrings
<1>1. IInv => RowsShowStrings BY DEF IInv
<1> QED BY <1>1, Invariance, PTL

(* After Sort the array is in order and holds the strings it held before.  *)
THEOREM SortIsCorrect == Spec => []SortSorts
<1>1. IInv => SortSorts
  <2> SUFFICES ASSUME IInv, ~Sorting, given # <<>>
               PROVE  SortedOn(DOMAIN ourStrings) /\ ToBag(ourStrings) = ToBag(given)
    BY DEF SortSorts
  <2>1. SortedOn(DOMAIN ourStrings)
    BY DEF IInv, TypeOK, N
  <2>2. /\ Range(ourStrings) = Range(given)
        /\ \A x \in Range(given) : Cardinality({p \in DOMAIN ourStrings : ourStrings[p] = x})
                                 = Cardinality({p \in DOMAIN given : given[p] = x})
    BY DEF IInv, SameStrings, Places
  <2>3. ToBag(ourStrings) = ToBag(given)
    BY <2>2 DEF ToBag
  <2> QED BY <2>1, <2>3
<1> QED BY <1>1, Invariance, PTL

----------------------------------------------------------------------------
(* The two loops: the turns of the inner one that can still come.          *)
TurnsLeft == IF Sorting THEN i * N - j ELSE 0

LEMMA TurnsCounted == IInv => TurnsLeft \in Nat /\ (Sorting => TurnsLeft > 0)
<1> SUFFICES ASSUME IInv, Sorting PROVE i * N - j \in Nat /\ i * N - j > 0
  BY DEF TurnsLeft
<1>1. N \in Nat /\ N >= 2 /\ i \in 1..(N - 1) /\ j \in i..(N - 1)
  BY DEF IInv, TypeOK, LastPair, N, Sorting
<1>2. i * N = N + (i - 1) * N /\ (i - 1) * N \in Nat
  BY <1>1
<1> QED BY <1>1, <1>2

LEMMA CompareCountsDown ==
  ASSUME IInv, ComparePair
  PROVE  TurnsLeft' < TurnsLeft
<1>1. N \in Nat /\ N >= 2 /\ i \in 1..(N - 1) /\ j \in i..(N - 1) /\ Sorting
  BY DEF IInv, TypeOK, LastPair, N, Sorting, ComparePair
<1>2. N' = N
  BY <1>1 DEF ComparePair, Exchanged, N, IInv, TypeOK, LastPair
<1>3. TurnsLeft = i * N - j /\ TurnsLeft > 0 /\ i * N \in Nat
  BY <1>1, TurnsCounted DEF TurnsLeft
<1>4. CASE j < N - 1
  <2>1. j' = j + 1 /\ i' = i
    BY <1>4 DEF ComparePair, Advance, LastPair, N
  <2>2. TurnsLeft' = i * N - (j + 1)
    BY <1>1, <1>2, <2>1 DEF TurnsLeft, Sorting
  <2> QED BY <1>1, <1>3, <2>2
<1>5. CASE j = N - 1
  <2>1. i' = i - 1 /\ j' = i - 1
    BY <1>1, <1>5 DEF ComparePair, Advance, LastPair, N
  <2>2. CASE i = 1
    BY <1>1, <1>3, <2>1, <2>2 DEF TurnsLeft, Sorting
  <2>3. CASE i > 1
    <3>1. TurnsLeft' = (i - 1) * N - (i - 1)
      BY <1>1, <1>2, <2>1, <2>3 DEF TurnsLeft, Sorting
    <3>2. (i - 1) * N = i * N - N
      BY <1>1
    <3> QED BY <1>1, <1>3, <1>5, <3>1, <3>2
  <2> QED BY <1>1, <2>2, <2>3
<1> QED BY <1>1, <1>4, <1>5

(* The handler of Sort ends after (count - 1)^2 comparisons at most: each  *)
(* of them brings the two loops nearer to their end, and none is made      *)
(* after it.                                                               *)
THEOREM SortIsBounded ==
  Spec => [][/\ SortButtonTapped => TurnsLeft' = (N - 1) * (N - 1)
             /\ ComparePair => TurnsLeft > 0 /\ TurnsLeft' \in Nat /\ TurnsLeft' < TurnsLeft]_vars
<1>1. ASSUME IInv, SortButtonTapped PROVE TurnsLeft' = (N - 1) * (N - 1)
  <2>1. N \in Nat /\ N >= 2 /\ N' = N /\ i' = N - 1 /\ j' = N - 1
    BY <1>1 DEF IInv, TypeOK, SortButtonTapped, LastPair, N
  <2>2. TurnsLeft' = (N - 1) * N - (N - 1)
    BY <2>1 DEF TurnsLeft, Sorting
  <2> QED BY <2>1, <2>2
<1>2. ASSUME IInv, IInv', ComparePair
      PROVE  TurnsLeft > 0 /\ TurnsLeft' \in Nat /\ TurnsLeft' < TurnsLeft
  <2>1. TurnsLeft' \in Nat
    <3>1. IInv' => (TurnsLeft \in Nat)'
      BY TurnsCounted, PTL
    <3> QED BY <1>2, <3>1
  <2>2. TurnsLeft > 0
    BY <1>2, TurnsCounted DEF ComparePair
  <2> QED BY <1>2, <2>1, <2>2, CompareCountsDown
<1>3. IInv /\ IInv' /\ [Next]_vars =>
        [/\ SortButtonTapped => TurnsLeft' = (N - 1) * (N - 1)
         /\ ComparePair => TurnsLeft > 0 /\ TurnsLeft' \in Nat /\ TurnsLeft' < TurnsLeft]_vars
  BY <1>1, <1>2
<1> QED BY <1>3, Invariance, PTL DEF Spec
=============================================================================
