---------------------------- MODULE OrderProofs ----------------------------
(***************************************************************************)
(* Proofs about what has to stay in order.  First what sorting, removing   *)
(* and picking do to a list that holds each element once.  Then            *)
(* WindowOrder, for any windows, clients and indexes: the order, what the  *)
(* clients look at and left, the indexes.  Then Mirror, for any panes,     *)
(* pages and links: the keys that the peer holds, the words on their way   *)
(* to the owner, the trees and the frames on their way back.               *)
(***************************************************************************)
EXTENDS WindowOrder, Mirror, FiniteSetTheorems, SequenceTheorems, TLAPS

-----------------------------------------------------------------------------
(* Numbers and lists. *)

\* Of a nonempty set of numbers, one is the smallest.
LEMMA SmallestOf ==
    ASSUME NEW S \in SUBSET Nat, S # {}
    PROVE  \E x \in S : \A y \in S : x <= y
<1> DEFINE R == OpToRel(<, Nat)
<1>1. IsWellFoundedOn(R, Nat)
  BY NatLessThanWellFounded
<1>2. \A x, y \in Nat : x < y <=> <<x, y>> \in R
  BY DEF OpToRel
<1> HIDE DEF R
<1>3. PICK x \in S : \A y \in S : ~ (<<y, x>> \in R)
  BY <1>1, WFMin
<1>4. ASSUME NEW y \in S PROVE x <= y
  <2>1. x \in Nat /\ y \in Nat /\ ~ (y < x)
    BY <1>2, <1>3
  <2> QED BY <2>1
<1> QED BY <1>4

\* Of a nonempty set of numbers up to a bound, one is the largest.
LEMMA LargestOf ==
    ASSUME NEW n \in Nat, NEW S \in SUBSET (0 .. n), S # {}
    PROVE  \E x \in S : \A y \in S : x >= y
<1> DEFINE T == {n - x : x \in S}
<1>1. T \in SUBSET Nat /\ T # {}
  <2>1. \A x \in S : x \in Nat /\ x <= n /\ n - x \in Nat
    OBVIOUS
  <2> QED BY <2>1
<1>2. PICK t \in T : \A y \in T : t <= y
  BY <1>1, SmallestOf
<1>3. PICK x \in S : t = n - x
  OBVIOUS
<1>4. ASSUME NEW y \in S PROVE x >= y
  <2>1. n - x <= n - y
    BY <1>2, <1>3
  <2> QED BY <2>1
<1> QED BY <1>4

\* `list.remove` of an element takes it out, keeps the others once, and in
\* their order.
LEMMA RemoveLeaves ==
    ASSUME NEW S, NEW list \in Seq(S), IsInjective(list), NEW e
    PROVE  /\ RemoveFirst(list, e) \in Seq(S)
           /\ IsInjective(RemoveFirst(list, e))
           /\ Range(RemoveFirst(list, e)) = Range(list) \ {e}
           /\ Len(RemoveFirst(list, e)) >= Len(list) - 1
           /\ \A i, j \in DOMAIN RemoveFirst(list, e) : i < j =>
                 \E k, l \in DOMAIN list :
                    /\ k < l
                    /\ RemoveFirst(list, e)[i] = list[k]
                    /\ RemoveFirst(list, e)[j] = list[l]
<1>0. DOMAIN list = 1 .. Len(list) /\ Len(list) \in Nat
  OBVIOUS
<1>1. CASE ~ \E i \in 1 .. Len(list) : list[i] = e
  <2>1. RemoveFirst(list, e) = list
    BY <1>1 DEF RemoveFirst
  <2> QED BY <1>0, <1>1, <2>1 DEF Range
<1>2. ASSUME NEW at \in 1 .. Len(list), list[at] = e
      PROVE  /\ RemoveFirst(list, e) \in Seq(S)
             /\ IsInjective(RemoveFirst(list, e))
             /\ Range(RemoveFirst(list, e)) = Range(list) \ {e}
             /\ Len(RemoveFirst(list, e)) >= Len(list) - 1
             /\ \A i, j \in DOMAIN RemoveFirst(list, e) : i < j =>
                   \E k, l \in DOMAIN list :
                      /\ k < l
                      /\ RemoveFirst(list, e)[i] = list[k]
                      /\ RemoveFirst(list, e)[j] = list[l]
  <2> DEFINE front == SubSeq(list, 1, at - 1)
             back == SubSeq(list, at + 1, Len(list))
             rest == front \o back
  <2>1. RemoveFirst(list, e) = rest
    <3>1. {j \in 1 .. Len(list) : list[j] = e} = {at}
      BY <1>0, <1>2 DEF IsInjective
    <3>2. Min({at}) = at
      BY DEF Min
    <3> QED BY <1>2, <3>1, <3>2 DEF RemoveFirst, SelectInSeq, RemoveAt
  <2>10. /\ front \in Seq(S) /\ Len(front) = at - 1
         /\ \A i \in 1 .. (at - 1) : front[i] = list[i]
    BY <1>0
  <2>11. /\ back \in Seq(S) /\ Len(back) = Len(list) - at
         /\ \A i \in 1 .. (Len(list) - at) : back[i] = list[at + i]
    <3>1. \A i \in (at + 1) .. Len(list) : list[i] \in S
      BY <1>0
    <3>2. at + 1 \in Int /\ Len(list) \in Int /\ Len(list) - (at + 1) + 1 = Len(list) - at
      BY <1>0
    <3>3. /\ back \in Seq(S)
          /\ Len(back) = IF at + 1 <= Len(list) THEN Len(list) - (at + 1) + 1 ELSE 0
          /\ \A i \in 1 .. (Len(list) - (at + 1) + 1) : back[i] = list[(at + 1) + i - 1]
      BY <3>1, <3>2, SubSeqProperties
    <3> HIDE DEF back
    <3>4. Len(back) = Len(list) - at
      <4>1. Len(back) = IF at + 1 <= Len(list) THEN Len(list) - (at + 1) + 1 ELSE 0
        BY <3>3
      <4> DEFINE len == Len(list)
      <4>2. len \in Nat /\ at \in 1 .. len /\ Len(back) = IF at + 1 <= len THEN len - (at + 1) + 1 ELSE 0
        BY <1>0, <4>1
      <4> HIDE DEF len
      <4>3. Len(back) = len - at
        BY <4>2
      <4> QED BY <4>3 DEF len
    <3>5. ASSUME NEW i \in 1 .. (Len(list) - at) PROVE back[i] = list[at + i]
      <4>1. i \in 1 .. (Len(list) - (at + 1) + 1) /\ (at + 1) + i - 1 = at + i
        BY <1>0
      <4> QED BY <3>3, <4>1
    <3> QED BY <3>3, <3>4, <3>5
  <2> HIDE DEF front, back
  <2>2. /\ rest \in Seq(S)
        /\ Len(rest) = Len(list) - 1
        /\ DOMAIN rest = 1 .. (Len(list) - 1)
    <3>1. rest \in Seq(S) /\ Len(rest) = Len(front) + Len(back)
      BY <2>10, <2>11, ConcatProperties
    <3> HIDE DEF rest
    <3>2. Len(rest) = Len(list) - 1
      BY <1>0, <2>10, <2>11, <3>1
    <3> QED BY <3>1, <3>2
  <2>12. \A i \in 1 .. (Len(list) - 1) : rest[i] = IF i < at THEN front[i] ELSE back[i - (at - 1)]
    BY <1>0, <2>10, <2>11, ConcatProperties
  <2>3. \A i \in 1 .. (Len(list) - 1) : rest[i] = list[IF i < at THEN i ELSE i + 1]
    <3>1. ASSUME NEW i \in 1 .. (Len(list) - 1), i < at PROVE rest[i] = list[i]
      BY <1>0, <2>10, <2>12, <3>1
    <3>2. ASSUME NEW i \in 1 .. (Len(list) - 1), i >= at PROVE rest[i] = list[i + 1]
      <4>1. /\ i - (at - 1) \in 1 .. (Len(list) - at) /\ at + (i - (at - 1)) = i + 1
            /\ ~ i < at
        BY <1>0, <3>2
      <4> QED BY <2>11, <2>12, <4>1
    <3> HIDE DEF rest
    <3>3. ASSUME NEW i \in 1 .. (Len(list) - 1)
          PROVE  rest[i] = list[IF i < at THEN i ELSE i + 1]
      BY <1>0, <3>1, <3>2
    <3> QED BY <3>3
  <2> HIDE DEF rest
  <2> DEFINE old(i) == IF i < at THEN i ELSE i + 1
  <2>4. \A i \in DOMAIN rest : /\ old(i) \in DOMAIN list /\ old(i) # at
                               /\ rest[i] = list[old(i)]
    BY <1>0, <2>2, <2>3
  <2>5. \A i, j \in DOMAIN rest : (i < j => old(i) < old(j)) /\ (old(i) = old(j) => i = j)
    BY <1>0, <2>2
  <2>6. \A k \in DOMAIN list : k # at => \E i \in DOMAIN rest : old(i) = k
    <3>1. SUFFICES ASSUME NEW k \in DOMAIN list, k # at
                   PROVE  \E i \in DOMAIN rest : old(i) = k
      OBVIOUS
    <3>2. CASE k < at
      BY <1>0, <2>2, <3>2
    <3>3. CASE k > at
      <4>1. k - 1 \in DOMAIN rest /\ old(k - 1) = k
        BY <1>0, <2>2, <3>3
      <4> QED BY <4>1
    <3> QED BY <1>0, <3>1, <3>2, <3>3
  <2> HIDE DEF old
  <2>7. IsInjective(rest)
    BY <2>4, <2>5 DEF IsInjective
  <2>8. Range(rest) = Range(list) \ {e}
    <3>1. \A k \in DOMAIN list : list[k] = e <=> k = at
      BY <1>0, <1>2 DEF IsInjective
    <3> QED BY <2>4, <2>6, <3>1 DEF Range
  <2>9. \A i, j \in DOMAIN rest : i < j =>
           \E k, l \in DOMAIN list : k < l /\ rest[i] = list[k] /\ rest[j] = list[l]
    BY <2>4, <2>5
  <2>13. Len(rest) >= Len(list) - 1
    BY <1>0, <2>2
  <2> QED BY <2>1, <2>2, <2>7, <2>8, <2>9, <2>13
<1> QED BY <1>1, <1>2

-----------------------------------------------------------------------------
\* A list that holds each element once is as long as what is in it.
LEMMA ListCounts ==
    ASSUME NEW S, NEW list \in Seq(S), IsInjective(list)
    PROVE  IsFiniteSet(Range(list)) /\ Cardinality(Range(list)) = Len(list)
<1>1. /\ Len(list) \in Nat /\ DOMAIN list = 1 .. Len(list)
      /\ list \in [1 .. Len(list) -> Range(list)]
  BY DEF Range
<1>2. list \in Bijection(1 .. Len(list), Range(list))
  BY <1>1 DEF IsInjective, Range, Bijection, Injection, Surjection
<1>3. IsFiniteSet(1 .. Len(list)) /\ Cardinality(1 .. Len(list)) = Len(list)
  BY <1>1, FS_Interval
<1>4. ExistsBijection(1 .. Len(list), Range(list))
  BY <1>2 DEF ExistsBijection
<1> QED BY <1>3, <1>4, FS_Bijection

\* A finite set whose elements are ranked, no two alike, can be listed by rank.
LEMMA RankedList ==
    ASSUME NEW set, IsFiniteSet(set),
           NEW rank \in [set -> 1 .. Cardinality(set)],
           \A v, w \in set : rank[v] = rank[w] => v = w
    PROVE  \E order \in [1 .. Cardinality(set) -> set] :
              \A i \in 1 .. Cardinality(set) : rank[order[i]] = i
<1> DEFINE n == Cardinality(set)
<1>1. n \in Nat
  BY FS_CardinalityType
<1>2. IsFiniteSet(1 .. n) /\ Cardinality(1 .. n) = n
  BY <1>1, FS_Interval
<1>3. rank \in Injection(set, 1 .. n)
  BY DEF Injection, IsInjective
<1>4. rank \in Surjection(set, 1 .. n)
  BY <1>2, <1>3, FS_Injection
<1>5. \A i \in 1 .. n : \E w \in set : rank[w] = i
  BY <1>4 DEF Surjection
<1> DEFINE order == [i \in 1 .. n |-> CHOOSE w \in set : rank[w] = i]
<1>6. order \in [1 .. n -> set] /\ \A i \in 1 .. n : rank[order[i]] = i
  BY <1>5
<1> QED BY <1>6

\* `sorted` lists every window it is given once, by index, and windows of the
\* same index in some order.
LEMMA SortedOrder ==
    ASSUME NEW set, IsFiniteSet(set), NEW ix, \A w \in set : ix[w] \in Int
    PROVE  /\ SortedBy(ix, set) \in Seq(set)
           /\ Len(SortedBy(ix, set)) = Cardinality(set)
           /\ IsInjective(SortedBy(ix, set))
           /\ Range(SortedBy(ix, set)) = set
           /\ \A i, j \in DOMAIN SortedBy(ix, set) :
                 i < j => ix[SortedBy(ix, set)[i]] <= ix[SortedBy(ix, set)[j]]
<1> DEFINE n == Cardinality(set)
<1>1. n \in Nat /\ ExistsBijection(1 .. n, set)
  BY FS_CardinalityType
<1>2. PICK f : f \in Bijection(1 .. n, set)
  BY <1>1 DEF ExistsBijection
<1> DEFINE spot == [w \in set |-> CHOOSE i \in 1 .. n : f[i] = w]
<1>3. spot \in [set -> 1 .. n] /\ \A v, w \in set : spot[v] = spot[w] => v = w
  <2>1. \A w \in set : \E i \in 1 .. n : f[i] = w
    BY <1>2 DEF Bijection, Surjection
  <2> QED BY <2>1
<1> HIDE DEF spot, n
<1> DEFINE Before(v, w) == ix[v] < ix[w] \/ (ix[v] = ix[w] /\ spot[v] < spot[w])
           ahead(w) == {v \in set : Before(v, w)}
           rank == [w \in set |-> Cardinality(ahead(w)) + 1]
<1>4. \A v, w \in set : v # w => Before(v, w) \/ Before(w, v)
  BY <1>1, <1>3
<1>5. \A u, v, w \in set : Before(u, v) /\ Before(v, w) => Before(u, w)
  BY <1>1, <1>3
<1>6. \A w \in set : ~ Before(w, w)
  BY <1>1, <1>3
<1> HIDE DEF Before
<1>7. \A w \in set : IsFiniteSet(ahead(w)) /\ Cardinality(ahead(w)) \in 0 .. (n - 1)
  <2> SUFFICES ASSUME NEW w \in set
               PROVE  IsFiniteSet(ahead(w)) /\ Cardinality(ahead(w)) \in 0 .. (n - 1)
    OBVIOUS
  <2>1. IsFiniteSet(set \ {w}) /\ Cardinality(set \ {w}) = n - 1
    BY FS_RemoveElement DEF n
  <2>2. ahead(w) \in SUBSET (set \ {w})
    BY <1>6
  <2> HIDE DEF ahead
  <2>3. IsFiniteSet(ahead(w)) /\ Cardinality(ahead(w)) <= n - 1
    BY <2>1, <2>2, FS_Subset
  <2> QED BY <1>1, <2>3, FS_CardinalityType
<1>8. \A v, w \in set : Before(v, w) => Cardinality(ahead(v)) < Cardinality(ahead(w))
  <2> SUFFICES ASSUME NEW v \in set, NEW w \in set, Before(v, w)
               PROVE  Cardinality(ahead(v)) < Cardinality(ahead(w))
    OBVIOUS
  <2>1. ahead(v) \in SUBSET ahead(w) /\ ahead(v) # ahead(w)
    BY <1>5, <1>6
  <2> HIDE DEF ahead
  <2>2. /\ Cardinality(ahead(v)) <= Cardinality(ahead(w))
        /\ Cardinality(ahead(w)) # Cardinality(ahead(v))
    BY <1>7, <2>1, FS_Subset
  <2> QED BY <1>1, <1>7, <2>2
<1> HIDE DEF ahead
<1>9. /\ rank \in [set -> 1 .. n]
      /\ \A v, w \in set : Before(v, w) => rank[v] < rank[w]
  <2>1. \A w \in set : Cardinality(ahead(w)) + 1 \in 1 .. n
    BY <1>1, <1>7
  <2> QED BY <1>1, <1>7, <1>8, <2>1
<1> HIDE DEF rank
<1>10. \A v, w \in set : rank[v] = rank[w] => v = w
  BY <1>1, <1>4, <1>9
<1>11. PICK order \in [1 .. n -> set] : \A i \in 1 .. n : rank[order[i]] = i
  BY <1>9, <1>10, RankedList DEF n
<1>12. \A i, j \in 1 .. n : order[i] = order[j] => i = j
  BY <1>11
<1>13. \A i, j \in 1 .. n : i < j => ix[order[i]] <= ix[order[j]]
  <2> SUFFICES ASSUME NEW i \in 1 .. n, NEW j \in 1 .. n, i < j, ~ (ix[order[i]] <= ix[order[j]])
               PROVE  FALSE
    OBVIOUS
  <2>1. Before(order[j], order[i])
    BY <1>1, <1>11 DEF Before
  <2>2. j < i
    BY <1>9, <1>11, <2>1
  <2> QED BY <1>1, <2>2
<1> DEFINE sorted == SortedBy(ix, set)
<1>14. /\ sorted \in [1 .. n -> set]
       /\ IsInjective(sorted)
       /\ \A i, j \in DOMAIN sorted : i < j => ix[sorted[i]] <= ix[sorted[j]]
  <2> DEFINE P(s) == /\ IsInjective(s)
                     /\ \A i, j \in DOMAIN s : i < j => ix[s[i]] <= ix[s[j]]
  <2>1. P(order)
    BY <1>11, <1>12, <1>13 DEF IsInjective
  <2>2. sorted = CHOOSE s \in [1 .. n -> set] : P(s)
    BY DEF SortedBy, n
  <2> HIDE DEF P, sorted
  <2>3. sorted \in [1 .. n -> set] /\ P(sorted)
    BY <1>11, <2>1, <2>2
  <2> QED BY <2>3 DEF P
<1> HIDE DEF sorted
<1>15. sorted \in Seq(set) /\ Len(sorted) = n /\ DOMAIN sorted = 1 .. n
  BY <1>1, <1>14
<1>16. Range(sorted) = set
  <2>1. IsFiniteSet(Range(sorted)) /\ Cardinality(Range(sorted)) = n
    BY <1>14, <1>15, ListCounts
  <2>2. Range(sorted) \in SUBSET set
    BY <1>14 DEF Range
  <2> QED BY <2>1, <2>2, FS_Subset DEF n
<1> QED BY <1>14, <1>15, <1>16 DEF sorted, n

\* Where no two have the same index, the next one in the list has a larger.
LEMMA SortedStrictly ==
    ASSUME NEW set, IsFiniteSet(set), NEW ix, \A w \in set : ix[w] \in Int,
           \A v, w \in set : ix[v] = ix[w] => v = w
    PROVE  \A i, j \in DOMAIN SortedBy(ix, set) :
              i < j => ix[SortedBy(ix, set)[i]] < ix[SortedBy(ix, set)[j]]
<1> DEFINE sorted == SortedBy(ix, set)
<1>1. /\ sorted \in Seq(set) /\ IsInjective(sorted)
      /\ \A i, j \in DOMAIN sorted : i < j => ix[sorted[i]] <= ix[sorted[j]]
  BY SortedOrder
<1> HIDE DEF sorted
<1>2. ASSUME NEW i \in DOMAIN sorted, NEW j \in DOMAIN sorted, i < j
      PROVE  ix[sorted[i]] < ix[sorted[j]]
  <2>1. /\ sorted[i] \in set /\ sorted[j] \in set /\ sorted[i] # sorted[j]
        /\ i \in Nat /\ j \in Nat
    BY <1>1, <1>2 DEF IsInjective
  <2> QED BY <1>1, <1>2, <2>1
<1> QED BY <1>2 DEF sorted

-----------------------------------------------------------------------------
(* The order, and what the clients look at and left. *)

\* The order is a list with each window once, in the order of the indexes,
\* and none of them is parked.
ListInv ==
    /\ windows \in Seq(Windows) /\ IsInjective(windows)
    /\ index \in [Windows -> Nat]
    /\ \A i, j \in DOMAIN windows : i < j => index[windows[i]] <= index[windows[j]]
    /\ pen \subseteq Windows /\ Listed \cap pen = {}
    /\ renumbers \in BOOLEAN

\* What a client left holds each window once, and never the one it looks at.
FocusInv ==
    /\ active \in [Clients -> Windows \cup {None}]
    /\ history \in [Clients -> Seq(Windows)]
    /\ \A c \in Clients :
          /\ IsInjective(history[c])
          /\ active[c] \notin Range(history[c])
          /\ active[c] = None => history[c] = <<>>
    /\ lastActive \in Windows \cup {None}

OrderInv == ListInv /\ FocusInv

\* What a client left holds each window once, the newest last, and not the
\* one it goes to.
LEMMA LeftKeeps ==
    ASSUME NEW past \in Seq(Windows), IsInjective(past),
           NEW from \in Windows, NEW to \in Windows
    PROVE  /\ Left(past, from, to) \in Seq(Windows)
           /\ IsInjective(Left(past, from, to))
           /\ to \notin Range(Left(past, from, to))
           /\ from # to => from \in Range(Left(past, from, to))
<1> DEFINE rest == RemoveFirst(past, from)
           longer == IF from # to THEN Append(rest, from) ELSE past
<1>1. rest \in Seq(Windows) /\ IsInjective(rest) /\ Range(rest) = Range(past) \ {from}
  BY RemoveLeaves
<1> HIDE DEF rest
<1>2. /\ longer \in Seq(Windows) /\ IsInjective(longer)
      /\ from # to => from \in Range(longer)
  <2>1. CASE from = to
    BY <2>1
  <2>2. CASE from # to
    <3>1. longer = Append(rest, from)
      BY <2>2
    <3> HIDE DEF longer
    <3>2. /\ longer \in Seq(Windows) /\ Len(longer) = Len(rest) + 1
          /\ \A i \in 1 .. Len(rest) : longer[i] = rest[i]
          /\ longer[Len(rest) + 1] = from
      BY <1>1, <3>1, AppendProperties
    <3>3. /\ Len(rest) \in Nat /\ DOMAIN rest = 1 .. Len(rest)
          /\ DOMAIN longer = 1 .. (Len(rest) + 1)
      BY <1>1, <3>2
    <3>4. \A i \in 1 .. Len(rest) : rest[i] # from
      BY <1>1, <3>3 DEF Range
    <3>5. IsInjective(longer)
      BY <1>1, <3>2, <3>3, <3>4 DEF IsInjective
    <3>6. from \in Range(longer)
      BY <3>2, <3>3 DEF Range
    <3> QED BY <3>2, <3>5, <3>6
  <2> QED BY <2>1, <2>2
<1>3. Left(past, from, to) = RemoveFirst(longer, to)
  BY DEF Left, rest
<1> HIDE DEF longer
<1>4. /\ RemoveFirst(longer, to) \in Seq(Windows)
      /\ IsInjective(RemoveFirst(longer, to))
      /\ Range(RemoveFirst(longer, to)) = Range(longer) \ {to}
  BY <1>2, RemoveLeaves
<1> QED BY <1>2, <1>3, <1>4

\* The next window of the order is in it, and another one where there is one.
LEMMA NextIsListed ==
    ASSUME OrderInv, NEW w \in Listed
    PROVE  /\ NextAfter(w) \in Listed
           /\ Len(windows) > 1 => NextAfter(w) # w
<1> DEFINE n == Len(windows)
           i == PlaceOf(w, windows)
<1>1. n \in Nat /\ DOMAIN windows = 1 .. n
  BY DEF OrderInv, ListInv
<1>2. i \in 1 .. n /\ windows[i] = w
  BY <1>1 DEF PlaceOf, Listed, Range
<1>3. NextAfter(w) = windows[(i % n) + 1]
  BY DEF NextAfter
<1> HIDE DEF n, i
<1>4. i % n = IF i = n THEN 0 ELSE i
  BY <1>1, <1>2
<1>5. (i % n) + 1 \in 1 .. n /\ (n > 1 => (i % n) + 1 # i)
  BY <1>1, <1>2, <1>4
<1>6. NextAfter(w) \in Listed
  BY <1>1, <1>3, <1>5 DEF Listed, Range
<1>7. n > 1 => NextAfter(w) # w
  BY <1>1, <1>2, <1>3, <1>5 DEF OrderInv, ListInv, IsInjective
<1> QED BY <1>6, <1>7 DEF n

\* The window a client is sent back to is one it left and that is listed.
LEMMA PreviousIsListed ==
    ASSUME OrderInv, NEW c \in Clients
    PROVE  \/ PreviousOf(c) = None
           \/ PreviousOf(c) \in Listed \cap Range(history[c])
<1> DEFINE past == history[c]
           there == {i \in 1 .. Len(past) : past[i] \in Listed}
           newest == SelectLastInSeq(past, LAMBDA w : w \in Listed)
<1>1. newest = IF there # {} THEN Max(there) ELSE 0
  BY DEF SelectLastInSeq
<1>2. PreviousOf(c) = IF newest = 0 THEN None ELSE past[newest]
  BY DEF PreviousOf
<1>3. past \in Seq(Windows) /\ Len(past) \in Nat /\ DOMAIN past = 1 .. Len(past)
  BY DEF OrderInv, FocusInv
<1> HIDE DEF newest
<1>4. CASE there = {}
  BY <1>1, <1>2, <1>4
<1>5. CASE there # {}
  <2>1. there \in SUBSET (0 .. Len(past))
    BY <1>3
  <2>2. \E i \in there : \A j \in there : i >= j
    BY <1>3, <1>5, <2>1, LargestOf
  <2>3. Max(there) \in there
    BY <2>2 DEF Max
  <2>4. newest \in 1 .. Len(past) /\ past[newest] \in Listed
    BY <1>1, <1>5, <2>3
  <2> QED BY <1>2, <1>3, <2>4 DEF Range
<1> QED BY <1>4, <1>5

\* A closing window sends its clients to a listed window, another one where
\* there is one.
LEMMA BackIsListed ==
    ASSUME OrderInv, NEW c \in Clients, NEW w \in Listed, active[c] = w
    PROVE  /\ BackFrom(c, w) \in Listed
           /\ Len(windows) > 1 => BackFrom(c, w) # w
           /\ PreviousOf(c) # None => BackFrom(c, w) = PreviousOf(c)
<1>1. w \notin Range(history[c])
  BY DEF OrderInv, FocusInv
<1>2. PreviousOf(c) = None \/ PreviousOf(c) \in Listed \ {w}
  BY <1>1, PreviousIsListed
<1> QED BY <1>2, NextIsListed, WindowOrderAssumption DEF BackFrom

-----------------------------------------------------------------------------
(* The list. *)

\* A renumbered order goes up by one from `base-index`.
LEMMA RenumberedCounts ==
    ASSUME NEW order \in Seq(Windows), IsInjective(order), NEW ix \in [Windows -> Nat]
    PROVE  /\ Renumbered(order, ix) \in [Windows -> Nat]
           /\ \A i \in DOMAIN order : Renumbered(order, ix)[order[i]] = BaseIndex - 1 + i
           /\ \A w \in Windows \ Range(order) : Renumbered(order, ix)[w] = ix[w]
<1>1. DOMAIN order = 1 .. Len(order) /\ Len(order) \in Nat /\ BaseIndex \in Nat
  BY WindowOrderAssumption
<1>2. \A i \in DOMAIN order : PlaceOf(order[i], order) = i
  BY DEF PlaceOf, IsInjective
<1>3. \A w \in Range(order) : PlaceOf(w, order) \in 1 .. Len(order)
  BY <1>1, <1>2 DEF Range
<1>4. \A i \in DOMAIN order : order[i] \in Range(order) /\ order[i] \in Windows
  BY <1>1 DEF Range
<1>5. Renumbered(order, ix) \in [Windows -> Nat]
  <2>1. \A w \in Range(order) : BaseIndex - 1 + PlaceOf(w, order) \in Nat
    BY <1>1, <1>3
  <2> QED BY <2>1 DEF Renumbered
<1>6. \A i \in DOMAIN order : Renumbered(order, ix)[order[i]] = BaseIndex - 1 + i
  BY <1>2, <1>4 DEF Renumbered
<1> QED BY <1>5, <1>6 DEF Renumbered

\* An order that is sorted again after windows came in or were relabelled.
LEMMA ListIsSorted ==
    ASSUME NEW set \in SUBSET Windows, IsFiniteSet(set),
           index' \in [Windows -> Nat], windows' = SortedBy(index', set),
           pen' \subseteq Windows, set \cap pen' = {}, renumbers' \in BOOLEAN
    PROVE  ListInv' /\ Range(windows') = set /\ Len(windows') = Cardinality(set)
<1>1. \A w \in set : index'[w] \in Int
  OBVIOUS
<1>2. /\ windows' \in Seq(set) /\ Len(windows') = Cardinality(set)
      /\ IsInjective(windows') /\ Range(windows') = set
      /\ \A i, j \in DOMAIN windows' : i < j => index'[windows'[i]] <= index'[windows'[j]]
  BY <1>1, SortedOrder
<1>3. windows' \in Seq(Windows)
  BY <1>2
<1>4. Listed' = set
  BY <1>2 DEF Listed
<1> QED BY <1>2, <1>3, <1>4 DEF ListInv

\* An order that one window leaves, and that closes the gap or not.
LEMMA ListLosesOne ==
    ASSUME ListInv, NEW w \in Listed, windows' = RemoveFirst(windows, w),
           index' = index \/ index' = Renumbered(windows', index),
           pen' \subseteq pen \cup {w}, renumbers' \in BOOLEAN
    PROVE  /\ ListInv' /\ Range(windows') = Listed \ {w}
           /\ Len(windows') >= Len(windows) - 1
<1>1. /\ windows' \in Seq(Windows) /\ IsInjective(windows')
      /\ Range(windows') = Listed \ {w}
      /\ Len(windows') >= Len(windows) - 1
      /\ \A i, j \in DOMAIN windows' : i < j =>
            \E k, l \in DOMAIN windows :
               k < l /\ windows'[i] = windows[k] /\ windows'[j] = windows[l]
  BY RemoveLeaves DEF ListInv, Listed
<1>2. Listed' = Listed \ {w} /\ Listed \subseteq Windows
  BY <1>1 DEF Listed, ListInv, Range
<1>3. pen' \subseteq Windows /\ Listed' \cap pen' = {}
  BY <1>2 DEF ListInv
<1>4. /\ index' \in [Windows -> Nat]
      /\ \A i, j \in DOMAIN windows' : i < j => index'[windows'[i]] <= index'[windows'[j]]
  <2>1. CASE index' = index
    BY <1>1, <2>1 DEF ListInv
  <2>2. CASE index' = Renumbered(windows', index)
    <3>1. /\ index' \in [Windows -> Nat]
          /\ \A i \in DOMAIN windows' : index'[windows'[i]] = BaseIndex - 1 + i
      BY <1>1, <2>2, RenumberedCounts DEF ListInv
    <3>2. DOMAIN windows' \subseteq Nat /\ BaseIndex \in Nat
      BY <1>1, WindowOrderAssumption
    <3> QED BY <3>1, <3>2
  <2> QED BY <2>1, <2>2
<1> QED BY <1>1, <1>3, <1>4 DEF ListInv

\* What is listed is finite.
LEMMA ListedIsFinite ==
    ASSUME ListInv
    PROVE  /\ IsFiniteSet(Listed) /\ Cardinality(Listed) = Len(windows)
           /\ Listed \subseteq Windows
           /\ \A w : /\ IsFiniteSet(Listed \cup {w})
                     /\ w \notin Listed => Cardinality(Listed \cup {w}) = Len(windows) + 1
<1>1. IsFiniteSet(Listed) /\ Cardinality(Listed) = Len(windows)
  BY ListCounts DEF ListInv, Listed
<1>2. Listed \subseteq Windows
  BY DEF ListInv, Listed, Range
<1> QED BY <1>1, <1>2, FS_AddElement

\* There is a lowest free index, and nothing has it.
LEMMA LowestIsFree ==
    ASSUME ListInv
    PROVE  LowestFree \in Nat /\ LowestFree >= BaseIndex /\ At(LowestFree) = {}
<1> DEFINE n == Len(windows)
           places == BaseIndex .. (BaseIndex + n)
           free == {i \in places : At(i) = {}}
<1>1. n \in Nat /\ BaseIndex \in Nat /\ IsFiniteSet(Listed) /\ Cardinality(Listed) = n
  BY ListedIsFinite, WindowOrderAssumption DEF ListInv
<1>2. IsFiniteSet(places) /\ Cardinality(places) = n + 1
  <2> HIDE DEF n
  <2> DEFINE a == BaseIndex
             b == BaseIndex + n
  <2>1. a \in Int /\ b \in Int /\ ~ a > b /\ b - a + 1 = n + 1
    BY <1>1
  <2> HIDE DEF a, b
  <2>2. IsFiniteSet(a .. b) /\ Cardinality(a .. b) = b - a + 1
    BY <2>1, FS_Interval
  <2> QED BY <2>1, <2>2 DEF a, b
<1>3. free # {}
  <2> SUFFICES ASSUME free = {} PROVE FALSE
    OBVIOUS
  <2> DEFINE f == [i \in places |-> CHOOSE w \in Listed : index[w] = i]
  <2>1. \A i \in places : \E w \in Listed : index[w] = i
    BY DEF At
  <2>2. f \in [places -> Listed] /\ \A i \in places : index[f[i]] = i
    BY <2>1
  <2> HIDE DEF f, places
  <2>3. f \in Injection(places, Listed)
    BY <2>2 DEF Injection, IsInjective
  <2>4. Cardinality(places) <= Cardinality(Listed)
    BY <1>1, <2>3, FS_Injection
  <2> QED BY <1>1, <1>2, <2>4
<1>4. free \in SUBSET Nat
  BY <1>1
<1>5. PICK i \in free : \A j \in free : i <= j
  BY <1>3, <1>4, SmallestOf
<1>6. i \in places /\ At(i) = {} /\ \A j \in BaseIndex .. (i - 1) : At(j) # {}
  <2>1. i \in places /\ At(i) = {}
    BY <1>5
  <2>2. ASSUME NEW j \in BaseIndex .. (i - 1) PROVE At(j) # {}
    <3>1. j \in places /\ ~ i <= j
      BY <1>1, <2>1
    <3> QED BY <1>5, <3>1
  <2> QED BY <2>1, <2>2
<1>7. LowestFree \in places /\ At(LowestFree) = {}
  BY <1>6 DEF LowestFree
<1> QED BY <1>1, <1>7

\* The index after the last is larger than every one in use.
LEMMA AfterLastIsFree ==
    ASSUME ListInv
    PROVE  AfterLast \in Nat /\ \A w \in Listed : index[w] < AfterLast
<1> DEFINE n == Len(windows)
           used == {index[w] : w \in Listed}
<1>1. /\ n \in Nat /\ DOMAIN windows = 1 .. n /\ BaseIndex \in Nat
      /\ Listed \subseteq Windows /\ index \in [Windows -> Nat]
  BY ListedIsFinite, WindowOrderAssumption DEF ListInv
<1>2. CASE windows = <<>>
  <2>1. Listed = {}
    BY <1>2 DEF Listed, Range
  <2> QED BY <1>1, <1>2, <2>1 DEF AfterLast
<1>3. CASE windows # <<>>
  <2>1. n > 0
    BY <1>1, <1>3
  <2>2. windows[n] \in Listed
    BY <1>1, <2>1 DEF Listed, Range
  <2>3. \A w \in Listed : index[w] <= index[windows[n]]
    <3> SUFFICES ASSUME NEW i \in 1 .. n PROVE index[windows[i]] <= index[windows[n]]
      BY <1>1 DEF Listed, Range
    <3>1. CASE i = n
      <4>1. index[windows[n]] \in Nat
        BY <1>1, <2>2
      <4> QED BY <3>1, <4>1
    <3>2. CASE i < n
      BY <1>1, <2>1, <3>2 DEF ListInv
    <3> HIDE DEF n
    <3>3. i = n \/ i < n
      BY <1>1
    <3> QED BY <3>1, <3>2, <3>3
  <2> DEFINE largest == CHOOSE i \in used : \A w \in Listed : index[w] <= i
  <2>4. index[windows[n]] \in used
    BY <2>2
  <2>5. largest \in used /\ \A w \in Listed : index[w] <= largest
    BY <2>3, <2>4
  <2>6. used \subseteq Nat
    BY <1>1
  <2>7. AfterLast = 1 + largest
    BY <1>3 DEF AfterLast
  <2> HIDE DEF largest, used
  <2>8. \A w \in Listed : index[w] \in Nat
    BY <1>1
  <2> QED BY <2>5, <2>6, <2>7, <2>8
<1> QED BY <1>2, <1>3

\* Making room frees the index, and keeps apart what had not the same index.
LEMMA MakeRoomFrees ==
    ASSUME ListInv, NEW at \in Nat
    PROVE  /\ MakeRoom(at) \in [Windows -> Nat]
           /\ \A w \in Windows : MakeRoom(at)[w] >= index[w]
           /\ \A w \in Listed : MakeRoom(at)[w] # at
           /\ \A v, w \in Listed :
                 MakeRoom(at)[v] = MakeRoom(at)[w] => index[v] = index[w]
<1> DEFINE InTheWay(w) == index[w] >= at /\ \A i \in at .. index[w] : At(i) # {}
<1>1. Listed \subseteq Windows /\ index \in [Windows -> Nat]
  BY ListedIsFinite DEF ListInv
<1>2. \A w \in Windows :
         MakeRoom(at)[w] = IF w \in Listed /\ InTheWay(w) THEN index[w] + 1 ELSE index[w]
  BY DEF MakeRoom
<1>3. MakeRoom(at) \in [Windows -> Nat]
  BY <1>1 DEF MakeRoom
<1>4. \A w \in Listed : index[w] = at => InTheWay(w)
  BY <1>1 DEF At
<1>5. \A v, w \in Listed : InTheWay(v) /\ index[w] = index[v] + 1 => InTheWay(w)
  <2> SUFFICES ASSUME NEW v \in Listed, NEW w \in Listed, InTheWay(v), index[w] = index[v] + 1
               PROVE  InTheWay(w)
    OBVIOUS
  <2>1. index[v] \in Nat /\ index[w] \in Nat
    BY <1>1
  <2>2. index[w] >= at
    BY <2>1
  <2>3. ASSUME NEW i \in at .. index[w] PROVE At(i) # {}
    <3>1. CASE i = index[w]
      BY <3>1 DEF At
    <3>2. CASE i # index[w]
      <4>1. i \in at .. index[v]
        BY <2>1, <3>2
      <4> QED BY <4>1
    <3> QED BY <3>1, <3>2
  <2> QED BY <2>2, <2>3
<1>6. \A w \in Listed : InTheWay(w) => index[w] >= at
  OBVIOUS
<1> HIDE DEF InTheWay
<1>7. \A w \in Listed : MakeRoom(at)[w] # at
  <2> SUFFICES ASSUME NEW w \in Listed PROVE MakeRoom(at)[w] # at
    OBVIOUS
  <2>1. index[w] \in Nat
    BY <1>1
  <2> QED BY <1>1, <1>2, <1>4, <1>6, <2>1
<1>8. ASSUME NEW v \in Listed, NEW w \in Listed, MakeRoom(at)[v] = MakeRoom(at)[w]
      PROVE  index[v] = index[w]
  <2>1. index[v] \in Nat /\ index[w] \in Nat /\ v \in Windows /\ w \in Windows
    BY <1>1
  <2> QED BY <1>2, <1>5, <1>8, <2>1
<1>9. \A w \in Windows : MakeRoom(at)[w] >= index[w]
  <2> SUFFICES ASSUME NEW w \in Windows PROVE MakeRoom(at)[w] >= index[w]
    OBVIOUS
  <2>1. index[w] \in Nat
    BY <1>1
  <2> QED BY <1>2, <2>1
<1> QED BY <1>3, <1>7, <1>8, <1>9

\* A window that comes into the order is sorted in.
LEMMA ComesIn ==
    ASSUME ListInv, NEW w \in Windows, NEW at \in Indexes \cup {None}, NEW c,
           Create(c, w, at) \/ Link(c, w, at)
    PROVE  ListInv' /\ w \notin Listed /\ Range(windows') = Listed \cup {w}
<1> USE DEF Insert
<1>1. /\ index \in [Windows -> Nat] /\ pen \subseteq Windows /\ renumbers \in BOOLEAN
      /\ Listed \cap pen = {} /\ Indexes \subseteq Nat
      /\ IsFiniteSet(Listed \cup {w}) /\ Listed \cup {w} \in SUBSET Windows
  BY ListedIsFinite, WindowOrderAssumption DEF ListInv, Indexes
<1>2. CASE Create(c, w, at)
  <2>1. index' \in [Windows -> Nat]
    <3>1. CASE at = None
      BY <1>1, <1>2, <3>1, LowestIsFree DEF Create
    <3>2. CASE at # None
      BY <1>1, <1>2, <3>2, MakeRoomFrees DEF Create
    <3> QED BY <3>1, <3>2
  <2>2. /\ w \notin pen /\ w \notin Listed
        /\ windows' = SortedBy(index', Listed \cup {w}) /\ UNCHANGED <<pen, renumbers>>
    BY <1>2 DEF Create, Unknown
  <2> QED BY <1>1, <2>1, <2>2, ListIsSorted
<1>3. CASE Link(c, w, at)
  <2>1. index' \in [Windows -> Nat]
    BY <1>1, <1>3, AfterLastIsFree DEF Link
  <2>2. /\ w \notin Listed /\ windows' = SortedBy(index', Listed \cup {w})
        /\ pen' = pen \ {w} /\ UNCHANGED renumbers
    BY <1>3 DEF Link
  <2> QED BY <1>1, <2>1, <2>2, ListIsSorted
<1> QED BY <1>2, <1>3

\* Windows that are relabelled are sorted again.
LEMMA StaysIn ==
    ASSUME ListInv, NEW v \in Windows, NEW w \in Windows, NEW at \in Indexes \cup {None}, NEW c,
           \/ Relink(c, w, at) \/ Swap(v, w)
           \/ at \in Indexes /\ (MoveTo(w, at) \/ MoveInto(w, at))
    PROVE  ListInv' /\ Range(windows') = Listed
<1>1. /\ index \in [Windows -> Nat] /\ pen \subseteq Windows /\ renumbers \in BOOLEAN
      /\ Listed \cap pen = {} /\ Listed \in SUBSET Windows /\ IsFiniteSet(Listed)
      /\ Indexes \subseteq Nat
  BY ListedIsFinite, WindowOrderAssumption DEF ListInv, Indexes
<1>2. index' \in [Windows -> Nat]
  <2>1. CASE Relink(c, w, at)
    BY <1>1, <2>1 DEF Relink
  <2>2. CASE Swap(v, w)
    BY <1>1, <2>2 DEF Swap
  <2>3. CASE at \in Indexes /\ MoveTo(w, at)
    BY <1>1, <2>3 DEF MoveTo
  <2>4. CASE at \in Indexes /\ MoveInto(w, at)
    BY <1>1, <2>4, MakeRoomFrees DEF MoveInto
  <2> QED BY <2>1, <2>2, <2>3, <2>4
<1>3. windows' = SortedBy(index', Listed) /\ UNCHANGED <<pen, renumbers>>
  BY DEF MoveTo, MoveInto, Relink, Swap
<1> QED BY <1>1, <1>2, <1>3, ListIsSorted

\* A window that goes out of the order leaves the others as they are.
LEMMA GoesOut ==
    ASSUME ListInv, NEW w \in Windows, Unlink(w) \/ MoveAway(w) \/ Close(w)
    PROVE  /\ ListInv' /\ w \in Listed /\ Range(windows') = Listed \ {w}
           /\ index' = index \/ index' = Renumbered(windows', index)
<1>1. /\ w \in Listed /\ windows' = RemoveFirst(windows, w)
      /\ index' = index \/ index' = Renumbered(windows', index)
      /\ pen' \subseteq pen \cup {w} /\ renumbers' = renumbers
  BY DEF Unlink, MoveAway, TakeOut, Close
<1> QED BY <1>1, ListLosesOne DEF ListInv

\* `renumber` leaves the order as it is.
LEMMA KeepsOrder ==
    ASSUME ListInv, SetRenumber
    PROVE  ListInv' /\ (index' = index \/ index' = Renumbered(windows', index))
<1>1. /\ UNCHANGED <<windows, pen>> /\ renumbers' \in BOOLEAN
      /\ index' = index \/ index' = Renumbered(windows, index)
  BY DEF SetRenumber
<1>2. CASE index' = index
  BY <1>1, <1>2 DEF ListInv, Listed
<1>3. CASE index' = Renumbered(windows, index)
  <2>1. /\ index' \in [Windows -> Nat]
        /\ \A i \in DOMAIN windows : index'[windows[i]] = BaseIndex - 1 + i
    BY <1>3, RenumberedCounts DEF ListInv
  <2>2. DOMAIN windows \subseteq Nat /\ BaseIndex \in Nat
    BY WindowOrderAssumption DEF ListInv
  <2>3. \A i, j \in DOMAIN windows : i < j => index'[windows[i]] <= index'[windows[j]]
    BY <2>1, <2>2
  <2> QED BY <1>1, <2>1, <2>3 DEF ListInv, Listed
<1> QED BY <1>1, <1>2, <1>3

\* Every step keeps the list: what comes in, moves or is swapped is sorted in,
\* and what goes leaves the rest as it was.
LEMMA ListStepInv == ListInv /\ [Next]_vars => ListInv'
<1> SUFFICES ASSUME ListInv, [Next]_vars PROVE ListInv'
  OBVIOUS
<1> ASSUME UNCHANGED <<windows, index, pen, renumbers>> PROVE ListInv'
  BY DEF ListInv, Listed
<1>1. ASSUME NEW c \in Clients, Look(c) PROVE ListInv'
  BY <1>1 DEF Look
<1>2. ASSUME NEW c \in Clients, NEW w \in Windows, Select(c, w) PROVE ListInv'
  BY <1>2 DEF Select
<1>3. ASSUME NEW c \in Clients \cup {None}, NEW w \in Windows, NEW at \in Indexes \cup {None},
             Create(c, w, at) \/ Link(c, w, at)
      PROVE  ListInv'
  BY <1>3, ComesIn
<1>4. ASSUME NEW c \in Clients, NEW w \in Windows, NEW at \in Indexes \cup {None}, Relink(c, w, at)
      PROVE  ListInv'
  BY <1>4, StaysIn
<1>5. ASSUME NEW w \in Windows, NEW at \in Indexes, MoveTo(w, at) \/ MoveInto(w, at)
      PROVE  ListInv'
  BY <1>5, StaysIn
<1>6. ASSUME NEW v \in Windows, NEW w \in Windows, Swap(v, w) PROVE ListInv'
  BY <1>6, StaysIn
<1>7. ASSUME NEW w \in Windows, Unlink(w) \/ MoveAway(w) \/ Close(w) PROVE ListInv'
  BY <1>7, GoesOut
<1>8. CASE SetRenumber
  BY <1>8, KeepsOrder
<1>9. CASE UNCHANGED vars
  BY <1>9 DEF vars
<1> QED BY <1>1, <1>2, <1>3, <1>4, <1>5, <1>6, <1>7, <1>8, <1>9 DEF Next

-----------------------------------------------------------------------------
(* Focus. *)

\* A client that goes to a window of the order keeps the one it comes from.
LEMMA SetActiveKeeps ==
    ASSUME OrderInv, ListInv', NEW c \in Clients, NEW w \in Range(windows'), SetActive(c, w)
    PROVE  /\ FocusInv' /\ active'[c] = w
           /\ \A d \in Clients \ {c} : active'[d] = active[d]
<1> DEFINE from == ActiveOf(c, windows')
<1>1. /\ active \in [Clients -> Windows \cup {None}] /\ history \in [Clients -> Seq(Windows)]
      /\ lastActive \in Windows \cup {None}
      /\ \A d \in Clients : /\ IsInjective(history[d]) /\ active[d] \notin Range(history[d])
                            /\ active[d] = None => history[d] = <<>>
  BY DEF OrderInv, FocusInv
<1>2. windows' \in Seq(Windows) /\ windows' # <<>> /\ Range(windows') \subseteq Windows
  <2>1. windows' \in Seq(Windows)
    BY DEF ListInv
  <2>2. windows' # <<>>
    BY DEF Range
  <2> QED BY <2>1, <2>2 DEF Range
<1>3. from \in Windows
  <2>1. Head(windows') \in Windows
    BY <1>2
  <2> QED BY <1>1, <1>2, <2>1 DEF ActiveOf
<1>4. /\ active' = [active EXCEPT ![c] = w]
      /\ history' = [history EXCEPT ![c] = Left(history[c], from, w)]
      /\ lastActive' = w
  BY DEF SetActive
<1> HIDE DEF from
<1>5. /\ Left(history[c], from, w) \in Seq(Windows)
      /\ IsInjective(Left(history[c], from, w))
      /\ w \notin Range(Left(history[c], from, w))
  BY <1>1, <1>2, <1>3, LeftKeeps
<1>6. /\ active' \in [Clients -> Windows \cup {None}] /\ history' \in [Clients -> Seq(Windows)]
      /\ lastActive' \in Windows \cup {None}
      /\ active'[c] = w /\ history'[c] = Left(history[c], from, w)
      /\ \A d \in Clients \ {c} : active'[d] = active[d] /\ history'[d] = history[d]
  BY <1>1, <1>2, <1>4, <1>5
<1>7. ASSUME NEW d \in Clients
      PROVE  /\ IsInjective(history'[d]) /\ active'[d] \notin Range(history'[d])
             /\ active'[d] = None => history'[d] = <<>>
  <2>1. CASE d = c
    BY <1>2, <1>5, <1>6, <2>1, WindowOrderAssumption
  <2>2. CASE d # c
    BY <1>1, <1>6, <2>2
  <2> QED BY <2>1, <2>2
<1> QED BY <1>6, <1>7 DEF FocusInv

\* The clients of a window that goes keep it in their history, but where it
\* closes; the others stay where they are.
LEMMA GoingKeeps ==
    ASSUME OrderInv, NEW w \in Windows, Unlink(w) \/ MoveAway(w) \/ Close(w)
    PROVE  /\ FocusInv'
           /\ \A c \in Clients \ Watching(w) : active'[c] = active[c]
           /\ \A c \in Watching(w) :
                 \/ /\ active'[c] = NextAfter(w)
                    /\ history'[c] = Left(history[c], w, NextAfter(w))
                 \/ active'[c] = BackFrom(c, w)
<1>0. /\ active \in [Clients -> Windows \cup {None}] /\ history \in [Clients -> Seq(Windows)]
      /\ lastActive \in Windows \cup {None}
      /\ \A d \in Clients : /\ IsInjective(history[d]) /\ active[d] \notin Range(history[d])
                            /\ active[d] = None => history[d] = <<>>
      /\ Watching(w) \subseteq Clients /\ \A d \in Watching(w) : active[d] = w
  BY DEF OrderInv, FocusInv, Watching
<1>1. w \in Listed /\ NextAfter(w) \in Windows /\ \A c \in Watching(w) : BackFrom(c, w) \in Windows
  <2>1. w \in Listed
    BY DEF Unlink, MoveAway, TakeOut, Close
  <2>2. Listed \subseteq Windows
    BY ListedIsFinite DEF OrderInv
  <2> QED BY <1>0, <2>1, <2>2, NextIsListed, BackIsListed
<1>2. ASSUME NEW theirs, \A c \in Watching(w) : theirs[c] \in Windows, MoveOff(w, theirs)
      PROVE  /\ active' \in [Clients -> Windows \cup {None}]
             /\ lastActive' \in Windows \cup {None}
             /\ \A c \in Watching(w) : active'[c] = theirs[c]
             /\ \A c \in Clients \ Watching(w) : active'[c] = active[c]
  <2>1. active' = [c \in Clients |-> IF c \in Watching(w) THEN theirs[c] ELSE active[c]]
    BY <1>2 DEF MoveOff
  <2>2. lastActive' \in {lastActive} \cup {theirs[c] : c \in Watching(w)}
    BY <1>2 DEF MoveOff
  <2> QED BY <1>0, <1>2, <2>1, <2>2
<1>3. CASE Unlink(w) \/ MoveAway(w)
  <2> DEFINE theirs == [c \in Clients |-> NextAfter(w)]
  <2>1. /\ MoveOff(w, theirs)
        /\ history' = [c \in Clients |->
              IF c \in Watching(w) THEN Left(history[c], w, NextAfter(w)) ELSE history[c]]
    BY <1>3 DEF Unlink, MoveAway, TakeOut
  <2>2. \A c \in Watching(w) : theirs[c] = NextAfter(w)
    BY <1>0
  <2> HIDE DEF theirs
  <2>3. /\ active' \in [Clients -> Windows \cup {None}]
        /\ lastActive' \in Windows \cup {None}
        /\ \A c \in Watching(w) : active'[c] = NextAfter(w)
        /\ \A c \in Clients \ Watching(w) : active'[c] = active[c]
    BY <1>1, <1>2, <2>1, <2>2
  <2>4. \A c \in Watching(w) :
           /\ history'[c] = Left(history[c], w, NextAfter(w))
           /\ history'[c] \in Seq(Windows) /\ IsInjective(history'[c])
           /\ NextAfter(w) \notin Range(history'[c])
    BY <1>0, <1>1, <2>1, LeftKeeps
  <2>5. \A c \in Clients \ Watching(w) : history'[c] = history[c]
    BY <2>1
  <2>6. history' \in [Clients -> Seq(Windows)]
    <3>1. \A c \in Clients : history'[c] \in Seq(Windows)
      BY <1>0, <2>4, <2>5
    <3>2. history' = [c \in Clients |-> history'[c]]
      BY <2>1
    <3> QED BY <3>1, <3>2
  <2>7. FocusInv'
    BY <1>0, <1>1, <2>3, <2>4, <2>5, <2>6, WindowOrderAssumption DEF FocusInv
  <2> QED BY <2>3, <2>4, <2>7
<1>4. CASE Close(w)
  <2> DEFINE theirs == [c \in Clients |-> BackFrom(c, w)]
             past(c) == IF c \in Watching(w) THEN Left(history[c], w, BackFrom(c, w)) ELSE history[c]
  <2>1. MoveOff(w, theirs) /\ history' = [c \in Clients |-> RemoveFirst(past(c), w)]
    BY <1>4 DEF Close
  <2>2. \A c \in Watching(w) : theirs[c] = BackFrom(c, w)
    BY <1>0
  <2> HIDE DEF theirs
  <2>3. /\ active' \in [Clients -> Windows \cup {None}]
        /\ lastActive' \in Windows \cup {None}
        /\ \A c \in Watching(w) : active'[c] = BackFrom(c, w)
        /\ \A c \in Clients \ Watching(w) : active'[c] = active[c]
    BY <1>1, <1>2, <2>1, <2>2
  <2>4. ASSUME NEW c \in Clients
        PROVE  /\ past(c) \in Seq(Windows) /\ IsInjective(past(c))
               /\ active'[c] \notin Range(past(c))
               /\ active'[c] = None => past(c) = <<>>
    <3>1. CASE c \in Watching(w)
      <4>1. past(c) = Left(history[c], w, BackFrom(c, w))
        BY <3>1
      <4>2. BackFrom(c, w) \in Windows /\ active'[c] = BackFrom(c, w) /\ active'[c] # None
        BY <1>1, <2>3, <3>1, WindowOrderAssumption
      <4> HIDE DEF past
      <4> QED BY <1>0, <4>1, <4>2, LeftKeeps
    <3>2. CASE c \notin Watching(w)
      BY <1>0, <2>3, <3>2
    <3> QED BY <3>1, <3>2
  <2>5. RemoveFirst(<<>>, w) = <<>>
    BY DEF RemoveFirst
  <2> HIDE DEF past
  <2>6. ASSUME NEW c \in Clients
        PROVE  /\ history'[c] \in Seq(Windows) /\ IsInjective(history'[c])
               /\ active'[c] \notin Range(history'[c])
               /\ active'[c] = None => history'[c] = <<>>
    <3>1. history'[c] = RemoveFirst(past(c), w)
      BY <2>1
    <3> QED BY <2>4, <2>5, <3>1, RemoveLeaves
  <2>7. history' \in [Clients -> Seq(Windows)]
    <3>1. history' = [c \in Clients |-> history'[c]]
      BY <2>1
    <3> QED BY <2>6, <3>1
  <2>8. FocusInv'
    BY <2>3, <2>6, <2>7 DEF FocusInv
  <2> QED BY <2>3, <2>8
<1> QED BY <1>3, <1>4

\* A client that renders looks at a window of the order from then on.
LEMMA LookKeeps ==
    ASSUME OrderInv, NEW c \in Clients, Look(c)
    PROVE  /\ FocusInv' /\ active'[c] \in Listed
           /\ \A d \in Clients \ {c} : active'[d] = active[d]
<1>1. /\ active \in [Clients -> Windows \cup {None}] /\ active[c] = None
      /\ UNCHANGED <<windows, history, lastActive>>
      /\ active' = [active EXCEPT ![c] = ActiveOf(c, windows)]
      /\ windows \in Seq(Windows) /\ windows # <<>> /\ Listed \subseteq Windows
  BY ListedIsFinite DEF OrderInv, ListInv, FocusInv, Look
<1>2. ActiveOf(c, windows) \in Listed
  <2>1. Head(windows) \in Range(windows)
    BY <1>1 DEF Range
  <2> QED BY <1>1, <2>1 DEF ActiveOf, Listed
<1>3. /\ active' \in [Clients -> Windows \cup {None}] /\ active'[c] \in Listed
      /\ \A d \in Clients \ {c} : active'[d] = active[d]
  BY <1>1, <1>2
<1>4. history[c] = <<>>
  BY <1>1 DEF OrderInv, FocusInv
<1>5. Range(history[c]) = {}
  BY <1>4 DEF Range
<1>6. FocusInv'
  <2>1. \A d \in Clients : active'[d] \notin Range(history[d])
    BY <1>3, <1>5 DEF OrderInv, FocusInv
  <2>2. \A d \in Clients : active'[d] = None => history[d] = <<>>
    BY <1>3, <1>4 DEF OrderInv, FocusInv
  <2> QED BY <1>1, <1>3, <2>1, <2>2 DEF OrderInv, FocusInv
<1> QED BY <1>3, <1>6

\* A step moves one client to a window of the order, or nobody, or those of a
\* window that goes.
LEMMA FocusStep ==
    ASSUME OrderInv, [Next]_vars
    PROVE  /\ FocusInv'
           /\ \/ UNCHANGED active
              \/ \E c \in Clients : /\ active'[c] \in Range(windows')
                                    /\ \A d \in Clients \ {c} : active'[d] = active[d]
              \/ \E w \in Windows : Unlink(w) \/ MoveAway(w) \/ Close(w)
<1> DEFINE Moves == \/ UNCHANGED active
                    \/ \E c \in Clients : /\ active'[c] \in Range(windows')
                                          /\ \A d \in Clients \ {c} : active'[d] = active[d]
                    \/ \E w \in Windows : Unlink(w) \/ MoveAway(w) \/ Close(w)
<1>0. ListInv'
  BY ListStepInv DEF OrderInv
<1>1. ASSUME UNCHANGED focus PROVE FocusInv' /\ Moves
  BY <1>1 DEF OrderInv, FocusInv, focus
<1>2. ASSUME NEW c \in Clients, NEW w \in Range(windows'), SetActive(c, w) PROVE FocusInv' /\ Moves
  BY <1>0, <1>2, SetActiveKeeps
<1>3. ASSUME NEW c \in Clients, Look(c) PROVE FocusInv' /\ Moves
  <2>1. UNCHANGED windows
    BY <1>3 DEF Look
  <2> QED BY <1>3, <2>1, LookKeeps DEF Listed
<1>4. ASSUME NEW w \in Windows, Unlink(w) \/ MoveAway(w) \/ Close(w) PROVE FocusInv' /\ Moves
  BY <1>4, GoingKeeps
<1> HIDE DEF Moves
<1>5. ASSUME NEW c \in Clients, NEW w \in Windows, Select(c, w) PROVE FocusInv' /\ Moves
  BY <1>2, <1>5 DEF Select, Listed
<1>6. ASSUME NEW c \in Clients \cup {None}, NEW w \in Windows, NEW at \in Indexes \cup {None},
             Create(c, w, at)
      PROVE  FocusInv' /\ Moves
  <2>1. w \in Range(windows')
    BY <1>6, ComesIn DEF OrderInv
  <2>2. IF c = None THEN UNCHANGED focus ELSE SetActive(c, w)
    BY <1>6 DEF Create
  <2> QED BY <1>1, <1>2, <2>1, <2>2
<1>7. ASSUME NEW c \in Clients, NEW w \in Windows, NEW at \in Indexes \cup {None},
             Link(c, w, at) \/ Relink(c, w, at)
      PROVE  FocusInv' /\ Moves
  <2>1. w \in Range(windows')
    <3>1. CASE Link(c, w, at)
      BY <3>1, ComesIn DEF OrderInv
    <3>2. CASE Relink(c, w, at)
      <4>1. w \in Listed
        BY <3>2 DEF Relink
      <4> QED BY <3>2, <4>1, StaysIn DEF OrderInv
    <3> QED BY <1>7, <3>1, <3>2
  <2>2. SetActive(c, w)
    BY <1>7 DEF Link, Relink
  <2> QED BY <1>2, <2>1, <2>2
<1>8. ASSUME NEW v \in Windows, NEW w \in Windows, NEW at \in Indexes,
             MoveTo(w, at) \/ MoveInto(w, at) \/ Swap(v, w)
      PROVE  FocusInv' /\ Moves
  BY <1>1, <1>8 DEF MoveTo, MoveInto, Swap
<1>9. ASSUME SetRenumber \/ UNCHANGED vars PROVE FocusInv' /\ Moves
  <2>1. UNCHANGED focus
    BY <1>9 DEF SetRenumber, vars
  <2> QED BY <1>1, <2>1
<1>10. BaseIndex \in Indexes
  BY WindowOrderAssumption DEF Indexes
<1>11. FocusInv' /\ Moves
  BY <1>3, <1>4, <1>5, <1>6, <1>7, <1>8, <1>9, <1>10 DEF Next
<1> QED BY <1>11 DEF Moves

\* Only a window that is unlinked, moved away or closed goes out of the order.
LEMMA OnlyTheseGo ==
    ASSUME ListInv, [Next]_vars, NEW w \in Listed, w \notin Range(windows')
    PROVE  Unlink(w) \/ MoveAway(w) \/ Close(w)
<1> DEFINE Goes == Unlink(w) \/ MoveAway(w) \/ Close(w)
<1>1. ASSUME Range(windows') = Listed PROVE Goes
  BY <1>1
<1>2. ASSUME UNCHANGED windows PROVE Goes
  BY <1>1, <1>2 DEF Listed
<1>3. ASSUME NEW c \in Clients \cup {None}, NEW v \in Windows, NEW at \in Indexes \cup {None},
             Create(c, v, at) \/ Link(c, v, at)
      PROVE  Goes
  BY <1>3, ComesIn
<1>4. ASSUME NEW c \in Clients, NEW v \in Windows, NEW at \in Indexes \cup {None}, Relink(c, v, at)
      PROVE  Goes
  BY <1>4, <1>1, StaysIn
<1>5. ASSUME NEW v \in Windows, NEW at \in Indexes, MoveTo(v, at) \/ MoveInto(v, at)
      PROVE  Goes
  BY <1>5, <1>1, StaysIn
<1>6. ASSUME NEW u \in Windows, NEW v \in Windows, Swap(u, v) PROVE Goes
  BY <1>6, <1>1, StaysIn
<1>7. ASSUME NEW v \in Windows, Unlink(v) \/ MoveAway(v) \/ Close(v) PROVE Goes
  <2>1. Range(windows') = Listed \ {v}
    BY <1>7, GoesOut
  <2> QED BY <1>7, <2>1
<1> HIDE DEF Goes
<1>8. ASSUME (\E c \in Clients : Look(c)) \/ SetRenumber \/ UNCHANGED vars PROVE Goes
  <2>1. UNCHANGED windows
    BY <1>8 DEF Look, SetRenumber, vars
  <2> QED BY <1>2, <2>1
<1>9. ASSUME NEW c \in Clients, NEW v \in Windows, Select(c, v) PROVE Goes
  BY <1>2, <1>9 DEF Select
<1>10. Goes
  BY <1>3, <1>4, <1>5, <1>6, <1>7, <1>8, <1>9 DEF Next
<1> QED BY <1>10 DEF Goes

\* The list and the focus as they are before anything is created.
LEMMA OrderInitInv == Init => OrderInv
<1> SUFFICES ASSUME Init PROVE OrderInv
  OBVIOUS
<1>1. /\ windows = <<>> /\ pen = {} /\ index = [w \in Windows |-> BaseIndex]
      /\ active = [c \in Clients |-> None] /\ history = [c \in Clients |-> <<>>]
      /\ lastActive = None /\ renumbers \in BOOLEAN
  BY DEF Init
<1>2. /\ windows \in Seq(Windows) /\ DOMAIN windows = {} /\ Range(<<>>) = {}
      /\ IsInjective(<<>>)
  BY <1>1 DEF Range, IsInjective
<1>3. ListInv
  BY <1>1, <1>2, WindowOrderAssumption DEF ListInv
<1>4. <<>> \in Seq(Windows)
  OBVIOUS
<1>5. FocusInv
  BY <1>1, <1>2, <1>4 DEF FocusInv
<1> QED BY <1>3, <1>5 DEF OrderInv

\* The order stays a list sorted by index, with each window once, and no
\* client has the window it looks at among those it left.
THEOREM OrderAlways == Spec => []OrderInv
<1>1. OrderInv /\ [Next]_vars => OrderInv'
  BY ListStepInv, FocusStep DEF OrderInv
<1> QED BY <1>1, OrderInitInv, PTL DEF Spec

\* `unlink_window`, `move_window_to` and `remove_pane` move the clients of the
\* window that goes; any other step moves one client at most.
THEOREM FocusIsOnesOwn == Spec => OnlyOwnFocus
<1> DEFINE Own == \A c, d \in Clients :
         (c # d /\ active[c] # None /\ active[d] # None
            /\ active'[c] # active[c] /\ active'[d] # active[d])
           => active[c] = active[d] /\ active[c] \notin Range(windows')
<1>1. ASSUME OrderInv, [Next]_vars PROVE Own
  <2>1. CASE UNCHANGED active
    BY <2>1
  <2>2. ASSUME NEW c \in Clients, \A d \in Clients \ {c} : active'[d] = active[d] PROVE Own
    BY <2>2
  <2>3. ASSUME NEW w \in Windows, Unlink(w) \/ MoveAway(w) \/ Close(w) PROVE Own
    <3>1. Range(windows') = Listed \ {w}
      BY <1>1, <2>3, GoesOut DEF OrderInv
    <3>2. \A c \in Clients : active'[c] # active[c] => active[c] = w
      BY <1>1, <2>3, GoingKeeps DEF Watching
    <3> QED BY <3>1, <3>2
  <2> HIDE DEF Own
  <2> QED BY <1>1, <2>1, <2>2, <2>3, FocusStep
<1>2. OrderInv /\ [Next]_vars => [Own]_vars
  BY <1>1
<1> QED BY <1>2, OrderAlways, PTL DEF Spec, OnlyOwnFocus

\* `remove_pane` of the last pane returns each client that looked at the
\* window to the newest it left that is still open, and moves nobody else.
THEOREM ClosingReturnsThem == Spec => ClosingReturns
<1> DEFINE Returns == \A w \in Windows :
         w \in Listed /\ w \notin Range(windows') /\ w \notin pen'
         => /\ \A c \in Watching(w) :
                 \/ PreviousOf(c) = None
                 \/ active'[c] = PreviousOf(c)
                 \/ w \in Range(history'[c])
            /\ \A c \in Clients \ Watching(w) : active'[c] = active[c]
<1>1. ASSUME OrderInv, [Next]_vars PROVE Returns
  <2> SUFFICES ASSUME NEW w \in Listed, w \in Windows, w \notin Range(windows')
               PROVE  /\ \A c \in Watching(w) :
                           \/ PreviousOf(c) = None
                           \/ active'[c] = PreviousOf(c)
                           \/ w \in Range(history'[c])
                      /\ \A c \in Clients \ Watching(w) : active'[c] = active[c]
    OBVIOUS
  <2>1. Unlink(w) \/ MoveAway(w) \/ Close(w)
    BY <1>1, OnlyTheseGo DEF OrderInv
  <2>2. /\ \A c \in Clients \ Watching(w) : active'[c] = active[c]
        /\ \A c \in Watching(w) :
              \/ /\ active'[c] = NextAfter(w)
                 /\ history'[c] = Left(history[c], w, NextAfter(w))
              \/ active'[c] = BackFrom(c, w)
    BY <1>1, <2>1, GoingKeeps
  <2>3. ASSUME NEW c \in Watching(w)
        PROVE  \/ PreviousOf(c) = None
               \/ active'[c] = PreviousOf(c)
               \/ w \in Range(history'[c])
    <3>1. c \in Clients /\ active[c] = w /\ NextAfter(w) \in Listed
      BY <1>1, NextIsListed DEF Watching
    <3>2. /\ history[c] \in Seq(Windows) /\ IsInjective(history[c])
          /\ w \notin Range(history[c]) /\ NextAfter(w) \in Windows
      BY <1>1, <3>1, ListedIsFinite DEF OrderInv, FocusInv
    <3>3. CASE active'[c] = BackFrom(c, w)
      BY <1>1, <3>1, <3>3, BackIsListed
    <3>4. CASE history'[c] = Left(history[c], w, NextAfter(w)) /\ NextAfter(w) # w
      BY <3>2, <3>4, LeftKeeps
    <3>5. CASE NextAfter(w) = w
      <4>1. ~ Len(windows) > 1
        BY <1>1, <3>5, NextIsListed
      <4>2. Listed = {w}
        <5>1. windows \in Seq(Windows) /\ Len(windows) \in Nat /\ DOMAIN windows = 1 .. Len(windows)
          BY <1>1 DEF OrderInv, ListInv
        <5>2. \A i, j \in DOMAIN windows : i = j
          BY <4>1, <5>1
        <5> QED BY <5>1, <5>2 DEF Listed, Range
      <4> QED BY <1>1, <3>1, <3>2, <4>2, PreviousIsListed
    <3> QED BY <2>2, <3>3, <3>4, <3>5
  <2> QED BY <2>2, <2>3
<1>2. OrderInv /\ [Next]_vars => [Returns]_vars
  BY <1>1
<1> QED BY <1>2, OrderAlways, PTL DEF Spec, ClosingReturns

-----------------------------------------------------------------------------
(* Nobody is left on a window that is gone, where the last window of a        *)
(* session stays.                                                            *)

LookInv == OrderInv /\ \A c \in Clients : active[c] \in Listed \cup {None}

\* Where the last window does not go, the clients of one that goes are sent to
\* another that is listed.
LEMMA LookStepInv == ASSUME ~ MayEmpty PROVE LookInv /\ [Next]_vars => LookInv'
<1> SUFFICES ASSUME LookInv, [Next]_vars PROVE LookInv'
  OBVIOUS
<1>1. OrderInv /\ OrderInv'
  BY ListStepInv, FocusStep DEF LookInv, OrderInv
<1>2. ASSUME NEW w \in Windows, Unlink(w) \/ MoveAway(w) \/ Close(w)
      PROVE  \A c \in Clients : active'[c] \in Range(windows') \cup {None}
  <2>1. w \in Listed /\ Range(windows') = Listed \ {w}
    BY <1>1, <1>2, GoesOut DEF OrderInv
  <2>2. Len(windows) > 1
    BY <1>2 DEF Unlink, MoveAway, TakeOut, Close
  <2>3. \A c \in Clients \ Watching(w) : active'[c] = active[c] /\ active[c] # w
    BY <1>1, <1>2, GoingKeeps DEF Watching
  <2>4. \A c \in Watching(w) : active'[c] \in {NextAfter(w), BackFrom(c, w)}
    BY <1>1, <1>2, GoingKeeps
  <2>5. \A c \in Watching(w) : active'[c] \in Listed \ {w}
    BY <1>1, <2>1, <2>2, <2>4, NextIsListed, BackIsListed DEF Watching
  <2> QED BY <2>1, <2>3, <2>5 DEF LookInv
<1>3. ASSUME ~ \E w \in Windows : Unlink(w) \/ MoveAway(w) \/ Close(w)
      PROVE  \A c \in Clients : active'[c] \in Range(windows') \cup {None}
  <2>1. Listed \subseteq Windows
    BY <1>1, ListedIsFinite DEF OrderInv
  <2>2. Listed \subseteq Range(windows')
    BY <1>1, <1>3, <2>1, OnlyTheseGo DEF OrderInv
  <2> QED BY <1>1, <1>3, <2>2, FocusStep DEF LookInv
<1>4. \A c \in Clients : active'[c] \in Range(windows') \cup {None}
  BY <1>2, <1>3
<1> QED BY <1>1, <1>4 DEF LookInv, Listed

\* `get_active_window_for` gives every client a window of the order, in a
\* session that keeps its last window: one that closed, was unlinked or went
\* to another session is nobody's any more.
THEOREM LookingAtListed == ASSUME ~ MayEmpty PROVE Spec => []LooksAtListed
<1>1. Init => LookInv
  <2> SUFFICES ASSUME Init PROVE LookInv
    OBVIOUS
  <2> QED BY OrderInitInv DEF LookInv, Init
<1>2. LookInv => LooksAtListed
  BY DEF LookInv, LooksAtListed
<1>3. LookInv /\ [Next]_vars => LookInv'
  BY LookStepInv
<1> QED BY <1>1, <1>2, <1>3, PTL DEF Spec

-----------------------------------------------------------------------------
(* The indexes, where no window is linked on one that is in use. *)

IndexInv ==
    /\ OrderInv
    /\ index \in [Windows -> Indexes]
    /\ \A v, w \in Listed : index[v] = index[w] => v = w

\* There are no more windows in the order than indexes.
LEMMA IndexesSuffice ==
    ASSUME IndexInv
    PROVE  \A i \in DOMAIN windows : BaseIndex - 1 + i \in Indexes
<1> DEFINE n == Len(windows)
<1>1. /\ n \in Nat /\ DOMAIN windows = 1 .. n /\ IsFiniteSet(Listed) /\ Cardinality(Listed) = n
      /\ BaseIndex \in Nat /\ MaxIndex \in Nat /\ BaseIndex <= MaxIndex /\ Listed \subseteq Windows
  BY ListedIsFinite, WindowOrderAssumption DEF IndexInv, OrderInv, ListInv
<1>2. IsFiniteSet(Indexes) /\ Cardinality(Indexes) = MaxIndex - BaseIndex + 1
  <2>1. BaseIndex \in Int /\ MaxIndex \in Int /\ ~ BaseIndex > MaxIndex
    BY <1>1
  <2> QED BY <2>1, FS_Interval DEF Indexes
<1> DEFINE f == [w \in Listed |-> index[w]]
<1>3. f \in Injection(Listed, Indexes)
  BY <1>1 DEF Injection, IsInjective, IndexInv
<1>4. n <= MaxIndex - BaseIndex + 1
  BY <1>1, <1>2, <1>3, FS_Injection
<1> HIDE DEF n
<1> QED BY <1>1, <1>4 DEF Indexes

\* The first free index and the one after the last are `base-index` or above.
LEMMA FreeIsIndex ==
    ASSUME ListInv, index \in [Windows -> Indexes]
    PROVE  LowestFree >= BaseIndex /\ AfterLast >= BaseIndex
<1>1. /\ BaseIndex \in Nat /\ LowestFree \in Nat /\ AfterLast \in Nat
      /\ \A w \in Listed : index[w] < AfterLast /\ index[w] >= BaseIndex /\ index[w] \in Nat
      /\ windows \in Seq(Windows)
  <2>1. \A w \in Listed : index[w] \in BaseIndex .. MaxIndex
    BY ListedIsFinite DEF Indexes
  <2> QED BY <2>1, LowestIsFree, AfterLastIsFree, WindowOrderAssumption DEF ListInv
<1>2. AfterLast >= BaseIndex
  <2>1. CASE windows = <<>>
    BY <1>1, <2>1 DEF AfterLast
  <2>2. CASE windows # <<>>
    <3>1. Head(windows) \in Listed
      BY <1>1, <2>2 DEF Listed, Range
    <3> QED BY <1>1, <3>1
  <2> QED BY <2>1, <2>2
<1>3. LowestFree >= BaseIndex
  BY LowestIsFree
<1> QED BY <1>2, <1>3

\* A window that is given an index no other has, among windows that were
\* apart, leaves them apart.
LEMMA GivenApart ==
    ASSUME NEW set \in SUBSET Windows, NEW old \in [Windows -> Nat],
           \A u, v \in set : old[u] = old[v] => u = v,
           NEW w \in Windows, NEW i \in Nat, \A v \in set \ {w} : old[v] # i,
           NEW ix, ix = [old EXCEPT ![w] = i]
    PROVE  \A u, v \in set \cup {w} : ix[u] = ix[v] => u = v
<1>1. ix[w] = i /\ \A v \in set \ {w} : ix[v] = old[v]
  OBVIOUS
<1> QED BY <1>1

\* An order that is renumbered has every index once, within the bound.
LEMMA RenumberedApart ==
    ASSUME IndexInv, ListInv', Listed' \subseteq Listed,
           index' = index \/ index' = Renumbered(windows', index)
    PROVE  /\ index' \in [Windows -> Indexes]
           /\ \A u, v \in Listed' : index'[u] = index'[v] => u = v
<1>1. CASE index' = index
  BY <1>1 DEF IndexInv
<1>2. CASE index' = Renumbered(windows', index)
  <2> DEFINE n == Len(windows')
  <2>1. /\ windows' \in Seq(Windows) /\ IsInjective(windows') /\ index \in [Windows -> Nat]
        /\ n \in Nat /\ DOMAIN windows' = 1 .. n /\ Len(windows) \in Nat
        /\ DOMAIN windows = 1 .. Len(windows) /\ BaseIndex \in Nat
    BY WindowOrderAssumption DEF IndexInv, OrderInv, ListInv
  <2>2. n <= Len(windows)
    <3>1. /\ IsFiniteSet(Range(windows')) /\ Cardinality(Range(windows')) = n
      BY <2>1, ListCounts
    <3>2. IsFiniteSet(Listed) /\ Cardinality(Listed) = Len(windows)
      BY ListedIsFinite DEF IndexInv, OrderInv
    <3>3. Range(windows') \in SUBSET Listed
      BY DEF Listed
    <3> QED BY <3>1, <3>2, <3>3, FS_Subset
  <2>3. /\ index' \in [Windows -> Nat]
        /\ \A i \in DOMAIN windows' : index'[windows'[i]] = BaseIndex - 1 + i
        /\ \A w \in Windows \ Range(windows') : index'[w] = index[w]
    BY <1>2, <2>1, RenumberedCounts
  <2> HIDE DEF n
  <2>4. ASSUME NEW i \in 1 .. n PROVE BaseIndex - 1 + i \in Indexes
    <3>1. i \in DOMAIN windows
      BY <2>1, <2>2
    <3> QED BY <3>1, IndexesSuffice
  <2>5. ASSUME NEW w \in Windows PROVE index'[w] \in Indexes
    <3>1. CASE w \in Range(windows')
      BY <2>1, <2>3, <2>4, <3>1 DEF Range
    <3>2. CASE w \notin Range(windows')
      BY <2>3, <3>2 DEF IndexInv
    <3> QED BY <3>1, <3>2
  <2>6. ASSUME NEW i \in 1 .. n, NEW j \in 1 .. n, index'[windows'[i]] = index'[windows'[j]]
        PROVE  windows'[i] = windows'[j]
    <3>1. index'[windows'[i]] = BaseIndex - 1 + i /\ index'[windows'[j]] = BaseIndex - 1 + j
      BY <2>1, <2>3
    <3>2. i = j
      <4>1. BaseIndex - 1 + i = BaseIndex - 1 + j
        BY <2>6, <3>1
      <4>2. BaseIndex \in Int /\ i \in Int /\ j \in Int
        BY <2>1
      <4> QED BY <4>1, <4>2
    <3> QED BY <3>2
  <2>7. \A u, v \in Listed' : index'[u] = index'[v] => u = v
    BY <2>1, <2>6 DEF Listed, Range
  <2> QED BY <2>3, <2>5, <2>7
<1> QED BY <1>1, <1>2

\* What comes in gets an index nothing has, or one that was freed for it.
LEMMA ComesInApart ==
    ASSUME ~ LinksOnTaken, IndexInv, NEW w \in Windows, NEW at \in Indexes \cup {None}, NEW c,
           Create(c, w, at) \/ Link(c, w, at)
    PROVE  /\ index' \in [Windows -> Indexes]
           /\ \A u, v \in Listed' : index'[u] = index'[v] => u = v
<1> USE DEF Insert
<1>1. /\ ListInv /\ Listed \in SUBSET Windows /\ index \in [Windows -> Nat]
      /\ index \in [Windows -> Indexes] /\ Indexes \subseteq Nat /\ BaseIndex \in Nat /\ MaxIndex \in Nat
      /\ Listed' = Listed \cup {w}
      /\ \A u, v \in Listed : index[u] = index[v] => u = v
  BY ListedIsFinite, ComesIn, WindowOrderAssumption
     DEF IndexInv, OrderInv, ListInv, Indexes, Listed
<1>2. ASSUME NEW old \in [Windows -> Nat], NEW i \in Nat, i >= BaseIndex,
             \A v \in Windows : old[v] >= BaseIndex,
             \A u, v \in Listed : old[u] = old[v] => u = v,
             \A v \in Listed : old[v] # i,
             index' = [old EXCEPT ![w] = i], InBound
      PROVE  /\ index' \in [Windows -> Indexes]
             /\ \A u, v \in Listed' : index'[u] = index'[v] => u = v
  <2>1. \A u, v \in Listed \cup {w} : index'[u] = index'[v] => u = v
    BY <1>1, <1>2, GivenApart
  <2>2. /\ index' \in [Windows -> Nat] /\ \A v \in Windows : index'[v] >= BaseIndex
        /\ \A v \in Windows : index'[v] <= MaxIndex
    BY <1>2 DEF InBound
  <2>3. \A v \in Windows : index'[v] \in Nat /\ index'[v] \in Indexes
    BY <1>1, <2>2 DEF Indexes
  <2> QED BY <1>1, <2>1, <2>2, <2>3
<1>3. \A v \in Windows : index[v] >= BaseIndex
  <2>1. \A v \in Windows : index[v] \in BaseIndex .. MaxIndex
    BY <1>1 DEF Indexes
  <2> QED BY <1>1, <2>1
<1>4. ASSUME NEW i \in Nat, At(i) = {} PROVE \A v \in Listed : index[v] # i
  BY <1>4 DEF At
<1>5. ASSUME at # None PROVE at \in Nat /\ at >= BaseIndex
  <2>1. at \in BaseIndex .. MaxIndex
    BY <1>5 DEF Indexes
  <2> QED BY <1>1, <2>1
<1>6. CASE Create(c, w, at) /\ at = None
  <2>1. index' = [index EXCEPT ![w] = LowestFree] /\ InBound
    BY <1>6 DEF Create
  <2>2. /\ LowestFree \in Nat /\ LowestFree >= BaseIndex
        /\ \A v \in Listed : index[v] # LowestFree
    BY <1>1, <1>4, LowestIsFree
  <2> QED BY <1>1, <1>2, <1>3, <2>1, <2>2
<1>7. CASE Create(c, w, at) /\ at # None
  <2>1. index' = [MakeRoom(at) EXCEPT ![w] = at] /\ InBound
    BY <1>7 DEF Create
  <2>2. /\ MakeRoom(at) \in [Windows -> Nat]
        /\ \A v \in Windows : MakeRoom(at)[v] >= index[v]
        /\ \A v \in Listed : MakeRoom(at)[v] # at
        /\ \A u, v \in Listed : MakeRoom(at)[u] = MakeRoom(at)[v] => u = v
    <3>1. ListInv /\ at \in Nat
      BY <1>1, <1>5, <1>7
    <3>2. /\ MakeRoom(at) \in [Windows -> Nat]
          /\ \A s \in Windows : MakeRoom(at)[s] >= index[s]
          /\ \A s \in Listed : MakeRoom(at)[s] # at
          /\ \A s, t \in Listed : MakeRoom(at)[s] = MakeRoom(at)[t] => index[s] = index[t]
      BY <3>1, MakeRoomFrees
    <3> DEFINE made == MakeRoom(at)
    <3> HIDE DEF made
    <3>3. \A s, t \in Listed : made[s] = made[t] => s = t
      BY <1>1, <3>2 DEF made
    <3> QED BY <3>2, <3>3 DEF made
  <2>3. \A v \in Windows : MakeRoom(at)[v] >= BaseIndex
    <3> SUFFICES ASSUME NEW v \in Windows PROVE MakeRoom(at)[v] >= BaseIndex
      OBVIOUS
    <3>1. MakeRoom(at)[v] \in Nat /\ index[v] \in Nat
      BY <1>1, <2>2
    <3> QED BY <1>1, <1>3, <2>2, <3>1
  <2> QED BY <1>2, <1>5, <1>7, <2>1, <2>2, <2>3
<1>8. CASE Link(c, w, at)
  <2> DEFINE i == IF at = None THEN AfterLast ELSE at
  <2>1. index' = [index EXCEPT ![w] = i] /\ InBound /\ (at = None \/ At(at) = {})
    BY <1>8 DEF Link
  <2>2. i \in Nat /\ i >= BaseIndex /\ \A v \in Listed : index[v] # i
    <3>1. CASE at = None
      <4>1. /\ AfterLast \in Nat /\ AfterLast >= BaseIndex
            /\ \A v \in Listed : index[v] < AfterLast /\ index[v] \in Nat
        BY <1>1, AfterLastIsFree, FreeIsIndex
      <4> QED BY <3>1, <4>1
    <3>2. CASE at # None
      BY <1>4, <1>5, <2>1, <3>2
    <3> QED BY <3>1, <3>2
  <2> HIDE DEF i
  <2> QED BY <1>1, <1>2, <1>3, <2>1, <2>2
<1> QED BY <1>6, <1>7, <1>8

\* What moves within the order goes to a free index, or one freed for it, or
\* two trade theirs.
LEMMA StaysInApart ==
    ASSUME ~ LinksOnTaken, IndexInv, NEW v \in Windows, NEW w \in Windows,
           NEW at \in Indexes \cup {None}, NEW c,
           \/ Relink(c, w, at) \/ Swap(v, w)
           \/ at \in Indexes /\ (MoveTo(w, at) \/ MoveInto(w, at))
    PROVE  /\ index' \in [Windows -> Indexes]
           /\ \A s, t \in Listed' : index'[s] = index'[t] => s = t
<1>1. /\ ListInv /\ Listed \in SUBSET Windows /\ index \in [Windows -> Nat]
      /\ index \in [Windows -> Indexes] /\ Indexes \subseteq Nat /\ BaseIndex \in Nat /\ MaxIndex \in Nat
      /\ Listed' = Listed
      /\ \A s, t \in Listed : index[s] = index[t] => s = t
  <2>1. ListInv
    BY DEF IndexInv, OrderInv
  <2>2. Listed' = Listed
    BY <2>1, StaysIn DEF Listed
  <2>3. Indexes \subseteq Nat /\ BaseIndex \in Nat /\ MaxIndex \in Nat
    BY WindowOrderAssumption DEF Indexes
  <2>4. Listed \in SUBSET Windows /\ index \in [Windows -> Nat]
    BY <2>1, ListedIsFinite DEF ListInv
  <2> QED BY <2>1, <2>2, <2>3, <2>4 DEF IndexInv
<1>2. ASSUME at \in Indexes, w \in Listed, At(at) \subseteq {w}, index' = [index EXCEPT ![w] = at]
      PROVE  /\ index' \in [Windows -> Indexes]
             /\ \A s, t \in Listed' : index'[s] = index'[t] => s = t
  <2>1. \A s \in Listed \ {w} : index[s] # at
    BY <1>2 DEF At
  <2>2. \A s, t \in Listed \cup {w} : index'[s] = index'[t] => s = t
    BY <1>1, <1>2, <2>1, GivenApart
  <2> QED BY <1>1, <1>2, <2>2
<1>3. CASE Relink(c, w, at)
  <2>1. CASE at = None
    BY <1>1, <1>3, <2>1 DEF Relink
  <2>2. CASE at # None
    BY <1>2, <1>3, <2>2 DEF Relink
  <2> QED BY <2>1, <2>2
<1>4. CASE Swap(v, w)
  <2>1. v \in Listed /\ w \in Listed /\ index' = [index EXCEPT ![v] = index[w], ![w] = index[v]]
    BY <1>4 DEF Swap
  <2>2. \A s \in Windows : index'[s] = IF s = w THEN index[v] ELSE IF s = v THEN index[w] ELSE index[s]
    BY <1>1, <2>1
  <2>3. index' \in [Windows -> Indexes]
    BY <1>1, <2>1
  <2> QED BY <1>1, <2>1, <2>2, <2>3
<1>5. CASE at \in Indexes /\ MoveTo(w, at)
  BY <1>2, <1>5 DEF MoveTo
<1>6. CASE at \in Indexes /\ MoveInto(w, at)
  <2>1. index' = [MakeRoom(at) EXCEPT ![w] = at] /\ InBound /\ w \in Listed
    BY <1>6 DEF MoveInto
  <2>2. /\ MakeRoom(at) \in [Windows -> Nat]
        /\ \A s \in Windows : MakeRoom(at)[s] >= index[s]
        /\ \A s \in Listed : MakeRoom(at)[s] # at
        /\ \A s, t \in Listed : MakeRoom(at)[s] = MakeRoom(at)[t] => s = t
    <3>1. ListInv /\ at \in Nat
      BY <1>1, <1>6
    <3>2. /\ MakeRoom(at) \in [Windows -> Nat]
          /\ \A s \in Windows : MakeRoom(at)[s] >= index[s]
          /\ \A s \in Listed : MakeRoom(at)[s] # at
          /\ \A s, t \in Listed : MakeRoom(at)[s] = MakeRoom(at)[t] => index[s] = index[t]
      BY <3>1, MakeRoomFrees
    <3> DEFINE made == MakeRoom(at)
    <3> HIDE DEF made
    <3>3. \A s, t \in Listed : made[s] = made[t] => s = t
      BY <1>1, <3>2 DEF made
    <3> QED BY <3>2, <3>3 DEF made
  <2>3. \A s, t \in Listed \cup {w} : index'[s] = index'[t] => s = t
    BY <1>1, <1>6, <2>1, <2>2, GivenApart
  <2>4. index' \in [Windows -> Nat] /\ \A s \in Windows : index'[s] = at \/ index'[s] >= index[s]
    BY <1>1, <1>6, <2>1, <2>2
  <2>5. ASSUME NEW s \in Windows PROVE index'[s] \in Indexes
    <3>1. /\ index'[s] \in Nat /\ index[s] \in Nat /\ index[s] \in BaseIndex .. MaxIndex
          /\ at \in BaseIndex .. MaxIndex /\ index'[s] <= MaxIndex
      BY <1>1, <1>6, <2>1, <2>4 DEF Indexes, InBound
    <3> QED BY <1>1, <2>4, <3>1 DEF Indexes
  <2> QED BY <1>1, <2>1, <2>3, <2>4, <2>5
<1> QED BY <1>3, <1>4, <1>5, <1>6

\* Every step keeps the indexes apart.
LEMMA IndexStepInv == ASSUME ~ LinksOnTaken PROVE IndexInv /\ [Next]_vars => IndexInv'
<1> SUFFICES ASSUME IndexInv, [Next]_vars PROVE IndexInv'
  OBVIOUS
<1> DEFINE Apart == /\ index' \in [Windows -> Indexes]
                    /\ \A s, t \in Listed' : index'[s] = index'[t] => s = t
<1>1. OrderInv /\ OrderInv' /\ ListInv /\ ListInv'
  BY ListStepInv, FocusStep DEF IndexInv, OrderInv
<1>2. ASSUME UNCHANGED <<windows, index>> PROVE Apart
  BY <1>2 DEF IndexInv, Listed
<1>3. ASSUME NEW c \in Clients \cup {None}, NEW w \in Windows, NEW at \in Indexes \cup {None},
             Create(c, w, at) \/ Link(c, w, at)
      PROVE  Apart
  BY <1>3, ComesInApart
<1>4. ASSUME NEW c \in Clients, NEW w \in Windows, NEW at \in Indexes \cup {None}, Relink(c, w, at)
      PROVE  Apart
  BY <1>4, StaysInApart
<1>5. ASSUME NEW w \in Windows, NEW at \in Indexes, MoveTo(w, at) \/ MoveInto(w, at) PROVE Apart
  BY <1>5, StaysInApart
<1>6. ASSUME NEW v \in Windows, NEW w \in Windows, Swap(v, w) PROVE Apart
  BY <1>6, StaysInApart
<1>7. ASSUME NEW w \in Windows, Unlink(w) \/ MoveAway(w) \/ Close(w) PROVE Apart
  <2>1. /\ Listed' \subseteq Listed
        /\ index' = index \/ index' = Renumbered(windows', index)
    BY <1>1, <1>7, GoesOut DEF Listed
  <2> QED BY <1>1, <2>1, RenumberedApart
<1>8. ASSUME SetRenumber PROVE Apart
  <2>1. index' = index \/ index' = Renumbered(windows', index)
    BY <1>1, <1>8, KeepsOrder
  <2>2. Listed' = Listed
    BY <1>8 DEF SetRenumber, Listed
  <2> QED BY <1>1, <2>1, <2>2, RenumberedApart
<1>9. ASSUME \/ \E c \in Clients : Look(c)
             \/ \E c \in Clients, w \in Windows : Select(c, w)
             \/ UNCHANGED vars
      PROVE  Apart
  <2>1. UNCHANGED <<windows, index>>
    BY <1>9 DEF Look, Select, vars
  <2> QED BY <1>2, <2>1
<1> HIDE DEF Apart
<1>10. Apart
  BY <1>3, <1>4, <1>5, <1>6, <1>7, <1>8, <1>9 DEF Next
<1> QED BY <1>1, <1>10 DEF IndexInv, Apart, Indexes

\* Over every run.
LEMMA IndexAlways == ASSUME ~ LinksOnTaken PROVE Spec => []IndexInv
<1>1. Init => IndexInv
  <2> SUFFICES ASSUME Init PROVE IndexInv
    OBVIOUS
  <2>1. windows = <<>> /\ index = [w \in Windows |-> BaseIndex] /\ BaseIndex \in Indexes
    BY WindowOrderAssumption DEF Init, Indexes
  <2>2. Listed = {}
    BY <2>1 DEF Listed, Range
  <2> QED BY <2>1, <2>2, OrderInitInv DEF IndexInv
<1>2. IndexInv /\ [Next]_vars => IndexInv'
  BY IndexStepInv
<1> QED BY <1>1, <1>2, PTL DEF Spec

\* `select-window -t` reaches every window of the order, and the next one has
\* the next index: whatever is inserted, moved, swapped or renumbered, no two
\* share an index, where none is linked on an index that is in use.
THEOREM IndexesAreUnique == ASSUME ~ LinksOnTaken PROVE Spec => []UniqueIndexes
<1>1. ASSUME IndexInv PROVE UniqueIndexes
  <2> SUFFICES ASSUME NEW i \in DOMAIN windows, NEW j \in DOMAIN windows, i < j
               PROVE  index[windows[i]] < index[windows[j]]
    BY DEF UniqueIndexes
  <2>1. /\ windows \in Seq(Windows) /\ IsInjective(windows) /\ index \in [Windows -> Nat]
        /\ index[windows[i]] <= index[windows[j]]
        /\ \A v, w \in Listed : index[v] = index[w] => v = w
    BY <1>1 DEF IndexInv, OrderInv, ListInv
  <2>2. /\ windows[i] \in Windows /\ windows[j] \in Windows /\ i \in Nat /\ j \in Nat
        /\ windows[i] \in Listed /\ windows[j] \in Listed
    BY <2>1 DEF Listed, Range
  <2>3. index[windows[i]] # index[windows[j]]
    BY <2>1, <2>2 DEF IsInjective
  <2>4. index[windows[i]] \in Nat /\ index[windows[j]] \in Nat
    BY <2>1, <2>2
  <2> QED BY <2>1, <2>3, <2>4
<1> QED BY <1>1, IndexAlways, PTL

\* The shape of the arrangement's state.
THEOREM OrderTyped == ASSUME ~ LinksOnTaken PROVE Spec => []OrderTypeOK
<1>1. ASSUME IndexInv PROVE OrderTypeOK
  <2>1. Listed \subseteq Windows
    BY <1>1, ListedIsFinite DEF IndexInv, OrderInv
  <2>2. \A c \in Clients : Range(history[c]) \subseteq Windows
    BY <1>1 DEF IndexInv, OrderInv, FocusInv, Range
  <2> QED BY <1>1, <2>1, <2>2 DEF IndexInv, OrderInv, ListInv, FocusInv, OrderTypeOK
<1> QED BY <1>1, IndexAlways, PTL

-----------------------------------------------------------------------------
(* The trees on their way, in the order the owner took them. *)

Flow == down \o owner.queue
Trees == {i \in DOMAIN Flow : Flow[i][1] = "tree"}

\* Gone for good: in no tree, here or on its way.
Dead == {p \in Panes : /\ life[p] = "gone" /\ p \notin peer.tree
                       /\ \A i \in Trees : p \notin Flow[i][2]}

\* A pane that one tree has and a later one has not, or the tree here and one on
\* its way, is gone, and no tree after that has it.
TreeInv ==
  /\ \A p \in peer.tree : life[p] # "unborn"
  /\ \A i \in Trees : \A p \in Flow[i][2] : life[p] # "unborn"
  /\ \A j \in Trees : \A p \in Panes \ Flow[j][2] :
        p \in peer.tree \/ (\E i \in Trees : i < j /\ p \in Flow[i][2])
          => life[p] = "gone" /\ \A k \in Trees : j < k => p \notin Flow[k][2]

-----------------------------------------------------------------------------
(* What a peer holds, and what is on its way to the owner.  In a handler they *)
(* are those of the record it works on, and `dead` are the panes that are gone *)
(* once it is over.                                                           *)

Keys == {<<"watch">>} \cup ({"mirror", "paused", "focus"} \X Panes)
Words == Keys \cup ({"resume", "unfocused", "stop"} \X Panes)
Sent == Words \cup {<<"peer">>}

PeerType ==
  [tree : SUBSET Panes, asked : SUBSET Panes, streaming : SUBSET Panes, stale : SUBSET Panes,
   focused : SUBSET Panes, refused : SUBSET Panes, told : Seq(Keys)]

\* A link begins with the hello, and nothing comes of it before.
Silent == down = << >> /\ owner = NoLink /\ Sources = {}
Hello(u) == \A i \in DOMAIN u : u[i] = <<"peer">> => i = 1 /\ Silent

Holding(pe, kind, p) == <<kind, p>> \in Range(pe.told)

\* Wherever they both are, a is before b.
Before(list, a, b) == \A i, j \in DOMAIN list : list[i] = a /\ list[j] = b => i < j

\* The keys that are held say what the peer wants of each pane, but for those
\* that are gone, and of a pane that is asked for in the order they have to be heard.
ToldInv(pe, dead) ==
  /\ pe \in PeerType /\ IsInjective(pe.told)
  /\ pe.asked \subseteq pe.tree /\ pe.streaming \subseteq pe.asked /\ pe.focused \subseteq pe.tree
  /\ \A p \in Panes :
       /\ Holding(pe, "mirror", p) <=> p \in pe.asked
       /\ Holding(pe, "paused", p) <=> p \in pe.asked \ pe.streaming
       /\ p \in pe.focused => Holding(pe, "focus", p)
       /\ Holding(pe, "focus", p) => p \in pe.focused \cup dead
       /\ p \in pe.asked => /\ Before(pe.told, <<"mirror", p>>, <<"paused", p>>)
                            /\ Before(pe.told, <<"mirror", p>>, <<"focus", p>>)

Said(u, kind, p) == <<kind, p>> \in Range(u)
SaidOnce(u, w) == \A i, j \in DOMAIN u : u[i] = w /\ u[j] = w => i = j

\* Every `mirror` of p has a `stop` behind it.
Stopped(u, p) ==
  \A i \in DOMAIN u : u[i] = <<"mirror", p>> => \E j \in DOMAIN u : i < j /\ u[j] = <<"stop", p>>

\* The last of these words is w.
SaidLast(u, words, w) ==
  \E i \in DOMAIN u : u[i] = w /\ w \in words /\ \A j \in DOMAIN u : i < j => u[j] \notin words
Unsaid(u, words) == \A i \in DOMAIN u : u[i] \notin words

\* What settles whether p streams, and whether it has the focus.
Streams(p) == {<<"mirror", p>>, <<"paused", p>>, <<"resume", p>>}
Focuses(p) == {<<"mirror", p>>, <<"focus", p>>, <<"unfocused", p>>}

\* What the owner lends is asked for, or a stop is on its way; what is asked for
\* is lent, or will be, or was refused...
AskedInv(pe, u, dead) ==
  \A p \in Panes :
    /\ p \in Sources \ pe.asked => Said(u, "stop", p)
    /\ Said(u, "stop", p) => p \in dead
    /\ Said(u, "mirror", p) => /\ p \in pe.asked \/ Stopped(u, p)
                               /\ p \notin Sources
                               /\ SaidOnce(u, <<"mirror", p>>)
    /\ p \in pe.asked \ Sources => \/ Said(u, "mirror", p) \/ p \in pe.refused \cup owner.refusing
                                   \/ <<"refused", p>> \in Range(down)

\* and once what is on its way was read, it is as the peer wants it.
WantedInv(pe, u) ==
  \A p \in pe.asked :
    /\ \A w : SaidLast(u, Streams(p), w) => (w = <<"paused", p>> <=> p \notin pe.streaming)
    /\ \A w : SaidLast(u, Focuses(p), w) => (w = <<"focus", p>> <=> p \in pe.focused)
    /\ p \in Sources =>
         /\ Unsaid(u, Streams(p)) => (sources[p].paused <=> p \notin pe.streaming)
         /\ Unsaid(u, Focuses(p)) => (sources[p].focused <=> p \in pe.focused)

-----------------------------------------------------------------------------
(* The links. *)

SourceType == [paused : BOOLEAN, queued : BOOLEAN, owed : BOOLEAN, focused : BOOLEAN, sent : Nat]

TreesSent == {"tree"} \X SUBSET Panes
Frames == {"frame"} \X Panes
Downs == {<<"accepted">>} \cup TreesSent \cup ({"refused"} \X Panes) \cup ({"frame"} \X Panes \X Nat \X Nat)

OwnerType ==
  [watching : BOOLEAN, shown : SUBSET SUBSET Panes, refusing : SUBSET Panes,
   queue : Seq(Frames \cup TreesSent)]

LinkType ==
  /\ down \in Seq(Downs)
  /\ owner \in OwnerType
  /\ Sources \subseteq Panes /\ \A p \in Sources : sources[p] \in SourceType
  /\ link \in [number : Nat, up : BOOLEAN]
  /\ page \in [Panes -> Nat] /\ version \in [Panes -> Nat]
  /\ life \in [Panes -> {"unborn", "alive", "gone"}]

\* Nothing of a link is left once it went.
LinkInv ==
  /\ LinkType
  /\ ~link.up => up = << >> /\ Silent

-----------------------------------------------------------------------------
(* The frames of a pane that is asked for follow each other. *)

FrameIn(d, p, i) == i \in DOMAIN d /\ d[i][1] = "frame" /\ d[i][2] = p
Frameless(d, p) == \A i \in DOMAIN d : ~FrameIn(d, p, i)

\* Each says what changed since the one before, and the first since the page
\* `shown`, or holds the whole page...
Chain(d, p, shown) ==
  \A i \in DOMAIN d : FrameIn(d, p, i) =>
    /\ (\A j \in DOMAIN d : j < i => ~FrameIn(d, p, j)) => d[i][3] \in {0, shown}
    /\ \A j \in DOMAIN d :
         j < i /\ FrameIn(d, p, j) /\ (\A k \in DOMAIN d : j < k /\ k < i => ~FrameIn(d, p, k))
           => d[i][3] \in {0, d[j][4]}

\* and the next will say what changed since the last, which was of page `sent`.
ChainEnd(d, p, shown, sent) ==
  /\ Frameless(d, p) => sent \in {0, shown}
  /\ \A i \in DOMAIN d :
       FrameIn(d, p, i) /\ (\A j \in DOMAIN d : i < j => ~FrameIn(d, p, j)) => sent \in {0, d[i][4]}

FrameInv ==
  /\ \A i \in DOMAIN down : down[i][1] = "frame" => down[i][2] \in peer.asked \cup Dead
  /\ \A p \in peer.asked :
       /\ Chain(down, p, page[p])
       /\ p \in Sources => ChainEnd(down, p, page[p], sources[p].sent)

-----------------------------------------------------------------------------
(* Keys and words, one more or one less. *)

\* What a word begins with says what it is.
LEMMA WordForms ==
    ASSUME NEW w \in Sent
    PROVE  /\ w[1] \notin {"peer", "watch"} => w[2] \in Panes /\ w = <<w[1], w[2]>>
           /\ w[1] = "peer" <=> w = <<"peer">>
           /\ \A k, p : w = <<k, p>> => w[1] = k /\ w[2] = p /\ k \notin {"peer", "watch"} /\ p \in Panes
BY DEF Sent, Words, Keys

\* A key that was not held is last among those that are.
LEMMA OneMore ==
    ASSUME NEW S, NEW list \in Seq(S), NEW x \in S
    PROVE  LET more == Append(list, x)
           IN /\ more \in Seq(S) /\ Range(more) = Range(list) \cup {x}
              /\ IsInjective(list) /\ x \notin Range(list) => IsInjective(more)
              /\ \A a, b : /\ Before(list, a, b) /\ a # x => Before(more, a, b)
<1> DEFINE more == Append(list, x)
<1>1. /\ more \in Seq(S) /\ Len(list) \in Nat /\ DOMAIN list = 1 .. Len(list)
      /\ DOMAIN more = 1 .. (Len(list) + 1)
      /\ \A i \in DOMAIN list : more[i] = list[i]
      /\ more[Len(list) + 1] = x
  OBVIOUS
<1> HIDE DEF more
<1>2. Range(more) = Range(list) \cup {x}
  BY <1>1 DEF Range
<1>3. IsInjective(list) /\ x \notin Range(list) => IsInjective(more)
  BY <1>1 DEF IsInjective, Range
<1>4. ASSUME NEW a, NEW b, Before(list, a, b), a # x PROVE Before(more, a, b)
  BY <1>1, <1>4 DEF Before
<1> QED BY <1>1, <1>2, <1>3, <1>4 DEF more

\* A key that is forgotten leaves the others as they are, in their order.
LEMMA OneLess ==
    ASSUME NEW S, NEW list \in Seq(S), IsInjective(list), NEW x
    PROVE  LET less == RemoveFirst(list, x)
           IN /\ less \in Seq(S) /\ Range(less) = Range(list) \ {x} /\ IsInjective(less)
              /\ \A a, b : a # b /\ Before(list, a, b) => Before(less, a, b)
<1> DEFINE less == RemoveFirst(list, x)
<1>1. /\ less \in Seq(S) /\ IsInjective(less) /\ Range(less) = Range(list) \ {x}
      /\ \A i, j \in DOMAIN less : i < j =>
            \E k, l \in DOMAIN list : k < l /\ less[i] = list[k] /\ less[j] = list[l]
  BY RemoveLeaves
<1>2. DOMAIN list = 1 .. Len(list) /\ DOMAIN less = 1 .. Len(less) /\ Len(list) \in Nat /\ Len(less) \in Nat
  BY <1>1
<1> HIDE DEF less
<1>3. ASSUME NEW a, NEW b, a # b, Before(list, a, b) PROVE Before(less, a, b)
  <2> SUFFICES ASSUME NEW i \in DOMAIN less, NEW j \in DOMAIN less, less[i] = a, less[j] = b
               PROVE  i < j
    BY DEF Before
  <2>1. i \in Int /\ j \in Int
    BY <1>2
  <2>2. i # j
    BY <1>3
  <2>3. ~ (j < i)
    <3> SUFFICES ASSUME j < i PROVE FALSE
      OBVIOUS
    <3>1. PICK k, l \in DOMAIN list : k < l /\ list[k] = b /\ list[l] = a
      BY <1>1
    <3>2. k \in Int /\ l \in Int /\ l < k
      BY <1>2, <1>3, <3>1 DEF Before
    <3> QED BY <3>1, <3>2
  <2> QED BY <2>1, <2>2, <2>3
<1> QED BY <1>1, <1>3 DEF less

\* One more word on its way.
LEMMA WordSaid ==
    ASSUME NEW u \in Seq(Sent), NEW x \in Words
    PROVE  LET more == Append(u, x)
           IN /\ more \in Seq(Sent) /\ Range(more) = Range(u) \cup {x}
              /\ \A w : (w # x /\ SaidOnce(u, w)) \/ w \notin Range(u) => SaidOnce(more, w)
              /\ \A p : \/ Stopped(u, p) /\ x # <<"mirror", p>>
                        \/ x = <<"stop", p>>
                        => Stopped(more, p)
              /\ \A words, w : SaidLast(more, words, w) =>
                    IF x \in words THEN w = x ELSE SaidLast(u, words, w)
              /\ \A words : Unsaid(more, words) <=> Unsaid(u, words) /\ x \notin words
              /\ Hello(u) => Hello(more)
<1> DEFINE more == Append(u, x)
<1>0. x \in Sent /\ x # <<"peer">>
  BY DEF Sent, Words, Keys
<1>1. /\ more \in Seq(Sent) /\ Len(u) \in Nat /\ DOMAIN u = 1 .. Len(u)
      /\ DOMAIN more = 1 .. (Len(u) + 1)
      /\ \A i \in DOMAIN u : more[i] = u[i]
      /\ more[Len(u) + 1] = x
  BY <1>0
<1> HIDE DEF more
<1>2. Range(more) = Range(u) \cup {x}
  BY <1>1 DEF Range
<1>3. ASSUME NEW w, (w # x /\ SaidOnce(u, w)) \/ w \notin Range(u) PROVE SaidOnce(more, w)
  BY <1>1, <1>3 DEF SaidOnce, Range
<1>4. ASSUME NEW p, (Stopped(u, p) /\ x # <<"mirror", p>>) \/ x = <<"stop", p>> PROVE Stopped(more, p)
  <2>1. CASE Stopped(u, p) /\ x # <<"mirror", p>>
    <3> SUFFICES ASSUME NEW i \in DOMAIN more, more[i] = <<"mirror", p>>
                 PROVE  \E j \in DOMAIN more : i < j /\ more[j] = <<"stop", p>>
      BY DEF Stopped
    <3>1. i \in DOMAIN u /\ u[i] = <<"mirror", p>>
      <4>1. i = Len(u) + 1 \/ i \in DOMAIN u
        BY <1>1
      <4>2. more[i] # x
        BY <2>1
      <4> QED BY <1>1, <4>1, <4>2
    <3>2. PICK j \in DOMAIN u : i < j /\ u[j] = <<"stop", p>>
      BY <2>1, <3>1 DEF Stopped
    <3> QED BY <1>1, <3>2
  <2>2. CASE x = <<"stop", p>>
    <3>1. x # <<"mirror", p>>
      BY <2>2
    <3> QED BY <1>1, <2>2, <3>1 DEF Stopped
  <2> QED BY <1>4, <2>1, <2>2
<1>5. ASSUME NEW words, NEW w, SaidLast(more, words, w)
      PROVE  IF x \in words THEN w = x ELSE SaidLast(u, words, w)
  <2>1. PICK i \in DOMAIN more : /\ more[i] = w /\ w \in words
                                 /\ \A j \in DOMAIN more : i < j => more[j] \notin words
    BY <1>5 DEF SaidLast
  <2>2. Len(u) + 1 \in DOMAIN more /\ (i # Len(u) + 1 => i < Len(u) + 1 /\ i \in DOMAIN u)
    BY <1>1
  <2>3. CASE x \in words
    BY <1>1, <2>1, <2>2, <2>3
  <2>4. CASE x \notin words
    BY <1>1, <2>1, <2>2, <2>4 DEF SaidLast
  <2> QED BY <2>3, <2>4
<1>6. ASSUME NEW words PROVE Unsaid(more, words) <=> Unsaid(u, words) /\ x \notin words
  BY <1>1 DEF Unsaid
<1>7. Hello(u) => Hello(more)
  <2>1. \A i \in DOMAIN more : i \in DOMAIN u \/ more[i] = x
    BY <1>1
  <2> QED BY <1>0, <1>1, <2>1 DEF Hello
<1> QED BY <1>1, <1>2, <1>3, <1>4, <1>5, <1>6, <1>7 DEF more

\* The first word was read.
LEMMA WordRead ==
    ASSUME NEW u \in Seq(Sent), u # << >>
    PROVE  LET less == Tail(u)
           IN /\ less \in Seq(Sent) /\ Head(u) \in Sent
              /\ Range(u) = Range(less) \cup {Head(u)}
              /\ \A w : SaidOnce(u, w) => SaidOnce(less, w) /\ (w = Head(u) => w \notin Range(less))
              /\ \A p : Stopped(u, p) => Stopped(less, p) /\ (Head(u) = <<"mirror", p>> => Said(less, "stop", p))
              /\ \A words, w : SaidLast(less, words, w) => SaidLast(u, words, w)
              /\ \A words : Unsaid(less, words) =>
                    IF Head(u) \in words THEN SaidLast(u, words, Head(u)) ELSE Unsaid(u, words)
<1> DEFINE less == Tail(u)
<1>1. /\ less \in Seq(Sent) /\ Len(u) \in Nat /\ Len(u) >= 1 /\ DOMAIN u = 1 .. Len(u)
      /\ DOMAIN less = 1 .. (Len(u) - 1)
      /\ \A i \in DOMAIN less : less[i] = u[i + 1]
      /\ Head(u) = u[1] /\ Head(u) \in Sent
  OBVIOUS
<1> HIDE DEF less
<1>0. \A i \in DOMAIN u : i = 1 \/ (i - 1 \in DOMAIN less /\ u[i] = less[i - 1])
  BY <1>1
<1>2. Range(u) = Range(less) \cup {Head(u)}
  <2>1. Range(u) \subseteq Range(less) \cup {Head(u)}
    BY <1>1, <1>0 DEF Range
  <2>2. Range(less) \subseteq Range(u) /\ Head(u) \in Range(u)
    BY <1>1 DEF Range
  <2> QED BY <2>1, <2>2
<1>3. ASSUME NEW w, SaidOnce(u, w) PROVE SaidOnce(less, w) /\ (w = Head(u) => w \notin Range(less))
  <2>1. \A i \in DOMAIN less : i + 1 \in DOMAIN u /\ u[i + 1] = less[i] /\ i \in Nat
    BY <1>1
  <2> QED BY <1>1, <1>3, <2>1 DEF SaidOnce, Range
<1>4. ASSUME NEW p, Stopped(u, p)
      PROVE  Stopped(less, p) /\ (Head(u) = <<"mirror", p>> => Said(less, "stop", p))
  <2>1. ASSUME NEW i \in DOMAIN u, u[i] = <<"mirror", p>>
        PROVE  \E j \in DOMAIN less : i - 1 < j /\ less[j] = <<"stop", p>>
    <3>1. PICK j \in DOMAIN u : i < j /\ u[j] = <<"stop", p>>
      BY <1>4, <2>1 DEF Stopped
    <3>2. j - 1 \in DOMAIN less /\ less[j - 1] = <<"stop", p>> /\ i - 1 < j - 1
      BY <1>1, <1>0, <3>1
    <3> QED BY <3>2
  <2>2. Stopped(less, p)
    <3> SUFFICES ASSUME NEW i \in DOMAIN less, less[i] = <<"mirror", p>>
                 PROVE  \E j \in DOMAIN less : i < j /\ less[j] = <<"stop", p>>
      BY DEF Stopped
    <3>1. i + 1 \in DOMAIN u /\ u[i + 1] = <<"mirror", p>> /\ (i + 1) - 1 = i
      BY <1>1
    <3> QED BY <2>1, <3>1
  <2>3. Head(u) = <<"mirror", p>> => Said(less, "stop", p)
    <3> SUFFICES ASSUME Head(u) = <<"mirror", p>> PROVE Said(less, "stop", p)
      OBVIOUS
    <3>1. 1 \in DOMAIN u /\ u[1] = <<"mirror", p>>
      BY <1>1
    <3>2. PICK j \in DOMAIN less : less[j] = <<"stop", p>>
      BY <2>1, <3>1
    <3> QED BY <3>2 DEF Said, Range
  <2> QED BY <2>2, <2>3
<1>5. ASSUME NEW words, NEW w, SaidLast(less, words, w) PROVE SaidLast(u, words, w)
  <2>1. PICK i \in DOMAIN less : /\ less[i] = w /\ w \in words
                                 /\ \A j \in DOMAIN less : i < j => less[j] \notin words
    BY <1>5 DEF SaidLast
  <2>2. i + 1 \in DOMAIN u /\ u[i + 1] = w
    BY <1>1, <2>1
  <2>3. \A j \in DOMAIN u : i + 1 < j => u[j] \notin words
    BY <1>1, <1>0, <2>1
  <2> QED BY <2>1, <2>2, <2>3 DEF SaidLast
<1>6. ASSUME NEW words, Unsaid(less, words)
      PROVE  IF Head(u) \in words THEN SaidLast(u, words, Head(u)) ELSE Unsaid(u, words)
  <2>1. \A i \in DOMAIN u : 1 < i => u[i] \notin words
    BY <1>1, <1>0, <1>6 DEF Unsaid
  <2>2. \A i \in DOMAIN u : i # 1 => 1 < i
    BY <1>1
  <2>3. 1 \in DOMAIN u /\ u[1] = Head(u)
    BY <1>1
  <2> QED BY <2>1, <2>2, <2>3 DEF SaidLast, Unsaid
<1> QED BY <1>1, <1>2, <1>3, <1>4, <1>5, <1>6 DEF less

-----------------------------------------------------------------------------
(* What is said, held and forgotten in a handler. *)

\* The records that the handlers work on.
Handlers == {t \in [peer : PeerType, up : Seq(Sent)] : Hello(t.up)}

\* A packet goes where a link is up...
LEMMA SendDoes ==
    ASSUME NEW t \in Handlers, NEW w \in Words
    PROVE  /\ Send(t, w) \in Handlers /\ Send(t, w).peer = t.peer
           /\ Send(t, w).up = IF link.up THEN Append(t.up, w) ELSE t.up
<1>1. t.up \in Seq(Sent) /\ Append(t.up, w) \in Seq(Sent) /\ Hello(Append(t.up, w))
  BY WordSaid DEF Handlers
<1> QED BY <1>1 DEF Send, Handlers

\* ...a key is said and held, once...
LEMMA SayDoes ==
    ASSUME NEW t \in Handlers, NEW key \in Keys
    PROVE  /\ Say(t, key) \in Handlers
           /\ key \in Range(t.peer.told) => Say(t, key) = t
           /\ key \notin Range(t.peer.told) =>
                /\ Say(t, key).peer = [t.peer EXCEPT !.told = Append(@, key)]
                /\ Say(t, key).up = IF link.up THEN Append(t.up, key) ELSE t.up
<1>1. t.peer \in PeerType /\ t.peer.told \in Seq(Keys) /\ key \in Words /\ t.up \in Seq(Sent)
  BY DEF Handlers, PeerType, Words
<1>2. Append(t.peer.told, key) \in Seq(Keys)
  BY <1>1
<1> DEFINE s == [t EXCEPT !.peer.told = Append(@, key)]
<1>3. s \in Handlers /\ s.peer = [t.peer EXCEPT !.told = Append(@, key)] /\ s.up = t.up
  BY <1>1, <1>2 DEF Handlers, PeerType
<1>4. Say(t, key) = IF key \in Range(t.peer.told) THEN t ELSE Send(s, key)
  BY DEF Say, Holds
<1> HIDE DEF s
<1> QED BY <1>1, <1>3, <1>4, SendDoes

\* ...or held no more...
LEMMA ForgetDoes ==
    ASSUME NEW t \in Handlers, IsInjective(t.peer.told), NEW key
    PROVE  /\ Forget(t, key) \in Handlers
           /\ Forget(t, key).peer = [t.peer EXCEPT !.told = RemoveFirst(@, key)]
           /\ Forget(t, key).up = t.up
<1>1. t.peer \in PeerType /\ t.peer.told \in Seq(Keys)
  BY DEF Handlers, PeerType
<1>2. RemoveFirst(t.peer.told, key) \in Seq(Keys)
  BY <1>1, OneLess
<1> QED BY <1>1, <1>2 DEF Forget, Handlers, PeerType

\* ...or said again, which puts it behind the others.
LEMMA AgainDoes ==
    ASSUME NEW t \in Handlers, IsInjective(t.peer.told), NEW key \in Keys
    PROVE  /\ Again(t, key) \in Handlers
           /\ key \notin Range(t.peer.told) => Again(t, key) = t
           /\ key \in Range(t.peer.told) =>
                /\ Again(t, key).peer = [t.peer EXCEPT !.told = Append(RemoveFirst(@, key), key)]
                /\ Again(t, key).up = IF link.up THEN Append(t.up, key) ELSE t.up
<1>1. t.peer \in PeerType /\ t.peer.told \in Seq(Keys) /\ key \in Words /\ t.up \in Seq(Sent)
  BY DEF Handlers, PeerType, Words
<1>2. Append(RemoveFirst(t.peer.told, key), key) \in Seq(Keys)
  <2>1. RemoveFirst(t.peer.told, key) \in Seq(Keys)
    BY <1>1, OneLess
  <2> QED BY <2>1
<1> DEFINE s == [t EXCEPT !.peer.told = Append(RemoveFirst(@, key), key)]
<1>3. s \in Handlers /\ s.peer = [t.peer EXCEPT !.told = Append(RemoveFirst(@, key), key)] /\ s.up = t.up
  BY <1>1, <1>2 DEF Handlers, PeerType
<1>4. Again(t, key) = IF key \in Range(t.peer.told) THEN Send(s, key) ELSE t
  BY DEF Again, Holds
<1> HIDE DEF s
<1> QED BY <1>1, <1>3, <1>4, SendDoes

\* Both hold of the record t; of what is on its way, while there is a link.
HandlerInv(t, dead) ==
  /\ t \in Handlers
  /\ ToldInv(t.peer, dead)
  /\ IF link.up THEN AskedInv(t.peer, t.up, dead) /\ WantedInv(t.peer, t.up) ELSE t.up = << >>

\* A word about p is the last about it, and none about another pane.
LEMMA WantedMore ==
    ASSUME NEW u \in Seq(Sent), NEW p \in Panes, NEW k, <<k, p>> \in Words,
           NEW pe \in PeerType, NEW new \in PeerType, WantedInv(pe, u),
           \A q \in new.asked \ {p} : /\ q \in pe.asked
                                      /\ q \in new.streaming <=> q \in pe.streaming
                                      /\ q \in new.focused <=> q \in pe.focused,
           p \in new.asked =>
             /\ k \in {"mirror", "paused", "resume"} => (k = "paused" <=> p \notin new.streaming)
             /\ k \notin {"mirror", "paused", "resume"} =>
                  p \in pe.asked /\ (p \in new.streaming <=> p \in pe.streaming)
             /\ k \in {"mirror", "focus", "unfocused"} => (k = "focus" <=> p \in new.focused)
             /\ k \notin {"mirror", "focus", "unfocused"} =>
                  p \in pe.asked /\ (p \in new.focused <=> p \in pe.focused)
    PROVE  WantedInv(new, Append(u, <<k, p>>))
<1> DEFINE x == <<k, p>>
           more == Append(u, x)
<1>1. /\ \A words, w : SaidLast(more, words, w) =>
            IF x \in words THEN w = x ELSE SaidLast(u, words, w)
      /\ \A words : Unsaid(more, words) <=> Unsaid(u, words) /\ x \notin words
  BY WordSaid
<1>2. \A q \in Panes : /\ x \in Streams(q) <=> q = p /\ k \in {"mirror", "paused", "resume"}
                       /\ x \in Focuses(q) <=> q = p /\ k \in {"mirror", "focus", "unfocused"}
  BY DEF Streams, Focuses
<1>3. (x = <<"paused", p>> <=> k = "paused") /\ (x = <<"focus", p>> <=> k = "focus")
  OBVIOUS
<1> HIDE DEF x, more
<1> SUFFICES ASSUME NEW q \in new.asked PROVE WantedInv(new, more)!(q)
  BY DEF WantedInv, more, x
<1>4. q \in Panes
  BY DEF PeerType
<1>5. q \in pe.asked =>
        /\ \A w : SaidLast(u, Streams(q), w) => (w = <<"paused", q>> <=> q \notin pe.streaming)
        /\ \A w : SaidLast(u, Focuses(q), w) => (w = <<"focus", q>> <=> q \in pe.focused)
        /\ q \in Sources =>
             /\ Unsaid(u, Streams(q)) => (sources[q].paused <=> q \notin pe.streaming)
             /\ Unsaid(u, Focuses(q)) => (sources[q].focused <=> q \in pe.focused)
  BY DEF WantedInv
<1>6. CASE q = p
  <2>1. \A w : SaidLast(more, Streams(q), w) => (w = <<"paused", q>> <=> q \notin new.streaming)
    BY <1>1, <1>2, <1>3, <1>4, <1>5, <1>6
  <2>2. \A w : SaidLast(more, Focuses(q), w) => (w = <<"focus", q>> <=> q \in new.focused)
    BY <1>1, <1>2, <1>3, <1>4, <1>5, <1>6
  <2>3. q \in Sources =>
             /\ Unsaid(more, Streams(q)) => (sources[q].paused <=> q \notin new.streaming)
             /\ Unsaid(more, Focuses(q)) => (sources[q].focused <=> q \in new.focused)
    BY <1>1, <1>2, <1>4, <1>5, <1>6
  <2> QED BY <2>1, <2>2, <2>3
<1>7. CASE q # p
  BY <1>1, <1>2, <1>4, <1>5, <1>7
<1> QED BY <1>6, <1>7

\* A word about p settles what is asked for of p, and of no other pane.
LEMMA AskedMore ==
    ASSUME NEW u \in Seq(Sent), NEW p \in Panes, NEW k, <<k, p>> \in Words, NEW dead,
           NEW pe \in PeerType, NEW new \in PeerType, AskedInv(pe, u, dead),
           \A q \in Panes \ {p} : /\ q \in new.asked <=> q \in pe.asked
                                  /\ q \in pe.refused => q \in new.refused,
           p \in new.asked => (p \in pe.asked /\ (p \in pe.refused => p \in new.refused)) \/ k = "mirror",
           p \in pe.asked \ new.asked => k = "stop",
           k = "stop" => p \in dead,
           k = "mirror" => p \in new.asked \ Sources /\ ~Said(u, "mirror", p)
    PROVE  AskedInv(new, Append(u, <<k, p>>), dead)
<1> DEFINE x == <<k, p>>
           more == Append(u, x)
<1>1. /\ Range(more) = Range(u) \cup {x}
      /\ \A w : (w # x /\ SaidOnce(u, w)) \/ w \notin Range(u) => SaidOnce(more, w)
      /\ \A q : (Stopped(u, q) /\ x # <<"mirror", q>>) \/ x = <<"stop", q>> => Stopped(more, q)
  BY WordSaid
<1>2. \A q, j : x = <<j, q>> <=> q = p /\ j = k
  OBVIOUS
<1> HIDE DEF x, more
<1> SUFFICES ASSUME NEW q \in Panes PROVE AskedInv(new, more, dead)!(q)
  BY DEF AskedInv, more, x
<1>3. /\ q \in Sources \ pe.asked => Said(u, "stop", q)
      /\ Said(u, "stop", q) => q \in dead
      /\ Said(u, "mirror", q) => /\ q \in pe.asked \/ Stopped(u, q)
                                 /\ q \notin Sources
                                 /\ SaidOnce(u, <<"mirror", q>>)
      /\ q \in pe.asked \ Sources => \/ Said(u, "mirror", q) \/ q \in pe.refused \cup owner.refusing
                                     \/ <<"refused", q>> \in Range(down)
  BY DEF AskedInv
<1>4. \A j : Said(more, j, q) <=> Said(u, j, q) \/ (q = p /\ j = k)
  BY <1>1, <1>2 DEF Said
<1>5. CASE q = p
  <2>1. Said(more, "mirror", q) => q \in new.asked \/ Stopped(more, q)
    <3> SUFFICES ASSUME Said(more, "mirror", q), q \notin new.asked PROVE Stopped(more, q)
      OBVIOUS
    <3>1. Said(u, "mirror", q) /\ x # <<"mirror", q>>
      BY <1>2, <1>4, <1>5
    <3>2. CASE k = "stop"
      BY <1>1, <1>2, <1>5, <3>2
    <3>3. CASE k # "stop"
      <4>1. Stopped(u, q)
        BY <1>3, <1>5, <3>1, <3>3
      <4> QED BY <1>1, <3>1, <4>1
    <3> QED BY <3>2, <3>3
  <2>2. Said(more, "mirror", q) => q \notin Sources
    BY <1>3, <1>4, <1>5
  <2>3. Said(more, "mirror", q) => SaidOnce(more, <<"mirror", q>>)
    BY <1>1, <1>2, <1>3, <1>4, <1>5 DEF Said
  <2> QED BY <1>3, <1>4, <1>5, <2>1, <2>2, <2>3
<1>6. CASE q # p
  <2>1. x # <<"mirror", q>>
    BY <1>2, <1>6
  <2> QED BY <1>1, <1>3, <1>4, <1>6, <2>1
<1> QED BY <1>5, <1>6

\* Nobody looks at a pane that streams: it is paused.
LEMMA UnseenKeeps ==
    ASSUME NEW t, NEW dead, HandlerInv(t, dead), NEW p \in Panes
    PROVE  /\ HandlerInv(Unseen(t, p), dead) /\ Unseen(t, p).peer.tree = t.peer.tree
           /\ t.peer.asked \subseteq Unseen(t, p).peer.asked
<1> DEFINE r == Unseen(t, p)
           key == <<"paused", p>>
           s == [t EXCEPT !.peer.streaming = @ \ {p}]
<1>1. /\ t \in Handlers /\ t.peer \in PeerType /\ t.peer.told \in Seq(Keys) /\ t.up \in Seq(Sent)
      /\ ToldInv(t.peer, dead) /\ IsInjective(t.peer.told)
  BY DEF HandlerInv, Handlers, PeerType, ToldInv
<1>2. CASE p \notin t.peer.streaming
  BY <1>2 DEF Unseen
<1>3. CASE p \in t.peer.streaming
  <2>1. key \notin Range(t.peer.told) /\ p \in t.peer.asked /\ key \in Keys /\ key \in Words
    BY <1>1, <1>3 DEF ToldInv, Holding, Keys, Words
  <2>2. /\ s \in Handlers /\ s.up = t.up
        /\ s.peer = [t.peer EXCEPT !.streaming = @ \ {p}]
    BY <1>1 DEF Handlers, PeerType
  <2>3. r = Say(s, key)
    BY <1>3 DEF Unseen, Pause
  <2> HIDE DEF s, r, key
  <2>4. s.peer.told = t.peer.told
    BY <1>1, <2>2 DEF PeerType
  <2>5. /\ r \in Handlers /\ r.peer = [s.peer EXCEPT !.told = Append(@, key)]
        /\ r.up = IF link.up THEN Append(t.up, key) ELSE t.up
    <3>1. /\ Say(s, key) \in Handlers
          /\ key \notin Range(s.peer.told) =>
               /\ Say(s, key).peer = [s.peer EXCEPT !.told = Append(@, key)]
               /\ Say(s, key).up = IF link.up THEN Append(s.up, key) ELSE s.up
      BY <2>1, <2>2, SayDoes
    <3> QED BY <2>1, <2>2, <2>3, <2>4, <3>1
  <2>6. /\ r.peer \in PeerType /\ r.peer.tree = t.peer.tree /\ r.peer.asked = t.peer.asked
        /\ r.peer.streaming = t.peer.streaming \ {p} /\ r.peer.focused = t.peer.focused
        /\ r.peer.refused = t.peer.refused /\ r.peer.told = Append(t.peer.told, key)
    BY <1>1, <2>2, <2>5 DEF PeerType, Handlers
  <2>7. ToldInv(r.peer, dead)
    <3>1. /\ IsInjective(r.peer.told) /\ Range(r.peer.told) = Range(t.peer.told) \cup {key}
          /\ \A a, b : Before(t.peer.told, a, b) /\ a # key => Before(r.peer.told, a, b)
      BY <1>1, <2>1, <2>6, OneMore
    <3>2. \A q : <<"mirror", q>> # key /\ <<"focus", q>> # key /\ (q # p => <<"paused", q>> # key)
      BY DEF key
    <3> QED BY <1>1, <1>3, <2>1, <2>6, <3>1, <3>2 DEF ToldInv, Holding, key
  <2>8. ASSUME link.up PROVE AskedInv(r.peer, r.up, dead) /\ WantedInv(r.peer, r.up)
    <3>1. AskedInv(t.peer, t.up, dead) /\ WantedInv(t.peer, t.up) /\ r.up = Append(t.up, <<"paused", p>>)
      BY <2>5, <2>8 DEF HandlerInv, key
    <3>2. <<"paused", p>> \in Words
      BY <2>1 DEF key
    <3>3. AskedInv(r.peer, Append(t.up, <<"paused", p>>), dead)
      BY <1>1, <2>6, <3>1, <3>2, AskedMore
    <3>4. WantedInv(r.peer, Append(t.up, <<"paused", p>>))
      BY <1>1, <1>3, <2>1, <2>6, <3>1, <3>2, WantedMore
    <3> QED BY <3>1, <3>3, <3>4
  <2> QED BY <2>5, <2>6, <2>7, <2>8 DEF HandlerInv, r
<1> QED BY <1>2, <1>3

\* Somebody looks, at a pane of the tree that is not gone.
LEMMA SeenKeeps ==
    ASSUME NEW t, NEW dead, HandlerInv(t, dead), NEW p \in Panes, p \in t.peer.tree \ dead
    PROVE  /\ HandlerInv(Seen(t, p), dead) /\ Seen(t, p).peer.tree = t.peer.tree
           /\ t.peer.asked \subseteq Seen(t, p).peer.asked
<1> DEFINE r == Seen(t, p)
           s == [t EXCEPT !.peer.streaming = @ \cup {p}, !.peer.stale = IF link.up THEN @ \cup {p} ELSE @]
           a == [s EXCEPT !.peer.asked = @ \cup {p}]
           mirror == <<"mirror", p>>
           paused == <<"paused", p>>
           focusKey == <<"focus", p>>
           resume == <<"resume", p>>
<1>1. /\ t \in Handlers /\ t.peer \in PeerType /\ t.peer.told \in Seq(Keys) /\ t.up \in Seq(Sent)
      /\ ToldInv(t.peer, dead) /\ IsInjective(t.peer.told)
  BY DEF HandlerInv, Handlers, PeerType, ToldInv
<1>2. mirror \in Keys /\ paused \in Keys /\ focusKey \in Keys /\ {mirror, paused, focusKey, resume} \subseteq Words
  BY DEF Words, Keys
<1>3. /\ s \in Handlers /\ s.up = t.up /\ s.peer \in PeerType /\ s.peer.tree = t.peer.tree
      /\ s.peer.asked = t.peer.asked
      /\ s.peer.streaming = t.peer.streaming \cup {p} /\ s.peer.focused = t.peer.focused
      /\ s.peer.refused = t.peer.refused /\ s.peer.told = t.peer.told
  BY <1>1 DEF Handlers, PeerType
<1>0. r = IF p \in t.peer.streaming THEN t
          ELSE IF p \in t.peer.asked THEN Send(Forget(s, paused), resume)
          ELSE Again(Again(Say(a, mirror), paused), focusKey)
  BY DEF Seen, Resume, AskFor
<1>4. /\ a \in Handlers /\ a.up = t.up /\ a.peer \in PeerType /\ a.peer.tree = t.peer.tree
      /\ a.peer.asked = t.peer.asked \cup {p}
      /\ a.peer.streaming = t.peer.streaming \cup {p} /\ a.peer.focused = t.peer.focused
      /\ a.peer.refused = t.peer.refused /\ a.peer.told = t.peer.told
  <2> HIDE DEF s
  <2> QED BY <1>3 DEF Handlers, PeerType
<1> HIDE DEF r, s, a
<1>5. CASE p \in t.peer.streaming
  BY <1>0, <1>5 DEF r
<1>6. CASE p \notin t.peer.streaming /\ p \in t.peer.asked
  <2> HIDE DEF mirror, paused, focusKey, resume
  <2>1. /\ r \in Handlers /\ r.peer = [s.peer EXCEPT !.told = RemoveFirst(@, paused)]
        /\ r.up = IF link.up THEN Append(t.up, resume) ELSE t.up
    <3>1. /\ Forget(s, paused) \in Handlers /\ Forget(s, paused).up = t.up
          /\ Forget(s, paused).peer = [s.peer EXCEPT !.told = RemoveFirst(@, paused)]
      BY <1>1, <1>3, ForgetDoes
    <3> DEFINE f == Forget(s, paused)
    <3>2. r = Send(f, resume)
      BY <1>0, <1>6
    <3> HIDE DEF f
    <3>3. /\ Send(f, resume) \in Handlers /\ Send(f, resume).peer = f.peer
          /\ Send(f, resume).up = IF link.up THEN Append(f.up, resume) ELSE f.up
      BY <1>2, <3>1, SendDoes DEF f
    <3> QED BY <3>1, <3>2, <3>3 DEF f
  <2>2. /\ r.peer \in PeerType /\ r.peer.tree = t.peer.tree /\ r.peer.asked = t.peer.asked
        /\ r.peer.streaming = t.peer.streaming \cup {p} /\ r.peer.focused = t.peer.focused
        /\ r.peer.refused = t.peer.refused /\ r.peer.told = RemoveFirst(t.peer.told, paused)
    BY <1>1, <1>3, <2>1 DEF PeerType, Handlers
  <2>3. ToldInv(r.peer, dead)
    <3>1. /\ IsInjective(r.peer.told) /\ Range(r.peer.told) = Range(t.peer.told) \ {paused}
          /\ \A x, y : x # y /\ Before(t.peer.told, x, y) => Before(r.peer.told, x, y)
      BY <1>1, <2>2, OneLess
    <3>2. \A q : <<"mirror", q>> # paused /\ <<"focus", q>> # paused /\ (q # p => <<"paused", q>> # paused)
      BY DEF paused
    <3> QED BY <1>1, <1>6, <2>2, <3>1, <3>2 DEF ToldInv, Holding, paused
  <2>4. ASSUME link.up PROVE AskedInv(r.peer, r.up, dead) /\ WantedInv(r.peer, r.up)
    <3>1. AskedInv(t.peer, t.up, dead) /\ WantedInv(t.peer, t.up) /\ r.up = Append(t.up, <<"resume", p>>)
      BY <2>1, <2>4 DEF HandlerInv, resume
    <3>2. <<"resume", p>> \in Words
      BY <1>2 DEF resume
    <3>3. AskedInv(r.peer, r.up, dead)
      BY <1>1, <1>6, <2>2, <3>1, <3>2, AskedMore
    <3>4. WantedInv(r.peer, r.up)
      <4> DEFINE new == r.peer
      <4>1. \A q \in new.asked \ {p} : /\ q \in t.peer.asked
                                       /\ q \in new.streaming <=> q \in t.peer.streaming
                                       /\ q \in new.focused <=> q \in t.peer.focused
        BY <2>2
      <4>2. p \in t.peer.asked /\ p \in new.streaming /\ (p \in new.focused <=> p \in t.peer.focused)
        BY <1>6, <2>2
      <4>3. new \in PeerType /\ WantedInv(t.peer, t.up)
        BY <2>2, <3>1
      <4> HIDE DEF new
      <4>4. WantedInv(new, Append(t.up, <<"resume", p>>))
        BY <1>1, <3>2, <4>1, <4>2, <4>3, WantedMore
      <4> QED BY <3>1, <4>4 DEF new
    <3> QED BY <3>3, <3>4
  <2> QED BY <2>1, <2>2, <2>3, <2>4 DEF HandlerInv, r
<1>7. CASE p \notin t.peer.streaming /\ p \notin t.peer.asked
  <2>1. /\ mirror \notin Range(t.peer.told) /\ paused \notin Range(t.peer.told)
        /\ focusKey \in Range(t.peer.told) <=> p \in t.peer.focused
    BY <1>1, <1>7 DEF ToldInv, Holding
  <2>2. mirror # paused /\ mirror # focusKey /\ paused # focusKey
    OBVIOUS
  <2>3. \A q : /\ <<"focus", q>> # mirror /\ <<"paused", q>> # mirror /\ (q # p => <<"mirror", q>> # mirror)
               /\ <<"mirror", q>> # focusKey /\ <<"paused", q>> # focusKey /\ (q # p => <<"focus", q>> # focusKey)
    OBVIOUS
  <2> DEFINE t1 == Say(a, mirror)
             list == Append(t.peer.told, mirror)
             u == Append(t.up, mirror)
  <2> HIDE DEF mirror, paused, focusKey, resume
  <2>4. /\ list \in Seq(Keys) /\ IsInjective(list) /\ Range(list) = Range(t.peer.told) \cup {mirror}
        /\ \A x, y : Before(t.peer.told, x, y) /\ x # mirror => Before(list, x, y)
    BY <1>1, <1>2, <2>1, OneMore
  <2>5. /\ t1 \in Handlers /\ t1.peer = [a.peer EXCEPT !.told = Append(@, mirror)]
        /\ t1.up = IF link.up THEN Append(a.up, mirror) ELSE a.up
    BY <1>2, <1>4, <2>1, SayDoes
  <2> HIDE DEF t1
  <2>6. /\ t1.peer \in PeerType /\ t1.peer.tree = t.peer.tree /\ t1.peer.asked = t.peer.asked \cup {p}
        /\ t1.peer.streaming = t.peer.streaming \cup {p} /\ t1.peer.focused = t.peer.focused
        /\ t1.peer.refused = t.peer.refused /\ t1.peer.told = list
        /\ t1.up = IF link.up THEN u ELSE t.up
    BY <1>4, <2>5 DEF PeerType, Handlers
  <2>7. \A x, y : y \notin Range(list) => Before(list, x, y)
    BY DEF Before, Range
  <2> HIDE DEF list, u
  <2>8. r = Again(t1, focusKey) /\ IsInjective(t1.peer.told)
    <3>1. Again(t1, paused) = t1
      BY <1>2, <2>1, <2>2, <2>4, <2>5, <2>6, AgainDoes
    <3> QED BY <1>0, <1>7, <2>4, <2>6, <3>1 DEF t1
  <2>9. link.up => p \notin Sources /\ ~Said(t.up, "mirror", p)
    <3> SUFFICES ASSUME link.up PROVE p \notin Sources /\ ~Said(t.up, "mirror", p)
      OBVIOUS
    <3>1. /\ p \in Sources \ t.peer.asked => Said(t.up, "stop", p)
          /\ Said(t.up, "stop", p) => p \in dead
          /\ Said(t.up, "mirror", p) => p \in t.peer.asked \/ Stopped(t.up, p)
      BY DEF HandlerInv, AskedInv
    <3>2. Said(t.up, "mirror", p) /\ Stopped(t.up, p) => Said(t.up, "stop", p)
      BY DEF Said, Stopped, Range
    <3> QED BY <1>7, <3>1, <3>2
  <2>10. CASE p \notin t.peer.focused
    <3>1. r = t1
      <4>1. focusKey \notin Range(t1.peer.told)
        BY <2>1, <2>2, <2>4, <2>6, <2>10
      <4> QED BY <1>2, <2>5, <2>8, <4>1, AgainDoes
    <3>2. ToldInv(r.peer, dead)
      <4>1. paused \notin Range(list) /\ focusKey \notin Range(list)
        BY <2>1, <2>2, <2>4, <2>10
      <4> QED BY <1>1, <1>7, <2>1, <2>3, <2>4, <2>6, <2>7, <2>10, <3>1, <4>1
              DEF ToldInv, Holding, mirror, paused, focusKey
    <3>3. ASSUME link.up PROVE AskedInv(r.peer, r.up, dead) /\ WantedInv(r.peer, r.up)
      <4>1. AskedInv(t.peer, t.up, dead) /\ WantedInv(t.peer, t.up) /\ r.up = Append(t.up, <<"mirror", p>>)
        BY <2>6, <3>1, <3>3 DEF HandlerInv, mirror, u
      <4>2. <<"mirror", p>> \in Words
        BY <1>2 DEF mirror
      <4>4. AskedInv(r.peer, Append(t.up, <<"mirror", p>>), dead)
        BY <1>1, <1>7, <2>6, <2>9, <3>1, <3>3, <4>1, <4>2, AskedMore
      <4>5. WantedInv(r.peer, Append(t.up, <<"mirror", p>>))
        BY <1>1, <1>7, <2>6, <2>10, <3>1, <4>1, <4>2, WantedMore
      <4> QED BY <4>1, <4>4, <4>5
    <3> QED BY <2>5, <2>6, <3>1, <3>2, <3>3 DEF HandlerInv, r
  <2>11. CASE p \in t.peer.focused
    <3> DEFINE less == RemoveFirst(list, focusKey)
               again == Append(less, focusKey)
    <3>1. focusKey \in Range(t1.peer.told)
      BY <2>1, <2>4, <2>6, <2>11
    <3>2. /\ less \in Seq(Keys) /\ Range(less) = Range(list) \ {focusKey} /\ IsInjective(less)
          /\ \A x, y : x # y /\ Before(list, x, y) => Before(less, x, y)
      BY <2>4, OneLess
    <3>3. \A x, y : y \notin Range(less) => Before(less, x, y)
      BY DEF Before, Range
    <3>4. /\ IsInjective(again) /\ Range(again) = Range(less) \cup {focusKey}
          /\ \A x, y : Before(less, x, y) /\ x # focusKey => Before(again, x, y)
      BY <1>2, <3>2, OneMore
    <3>5. /\ r \in Handlers /\ r.peer = [t1.peer EXCEPT !.told = Append(RemoveFirst(@, focusKey), focusKey)]
          /\ r.up = IF link.up THEN Append(t1.up, focusKey) ELSE t1.up
      BY <1>2, <2>5, <2>8, <3>1, AgainDoes
    <3>6. /\ r.peer \in PeerType /\ r.peer.tree = t.peer.tree /\ r.peer.asked = t.peer.asked \cup {p}
          /\ r.peer.streaming = t.peer.streaming \cup {p} /\ r.peer.focused = t.peer.focused
          /\ r.peer.refused = t.peer.refused /\ r.peer.told = again
      BY <2>6, <3>5 DEF PeerType, Handlers
    <3> HIDE DEF less, again
    <3>7. ToldInv(r.peer, dead)
      <4>1. Range(again) = Range(t.peer.told) \cup {mirror}
        BY <2>1, <2>4, <2>11, <3>2, <3>4
      <4>2. Before(again, mirror, paused) /\ Before(again, mirror, focusKey)
        BY <2>1, <2>2, <2>4, <2>7, <3>2, <3>3, <3>4
      <4>3. \A q \in t.peer.asked :
               Before(again, <<"mirror", q>>, <<"paused", q>>) /\ Before(again, <<"mirror", q>>, <<"focus", q>>)
        <5> SUFFICES ASSUME NEW q \in t.peer.asked
                     PROVE  /\ Before(again, <<"mirror", q>>, <<"paused", q>>)
                            /\ Before(again, <<"mirror", q>>, <<"focus", q>>)
          OBVIOUS
        <5>1. /\ Before(t.peer.told, <<"mirror", q>>, <<"paused", q>>)
              /\ Before(t.peer.told, <<"mirror", q>>, <<"focus", q>>)
          BY <1>1 DEF ToldInv, PeerType
        <5>2. <<"mirror", q>> # mirror /\ <<"mirror", q>> # focusKey
          BY <1>7, <2>3
        <5>3. Before(list, <<"mirror", q>>, <<"paused", q>>) /\ Before(list, <<"mirror", q>>, <<"focus", q>>)
          BY <2>4, <5>1, <5>2
        <5>4. <<"mirror", q>> # <<"paused", q>> /\ <<"mirror", q>> # <<"focus", q>>
          OBVIOUS
        <5>5. Before(less, <<"mirror", q>>, <<"paused", q>>) /\ Before(less, <<"mirror", q>>, <<"focus", q>>)
          BY <3>2, <5>3, <5>4
        <5> QED BY <3>4, <5>2, <5>5
      <4> QED BY <1>1, <1>7, <2>1, <2>3, <2>11, <3>4, <3>6, <4>1, <4>2, <4>3
              DEF ToldInv, Holding, mirror, paused, focusKey
    <3>8. ASSUME link.up PROVE AskedInv(r.peer, r.up, dead) /\ WantedInv(r.peer, r.up)
      <4> DEFINE mid == [t.peer EXCEPT !.asked = @ \cup {p}, !.streaming = @ \cup {p}, !.focused = @ \ {p}]
      <4>1. /\ mid \in PeerType /\ mid.asked = t.peer.asked \cup {p}
            /\ mid.streaming = t.peer.streaming \cup {p} /\ mid.focused = t.peer.focused \ {p}
            /\ mid.refused = t.peer.refused
        BY <1>1 DEF PeerType
      <4> HIDE DEF mid
      <4>2. /\ AskedInv(t.peer, t.up, dead) /\ WantedInv(t.peer, t.up)
            /\ u = Append(t.up, <<"mirror", p>>) /\ r.up = Append(u, <<"focus", p>>)
        BY <2>6, <3>5, <3>8 DEF HandlerInv, mirror, focusKey, u
      <4>3. <<"mirror", p>> \in Words /\ <<"focus", p>> \in Words
        BY <1>2 DEF mirror, focusKey
      <4>4. u \in Seq(Sent)
        <5>1. <<"mirror", p>> \in Sent
          BY <4>3 DEF Sent
        <5> QED BY <1>1, <4>2, <5>1
      <4>5. AskedInv(mid, Append(t.up, <<"mirror", p>>), dead)
        BY <1>1, <1>7, <2>9, <3>8, <4>1, <4>2, <4>3, AskedMore
      <4>6. WantedInv(mid, Append(t.up, <<"mirror", p>>))
        BY <1>1, <1>7, <4>1, <4>2, <4>3, WantedMore
      <4>7. AskedInv(mid, u, dead) /\ WantedInv(mid, u)
        BY <4>2, <4>5, <4>6
      <4>8. AskedInv(r.peer, Append(u, <<"focus", p>>), dead)
        BY <3>6, <4>1, <4>3, <4>4, <4>7, AskedMore
      <4>9. WantedInv(r.peer, Append(u, <<"focus", p>>))
        BY <1>1, <2>11, <3>6, <4>1, <4>3, <4>4, <4>7, WantedMore
      <4> QED BY <4>2, <4>8, <4>9
    <3> QED BY <2>6, <3>5, <3>6, <3>7, <3>8 DEF HandlerInv, r
  <2> QED BY <2>10, <2>11
<1> QED BY <1>5, <1>6, <1>7

\* A pane that is not gone gains the focus.
LEMMA GainedKeeps ==
    ASSUME NEW t, NEW dead, HandlerInv(t, dead), NEW p \in Panes, p \in t.peer.tree \ dead
    PROVE  /\ HandlerInv(Focus(t, p, TRUE), dead) /\ Focus(t, p, TRUE).peer.tree = t.peer.tree
           /\ t.peer.asked \subseteq Focus(t, p, TRUE).peer.asked
<1> DEFINE r == Focus(t, p, TRUE)
           s == [t EXCEPT !.peer.focused = @ \cup {p}]
           focusKey == <<"focus", p>>
<1>1. /\ t \in Handlers /\ t.peer \in PeerType /\ t.peer.told \in Seq(Keys) /\ t.up \in Seq(Sent)
      /\ ToldInv(t.peer, dead) /\ IsInjective(t.peer.told)
  BY DEF HandlerInv, Handlers, PeerType, ToldInv
<1>2. focusKey \in Keys /\ focusKey \in Words
  BY DEF Words, Keys
<1>3. /\ s \in Handlers /\ s.up = t.up /\ s.peer \in PeerType /\ s.peer.tree = t.peer.tree
      /\ s.peer.asked = t.peer.asked
      /\ s.peer.streaming = t.peer.streaming /\ s.peer.focused = t.peer.focused \cup {p}
      /\ s.peer.refused = t.peer.refused /\ s.peer.told = t.peer.told
  BY <1>1 DEF Handlers, PeerType
<1>4. r = Say(s, focusKey)
  BY DEF Focus
<1>5. focusKey \in Range(t.peer.told) <=> p \in t.peer.focused
  BY <1>1 DEF ToldInv, Holding
<1>6. \A q : /\ <<"mirror", q>> # focusKey /\ <<"paused", q>> # focusKey /\ (q # p => <<"focus", q>> # focusKey)
  OBVIOUS
<1> HIDE DEF r, s, focusKey
<1>7. CASE p \in t.peer.focused
  <2>1. r = s
    BY <1>2, <1>3, <1>4, <1>5, <1>7, SayDoes
  <2>2. s.peer.focused = t.peer.focused
    BY <1>3, <1>7
  <2>3. ToldInv(s.peer, dead)
    BY <1>1, <1>3, <2>2 DEF ToldInv, Holding
  <2>4. ASSUME link.up PROVE AskedInv(s.peer, s.up, dead) /\ WantedInv(s.peer, s.up)
    <3>1. AskedInv(t.peer, t.up, dead) /\ WantedInv(t.peer, t.up)
      BY <2>4 DEF HandlerInv
    <3> QED BY <1>3, <2>2, <3>1 DEF AskedInv, WantedInv
  <2> QED BY <1>3, <2>1, <2>3, <2>4 DEF HandlerInv, r
<1>8. CASE p \notin t.peer.focused
  <2>1. /\ r \in Handlers /\ r.peer = [s.peer EXCEPT !.told = Append(@, focusKey)]
        /\ r.up = IF link.up THEN Append(t.up, focusKey) ELSE t.up
    <3>1. focusKey \notin Range(s.peer.told)
      BY <1>3, <1>5, <1>8
    <3> QED BY <1>2, <1>3, <1>4, <3>1, SayDoes
  <2>2. /\ r.peer \in PeerType /\ r.peer.tree = t.peer.tree /\ r.peer.asked = t.peer.asked
        /\ r.peer.streaming = t.peer.streaming /\ r.peer.focused = t.peer.focused \cup {p}
        /\ r.peer.refused = t.peer.refused /\ r.peer.told = Append(t.peer.told, focusKey)
    BY <1>1, <1>3, <2>1 DEF PeerType, Handlers
  <2>3. ToldInv(r.peer, dead)
    <3>1. /\ IsInjective(r.peer.told) /\ Range(r.peer.told) = Range(t.peer.told) \cup {focusKey}
          /\ \A x, y : Before(t.peer.told, x, y) /\ x # focusKey => Before(r.peer.told, x, y)
      BY <1>1, <1>2, <1>5, <1>8, <2>2, OneMore
    <3> QED BY <1>1, <1>6, <2>2, <3>1 DEF ToldInv, Holding, focusKey
  <2>4. ASSUME link.up PROVE AskedInv(r.peer, r.up, dead) /\ WantedInv(r.peer, r.up)
    <3>1. AskedInv(t.peer, t.up, dead) /\ WantedInv(t.peer, t.up) /\ r.up = Append(t.up, <<"focus", p>>)
      BY <2>1, <2>4 DEF HandlerInv, focusKey
    <3>2. <<"focus", p>> \in Words
      BY <1>2 DEF focusKey
    <3>3. AskedInv(r.peer, Append(t.up, <<"focus", p>>), dead)
      BY <1>1, <2>2, <3>1, <3>2, AskedMore
    <3>4. WantedInv(r.peer, Append(t.up, <<"focus", p>>))
      BY <1>1, <2>2, <3>1, <3>2, WantedMore
    <3> QED BY <3>1, <3>3, <3>4
  <2> QED BY <2>1, <2>2, <2>3, <2>4 DEF HandlerInv, r
<1> QED BY <1>7, <1>8

\* A pane loses the focus.
LEMMA LostKeeps ==
    ASSUME NEW t, NEW dead, HandlerInv(t, dead), NEW p \in Panes
    PROVE  /\ HandlerInv(Focus(t, p, FALSE), dead) /\ Focus(t, p, FALSE).peer.tree = t.peer.tree
           /\ t.peer.asked \subseteq Focus(t, p, FALSE).peer.asked
<1> DEFINE r == Focus(t, p, FALSE)
           s == [t EXCEPT !.peer.focused = @ \ {p}]
           focusKey == <<"focus", p>>
           unfocused == <<"unfocused", p>>
<1>1. /\ t \in Handlers /\ t.peer \in PeerType /\ t.peer.told \in Seq(Keys) /\ t.up \in Seq(Sent)
      /\ ToldInv(t.peer, dead) /\ IsInjective(t.peer.told)
  BY DEF HandlerInv, Handlers, PeerType, ToldInv
<1>2. focusKey \in Keys /\ unfocused \in Words
  BY DEF Words, Keys
<1>3. /\ s \in Handlers /\ s.up = t.up /\ s.peer \in PeerType /\ s.peer.tree = t.peer.tree
      /\ s.peer.asked = t.peer.asked
      /\ s.peer.streaming = t.peer.streaming /\ s.peer.focused = t.peer.focused \ {p}
      /\ s.peer.refused = t.peer.refused /\ s.peer.told = t.peer.told
  BY <1>1 DEF Handlers, PeerType
<1>4. r = Send(Forget(s, focusKey), unfocused)
  BY DEF Focus
<1>5. \A q : /\ <<"mirror", q>> # focusKey /\ <<"paused", q>> # focusKey /\ (q # p => <<"focus", q>> # focusKey)
  OBVIOUS
<1> HIDE DEF r, s, focusKey, unfocused
<1>6. /\ r \in Handlers /\ r.peer = [s.peer EXCEPT !.told = RemoveFirst(@, focusKey)]
      /\ r.up = IF link.up THEN Append(t.up, unfocused) ELSE t.up
  <2>1. /\ Forget(s, focusKey) \in Handlers /\ Forget(s, focusKey).up = t.up
        /\ Forget(s, focusKey).peer = [s.peer EXCEPT !.told = RemoveFirst(@, focusKey)]
    BY <1>1, <1>3, ForgetDoes
  <2> QED BY <1>2, <1>4, <2>1, SendDoes
<1>7. /\ r.peer \in PeerType /\ r.peer.tree = t.peer.tree /\ r.peer.asked = t.peer.asked
      /\ r.peer.streaming = t.peer.streaming /\ r.peer.focused = t.peer.focused \ {p}
      /\ r.peer.refused = t.peer.refused /\ r.peer.told = RemoveFirst(t.peer.told, focusKey)
  BY <1>1, <1>3, <1>6 DEF PeerType, Handlers
<1>8. ToldInv(r.peer, dead)
  <2>1. /\ IsInjective(r.peer.told) /\ Range(r.peer.told) = Range(t.peer.told) \ {focusKey}
        /\ \A x, y : x # y /\ Before(t.peer.told, x, y) => Before(r.peer.told, x, y)
    BY <1>1, <1>7, OneLess
  <2> QED BY <1>1, <1>5, <1>7, <2>1 DEF ToldInv, Holding, focusKey
<1>9. ASSUME link.up PROVE AskedInv(r.peer, r.up, dead) /\ WantedInv(r.peer, r.up)
  <2>1. AskedInv(t.peer, t.up, dead) /\ WantedInv(t.peer, t.up) /\ r.up = Append(t.up, <<"unfocused", p>>)
    BY <1>6, <1>9 DEF HandlerInv, unfocused
  <2>2. <<"unfocused", p>> \in Words
    BY <1>2 DEF unfocused
  <2>3. AskedInv(r.peer, Append(t.up, <<"unfocused", p>>), dead)
    BY <1>1, <1>7, <2>1, <2>2, AskedMore
  <2>4. WantedInv(r.peer, Append(t.up, <<"unfocused", p>>))
    BY <1>1, <1>7, <2>1, <2>2, WantedMore
  <2> QED BY <2>1, <2>3, <2>4
<1> QED BY <1>6, <1>7, <1>8, <1>9 DEF HandlerInv, r

\* A pane that is gone leaves the tree.
LEMMA KillKeeps ==
    ASSUME NEW t, NEW dead, HandlerInv(t, dead), NEW p \in Panes, p \in dead
    PROVE  /\ HandlerInv(Kill(t, p), dead) /\ Kill(t, p).peer.tree = t.peer.tree \ {p}
           /\ t.peer.asked \ {p} \subseteq Kill(t, p).peer.asked
<1> DEFINE r == Kill(t, p)
           s == [t EXCEPT !.peer.tree = @ \ {p}, !.peer.asked = @ \ {p}, !.peer.streaming = @ \ {p},
                          !.peer.stale = @ \ {p}, !.peer.focused = @ \ {p}, !.peer.refused = @ \ {p}]
           mirror == <<"mirror", p>>
           paused == <<"paused", p>>
           focusKey == <<"focus", p>>
           stop == <<"stop", p>>
<1>1. /\ t \in Handlers /\ t.peer \in PeerType /\ t.peer.told \in Seq(Keys) /\ t.up \in Seq(Sent)
      /\ ToldInv(t.peer, dead) /\ IsInjective(t.peer.told)
  BY DEF HandlerInv, Handlers, PeerType, ToldInv
<1>2. stop \in Words
  BY DEF Words
<1>3. /\ s \in Handlers /\ s.up = t.up /\ s.peer \in PeerType /\ s.peer.tree = t.peer.tree \ {p}
      /\ s.peer.asked = t.peer.asked \ {p}
      /\ s.peer.streaming = t.peer.streaming \ {p} /\ s.peer.focused = t.peer.focused \ {p}
      /\ s.peer.refused = t.peer.refused \ {p} /\ s.peer.told = t.peer.told
  <2> DEFINE pe == [t.peer EXCEPT !.tree = @ \ {p}, !.asked = @ \ {p}, !.streaming = @ \ {p},
                                  !.stale = @ \ {p}, !.focused = @ \ {p}, !.refused = @ \ {p}]
  <2>1. /\ pe.tree = t.peer.tree \ {p} /\ pe.asked = t.peer.asked \ {p}
        /\ pe.streaming = t.peer.streaming \ {p} /\ pe.focused = t.peer.focused \ {p}
        /\ pe.refused = t.peer.refused \ {p} /\ pe.told = t.peer.told
    BY <1>1 DEF PeerType
  <2>2. pe \in PeerType
    BY <1>1 DEF PeerType
  <2>3. s = [t EXCEPT !.peer = pe]
    BY <1>1 DEF Handlers
  <2> HIDE DEF pe, s
  <2>4. s \in Handlers /\ s.up = t.up /\ s.peer = pe
    BY <1>1, <2>2, <2>3 DEF Handlers
  <2> QED BY <2>1, <2>2, <2>4
<1>4. r = IF p \in t.peer.asked THEN Send(Forget(Forget(Forget(s, mirror), paused), focusKey), stop) ELSE s
  BY DEF Kill
<1>5. \A q : q # p => \A k : <<k, q>> \notin {mirror, paused, focusKey}
  OBVIOUS
<1> HIDE DEF r, s, mirror, paused, focusKey, stop
<1>6. CASE p \notin t.peer.asked
  <2>1. r = s
    BY <1>4, <1>6
  <2>2. s.peer.asked = t.peer.asked /\ s.peer.streaming = t.peer.streaming
    BY <1>1, <1>3, <1>6 DEF ToldInv
  <2>3. ToldInv(s.peer, dead)
    BY <1>1, <1>3, <1>6, <2>2 DEF ToldInv, Holding
  <2>4. ASSUME link.up PROVE AskedInv(s.peer, s.up, dead) /\ WantedInv(s.peer, s.up)
    <3>1. AskedInv(t.peer, t.up, dead) /\ WantedInv(t.peer, t.up)
      BY <2>4 DEF HandlerInv
    <3>2. AskedInv(s.peer, s.up, dead)
      BY <1>3, <1>6, <2>2, <3>1 DEF AskedInv
    <3>3. WantedInv(s.peer, s.up)
      BY <1>3, <1>6, <2>2, <3>1 DEF WantedInv
    <3> QED BY <3>2, <3>3
  <2> QED BY <1>3, <2>1, <2>3, <2>4 DEF HandlerInv, r
<1>7. CASE p \in t.peer.asked
  <2> DEFINE s1 == Forget(s, mirror)
             s2 == Forget(s1, paused)
             s3 == Forget(s2, focusKey)
             l1 == RemoveFirst(t.peer.told, mirror)
             l2 == RemoveFirst(l1, paused)
             l3 == RemoveFirst(l2, focusKey)
  <2>1. /\ l1 \in Seq(Keys) /\ IsInjective(l1) /\ Range(l1) = Range(t.peer.told) \ {mirror}
        /\ \A x, y : x # y /\ Before(t.peer.told, x, y) => Before(l1, x, y)
    BY <1>1, OneLess
  <2> HIDE DEF l1
  <2>2. /\ l2 \in Seq(Keys) /\ IsInjective(l2) /\ Range(l2) = Range(l1) \ {paused}
        /\ \A x, y : x # y /\ Before(l1, x, y) => Before(l2, x, y)
    BY <2>1, OneLess
  <2> HIDE DEF l2
  <2>3. /\ l3 \in Seq(Keys) /\ IsInjective(l3) /\ Range(l3) = Range(l2) \ {focusKey}
        /\ \A x, y : x # y /\ Before(l2, x, y) => Before(l3, x, y)
    BY <2>2, OneLess
  <2> HIDE DEF l3
  <2>4. s1 \in Handlers /\ s1.up = t.up /\ s1.peer = [s.peer EXCEPT !.told = l1]
    BY <1>1, <1>3, ForgetDoes DEF l1
  <2> HIDE DEF s1
  <2>5. s1.peer.told = l1
    BY <1>3, <2>4 DEF PeerType
  <2>6. s2 \in Handlers /\ s2.up = t.up /\ s2.peer = [s1.peer EXCEPT !.told = l2]
    BY <2>1, <2>4, <2>5, ForgetDoes DEF l2
  <2> HIDE DEF s2
  <2>7. s2.peer.told = l2
    BY <2>4, <2>6 DEF PeerType, Handlers
  <2>8. s3 \in Handlers /\ s3.up = t.up /\ s3.peer = [s2.peer EXCEPT !.told = l3]
    BY <2>2, <2>6, <2>7, ForgetDoes DEF l3
  <2> HIDE DEF s3
  <2>9. r \in Handlers /\ r.peer = s3.peer /\ r.up = IF link.up THEN Append(t.up, stop) ELSE t.up
    <3>1. r = Send(s3, stop)
      BY <1>4, <1>7 DEF s1, s2, s3
    <3> QED BY <1>2, <2>8, <3>1, SendDoes
  <2>10. /\ r.peer \in PeerType /\ r.peer.tree = t.peer.tree \ {p} /\ r.peer.asked = t.peer.asked \ {p}
         /\ r.peer.streaming = t.peer.streaming \ {p} /\ r.peer.focused = t.peer.focused \ {p}
         /\ r.peer.refused = t.peer.refused \ {p} /\ r.peer.told = l3
    BY <1>3, <2>4, <2>6, <2>8, <2>9 DEF PeerType, Handlers
  <2>11. ToldInv(r.peer, dead)
    <3>1. \A q \in Panes : q # p => \A k : Holding(r.peer, k, q) <=> Holding(t.peer, k, q)
      BY <1>5, <2>1, <2>2, <2>3, <2>10 DEF Holding
    <3>2. ~Holding(r.peer, "mirror", p) /\ ~Holding(r.peer, "paused", p) /\ ~Holding(r.peer, "focus", p)
      BY <2>1, <2>2, <2>3, <2>10 DEF Holding, mirror, paused, focusKey
    <3>3. \A x, y : x # y /\ Before(t.peer.told, x, y) => Before(r.peer.told, x, y)
      BY <2>1, <2>2, <2>3, <2>10
    <3> QED BY <1>1, <2>3, <2>10, <3>1, <3>2, <3>3 DEF ToldInv
  <2>12. ASSUME link.up PROVE AskedInv(r.peer, r.up, dead) /\ WantedInv(r.peer, r.up)
    <3>1. AskedInv(t.peer, t.up, dead) /\ WantedInv(t.peer, t.up) /\ r.up = Append(t.up, <<"stop", p>>)
      BY <2>9, <2>12 DEF HandlerInv, stop
    <3>2. <<"stop", p>> \in Words
      BY <1>2 DEF stop
    <3>3. AskedInv(r.peer, Append(t.up, <<"stop", p>>), dead)
      BY <1>1, <2>10, <3>1, <3>2, AskedMore
    <3>4. WantedInv(r.peer, Append(t.up, <<"stop", p>>))
      BY <1>1, <2>10, <3>1, <3>2, WantedMore
    <3> QED BY <3>1, <3>3, <3>4
  <2> QED BY <2>9, <2>10, <2>11, <2>12 DEF HandlerInv, r
<1> QED BY <1>6, <1>7

\* Each deed, to a pane it is for, keeps what the peer holds and what is on its
\* way in step.
LEMMA DoKeeps ==
    ASSUME NEW t, NEW dead, HandlerInv(t, dead), NEW p \in Panes,
           NEW deed \in {"seen", "unseen", "gained", "lost", "kill"},
           deed \in {"seen", "gained"} => p \in t.peer.tree \ dead,
           deed = "kill" => p \in dead
    PROVE  /\ HandlerInv(Do(t, deed, p), dead) /\ t.peer.asked \ dead \subseteq Do(t, deed, p).peer.asked
           /\ deed = "kill" => Do(t, deed, p).peer.tree = t.peer.tree \ {p}
           /\ deed # "kill" => Do(t, deed, p).peer.tree = t.peer.tree
<1>1. CASE deed = "seen"
  <2>1. Do(t, deed, p) = Seen(t, p)
    BY <1>1 DEF Do
  <2> QED BY <1>1, <2>1, SeenKeeps
<1>2. CASE deed = "unseen"
  <2>1. Do(t, deed, p) = Unseen(t, p)
    BY <1>2 DEF Do
  <2> QED BY <1>2, <2>1, UnseenKeeps
<1>3. CASE deed = "gained"
  <2>1. Do(t, deed, p) = Focus(t, p, TRUE)
    BY <1>3 DEF Do
  <2> QED BY <1>3, <2>1, GainedKeeps
<1>4. CASE deed = "lost"
  <2>1. Do(t, deed, p) = Focus(t, p, FALSE)
    BY <1>4 DEF Do
  <2> QED BY <1>4, <2>1, LostKeeps
<1>5. CASE deed = "kill"
  <2>1. Do(t, deed, p) = Kill(t, p)
    BY <1>5 DEF Do
  <2> QED BY <1>5, <2>1, KillKeeps
<1> QED BY <1>1, <1>2, <1>3, <1>4, <1>5

\* A loop over panes goes through each of them.
LEMMA AllInTurn ==
    ASSUME NEW panes \in SUBSET Panes
    PROVE  /\ SetToSeq(panes) \in Seq(panes)
           /\ \A p \in panes : \E i \in 1 .. Len(SetToSeq(panes)) : SetToSeq(panes)[i] = p
<1> DEFINE n == Cardinality(panes)
           list == SetToSeq(panes)
<1>1. IsFiniteSet(panes)
  BY MirrorAssumption, FS_Subset
<1>2. n \in Nat /\ ExistsBijection(1 .. n, panes)
  BY <1>1, FS_CardinalityType
<1>3. PICK f \in Bijection(1 .. n, panes) : TRUE
  BY <1>2 DEF ExistsBijection
<1>4. f \in [1 .. n -> panes] /\ IsInjective(f)
  BY <1>3 DEF Bijection, Injection, Surjection, IsInjective
<1>5. list \in [1 .. n -> panes] /\ IsInjective(list)
  BY <1>4 DEF SetToSeq
<1> HIDE DEF list
<1>6. IsFiniteSet(1 .. n) /\ Cardinality(1 .. n) = n
  <2>1. 1 \in Int /\ n \in Int /\ IsFiniteSet(1 .. n)
    BY <1>2, FS_Interval
  <2> QED BY <1>2, <2>1, FS_Interval
<1>7. list \in Injection(1 .. n, panes)
  BY <1>5 DEF Injection, IsInjective
<1>8. list \in Surjection(1 .. n, panes)
  BY <1>1, <1>6, <1>7, FS_Injection
<1>9. \A p \in panes : \E i \in 1 .. n : list[i] = p
  BY <1>8 DEF Surjection
<1>10. list \in Seq(panes) /\ Len(list) = n
  BY <1>2, <1>5
<1> QED BY <1>9, <1>10 DEF list

Turns(after, t, deed, list, n) ==
  after = [i \in 0 .. n |-> IF i = 0 THEN t ELSE Do(after[i - 1], deed[list[i]], list[i])]

\* The course of a loop: each turn goes on from where the one before left off.
LEMMA TurnsExist ==
    ASSUME NEW t, NEW deed, NEW list, NEW n \in Nat
    PROVE  \E after : Turns(after, t, deed, list, n)
<1> USE DEF Turns
<1> DEFINE Goes(after, m) == Turns(after, t, deed, list, m)
           Stuck == {m \in Nat : ~ \E after : Goes(after, m)}
<1>1. Stuck = {}
  <2> SUFFICES ASSUME Stuck # {} PROVE FALSE
    OBVIOUS
  <2>1. PICK m \in Stuck : \A k \in Stuck : m <= k
    <3>1. Stuck \in SUBSET Nat
      OBVIOUS
    <3> HIDE DEF Stuck
    <3> QED BY <3>1, SmallestOf
  <2>2. CASE m = 0
    <3> DEFINE a == [i \in 0 .. 0 |-> t]
    <3>1. Goes(a, 0)
      OBVIOUS
    <3> QED BY <2>1, <2>2, <3>1
  <2>3. CASE m # 0
    <3>1. m \in Nat /\ m - 1 \in Nat /\ m - 1 < m
      BY <2>1, <2>3
    <3>2. m - 1 \notin Stuck
      <4> HIDE DEF Stuck
      <4> QED BY <2>1, <3>1
    <3>3. PICK a : Goes(a, m - 1)
      BY <3>1, <3>2
    <3> DEFINE b == [i \in 0 .. m |-> IF i = m THEN Do(a[m - 1], deed[list[m]], list[m]) ELSE a[i]]
    <3>4. \A i \in 0 .. m : b[i] = IF i = 0 THEN t ELSE Do(b[i - 1], deed[list[i]], list[i])
      <4> SUFFICES ASSUME NEW i \in 0 .. m
                   PROVE  b[i] = IF i = 0 THEN t ELSE Do(b[i - 1], deed[list[i]], list[i])
        OBVIOUS
      <4>1. CASE i = m
        <5>1. b[i - 1] = a[m - 1]
          BY <2>3, <3>1, <4>1
        <5> QED BY <2>3, <3>1, <4>1, <5>1
      <4>2. CASE i # m /\ i = 0
        <5>1. 0 \in 0 .. (m - 1)
          BY <3>1
        <5>2. a[0] = t
          BY <3>3, <5>1
        <5> QED BY <3>1, <4>2, <5>2
      <4>3. CASE i # m /\ i # 0
        <5>1. i \in 0 .. (m - 1) /\ i - 1 \in 0 .. m /\ i - 1 # m
          BY <3>1, <4>3
        <5>2. a[i] = Do(a[i - 1], deed[list[i]], list[i])
          BY <3>3, <4>3, <5>1
        <5> QED BY <4>3, <5>1, <5>2
      <4> QED BY <4>1, <4>2, <4>3
    <3>5. Goes(b, m)
      <4>1. b = [i \in 0 .. m |-> b[i]]
        OBVIOUS
      <4> HIDE DEF b
      <4> QED BY <3>4, <4>1
    <3> QED BY <2>1, <3>5
  <2> QED BY <2>2, <2>3
<1> QED BY <1>1

\* The deeds of a loop are for the panes they are done to.
Fits(t, deed, panes, dead) ==
  \A p \in panes : /\ deed[p] \in {"seen", "unseen", "gained", "lost", "kill"}
                   /\ deed[p] \in {"seen", "gained"} => p \in t.peer.tree \ dead
                   /\ deed[p] = "kill" => p \in dead

\* What a loop takes out of the tree.
KilledBy(deed, panes) == {p \in panes : deed[p] = "kill"}

\* A loop keeps them in step, and takes out of the tree what it kills.
LEMMA InTurnKeeps ==
    ASSUME NEW t, NEW dead, HandlerInv(t, dead), NEW panes \in SUBSET Panes, NEW deed,
           Fits(t, deed, panes, dead)
    PROVE  /\ HandlerInv(InTurn(t, deed, panes), dead)
           /\ t.peer.asked \ dead \subseteq InTurn(t, deed, panes).peer.asked
           /\ InTurn(t, deed, panes).peer.tree = t.peer.tree \ KilledBy(deed, panes)
<1> USE DEF Fits
<1>1. CASE panes = {}
  <2>1. InTurn(t, deed, panes) = t
    BY <1>1 DEF InTurn
  <2> QED BY <1>1, <2>1 DEF KilledBy
<1>2. CASE panes # {}
  <2> DEFINE list == SetToSeq(panes)
             n == Len(list)
             after == CHOOSE f : Turns(f, t, deed, list, n)
             Killed(i) == {list[j] : j \in {k \in 1 .. i : deed[list[k]] = "kill"}}
             Good(i) == /\ HandlerInv(after[i], dead) /\ after[i].peer.tree = t.peer.tree \ Killed(i)
                        /\ t.peer.asked \ dead \subseteq after[i].peer.asked
             Bad == {i \in 0 .. n : ~Good(i)}
  <2>1. /\ list \in Seq(panes) /\ n \in Nat /\ \A i \in 1 .. n : list[i] \in panes
        /\ \A p \in panes : \E i \in 1 .. n : list[i] = p
    BY AllInTurn
  <2>2. InTurn(t, deed, panes) = after[n]
    BY <1>2 DEF InTurn, Turns
  <2> HIDE DEF list, n
  <2>3. after = [i \in 0 .. n |-> IF i = 0 THEN t ELSE Do(after[i - 1], deed[list[i]], list[i])]
    <3>1. \E f : Turns(f, t, deed, list, n)
      BY <2>1, TurnsExist
    <3>2. Turns(after, t, deed, list, n)
      BY <3>1
    <3> QED BY <3>2 DEF Turns
  <2> HIDE DEF after
  <2>4. Bad = {}
    <3> SUFFICES ASSUME Bad # {} PROVE FALSE
      OBVIOUS
    <3>1. PICK m \in Bad : \A k \in Bad : m <= k
      <4>1. Bad \in SUBSET Nat
        BY <2>1
      <4> HIDE DEF Bad
      <4> QED BY <4>1, SmallestOf
    <3>2. m \in 0 .. n
      OBVIOUS
    <3>3. CASE m = 0
      <4>1. after[0] = t
        <5> DEFINE Step(i) == Do(after[i - 1], deed[list[i]], list[i])
        <5>1. after = [i \in 0 .. n |-> IF i = 0 THEN t ELSE Step(i)]
          BY <2>3
        <5> HIDE DEF Step
        <5> QED BY <2>1, <5>1
      <4>2. Killed(0) = {}
        OBVIOUS
      <4> QED BY <3>1, <3>3, <4>1, <4>2
    <3>4. CASE m # 0
      <4>1. m \in 1 .. n /\ m - 1 \in 0 .. n /\ m - 1 < m /\ m \in Int
        BY <2>1, <3>2, <3>4
      <4>2. Good(m - 1)
        <5>1. m - 1 \notin Bad
          <6> HIDE DEF Bad
          <6> QED BY <3>1, <4>1
        <5> QED BY <4>1, <5>1
      <4> DEFINE p == list[m]
      <4>3. p \in panes /\ p \in Panes
        BY <2>1, <4>1
      <4>4. after[m] = Do(after[m - 1], deed[p], p)
        BY <2>3, <3>2, <3>4
      <4>5. Killed(m) = Killed(m - 1) \cup (IF deed[p] = "kill" THEN {p} ELSE {})
        <5>1. \A k : k \in 1 .. m <=> k \in 1 .. (m - 1) \/ k = m
          BY <4>1
        <5> QED BY <5>1
      <4>6. Killed(m - 1) \subseteq dead
        <5>1. \A k \in 1 .. (m - 1) : k \in 1 .. n
          BY <2>1, <4>1
        <5> QED BY <2>1, <5>1
      <4> HIDE DEF Killed, p
      <4>7. /\ HandlerInv(Do(after[m - 1], deed[p], p), dead)
            /\ after[m - 1].peer.asked \ dead \subseteq Do(after[m - 1], deed[p], p).peer.asked
            /\ Do(after[m - 1], deed[p], p).peer.tree =
                 IF deed[p] = "kill" THEN after[m - 1].peer.tree \ {p} ELSE after[m - 1].peer.tree
        <5>1. /\ HandlerInv(after[m - 1], dead) /\ deed[p] \in {"seen", "unseen", "gained", "lost", "kill"}
              /\ deed[p] \in {"seen", "gained"} => p \in after[m - 1].peer.tree \ dead
              /\ deed[p] = "kill" => p \in dead
          BY <4>2, <4>3, <4>6
        <5> DEFINE s == after[m - 1]
                   d == deed[p]
        <5> HIDE DEF s, d
        <5>2. /\ HandlerInv(s, dead) /\ d \in {"seen", "unseen", "gained", "lost", "kill"}
              /\ d \in {"seen", "gained"} => p \in s.peer.tree \ dead
              /\ d = "kill" => p \in dead
          BY <5>1 DEF s, d
        <5>3. /\ HandlerInv(Do(s, d, p), dead) /\ s.peer.asked \ dead \subseteq Do(s, d, p).peer.asked
              /\ d = "kill" => Do(s, d, p).peer.tree = s.peer.tree \ {p}
              /\ d # "kill" => Do(s, d, p).peer.tree = s.peer.tree
          BY <4>3, <5>2, DoKeeps
        <5> QED BY <5>3 DEF s, d
      <4>8. Good(m)
        BY <4>2, <4>4, <4>5, <4>7
      <4> QED BY <3>1, <4>8
    <3> QED BY <3>3, <3>4
  <2>5. Good(n)
    <3>1. n \in 0 .. n
      BY <2>1
    <3> HIDE DEF Good
    <3> QED BY <2>4, <3>1
  <2>6. Killed(n) = KilledBy(deed, panes)
    BY <2>1 DEF KilledBy
  <2> QED BY <2>2, <2>5, <2>6
<1> QED BY <1>1, <1>2

\* What a handler looks at: clients look at panes and away...
LEMMA SightKeeps ==
    ASSUME NEW t, NEW dead, HandlerInv(t, dead), NEW seen, t.peer.tree \cap dead = {}
    PROVE  /\ HandlerInv(Sight(t, seen), dead) /\ Sight(t, seen).peer.tree = t.peer.tree
           /\ t.peer.asked \ dead \subseteq Sight(t, seen).peer.asked
<1> DEFINE deed == [p \in t.peer.tree |-> IF p \in seen THEN "seen" ELSE "unseen"]
<1>1. t.peer.tree \in SUBSET Panes
  BY DEF HandlerInv, Handlers, PeerType
<1>2. \A p \in t.peer.tree : deed[p] \in {"seen", "unseen"} /\ deed[p] # "kill"
  OBVIOUS
<1>3. Sight(t, seen) = InTurn(t, deed, t.peer.tree)
  BY DEF Sight
<1> HIDE DEF deed
<1>4. /\ HandlerInv(InTurn(t, deed, t.peer.tree), dead)
      /\ t.peer.asked \ dead \subseteq InTurn(t, deed, t.peer.tree).peer.asked
      /\ InTurn(t, deed, t.peer.tree).peer.tree = t.peer.tree \ KilledBy(deed, t.peer.tree)
  <2> DEFINE set == t.peer.tree
  <2>1. Fits(t, deed, set, dead) /\ set \in SUBSET Panes
    BY <1>1, <1>2 DEF Fits
  <2> HIDE DEF set
  <2>2. /\ HandlerInv(InTurn(t, deed, set), dead)
        /\ t.peer.asked \ dead \subseteq InTurn(t, deed, set).peer.asked
        /\ InTurn(t, deed, set).peer.tree = t.peer.tree \ KilledBy(deed, set)
    BY <2>1, InTurnKeeps
  <2> QED BY <2>2 DEF set
<1>5. KilledBy(deed, t.peer.tree) = {}
  BY <1>2 DEF KilledBy
<1> QED BY <1>3, <1>4, <1>5

\* ...give them the focus and take it...
LEMMA FocusOnKeeps ==
    ASSUME NEW t, NEW dead, HandlerInv(t, dead), NEW panes \in SUBSET t.peer.tree,
           t.peer.tree \cap dead = {}
    PROVE  /\ HandlerInv(FocusOn(t, panes), dead) /\ FocusOn(t, panes).peer.tree = t.peer.tree
           /\ t.peer.asked \ dead \subseteq FocusOn(t, panes).peer.asked
<1> DEFINE gains == [p \in panes |-> "gained"]
           loses == [p \in t.peer.focused |-> "lost"]
           set == panes \ t.peer.focused
           lost == t.peer.focused \ panes
           s == InTurn(t, gains, set)
<1>1. set \in SUBSET Panes /\ lost \in SUBSET Panes
  BY DEF HandlerInv, Handlers, PeerType
<1>2. (\A p \in set : gains[p] = "gained" /\ p \in t.peer.tree \ dead) /\ (\A p \in lost : loses[p] = "lost")
  OBVIOUS
<1>3. FocusOn(t, panes) = InTurn(s, loses, lost)
  BY DEF FocusOn
<1> HIDE DEF gains, loses, set, lost
<1>4. /\ HandlerInv(s, dead) /\ s.peer.tree = t.peer.tree \ KilledBy(gains, set)
      /\ t.peer.asked \ dead \subseteq s.peer.asked
  <2>1. Fits(t, gains, set, dead)
    BY <1>2 DEF Fits
  <2> QED BY <1>1, <2>1, InTurnKeeps
<1> HIDE DEF s
<1>5. /\ HandlerInv(InTurn(s, loses, lost), dead)
      /\ s.peer.asked \ dead \subseteq InTurn(s, loses, lost).peer.asked
      /\ InTurn(s, loses, lost).peer.tree = s.peer.tree \ KilledBy(loses, lost)
  <2>1. Fits(s, loses, lost, dead)
    BY <1>2 DEF Fits
  <2>2. HandlerInv(s, dead) /\ lost \in SUBSET Panes
    BY <1>1, <1>4
  <2> QED BY <2>1, <2>2, InTurnKeeps
<1>6. KilledBy(gains, set) = {} /\ KilledBy(loses, lost) = {}
  BY <1>2 DEF KilledBy
<1> QED BY <1>3, <1>4, <1>5, <1>6

\* ...and a tree comes, which lacks only what is gone.
LEMMA UpdateKeeps ==
    ASSUME NEW t, NEW dead, HandlerInv(t, dead), NEW panes \in SUBSET Panes,
           t.peer.tree \ panes \subseteq dead
    PROVE  /\ HandlerInv(Update(t, panes), dead) /\ Update(t, panes).peer.tree = panes
           /\ t.peer.asked \ dead \subseteq Update(t, panes).peer.asked
<1> DEFINE deed == [p \in t.peer.tree |-> "kill"]
           set == t.peer.tree \ panes
           s == InTurn(t, deed, set)
           r == [s EXCEPT !.peer.tree = panes]
<1>1. set \in SUBSET Panes
  BY DEF HandlerInv, Handlers, PeerType
<1>2. \A p \in set : deed[p] = "kill" /\ p \in dead
  OBVIOUS
<1>3. Update(t, panes) = r
  BY DEF Update
<1> HIDE DEF deed
<1>4. /\ HandlerInv(s, dead) /\ s.peer.tree = t.peer.tree \ KilledBy(deed, set)
      /\ t.peer.asked \ dead \subseteq s.peer.asked
  <2>1. Fits(t, deed, set, dead)
    BY <1>2 DEF Fits
  <2> HIDE DEF set
  <2> QED BY <1>1, <2>1, InTurnKeeps
<1>5. s.peer.tree \subseteq panes
  BY <1>2, <1>4 DEF KilledBy
<1> HIDE DEF s
<1>6. /\ r \in Handlers /\ r.up = s.up /\ r.peer \in PeerType /\ r.peer.tree = panes
      /\ r.peer.asked = s.peer.asked /\ r.peer.streaming = s.peer.streaming
      /\ r.peer.focused = s.peer.focused /\ r.peer.refused = s.peer.refused
      /\ r.peer.told = s.peer.told
  BY <1>4 DEF HandlerInv, Handlers, PeerType
<1> HIDE DEF r
<1>7. ToldInv(r.peer, dead)
  <2>1. ToldInv(s.peer, dead)
    BY <1>4 DEF HandlerInv
  <2> QED BY <1>5, <1>6, <2>1 DEF ToldInv, Holding
<1>8. ASSUME link.up PROVE AskedInv(r.peer, r.up, dead) /\ WantedInv(r.peer, r.up)
  <2>1. AskedInv(s.peer, s.up, dead) /\ WantedInv(s.peer, s.up)
    BY <1>4, <1>8 DEF HandlerInv
  <2>2. AskedInv(r.peer, r.up, dead)
    BY <1>6, <2>1 DEF AskedInv
  <2>3. WantedInv(r.peer, r.up)
    BY <1>6, <2>1 DEF WantedInv
  <2> QED BY <2>2, <2>3
<1> QED BY <1>3, <1>4, <1>6, <1>7, <1>8 DEF HandlerInv

\* What is gone stays so.
LEMMA MoreGone ==
    ASSUME NEW t, NEW dead, HandlerInv(t, dead), NEW more, dead \subseteq more
    PROVE  HandlerInv(t, more)
<1>1. ToldInv(t.peer, more)
  BY DEF HandlerInv, ToldInv
<1>2. link.up => AskedInv(t.peer, t.up, more)
  BY DEF HandlerInv, AskedInv
<1> QED BY <1>1, <1>2 DEF HandlerInv

-----------------------------------------------------------------------------
(* The steps. *)

\* The inductive invariant.
MirrorInv == LinkInv /\ TreeInv /\ HandlerInv(Handling, Dead) /\ FrameInv

\* What the packets on their way to the peer are.
LEMMA PacketForms ==
    ASSUME NEW d \in Downs
    PROVE  /\ d[1] = "tree" => d[2] \in SUBSET Panes
           /\ d[1] \in {"refused", "frame"} => d[2] \in Panes
           /\ d[1] = "refused" => d = <<"refused", d[2]>>
           /\ d[1] = "frame" => d[3] \in Nat /\ d[4] \in Nat
BY DEF Downs, TreesSent

\* A frame of p is queued, or waits already, or is not sent to a paused mirror.
LEMMA QueuedDoes ==
    ASSUME LinkType, NEW p \in Panes, NEW s \in SourceType, Queued(s, p)
    PROVE  /\ Sources' = Sources \cup {p} /\ \A q \in Sources \ {p} : sources'[q] = sources[q]
           /\ sources'[p] \in SourceType /\ sources'[p].sent = s.sent
           /\ sources'[p].paused = s.paused /\ sources'[p].focused = s.focused
           /\ owner' \in OwnerType /\ owner'.refusing = owner.refusing
           /\ owner'.watching = owner.watching
           /\ owner'.queue \in {owner.queue, Append(owner.queue, <<"frame", p>>)}
           /\ Sources' \subseteq Panes /\ \A q \in Sources' : sources'[q] \in SourceType
<1>1. /\ sources' = [q \in Sources \cup {p} |->
                       IF q = p THEN [s EXCEPT !.queued = s.queued \/ Queues(s)] ELSE sources[q]]
      /\ owner' = [owner EXCEPT !.queue = IF Queues(s) THEN Append(@, <<"frame", p>>) ELSE @]
  BY DEF Queued
<1>2. Sources' = Sources \cup {p} /\ \A q \in Sources \ {p} : sources'[q] = sources[q]
  BY <1>1 DEF Sources
<1>3. /\ sources'[p] \in SourceType /\ sources'[p].sent = s.sent
      /\ sources'[p].paused = s.paused /\ sources'[p].focused = s.focused
  <2>1. sources'[p] = [s EXCEPT !.queued = s.queued \/ Queues(s)]
    BY <1>1
  <2>2. (s.queued \/ Queues(s)) \in BOOLEAN
    BY DEF SourceType, Queues
  <2> QED BY <2>1, <2>2 DEF SourceType
<1>4. Append(owner.queue, <<"frame", p>>) \in Seq(Frames \cup TreesSent)
  <2>1. owner.queue \in Seq(Frames \cup TreesSent) /\ <<"frame", p>> \in Frames \cup TreesSent
    BY DEF LinkType, OwnerType, Frames
  <2> QED BY <2>1
<1>5. Sources' \subseteq Panes /\ \A q \in Sources' : sources'[q] \in SourceType
  BY <1>2, <1>3 DEF LinkType
<1>6. CASE Queues(s)
  BY <1>1, <1>2, <1>3, <1>4, <1>6 DEF LinkType, OwnerType
<1>7. CASE ~Queues(s)
  BY <1>1, <1>2, <1>3, <1>7 DEF LinkType, OwnerType
<1> QED BY <1>6, <1>7, <1>5

\* Whatever is taken or written, the packets are what they are.
LEMMA TypeStep ==
    ASSUME LinkType, up \in Seq(Sent), peer \in PeerType, MirrorNext
    PROVE  LinkType'
<1>1. /\ down \in Seq(Downs) /\ owner \in OwnerType /\ owner.queue \in Seq(Frames \cup TreesSent)
      /\ owner.watching \in BOOLEAN /\ owner.shown \in SUBSET SUBSET Panes /\ owner.refusing \in SUBSET Panes
      /\ Sources \subseteq Panes /\ \A p \in Sources : sources[p] \in SourceType
      /\ link \in [number : Nat, up : BOOLEAN] /\ page \in [Panes -> Nat] /\ version \in [Panes -> Nat]
      /\ life \in [Panes -> {"unborn", "alive", "gone"}]
  BY DEF LinkType, OwnerType
<1>2. Alive \in SUBSET Panes
  BY DEF Alive
<1>3. down # << >> => Head(down) \in Downs /\ Tail(down) \in Seq(Downs)
  BY <1>1
<1>4. owner.queue # << >> => /\ Head(owner.queue) \in Frames \cup TreesSent
                             /\ Tail(owner.queue) \in Seq(Frames \cup TreesSent)
  BY <1>1
<1>5. \A d \in Downs : Append(down, d) \in Seq(Downs)
  BY <1>1
<1>6. up # << >> => Head(up) \in Sent
  OBVIOUS
<1>7. CASE UNCHANGED <<down, link, owner, sources, world>> /\ page' \in [Panes -> Nat]
  BY <1>1, <1>7 DEF LinkType, world, Sources
<1>8. CASE Dial
  BY <1>1, <1>8 DEF Dial, LinkType, world, Sources
<1>9. CASE LinkGoes
  <2>1. down' = << >> /\ owner' = NoLink /\ sources' = << >> /\ link' = [link EXCEPT !.up = FALSE]
    BY <1>9 DEF LinkGoes
  <2>2. Sources' = {}
    BY <2>1 DEF Sources
  <2>3. owner' \in OwnerType
    BY <2>1 DEF NoLink, OwnerType
  <2>4. down' \in Seq(Downs) /\ link' \in [number : Nat, up : BOOLEAN]
    <3>1. << >> \in Seq(Downs)
      OBVIOUS
    <3>2. link' \in [number : Nat, up : BOOLEAN]
      BY <1>1, <2>1
    <3> QED BY <2>1, <3>1, <3>2
  <2>5. UNCHANGED <<page, life, version>>
    BY <1>9 DEF LinkGoes, world
  <2> QED BY <1>1, <2>2, <2>3, <2>4, <2>5 DEF LinkType
<1>10. CASE Takes
  <2>1. /\ down # << >> /\ down' = Tail(down) /\ UNCHANGED <<link, owner, sources, world>>
    BY <1>10 DEF Takes, TakeAccepted, TakeFrame, TakeRefusal, TakeTree
  <2>2. page' \in [Panes -> Nat]
    <3>1. CASE TakeFrame
      <4>1. Head(down)[1] = "frame" => Laid(page[Head(down)[2]], Head(down)[3], Head(down)[4]) \in Nat
        BY <1>3, <2>1, PacketForms, MirrorAssumption DEF Laid, Mixed
      <4> QED BY <1>1, <3>1, <4>1 DEF TakeFrame
    <3>2. CASE UNCHANGED page
      BY <1>1, <3>2
    <3> QED BY <1>10, <3>1, <3>2 DEF Takes, TakeAccepted, TakeRefusal, TakeTree
  <2> QED BY <1>1, <1>3, <2>1, <2>2 DEF LinkType, world, Sources
<1>11. CASE OwnerReads
  <2>1. UNCHANGED <<page, link, world>>
    BY <1>11 DEF OwnerReads, OnPeer, OnWatch, OnMirror, OnPause, OnResume, OnStop, OnFocus, Reads
  <2>2. Head(up) \in Sent
    BY <1>6, <1>11 DEF OwnerReads, OnPeer, OnWatch, OnMirror, OnPause, OnResume, OnStop, OnFocus, Reads
  <2>3. CASE OnPeer
    BY <1>1, <2>1, <2>3 DEF OnPeer, Downs, LinkType, world, Sources
  <2>4. CASE OnWatch
    BY <1>1, <2>1, <2>4 DEF OnWatch, LinkType, OwnerType, world, Sources
  <2>5. CASE OnMirror
    <3>1. OfPane \in Panes /\ UNCHANGED down
      BY <2>2, <2>5, WordForms DEF OnMirror, Reads, OfPane
    <3>2. CASE UNCHANGED <<owner, sources>>
      BY <1>1, <2>1, <3>1, <3>2 DEF LinkType, world, Sources
    <3>3. CASE owner' = [owner EXCEPT !.refusing = @ \cup {OfPane}] /\ UNCHANGED sources
      BY <1>1, <2>1, <3>1, <3>3 DEF LinkType, OwnerType, world, Sources
    <3>4. CASE Queued(NewSource, OfPane)
      <4>1. NewSource \in SourceType
        BY DEF NewSource, SourceType
      <4>2. owner' \in OwnerType /\ Sources' \subseteq Panes /\ \A p \in Sources' : sources'[p] \in SourceType
        BY <1>1, <3>1, <3>4, <4>1, QueuedDoes
      <4> QED BY <1>1, <2>1, <3>1, <4>2 DEF LinkType, world
    <3> QED BY <2>5, <3>2, <3>3, <3>4 DEF OnMirror
  <2>6. CASE OnPause
    <3>1. sources' = [p \in Sources |-> [sources[p] EXCEPT !.paused = @ \/ p = OfPane]]
      BY <2>6 DEF OnPause
    <3>2. Sources' = Sources
      BY <3>1 DEF Sources
    <3>3. \A p \in Sources : sources'[p] \in SourceType
      <4> SUFFICES ASSUME NEW p \in Sources PROVE sources'[p] \in SourceType
        OBVIOUS
      <4>1. sources[p] \in SourceType /\ (sources[p].paused \/ p = OfPane) \in BOOLEAN
        BY <1>1 DEF SourceType
      <4>2. sources'[p] = [sources[p] EXCEPT !.paused = sources[p].paused \/ p = OfPane]
        BY <3>1
      <4> QED BY <4>1, <4>2 DEF SourceType
    <3> QED BY <1>1, <2>1, <2>6, <3>2, <3>3 DEF OnPause, LinkType, world
  <2>7. CASE OnResume
    <3>1. OfPane \in Panes /\ UNCHANGED down
      BY <2>2, <2>7, WordForms DEF OnResume, Reads, OfPane
    <3>2. CASE UNCHANGED <<owner, sources>>
      BY <1>1, <2>1, <3>1, <3>2 DEF LinkType, world, Sources
    <3>3. CASE OfPane \in Sources /\ Queued(Resumed(sources[OfPane]), OfPane)
      <4>1. Resumed(sources[OfPane]) \in SourceType
        <5>1. sources[OfPane] \in SourceType
          BY <1>1, <3>3
        <5> QED BY <5>1 DEF Resumed, SourceType
      <4>2. owner' \in OwnerType /\ Sources' \subseteq Panes /\ \A p \in Sources' : sources'[p] \in SourceType
        <5> DEFINE s == Resumed(sources[OfPane])
        <5>1. s \in SourceType /\ Queued(s, OfPane)
          BY <3>3, <4>1
        <5> HIDE DEF s
        <5> QED BY <1>1, <3>1, <5>1, QueuedDoes
      <4> QED BY <1>1, <2>1, <3>1, <4>2 DEF LinkType, world
    <3> QED BY <2>7, <3>2, <3>3 DEF OnResume
  <2>8. CASE OnStop
    <3>1. sources' = [q \in Sources \ {OfPane} |-> sources[q]]
      BY <2>8 DEF OnStop, Dropped
    <3>2. Sources' = Sources \ {OfPane}
      BY <3>1 DEF Sources
    <3> QED BY <1>1, <2>1, <2>8, <3>1, <3>2 DEF OnStop, LinkType, world
  <2>9. CASE OnFocus
    <3>1. sources' = [p \in Sources |->
             IF p = OfPane THEN [sources[p] EXCEPT !.focused = Head(up)[1] = "focus"] ELSE sources[p]]
      BY <2>9 DEF OnFocus
    <3>2. Sources' = Sources
      BY <3>1 DEF Sources
    <3>3. \A p \in Sources : sources'[p] \in SourceType
      BY <1>1, <3>1 DEF SourceType
    <3> QED BY <1>1, <2>1, <2>9, <3>2, <3>3 DEF OnFocus, LinkType, world
  <2> QED BY <1>11, <2>3, <2>4, <2>5, <2>6, <2>7, <2>8, <2>9 DEF OwnerReads
<1>12. CASE WriteTree
  <2>1. Head(owner.queue) \in TreesSent
    BY <1>4, <1>12 DEF WriteTree, Frames, TreesSent
  <2> QED BY <1>1, <1>4, <1>5, <1>12, <2>1 DEF WriteTree, LinkType, OwnerType, Downs, world, Sources
<1>13. CASE WriteFrame
  <2> DEFINE p == Head(owner.queue)[2]
             s == sources[p]
  <2>1. /\ owner' = [owner EXCEPT !.queue = Tail(@)] /\ owner.queue # << >>
        /\ UNCHANGED <<page, link, world>>
    BY <1>13 DEF WriteFrame
  <2>2. owner' \in OwnerType
    BY <1>1, <1>4, <2>1 DEF OwnerType
  <2>3. CASE p \notin Sources
    BY <1>1, <1>13, <2>1, <2>2, <2>3 DEF WriteFrame, LinkType, world, Sources
  <2>4. CASE p \in Sources
    <3>1. /\ sources' = [sources EXCEPT ![p] = Framed(s, version[p])]
          /\ down' = down \/ down' = Append(down, <<"frame", p, s.sent, version[p]>>)
      BY <1>13, <2>4 DEF WriteFrame
    <3>2. s \in SourceType /\ p \in Panes /\ version[p] \in Nat /\ s.sent \in Nat
      BY <1>1, <2>4 DEF SourceType
    <3>3. Framed(s, version[p]) \in SourceType
      BY <3>2 DEF Framed, SourceType
    <3>4. <<"frame", p, s.sent, version[p]>> \in Downs
      BY <3>2 DEF Downs
    <3>5. down' \in Seq(Downs)
      BY <1>1, <1>5, <3>1, <3>4
    <3>6. Sources' = Sources /\ \A q \in Sources : sources'[q] \in SourceType
      BY <1>1, <2>4, <3>1, <3>3 DEF Sources
    <3> QED BY <1>1, <2>1, <2>2, <3>5, <3>6 DEF LinkType, world
  <2> QED BY <2>3, <2>4
<1>14. CASE FrameFails
  <2> DEFINE p == Head(owner.queue)[2]
  <2>1. /\ p \in Sources /\ sources' = [q \in Sources \ {p} |-> sources[q]]
        /\ owner' = [owner EXCEPT !.queue = Tail(@), !.refusing = @ \cup {p}]
        /\ owner.queue # << >> /\ UNCHANGED <<page, down, link, world>>
    BY <1>14 DEF FrameFails, Dropped, wire
  <2>2. owner' \in OwnerType
    <3>1. p \in Panes
      BY <1>1, <2>1
    <3> DEFINE rest == Tail(owner.queue)
    <3>2. rest \in Seq(Frames \cup TreesSent)
      BY <1>4, <2>1
    <3>3. owner' = [owner EXCEPT !.queue = rest, !.refusing = @ \cup {p}]
      BY <2>1
    <3> HIDE DEF rest, p
    <3> QED BY <1>1, <3>1, <3>2, <3>3 DEF OwnerType
  <2>3. Sources' = Sources \ {p} /\ \A q \in Sources' : sources'[q] = sources[q]
    BY <2>1 DEF Sources
  <2> QED BY <1>1, <2>1, <2>2, <2>3 DEF LinkType, world
<1>15. CASE QueueTree
  <2>1. <<"tree", Alive>> \in Frames \cup TreesSent
    BY <1>2 DEF TreesSent
  <2>2. Append(owner.queue, <<"tree", Alive>>) \in Seq(Frames \cup TreesSent)
    BY <1>1, <2>1
  <2>3. owner' \in OwnerType
    BY <1>1, <1>2, <1>15, <2>2 DEF QueueTree, OwnerType
  <2> QED BY <1>1, <1>15, <2>3 DEF QueueTree, LinkType, wire, world, Sources
<1>16. ASSUME NEW p \in Panes, Refuse(p) PROVE LinkType'
  <2>1. <<"refused", p>> \in Downs
    BY DEF Downs
  <2>2. owner' \in OwnerType
    BY <1>1, <1>16 DEF Refuse, OwnerType
  <2> QED BY <1>1, <1>5, <1>16, <2>1, <2>2 DEF Refuse, LinkType, world, Sources
<1>17. ASSUME NEW p \in Panes, Open(p) \/ Ends(p) PROVE LinkType'
  BY <1>1, <1>17 DEF Open, Ends, LinkType, wire, Sources
<1>18. ASSUME NEW p \in Panes, Prints(p) PROVE LinkType'
  <2>1. /\ version' = [version EXCEPT ![p] = @ + 1] /\ UNCHANGED <<page, down, link, life>>
    BY <1>18 DEF Prints, wire
  <2>2. CASE p \in Sources /\ Queued(sources[p], p)
    <3>1. owner' \in OwnerType /\ Sources' \subseteq Panes /\ \A q \in Sources' : sources'[q] \in SourceType
      <4> DEFINE s == sources[p]
      <4>1. s \in SourceType /\ Queued(s, p)
        BY <1>1, <2>2
      <4> HIDE DEF s
      <4> QED BY <1>1, <4>1, QueuedDoes
    <3>2. version' \in [Panes -> Nat]
      BY <1>1, <2>1
    <3> QED BY <1>1, <2>1, <3>1, <3>2 DEF LinkType
  <2>3. CASE UNCHANGED <<owner, sources>>
    <3>1. version' \in [Panes -> Nat]
      BY <1>1, <2>1
    <3> QED BY <1>1, <2>1, <2>3, <3>1 DEF LinkType, Sources
  <2> QED BY <1>18, <2>2, <2>3 DEF Prints
<1> QED BY <1>1, <1>7, <1>8, <1>9, <1>10, <1>11, <1>12, <1>13, <1>14, <1>15, <1>16, <1>17, <1>18
        DEF MirrorNext, SyncSight, SyncFocus, Writes

-----------------------------------------------------------------------------
(* The trees on their way. *)

\* Where the packets of the flow are...
LEMMA FlowAt ==
    ASSUME NEW S, NEW R, NEW d \in Seq(S), NEW q \in Seq(R)
    PROVE  /\ Len(d) \in Nat /\ Len(q) \in Nat
           /\ DOMAIN (d \o q) = 1 .. (Len(d) + Len(q)) /\ Len(d \o q) = Len(d) + Len(q)
           /\ \A i \in 1 .. Len(d) : (d \o q)[i] = d[i]
           /\ \A i \in (Len(d) + 1) .. (Len(d) + Len(q)) : (d \o q)[i] = q[i - Len(d)]
OBVIOUS

\* The flow once its first packet was taken...
LEMMA FlowTaken ==
    ASSUME NEW S, NEW R, NEW d \in Seq(S), NEW q \in Seq(R), d # << >>
    PROVE  LET f == d \o q
               g == Tail(d) \o q
           IN /\ Len(f) \in Nat /\ DOMAIN f = 1 .. Len(f) /\ DOMAIN g = 1 .. (Len(f) - 1)
              /\ 1 \in DOMAIN f /\ f[1] = Head(d)
              /\ \A i \in DOMAIN g : g[i] = f[i + 1]
<1> DEFINE e == Tail(d)
           f == d \o q
           g == e \o q
           n == Len(d)
           k == Len(q)
<1>0. e \in Seq(S)
  OBVIOUS
<1>1. /\ e \in Seq(S) /\ Len(e) = n - 1 /\ n \in Nat /\ n >= 1 /\ k \in Nat /\ Head(d) = d[1]
      /\ \A i \in 1 .. (n - 1) : e[i] = d[i + 1]
  OBVIOUS
<1>2. /\ DOMAIN f = 1 .. (n + k) /\ Len(f) = n + k
      /\ \A i \in 1 .. n : f[i] = d[i]
      /\ \A i \in (n + 1) .. (n + k) : f[i] = q[i - n]
  BY FlowAt
<1> HIDE DEF e
<1>3. /\ DOMAIN g = 1 .. (Len(e) + k)
      /\ \A i \in 1 .. Len(e) : g[i] = e[i]
      /\ \A i \in (Len(e) + 1) .. (Len(e) + k) : g[i] = q[i - Len(e)]
  BY <1>0
<1> HIDE DEF f, g, n, k
<1>4. \A i \in DOMAIN g : g[i] = f[i + 1]
  <2> SUFFICES ASSUME NEW i \in DOMAIN g PROVE g[i] = f[i + 1]
    OBVIOUS
  <2>1. CASE i <= n - 1
    BY <1>1, <1>2, <1>3, <2>1
  <2>2. CASE i > n - 1
    BY <1>1, <1>2, <1>3, <2>2
  <2> QED BY <1>1, <1>3, <2>1, <2>2
<1> QED BY <1>1, <1>2, <1>3, <1>4 DEF e, f, g

\* ...once one more is queued...
LEMMA FlowQueued ==
    ASSUME NEW S, NEW R, NEW d \in Seq(S), NEW q \in Seq(R), NEW x \in R
    PROVE  LET f == d \o q
               g == d \o Append(q, x)
           IN /\ Len(f) \in Nat /\ DOMAIN f = 1 .. Len(f) /\ DOMAIN g = 1 .. (Len(f) + 1)
              /\ g[Len(f) + 1] = x /\ \A i \in DOMAIN f : g[i] = f[i]
<1> DEFINE r == Append(q, x)
           f == d \o q
           g == d \o r
           n == Len(d)
           k == Len(q)
<1>1. /\ r \in Seq(R) /\ Len(r) = k + 1 /\ n \in Nat /\ k \in Nat
      /\ r[k + 1] = x /\ \A i \in 1 .. k : r[i] = q[i]
  OBVIOUS
<1>2. /\ DOMAIN f = 1 .. (n + k) /\ Len(f) = n + k
      /\ \A i \in 1 .. n : f[i] = d[i]
      /\ \A i \in (n + 1) .. (n + k) : f[i] = q[i - n]
  BY FlowAt
<1> HIDE DEF r
<1>3. /\ DOMAIN g = 1 .. (n + Len(r))
      /\ \A i \in 1 .. n : g[i] = d[i]
      /\ \A i \in (n + 1) .. (n + Len(r)) : g[i] = r[i - n]
  BY <1>1
<1> HIDE DEF f, g, n, k
<1>4. \A i \in DOMAIN f : g[i] = f[i]
  <2> SUFFICES ASSUME NEW i \in DOMAIN f PROVE g[i] = f[i]
    OBVIOUS
  <2>1. CASE i <= n
    BY <1>1, <1>2, <1>3, <2>1
  <2>2. CASE i > n
    BY <1>1, <1>2, <1>3, <2>2
  <2> QED BY <1>1, <1>2, <2>1, <2>2
<1>5. g[n + k + 1] = x
  BY <1>1, <1>3
<1> QED BY <1>1, <1>2, <1>3, <1>4, <1>5 DEF r, f, g

\* In place of x at c, the list has y; or it has y there, before what was there.
Replaced(f, g, c, x, y) ==
  /\ DOMAIN g = DOMAIN f /\ c \in DOMAIN f /\ f[c] = x
  /\ \A i \in DOMAIN f : g[i] = IF i = c THEN y ELSE f[i]
Inserted(f, g, c, y) ==
  /\ Len(f) \in Nat /\ DOMAIN f = 1 .. Len(f) /\ DOMAIN g = 1 .. (Len(f) + 1)
  /\ c \in DOMAIN g /\ g[c] = y
  /\ \A i \in DOMAIN g : (i < c => g[i] = f[i]) /\ (i > c => g[i] = f[i - 1])

\* ...once the first of the queue was written, as it is or as another packet...
LEMMA FlowWritten ==
    ASSUME NEW S, NEW R, NEW d \in Seq(S), NEW q \in Seq(R), NEW y \in S, q # << >>
    PROVE  Replaced(d \o q, Append(d, y) \o Tail(q), Len(d) + 1, Head(q), y)
<1> DEFINE e == Append(d, y)
           r == Tail(q)
           f == d \o q
           g == e \o r
           n == Len(d)
           k == Len(q)
<1>0. e \in Seq(S) /\ r \in Seq(R)
  OBVIOUS
<1>1. /\ r \in Seq(R) /\ Len(r) = k - 1 /\ n \in Nat /\ k \in Nat /\ k >= 1 /\ Head(q) = q[1]
      /\ \A i \in 1 .. (k - 1) : r[i] = q[i + 1]
      /\ e \in Seq(S) /\ Len(e) = n + 1 /\ e[n + 1] = y /\ \A i \in 1 .. n : e[i] = d[i]
  OBVIOUS
<1>2. /\ DOMAIN f = 1 .. (n + k) /\ Len(f) = n + k
      /\ \A i \in 1 .. n : f[i] = d[i]
      /\ \A i \in (n + 1) .. (n + k) : f[i] = q[i - n]
  BY FlowAt
<1> HIDE DEF r, e
<1>3. /\ DOMAIN g = 1 .. (Len(e) + Len(r))
      /\ \A i \in 1 .. Len(e) : g[i] = e[i]
      /\ \A i \in (Len(e) + 1) .. (Len(e) + Len(r)) : g[i] = r[i - Len(e)]
  BY <1>0
<1> HIDE DEF f, g, n, k
<1>4. \A i \in DOMAIN f : g[i] = IF i = n + 1 THEN y ELSE f[i]
  <2> SUFFICES ASSUME NEW i \in DOMAIN f PROVE g[i] = IF i = n + 1 THEN y ELSE f[i]
    OBVIOUS
  <2>1. CASE i <= n
    BY <1>1, <1>2, <1>3, <2>1
  <2>2. CASE i = n + 1
    BY <1>1, <1>2, <1>3, <2>2
  <2>3. CASE i > n + 1
    <3>1. /\ i \in (Len(e) + 1) .. (Len(e) + Len(r)) /\ i \in (n + 1) .. (n + k)
          /\ i - Len(e) \in 1 .. (k - 1) /\ (i - Len(e)) + 1 = i - n
      BY <1>1, <1>2, <2>3
    <3> QED BY <1>1, <1>2, <1>3, <2>3, <3>1
  <2> QED BY <1>1, <1>2, <2>1, <2>2, <2>3
<1>5. DOMAIN g = DOMAIN f /\ n + 1 \in DOMAIN f /\ f[n + 1] = Head(q)
  BY <1>1, <1>2, <1>3
<1>6. Replaced(f, g, n + 1, Head(q), y)
  BY <1>4, <1>5 DEF Replaced
<1> QED BY <1>6 DEF r, e, f, g, n

\* ...once it was dropped...
LEMMA FlowDropped ==
    ASSUME NEW S, NEW R, NEW d \in Seq(S), NEW q \in Seq(R), q # << >>
    PROVE  LET f == d \o q
               g == d \o Tail(q)
           IN /\ Len(f) \in Nat /\ DOMAIN f = 1 .. Len(f) /\ DOMAIN g = 1 .. (Len(f) - 1)
              /\ Len(d) + 1 \in DOMAIN f
              /\ \A i \in DOMAIN g : g[i] = IF i < Len(d) + 1 THEN f[i] ELSE f[i + 1]
<1> DEFINE r == Tail(q)
           f == d \o q
           g == d \o r
           n == Len(d)
           k == Len(q)
<1>1. /\ r \in Seq(R) /\ Len(r) = k - 1 /\ n \in Nat /\ k \in Nat /\ k >= 1
      /\ \A i \in 1 .. (k - 1) : r[i] = q[i + 1]
  OBVIOUS
<1>2. /\ DOMAIN f = 1 .. (n + k) /\ Len(f) = n + k
      /\ \A i \in 1 .. n : f[i] = d[i]
      /\ \A i \in (n + 1) .. (n + k) : f[i] = q[i - n]
  BY FlowAt
<1> HIDE DEF r
<1>3. /\ DOMAIN g = 1 .. (n + Len(r))
      /\ \A i \in 1 .. n : g[i] = d[i]
      /\ \A i \in (n + 1) .. (n + Len(r)) : g[i] = r[i - n]
  BY <1>1
<1> HIDE DEF f, g, n, k
<1>4. \A i \in DOMAIN g : g[i] = IF i < n + 1 THEN f[i] ELSE f[i + 1]
  <2> SUFFICES ASSUME NEW i \in DOMAIN g PROVE g[i] = IF i < n + 1 THEN f[i] ELSE f[i + 1]
    OBVIOUS
  <2>1. CASE i <= n
    BY <1>1, <1>2, <1>3, <2>1
  <2>2. CASE i > n
    <3>1. /\ i \in (n + 1) .. (n + Len(r)) /\ i + 1 \in (n + 1) .. (n + k)
          /\ i - n \in 1 .. (k - 1) /\ (i - n) + 1 = (i + 1) - n /\ ~(i < n + 1)
      BY <1>1, <1>3, <2>2
    <3> QED BY <1>1, <1>2, <1>3, <3>1
  <2> QED BY <1>1, <1>3, <2>1, <2>2
<1>5. /\ Len(f) \in Nat /\ DOMAIN f = 1 .. Len(f) /\ DOMAIN g = 1 .. (Len(f) - 1)
      /\ n + 1 \in DOMAIN f
  BY <1>1, <1>2, <1>3
<1> QED BY <1>4, <1>5 DEF r, f, g, n

\* ...or once a packet was written that did not wait for its turn.
LEMMA FlowPassed ==
    ASSUME NEW S, NEW R, NEW d \in Seq(S), NEW q \in Seq(R), NEW y \in S
    PROVE  Inserted(d \o q, Append(d, y) \o q, Len(d) + 1, y)
<1> DEFINE e == Append(d, y)
           f == d \o q
           g == e \o q
           n == Len(d)
           k == Len(q)
<1>1. /\ n \in Nat /\ k \in Nat
      /\ e \in Seq(S) /\ Len(e) = n + 1 /\ e[n + 1] = y /\ \A i \in 1 .. n : e[i] = d[i]
  OBVIOUS
<1>2. /\ DOMAIN f = 1 .. (n + k) /\ Len(f) = n + k
      /\ \A i \in 1 .. n : f[i] = d[i]
      /\ \A i \in (n + 1) .. (n + k) : f[i] = q[i - n]
  BY FlowAt
<1> HIDE DEF e
<1>3. /\ DOMAIN g = 1 .. (Len(e) + k)
      /\ \A i \in 1 .. Len(e) : g[i] = e[i]
      /\ \A i \in (Len(e) + 1) .. (Len(e) + k) : g[i] = q[i - Len(e)]
  BY <1>1
<1> HIDE DEF f, g, n, k
<1>4. \A i \in DOMAIN g : i < n + 1 => g[i] = f[i]
  BY <1>1, <1>2, <1>3
<1>5. \A i \in DOMAIN g : i > n + 1 => g[i] = f[i - 1]
  <2> SUFFICES ASSUME NEW i \in DOMAIN g, i > n + 1 PROVE g[i] = f[i - 1]
    OBVIOUS
  <2>1. /\ i \in (Len(e) + 1) .. (Len(e) + k) /\ i - 1 \in (n + 1) .. (n + k)
        /\ i - Len(e) = (i - 1) - n
    BY <1>1, <1>3
  <2> QED BY <1>2, <1>3, <2>1
<1>6. Len(f) \in Nat /\ DOMAIN f = 1 .. Len(f) /\ DOMAIN g = 1 .. (Len(f) + 1)
  BY <1>1, <1>2, <1>3
<1>7. n + 1 \in DOMAIN g /\ g[n + 1] = y
  BY <1>1, <1>3
<1>8. Inserted(f, g, n + 1, y)
  BY <1>4, <1>5, <1>6, <1>7 DEF Inserted
<1> QED BY <1>8 DEF e, f, g, n

\* Each is one that was written, or one that waits.
LEMMA FlowIn ==
    ASSUME NEW S, NEW R, NEW d \in Seq(S), NEW q \in Seq(R)
    PROVE  \A i \in DOMAIN (d \o q) : (d \o q)[i] \in S \cup R
OBVIOUS

\* Where every tree was one before, in the same order, nothing changes of them.
LEMMA TreesKept ==
    ASSUME TreeInv, peer'.tree = peer.tree, life' = life, NEW m,
           \A i \in Trees' : m[i] \in Trees /\ Flow'[i] = Flow[m[i]],
           \A i, j \in Trees' : i < j => m[i] < m[j]
    PROVE  TreeInv' /\ Dead \subseteq Dead'
<1>1. Dead \subseteq Dead'
  BY DEF Dead
<1>2. ASSUME NEW j \in Trees', NEW p \in Panes \ Flow'[j][2],
             p \in peer.tree \/ (\E i \in Trees' : i < j /\ p \in Flow'[i][2])
      PROVE  life[p] = "gone" /\ \A k \in Trees' : j < k => p \notin Flow'[k][2]
  <2>1. m[j] \in Trees /\ p \notin Flow[m[j]][2]
    BY <1>2
  <2>2. p \in peer.tree \/ (\E i \in Trees : i < m[j] /\ p \in Flow[i][2])
    BY <1>2
  <2>3. life[p] = "gone" /\ \A k \in Trees : m[j] < k => p \notin Flow[k][2]
    BY <2>1, <2>2 DEF TreeInv
  <2> QED BY <2>3
<1>3. \A p \in peer'.tree : life'[p] # "unborn"
  BY DEF TreeInv
<1>4. \A i \in Trees' : \A p \in Flow'[i][2] : life'[p] # "unborn"
  BY DEF TreeInv
<1> QED BY <1>1, <1>2, <1>3, <1>4 DEF TreeInv

\* Every tree is where it was, and one that is put elsewhere is no tree.
LEMMA TreesStand ==
    ASSUME TreeInv, peer'.tree = peer.tree, life' = life, NEW n \in Nat, DOMAIN Flow \subseteq 1 .. n,
           DOMAIN Flow' \subseteq 1 .. (n + 1),
           \A i \in DOMAIN Flow' : (i \in DOMAIN Flow /\ Flow'[i] = Flow[i]) \/ Flow'[i][1] # "tree"
    PROVE  TreeInv' /\ Dead \subseteq Dead'
<1> DEFINE m == [i \in Trees' |-> i]
<1>1. \A i \in Trees' : m[i] \in Trees /\ Flow'[i] = Flow[m[i]]
  BY DEF Trees
<1>2. \A i, j \in Trees' : i < j => m[i] < m[j]
  OBVIOUS
<1> HIDE DEF m
<1> QED BY <1>1, <1>2, TreesKept

\* A packet was taken away.
LEMMA TreesLess ==
    ASSUME TreeInv, peer'.tree = peer.tree, life' = life, NEW n \in Nat, NEW c \in 1 .. n,
           DOMAIN Flow = 1 .. n, DOMAIN Flow' = 1 .. (n - 1),
           \A i \in DOMAIN Flow' : Flow'[i] = IF i < c THEN Flow[i] ELSE Flow[i + 1]
    PROVE  TreeInv' /\ Dead \subseteq Dead'
<1> DEFINE m == [i \in Trees' |-> IF i < c THEN i ELSE i + 1]
<1>1. \A i \in Trees' : i \in 1 .. (n - 1)
  BY DEF Trees
<1>2. ASSUME NEW i \in Trees' PROVE m[i] \in Trees /\ Flow'[i] = Flow[m[i]]
  <2>1. i \in 1 .. (n - 1) /\ Flow'[i][1] = "tree"
    BY DEF Trees
  <2>2. m[i] = IF i < c THEN i ELSE i + 1
    OBVIOUS
  <2> HIDE DEF m
  <2>3. m[i] \in 1 .. n /\ Flow'[i] = Flow[m[i]]
    BY <2>1, <2>2
  <2> QED BY <2>1, <2>3 DEF Trees
<1>3. \A i, j \in Trees' : i < j => m[i] < m[j]
  BY <1>1
<1> HIDE DEF m
<1> QED BY <1>2, <1>3, TreesKept

\* A packet that is no tree was put in.
LEMMA TreesMore ==
    ASSUME TreeInv, peer'.tree = peer.tree, life' = life, NEW n \in Nat, NEW c \in 1 .. (n + 1),
           DOMAIN Flow = 1 .. n, DOMAIN Flow' = 1 .. (n + 1), Flow'[c][1] # "tree",
           \A i \in DOMAIN Flow' : i < c => Flow'[i] = Flow[i],
           \A i \in DOMAIN Flow' : i > c => Flow'[i] = Flow[i - 1]
    PROVE  TreeInv' /\ Dead \subseteq Dead'
<1> DEFINE m == [i \in Trees' |-> IF i < c THEN i ELSE i - 1]
<1>1. ASSUME NEW i \in Trees' PROVE i \in 1 .. (n + 1) /\ i # c /\ Flow'[i][1] = "tree"
  BY DEF Trees
<1>2. ASSUME NEW i \in Trees' PROVE m[i] \in Trees /\ Flow'[i] = Flow[m[i]]
  <2>1. m[i] = IF i < c THEN i ELSE i - 1
    OBVIOUS
  <2> HIDE DEF m
  <2>2. m[i] \in 1 .. n /\ Flow'[i] = Flow[m[i]]
    BY <1>1, <2>1
  <2> QED BY <1>1, <2>2 DEF Trees
<1>3. \A i, j \in Trees' : i < j => m[i] < m[j]
  BY <1>1
<1> HIDE DEF m
<1> QED BY <1>2, <1>3, TreesKept

\* The peer takes a tree: what it lacks is gone.
LEMMA TreesTaken ==
    ASSUME TreeInv, life' = life, NEW n \in Nat, DOMAIN Flow = 1 .. n, DOMAIN Flow' = 1 .. (n - 1),
           \A i \in DOMAIN Flow' : Flow'[i] = Flow[i + 1],
           1 \in Trees, Flow[1][2] \in SUBSET Panes
    PROVE  /\ peer'.tree = Flow[1][2] => TreeInv' /\ Dead \subseteq Dead'
           /\ \A p \in peer.tree \ Flow[1][2] : p \in Panes =>
                 life[p] = "gone" /\ \A i \in Trees' : p \notin Flow'[i][2]
<1>1. \A i \in Trees' : i + 1 \in Trees /\ Flow'[i] = Flow[i + 1] /\ i \in Nat /\ i >= 1
  BY DEF Trees
<1>2. ASSUME peer'.tree = Flow[1][2] PROVE TreeInv' /\ Dead \subseteq Dead'
  <2>1. \A p \in peer'.tree : life'[p] # "unborn"
    BY <1>2 DEF TreeInv
  <2>2. \A i \in Trees' : \A p \in Flow'[i][2] : life'[p] # "unborn"
    BY <1>1 DEF TreeInv
  <2>3. ASSUME NEW j \in Trees', NEW p \in Panes \ Flow'[j][2],
               p \in peer'.tree \/ (\E i \in Trees' : i < j /\ p \in Flow'[i][2])
        PROVE  life'[p] = "gone" /\ \A k \in Trees' : j < k => p \notin Flow'[k][2]
    <3>1. j + 1 \in Trees /\ p \notin Flow[j + 1][2]
      BY <1>1, <2>3
    <3>2. \E i \in Trees : i < j + 1 /\ p \in Flow[i][2]
      <4>1. CASE p \in peer'.tree
        BY <1>1, <1>2, <4>1
      <4>2. CASE \E i \in Trees' : i < j /\ p \in Flow'[i][2]
        <5>1. PICK i \in Trees' : i < j /\ p \in Flow'[i][2]
          BY <4>2
        <5>2. i + 1 \in Trees /\ i + 1 < j + 1 /\ p \in Flow[i + 1][2]
          BY <1>1, <5>1
        <5> QED BY <5>2
      <4> QED BY <2>3, <4>1, <4>2
    <3>3. life[p] = "gone" /\ \A k \in Trees : j + 1 < k => p \notin Flow[k][2]
      BY <3>1, <3>2 DEF TreeInv
    <3> QED BY <1>1, <3>3
  <2>4. Dead \subseteq Dead'
    BY <1>1, <1>2 DEF Dead
  <2> QED BY <2>1, <2>2, <2>3, <2>4 DEF TreeInv
<1>3. ASSUME NEW p \in peer.tree \ Flow[1][2], p \in Panes
      PROVE  life[p] = "gone" /\ \A i \in Trees' : p \notin Flow'[i][2]
  <2>1. life[p] = "gone" /\ \A k \in Trees : 1 < k => p \notin Flow[k][2]
    BY <1>3 DEF TreeInv
  <2> QED BY <1>1, <2>1
<1> QED BY <1>2, <1>3

\* The owner looks which panes there are.
LEMMA TreesQueued ==
    ASSUME TreeInv, peer'.tree = peer.tree, life' = life, NEW n \in Nat,
           life \in [Panes -> {"unborn", "alive", "gone"}],
           DOMAIN Flow = 1 .. n, DOMAIN Flow' = 1 .. (n + 1),
           Flow'[n + 1] = <<"tree", Alive>>, \A i \in DOMAIN Flow : Flow'[i] = Flow[i]
    PROVE  TreeInv' /\ Dead \subseteq Dead'
<1>1. \A i \in Trees' : i \in Nat /\ (i = n + 1 \/ (i \in Trees /\ Flow'[i] = Flow[i] /\ i < n + 1))
  BY DEF Trees
<1>2. \A p \in Alive : life[p] = "alive"
  BY DEF Alive
<1>3. \A p \in peer'.tree : life'[p] # "unborn"
  BY DEF TreeInv
<1>4. \A i \in Trees' : \A p \in Flow'[i][2] : life'[p] # "unborn"
  BY <1>1, <1>2 DEF TreeInv
<1>5. ASSUME NEW j \in Trees', NEW p \in Panes \ Flow'[j][2],
             p \in peer'.tree \/ (\E i \in Trees' : i < j /\ p \in Flow'[i][2])
      PROVE  life'[p] = "gone" /\ \A k \in Trees' : j < k => p \notin Flow'[k][2]
  <2>1. p \in peer.tree \/ (\E i \in Trees : i < j /\ p \in Flow[i][2])
    <3>1. \A i \in Trees' : i < j => i \in Trees /\ Flow'[i] = Flow[i]
      BY <1>1
    <3> QED BY <1>5, <3>1
  <2>2. CASE j = n + 1
    <3>1. life[p] # "unborn" /\ life[p] # "alive"
      BY <1>5, <2>1, <2>2 DEF TreeInv, Alive
    <3>2. \A k \in Trees' : ~(j < k)
      BY <1>1, <2>2
    <3> QED BY <3>1, <3>2
  <2>3. CASE j \in Trees /\ Flow'[j] = Flow[j]
    <3>1. life[p] = "gone" /\ \A k \in Trees : j < k => p \notin Flow[k][2]
      BY <1>5, <2>1, <2>3 DEF TreeInv
    <3> QED BY <1>1, <1>2, <3>1
  <2> QED BY <1>1, <2>2, <2>3
<1>6. Dead \subseteq Dead'
  BY <1>1, <1>2 DEF Dead
<1> QED BY <1>3, <1>4, <1>5, <1>6 DEF TreeInv

\* A pane is opened, or ends.
LEMMA TreesLive ==
    ASSUME TreeInv, peer'.tree = peer.tree, Flow' = Flow, NEW p \in Panes,
           life[p] # "gone", life'[p] # "unborn", life[p] # life'[p],
           \A q \in Panes \ {p} : life'[q] = life[q],
           peer.tree \subseteq Panes, \A i \in Trees : Flow[i][2] \subseteq Panes,
           life[p] = "unborn" => life'[p] = "alive", life[p] = "alive" => life'[p] = "gone"
    PROVE  TreeInv' /\ Dead \subseteq Dead'
<1>1. Trees' = Trees
  BY DEF Trees
<1>2. \A q \in Panes : /\ life[q] = "gone" => life'[q] = "gone"
                       /\ life[q] # "unborn" => life'[q] # "unborn"
  OBVIOUS
<1>3. TreeInv'
  BY <1>1, <1>2 DEF TreeInv
<1>4. Dead \subseteq Dead'
  BY <1>1, <1>2 DEF Dead
<1> QED BY <1>3, <1>4

\* The first packet was taken.
LEMMA TookDoes ==
    ASSUME LinkType, down # << >>, down' = Tail(down), owner' = owner
    PROVE  LET n == Len(Flow)
           IN /\ n \in Nat /\ DOMAIN Flow = 1 .. n /\ DOMAIN Flow' = 1 .. (n - 1)
              /\ 1 \in 1 .. n /\ Flow[1] = Head(down)
              /\ \A i \in DOMAIN Flow' : Flow'[i] = Flow[i + 1]
<1> DEFINE q == owner.queue
           S == Downs
           R == Frames \cup TreesSent
           f == down \o q
           g == Tail(down) \o q
<1>1. down \in Seq(S) /\ q \in Seq(R)
  BY DEF LinkType, OwnerType
<1>2. Flow = f /\ Flow' = g
  BY DEF Flow
<1> HIDE DEF S, R, q
<1>3. /\ Len(f) \in Nat /\ DOMAIN f = 1 .. Len(f) /\ DOMAIN g = 1 .. (Len(f) - 1)
      /\ 1 \in DOMAIN f /\ f[1] = Head(down)
      /\ \A i \in DOMAIN g : g[i] = f[i + 1]
  BY <1>1, FlowTaken
<1> HIDE DEF f, g
<1> QED BY <1>2, <1>3

\* A tree was taken, and clients look at what there is now.
LEMMA TakesTree ==
    ASSUME LinkInv, TreeInv, HandlerInv(Handling, Dead),
           NEW panes, NEW seen, TakeTree(panes, seen)
    PROVE  /\ TreeInv' /\ Dead \subseteq Dead'
           /\ HandlerInv([peer |-> peer', up |-> up'], Dead')
           /\ peer.asked \ Dead' \subseteq peer'.asked
<1> DEFINE tree == Head(down)[2]
           n == Len(Flow)
           gone == {p \in Panes : /\ life[p] = "gone" /\ p \notin tree
                                  /\ \A i \in Trees' : p \notin Flow'[i][2]}
           updated == Update(Handling, tree)
           focused == FocusOn(updated, panes)
           r == Sight(focused, seen)
<1>1. /\ down # << >> /\ Head(down)[1] = "tree" /\ down' = Tail(down) /\ owner' = owner /\ life' = life
      /\ panes \subseteq updated.peer.tree /\ peer' = r.peer /\ up' = r.up
  BY DEF TakeTree, Done, world
<1>2. down \in Seq(Downs) /\ LinkType /\ Handling.peer = peer
  BY DEF LinkInv, LinkType, Handling
<1>3. /\ n \in Nat /\ DOMAIN Flow = 1 .. n /\ DOMAIN Flow' = 1 .. (n - 1)
      /\ 1 \in 1 .. n /\ Flow[1] = Head(down)
      /\ \A i \in DOMAIN Flow' : Flow'[i] = Flow[i + 1]
  BY <1>1, <1>2, TookDoes
<1>4. tree \in SUBSET Panes
  <2>1. Head(down) \in Downs
    BY <1>1, <1>2
  <2> QED BY <1>1, <2>1, PacketForms
<1>5. 1 \in Trees
  BY <1>1, <1>3 DEF Trees
<1>6. /\ peer'.tree = tree => TreeInv' /\ Dead \subseteq Dead'
      /\ \A p \in peer.tree \ tree : p \in Panes =>
            life[p] = "gone" /\ \A i \in Trees' : p \notin Flow'[i][2]
  <2> HIDE DEF n
  <2> QED BY <1>1, <1>3, <1>4, <1>5, TreesTaken
<1>7. Dead \subseteq gone
  <2>1. \A i \in Trees' : i + 1 \in Trees /\ Flow'[i] = Flow[i + 1]
    <3> HIDE DEF n
    <3> QED BY <1>3 DEF Trees
  <2> QED BY <1>3, <1>5, <2>1 DEF Dead
<1>8. peer.tree \ tree \subseteq gone /\ tree \cap gone = {}
  <2>1. peer.tree \subseteq Panes
    BY <1>2 DEF HandlerInv, Handlers, PeerType
  <2> QED BY <1>6, <2>1
<1> HIDE DEF gone, tree
<1>9. HandlerInv(Handling, gone)
  BY <1>7, MoreGone
<1>10. HandlerInv(updated, gone) /\ updated.peer.tree = tree /\ peer.asked \ gone \subseteq updated.peer.asked
  BY <1>2, <1>4, <1>8, <1>9, UpdateKeeps
<1> HIDE DEF updated
<1>11. /\ HandlerInv(focused, gone) /\ focused.peer.tree = tree
       /\ updated.peer.asked \ gone \subseteq focused.peer.asked
  BY <1>1, <1>8, <1>10, FocusOnKeeps
<1> HIDE DEF focused
<1>12. /\ HandlerInv(r, gone) /\ r.peer.tree = tree
       /\ focused.peer.asked \ gone \subseteq r.peer.asked
  BY <1>8, <1>11, SightKeeps
<1> HIDE DEF r
<1>13. peer'.tree = tree /\ gone = Dead'
  BY <1>1, <1>12 DEF gone, Dead
<1>14. [peer |-> peer', up |-> up'] = r
  BY <1>1, <1>12 DEF HandlerInv, Handlers
<1>15. peer.asked \ gone \subseteq peer'.asked
  BY <1>1, <1>10, <1>11, <1>12
<1> QED BY <1>6, <1>12, <1>13, <1>14, <1>15

\* The panes that are gone stay so, and none comes back to a tree that it left.
LEMMA TreeStep ==
    ASSUME LinkInv, TreeInv, HandlerInv(Handling, Dead), LinkType', MirrorNext
    PROVE  TreeInv' /\ Dead \subseteq Dead'
<1> DEFINE q == owner.queue
           n == Len(Flow)
           S == Downs
           R == Frames \cup TreesSent
<1>1. /\ down \in Seq(S) /\ q \in Seq(R)
      /\ life \in [Panes -> {"unborn", "alive", "gone"}]
      /\ peer \in PeerType /\ up \in Seq(Sent) /\ Handling.peer = peer /\ Handling.up = up
  BY DEF LinkInv, LinkType, OwnerType, HandlerInv, Handlers, Handling
<1>2. n \in Nat /\ DOMAIN Flow = 1 .. n
  BY <1>1, FlowQueued DEF Flow
<1>3. peer.tree \cap Dead = {} /\ peer.tree \in SUBSET Panes
  BY <1>1 DEF Dead, PeerType
<1>0. Flow = down \o q
  BY DEF Flow
<1>4. \A p : <<"frame", p>>[1] # "tree"
  OBVIOUS
\* The flow is as it was.
<1>5. CASE peer'.tree = peer.tree /\ UNCHANGED <<down, owner, life>>
  BY <1>2, <1>5, TreesStand DEF Flow
\* Nothing, or nothing but an answer, is on its way.
<1>6. CASE peer'.tree = peer.tree /\ life' = life /\ Trees' = {}
  BY <1>6 DEF TreeInv, Dead
<1>7. ASSUME peer'.tree = peer.tree, life' = life, down' = down, NEW p \in Panes,
             owner'.queue \in {q, Append(q, <<"frame", p>>)}
      PROVE  TreeInv' /\ Dead \subseteq Dead'
  <2>1. CASE owner'.queue = q
    BY <1>2, <1>7, <2>1, TreesStand DEF Flow
  <2>2. CASE owner'.queue = Append(q, <<"frame", p>>)
    <3>1. <<"frame", p>> \in R
      BY DEF Frames
    <3>2. Flow' = down \o Append(q, <<"frame", p>>)
      BY <1>7, <2>2 DEF Flow
    <3>3. DOMAIN Flow' = 1 .. (n + 1) /\ Flow'[n + 1] = <<"frame", p>> /\ \A i \in DOMAIN Flow : Flow'[i] = Flow[i]
      <4> DEFINE f == down \o q
                 g == down \o Append(q, <<"frame", p>>)
      <4> HIDE DEF S, R, q
      <4>1. /\ DOMAIN g = 1 .. (Len(f) + 1) /\ g[Len(f) + 1] = <<"frame", p>>
            /\ \A i \in DOMAIN f : g[i] = f[i]
        BY <1>1, <3>1, FlowQueued
      <4> HIDE DEF f, g
      <4> QED BY <1>0, <3>2, <4>1 DEF f, g
    <3> HIDE DEF n
    <3> QED BY <1>2, <1>4, <1>7, <3>3, TreesStand
  <2> QED BY <1>7, <2>1, <2>2
<1>9. ASSUME peer'.tree = peer.tree, down # << >>, down' = Tail(down), UNCHANGED <<owner, life>>
      PROVE  TreeInv' /\ Dead \subseteq Dead'
  <2>1. /\ n \in Nat /\ DOMAIN Flow = 1 .. n /\ DOMAIN Flow' = 1 .. (n - 1) /\ 1 \in 1 .. n
        /\ \A i \in DOMAIN Flow' : Flow'[i] = IF i < 1 THEN Flow[i] ELSE Flow[i + 1]
    <3>1. /\ n \in Nat /\ DOMAIN Flow = 1 .. n /\ DOMAIN Flow' = 1 .. (n - 1) /\ 1 \in 1 .. n
          /\ \A i \in DOMAIN Flow' : Flow'[i] = Flow[i + 1]
      BY <1>9, TookDoes DEF LinkInv
    <3> HIDE DEF n
    <3> QED BY <3>1
  <2> HIDE DEF n
  <2> QED BY <1>9, <2>1, TreesLess
<1>10. ASSUME peer'.tree = peer.tree, life' = life, q # << >>, owner'.queue = Tail(q), NEW y \in S,
              down' = Append(down, y), y = Head(q) \/ y[1] # "tree"
       PROVE  TreeInv' /\ Dead \subseteq Dead'
  <2>1. Flow' = Append(down, y) \o Tail(q)
    BY <1>10 DEF Flow
  <2>2. /\ DOMAIN Flow' = DOMAIN Flow
        /\ Flow[Len(down) + 1] = Head(q)
        /\ \A i \in DOMAIN Flow : Flow'[i] = IF i = Len(down) + 1 THEN y ELSE Flow[i]
    <3> HIDE DEF S, R, q
    <3>1. Replaced(down \o q, Append(down, y) \o Tail(q), Len(down) + 1, Head(q), y)
      BY <1>1, <1>10, FlowWritten
    <3>2. Replaced(Flow, Flow', Len(down) + 1, Head(q), y)
      BY <1>0, <2>1, <3>1
    <3> QED BY <3>2 DEF Replaced
  <2>3. \A i \in DOMAIN Flow' : (i \in DOMAIN Flow /\ Flow'[i] = Flow[i]) \/ Flow'[i][1] # "tree"
    BY <1>10, <2>2
  <2>4. DOMAIN Flow \subseteq 1 .. n /\ DOMAIN Flow' \subseteq 1 .. (n + 1) /\ n \in Nat
    <3> HIDE DEF n
    <3> QED BY <1>2, <2>2
  <2> HIDE DEF n, q
  <2> QED BY <1>10, <2>3, <2>4, TreesStand
<1>11. ASSUME peer'.tree = peer.tree, life' = life, q # << >>, owner'.queue = Tail(q), down' = down
       PROVE  TreeInv' /\ Dead \subseteq Dead'
  <2>1. Flow' = down \o Tail(q)
    BY <1>11 DEF Flow
  <2>2. /\ DOMAIN Flow' = 1 .. (n - 1) /\ Len(down) + 1 \in DOMAIN Flow
        /\ \A i \in DOMAIN Flow' : Flow'[i] = IF i < Len(down) + 1 THEN Flow[i] ELSE Flow[i + 1]
    <3> DEFINE f == down \o q
               g == down \o Tail(q)
    <3> HIDE DEF S, R, q
    <3>1. /\ Len(f) \in Nat /\ DOMAIN f = 1 .. Len(f) /\ DOMAIN g = 1 .. (Len(f) - 1)
          /\ Len(down) + 1 \in DOMAIN f
          /\ \A i \in DOMAIN g : g[i] = IF i < Len(down) + 1 THEN f[i] ELSE f[i + 1]
      <4> DEFINE d == down
      <4>1. d \in Seq(S) /\ q \in Seq(R) /\ q # << >>
        BY <1>1, <1>11
      <4> HIDE DEF d
      <4>2. /\ Len(d \o q) \in Nat /\ DOMAIN (d \o q) = 1 .. Len(d \o q)
            /\ DOMAIN (d \o Tail(q)) = 1 .. (Len(d \o q) - 1)
            /\ Len(d) + 1 \in DOMAIN (d \o q)
            /\ \A i \in DOMAIN (d \o Tail(q)) :
                  (d \o Tail(q))[i] = IF i < Len(d) + 1 THEN (d \o q)[i] ELSE (d \o q)[i + 1]
        BY <4>1, FlowDropped
      <4> QED BY <4>2 DEF d
    <3> HIDE DEF f, g
    <3>2. Flow = f /\ Flow' = g
      BY <1>0, <2>1 DEF f, g
    <3> QED BY <3>1, <3>2
  <2> HIDE DEF n, q
  <2> QED BY <1>2, <1>11, <2>2, TreesLess
<1>12. CASE \E panes \in SUBSET peer.tree : SyncSight(panes) \/ SyncFocus(panes)
  <2>1. PICK panes \in SUBSET peer.tree : SyncSight(panes) \/ SyncFocus(panes)
    BY <1>12
  <2>2. Sight(Handling, panes).peer.tree = peer.tree /\ FocusOn(Handling, panes).peer.tree = peer.tree
    BY <1>1, <1>3, SightKeeps, FocusOnKeeps
  <2> QED BY <1>5, <2>1, <2>2 DEF SyncSight, SyncFocus, Done, world
<1>13. CASE Dial
  BY <1>5, <1>13 DEF Dial, world
<1>14. CASE LinkGoes
  <2>1. down' = << >> /\ owner'.queue = << >> /\ peer' = peer /\ life' = life
    BY <1>14 DEF LinkGoes, NoLink, world
  <2>2. Flow' = << >> \o << >>
    BY <2>1 DEF Flow
  <2>3. Trees' = {}
    BY <2>2 DEF Trees
  <2> QED BY <1>6, <2>1, <2>3
<1>15. CASE Takes
  <2>1. CASE TakeAccepted \/ TakeFrame \/ TakeRefusal
    <3>1. peer'.tree = peer.tree
      BY <1>1, <2>1 DEF TakeAccepted, TakeFrame, TakeRefusal, PeerType
    <3>2. down # << >> /\ down' = Tail(down) /\ UNCHANGED <<owner, life>>
      BY <2>1 DEF TakeAccepted, TakeFrame, TakeRefusal, world
    <3> QED BY <1>9, <3>1, <3>2
  <2>2. ASSUME NEW panes \in SUBSET Panes, NEW seen \in SUBSET Panes, TakeTree(panes, seen)
        PROVE  TreeInv' /\ Dead \subseteq Dead'
    BY <2>2, TakesTree
  <2> QED BY <1>15, <2>1, <2>2 DEF Takes
<1>16. CASE OwnerReads
  <2>1. peer'.tree = peer.tree /\ life' = life /\ up # << >>
    BY <1>16 DEF OwnerReads, OnPeer, OnWatch, OnMirror, OnPause, OnResume, OnStop, OnFocus, Reads, world
  <2>2. Head(up) \in Sent /\ Head(up) = up[1] /\ 1 \in DOMAIN up
    BY <1>1, <2>1
  <2>3. CASE OnPeer
    <3>1. owner = NoLink
      BY <1>1, <2>2, <2>3, WordForms DEF OnPeer, Reads, HandlerInv, Handlers, Hello, Silent
    <3>2. Flow' = << <<"accepted">> >> \o << >>
      BY <2>3, <3>1 DEF OnPeer, NoLink, Flow
    <3>3. Trees' = {}
      BY <3>2 DEF Trees
    <3> QED BY <1>6, <2>1, <3>3
  <2>4. CASE OnWatch \/ OnPause \/ OnStop \/ OnFocus
    <3>1. down' = down /\ owner'.queue = q
      BY <1>1, <2>4 DEF OnWatch, OnPause, OnStop, OnFocus, LinkInv, LinkType, OwnerType
    <3>2. Flow' = Flow
      BY <3>1 DEF Flow
    <3> HIDE DEF n
    <3> QED BY <1>2, <2>1, <3>2, TreesStand
  <2>5. CASE OnMirror \/ OnResume
    <3>1. OfPane \in Panes
      BY <2>2, <2>5, WordForms DEF OnMirror, OnResume, Reads, OfPane
    <3>2. down' = down /\ owner'.queue \in {q, Append(q, <<"frame", OfPane>>)}
      BY <2>5 DEF OnMirror, OnResume, Queued, LinkInv, LinkType, OwnerType
    <3> QED BY <1>7, <2>1, <3>1, <3>2
  <2> QED BY <1>16, <2>3, <2>4, <2>5 DEF OwnerReads
<1>17. CASE WriteTree
  <2>1. /\ q # << >> /\ owner'.queue = Tail(q) /\ down' = Append(down, Head(q))
        /\ peer'.tree = peer.tree /\ life' = life /\ Head(q)[1] = "tree"
    BY <1>17 DEF WriteTree, world, LinkInv, LinkType, OwnerType
  <2>2. Head(q) \in S
    <3>1. Head(q) \in R
      BY <1>1, <2>1
    <3> QED BY <2>1, <3>1 DEF Frames, TreesSent, Downs
  <2> QED BY <1>10, <2>1, <2>2
<1>18. CASE WriteFrame
  <2> DEFINE p == Head(q)[2]
             y == <<"frame", p, sources[p].sent, version[p]>>
  <2>1. q # << >> /\ owner'.queue = Tail(q) /\ peer'.tree = peer.tree /\ life' = life
    BY <1>18 DEF WriteFrame, world, LinkInv, LinkType, OwnerType
  <2>2. down' = down \/ (down' = Append(down, y) /\ p \in Sources)
    BY <1>18 DEF WriteFrame
  <2>3. p \in Sources => y \in S /\ y[1] # "tree"
    BY DEF Downs, LinkInv, LinkType, SourceType
  <2> HIDE DEF y
  <2> QED BY <1>10, <1>11, <2>1, <2>2, <2>3
<1>19. CASE FrameFails
  <2>1. /\ q # << >> /\ owner'.queue = Tail(q) /\ peer'.tree = peer.tree /\ life' = life
        /\ down' = down
    BY <1>19 DEF FrameFails, world, wire, LinkInv, LinkType, OwnerType
  <2> QED BY <1>11, <2>1
<1>20. CASE QueueTree
  <2>1. /\ owner'.queue = Append(q, <<"tree", Alive>>) /\ peer'.tree = peer.tree /\ life' = life
        /\ down' = down
    BY <1>20 DEF QueueTree, world, wire, LinkInv, LinkType, OwnerType
  <2>2. <<"tree", Alive>> \in R
    BY DEF Alive, TreesSent
  <2>3. /\ DOMAIN Flow' = 1 .. (n + 1) /\ Flow'[n + 1] = <<"tree", Alive>>
        /\ \A i \in DOMAIN Flow : Flow'[i] = Flow[i]
    <3> DEFINE x == <<"tree", Alive>>
               f == down \o q
               g == down \o Append(q, x)
    <3>1. Flow = f /\ Flow' = g
      BY <2>1 DEF Flow
    <3> HIDE DEF S, R, q, x
    <3>2. /\ Len(f) \in Nat /\ DOMAIN f = 1 .. Len(f) /\ DOMAIN g = 1 .. (Len(f) + 1)
          /\ g[Len(f) + 1] = x /\ \A i \in DOMAIN f : g[i] = f[i]
      BY <1>1, <2>2, FlowQueued DEF x
    <3> HIDE DEF f, g
    <3> QED BY <3>1, <3>2 DEF x
  <2> HIDE DEF n
  <2> QED BY <1>1, <1>2, <2>1, <2>3, TreesQueued
<1>21. ASSUME NEW p \in Panes, Refuse(p) PROVE TreeInv' /\ Dead \subseteq Dead'
  <2> DEFINE y == <<"refused", p>>
             c == Len(down) + 1
  <2>1. /\ owner'.queue = q /\ down' = Append(down, y) /\ peer'.tree = peer.tree /\ life' = life
    BY <1>21 DEF Refuse, world, LinkInv, LinkType, OwnerType
  <2>2. y \in S /\ y[1] # "tree"
    BY DEF Downs
  <2>3. /\ DOMAIN Flow' = 1 .. (n + 1) /\ c \in DOMAIN Flow' /\ Flow'[c] = y
        /\ \A i \in DOMAIN Flow' : i < c => Flow'[i] = Flow[i]
        /\ \A i \in DOMAIN Flow' : i > c => Flow'[i] = Flow[i - 1]
    <3>1. Flow = down \o q /\ Flow' = Append(down, y) \o q
      BY <2>1 DEF Flow
    <3> HIDE DEF S, R, q, y
    <3>2. Inserted(down \o q, Append(down, y) \o q, Len(down) + 1, y)
      BY <1>1, <2>2, FlowPassed
    <3>3. Inserted(Flow, Flow', c, y)
      BY <3>1, <3>2
    <3> HIDE DEF c
    <3> QED BY <3>3 DEF Inserted
  <2> HIDE DEF n, c, y
  <2> QED BY <1>2, <2>1, <2>2, <2>3, TreesMore
<1>22. ASSUME NEW p \in Panes, Open(p) \/ Ends(p) PROVE TreeInv' /\ Dead \subseteq Dead'
  <2>1. /\ peer'.tree = peer.tree /\ Flow' = Flow
        /\ \A x \in Panes \ {p} : life'[x] = life[x]
        /\ \/ life[p] = "unborn" /\ life'[p] = "alive"
           \/ life[p] = "alive" /\ life'[p] = "gone"
    BY <1>1, <1>22 DEF Open, Ends, wire, Flow
  <2>2. \A i \in Trees : Flow[i][2] \subseteq Panes
    <3>1. \A i \in DOMAIN Flow : Flow[i] \in S \cup R
      <4> HIDE DEF S, R, q
      <4> QED BY <1>0, <1>1, FlowIn
    <3> QED BY <3>1 DEF Trees, Downs, Frames, TreesSent
  <2> QED BY <1>3, <2>1, <2>2, TreesLive
<1>23. ASSUME NEW p \in Panes, Prints(p) PROVE TreeInv' /\ Dead \subseteq Dead'
  <2>1. /\ peer'.tree = peer.tree /\ life' = life /\ down' = down
        /\ owner'.queue \in {q, Append(q, <<"frame", p>>)}
    BY <1>23 DEF Prints, Queued, wire, LinkInv, LinkType, OwnerType
  <2> QED BY <1>7, <2>1
<1> QED BY <1>12, <1>13, <1>14, <1>15, <1>16, <1>17, <1>18, <1>19, <1>20, <1>21, <1>22, <1>23
        DEF MirrorNext, Writes

-----------------------------------------------------------------------------
(* What the peer holds, and what the owner lends. *)

\* The owner goes on lending what it lends, or says that it does not.
LEMMA OwnerKeeps ==
    ASSUME NEW t, NEW dead, HandlerInv(t, dead), peer' = t.peer, up' = t.up, link' = link,
           dead \subseteq Dead', Silent => Silent', Sources' \subseteq Sources,
           \A q \in Sources' : /\ sources'[q].paused = sources[q].paused
                               /\ sources'[q].focused = sources[q].focused,
           \A q \in Sources \ Sources' : q \in owner'.refusing,
           \A q \in t.peer.asked :
             q \in t.peer.refused \cup owner.refusing \/ <<"refused", q>> \in Range(down) =>
               q \in t.peer.refused \cup owner'.refusing \/ <<"refused", q>> \in Range(down')
    PROVE  HandlerInv(Handling, Dead)'
<1> DEFINE pe == t.peer
           u == t.up
<1>1. t \in Handlers /\ ToldInv(pe, dead) /\ pe \in PeerType /\ u \in Seq(Sent) /\ Hello(u)
  BY DEF HandlerInv, Handlers
<1>2. Handling'.peer = pe /\ Handling'.up = u /\ Handling' \in [peer : PeerType, up : Seq(Sent)]
  BY <1>1 DEF Handling
<1>3. Hello(u)'
  BY <1>1 DEF Hello
<1> HIDE DEF pe, u
<1>4. ToldInv(pe, Dead')
  BY <1>1 DEF ToldInv
<1>5. ASSUME link.up PROVE AskedInv(pe, u, Dead)' /\ WantedInv(pe, u)'
  <2>1. AskedInv(pe, u, dead) /\ WantedInv(pe, u)
    BY <1>5 DEF HandlerInv, pe, u
  <2>2. AskedInv(pe, u, Dead)'
    <3> SUFFICES ASSUME NEW p \in Panes PROVE AskedInv(pe, u, Dead)!(p)'
      BY DEF AskedInv
    <3> QED BY <2>1 DEF AskedInv, pe
  <2>3. WantedInv(pe, u)'
    BY <2>1 DEF WantedInv
  <2> QED BY <2>2, <2>3
<1>6. ~link.up => u = << >>
  BY DEF HandlerInv, u
<1> QED BY <1>2, <1>3, <1>4, <1>5, <1>6 DEF HandlerInv, Handlers

\* What the owner makes of the word w.
ReadsAs(w) ==
  /\ \A p \in Sources \ Sources' : w = <<"stop", p>>
  /\ \A p \in Sources' : w # <<"stop", p>> /\ (p \notin Sources => w = <<"mirror", p>>)
  /\ \A p \in Panes \ Sources' : w = <<"mirror", p>> => p \in owner'.refusing
  /\ owner.refusing \subseteq owner'.refusing /\ Range(down) \subseteq Range(down')
  /\ \A p \in Sources' :
       /\ IF w \in Streams(p) THEN sources'[p].paused <=> w = <<"paused", p>>
          ELSE sources'[p].paused <=> sources[p].paused
       /\ IF w \in Focuses(p) THEN sources'[p].focused <=> w = <<"focus", p>>
          ELSE sources'[p].focused <=> sources[p].focused

\* It reads a word, and does what the word says.
LEMMA ReadKeeps ==
    ASSUME NEW dead, HandlerInv(Handling, dead), Dead' = dead, link.up, up # << >>,
           up' = Tail(up), peer' = peer, link' = link, NEW w, w = Head(up), ReadsAs(w)
    PROVE  HandlerInv(Handling, Dead)'
<1> USE DEF ReadsAs
<1>0. PICK u, less, pe : u = up /\ less = Tail(up) /\ pe = peer
  OBVIOUS
<1>1. /\ pe \in PeerType /\ u \in Seq(Sent) /\ Hello(u) /\ ToldInv(pe, dead)
      /\ AskedInv(pe, u, dead) /\ WantedInv(pe, u)
  BY <1>0 DEF HandlerInv, Handlers, Handling
<1>2. /\ less \in Seq(Sent)
      /\ Range(u) = Range(less) \cup {w}
      /\ \A v : SaidOnce(u, v) => SaidOnce(less, v) /\ (v = w => v \notin Range(less))
      /\ \A p : Stopped(u, p) => Stopped(less, p) /\ (w = <<"mirror", p>> => Said(less, "stop", p))
      /\ \A words, v : SaidLast(less, words, v) => SaidLast(u, words, v)
      /\ \A words : Unsaid(less, words) =>
            IF w \in words THEN SaidLast(u, words, w) ELSE Unsaid(u, words)
  BY <1>0, <1>1, WordRead
<1>3. pe.asked \cap dead = {} /\ pe.asked \subseteq Panes
  BY <1>0, <1>1 DEF ToldInv, PeerType, Dead
<1>4. Hello(less)'
  <2>1. \A i \in DOMAIN less : less[i] = u[i + 1] /\ i + 1 \in DOMAIN u /\ i + 1 # 1
    BY <1>0, <1>1
  <2>2. \A i \in DOMAIN less : less[i] # <<"peer">>
    <3> QED BY <1>1, <2>1 DEF Hello
  <2> QED BY <2>2 DEF Hello
<1>5. \A k, p : Said(u, k, p) <=> Said(less, k, p) \/ w = <<k, p>>
  BY <1>2 DEF Said
<1>6. \A p : /\ <<"mirror", p>> \in Streams(p) /\ <<"mirror", p>> \in Focuses(p)
             /\ <<"stop", p>> # <<"mirror", p>>
  BY DEF Streams, Focuses
<1>7. AskedInv(pe, less, dead)'
  <2> SUFFICES ASSUME NEW p \in Panes PROVE AskedInv(pe, less, dead)!(p)'
    BY DEF AskedInv
  <2>1. /\ p \in Sources \ pe.asked => Said(u, "stop", p)
        /\ Said(u, "stop", p) => p \in dead
        /\ Said(u, "mirror", p) => /\ p \in pe.asked \/ Stopped(u, p)
                                   /\ p \notin Sources
                                   /\ SaidOnce(u, <<"mirror", p>>)
        /\ p \in pe.asked \ Sources => \/ Said(u, "mirror", p) \/ p \in pe.refused \cup owner.refusing
                                         \/ <<"refused", p>> \in Range(down)
    BY <1>1 DEF AskedInv
  <2>2. p \in Sources' \ pe.asked => Said(less, "stop", p)
    <3> SUFFICES ASSUME p \in Sources' \ pe.asked PROVE Said(less, "stop", p)
      OBVIOUS
    <3>1. CASE p \in Sources
      BY <1>5, <2>1, <3>1
    <3>2. CASE p \notin Sources
      <4>1. w = <<"mirror", p>>
        BY <3>2
      <4>2. Stopped(u, p)
        BY <1>5, <2>1, <4>1
      <4> QED BY <1>2, <4>1, <4>2
    <3> QED BY <3>1, <3>2
  <2>3. Said(less, "stop", p) => p \in dead
    BY <1>5, <2>1
  <2>4. Said(less, "mirror", p) => /\ p \in pe.asked \/ Stopped(less, p)
                                   /\ p \notin Sources'
                                   /\ SaidOnce(less, <<"mirror", p>>)
    <3> SUFFICES ASSUME Said(less, "mirror", p)
                 PROVE  (p \in pe.asked \/ Stopped(less, p)) /\ p \notin Sources' /\ SaidOnce(less, <<"mirror", p>>)
      OBVIOUS
    <3>1. (p \in pe.asked \/ Stopped(u, p)) /\ p \notin Sources /\ SaidOnce(u, <<"mirror", p>>)
      BY <1>5, <2>1
    <3>2. w # <<"mirror", p>>
      BY <1>2, <3>1 DEF Said
    <3> QED BY <1>2, <3>1, <3>2
  <2>5. p \in pe.asked \ Sources' => \/ Said(less, "mirror", p) \/ p \in pe.refused \cup owner'.refusing
                                       \/ <<"refused", p>> \in Range(down')
    <3> SUFFICES ASSUME p \in pe.asked, p \notin Sources'
                 PROVE  \/ Said(less, "mirror", p) \/ p \in pe.refused \cup owner'.refusing
                        \/ <<"refused", p>> \in Range(down')
      OBVIOUS
    <3>1. p \notin Sources
      <4>1. ~Said(u, "stop", p)
        BY <1>3, <2>1
      <4> QED BY <1>5, <4>1
    <3>2. CASE w = <<"mirror", p>>
      BY <3>2
    <3>3. CASE w # <<"mirror", p>>
      BY <1>5, <2>1, <3>1, <3>3
    <3> QED BY <3>2, <3>3
  <2> QED BY <2>2, <2>3, <2>4, <2>5 DEF Said, SaidOnce, Stopped
<1>8. WantedInv(pe, less)'
  <2> SUFFICES ASSUME NEW p \in pe.asked PROVE WantedInv(pe, less)!(p)'
    BY DEF WantedInv
  <2>0. p \in Panes
    BY <1>3
  <2>1. /\ \A v : SaidLast(u, Streams(p), v) => (v = <<"paused", p>> <=> p \notin pe.streaming)
        /\ \A v : SaidLast(u, Focuses(p), v) => (v = <<"focus", p>> <=> p \in pe.focused)
        /\ p \in Sources =>
             /\ Unsaid(u, Streams(p)) => (sources[p].paused <=> p \notin pe.streaming)
             /\ Unsaid(u, Focuses(p)) => (sources[p].focused <=> p \in pe.focused)
    BY <1>1 DEF WantedInv
  <2>2. /\ \A v : SaidLast(less, Streams(p), v) => (v = <<"paused", p>> <=> p \notin pe.streaming)
        /\ \A v : SaidLast(less, Focuses(p), v) => (v = <<"focus", p>> <=> p \in pe.focused)
    BY <1>2, <2>1
  <2>3. ASSUME p \in Sources', Unsaid(less, Streams(p)) PROVE sources'[p].paused <=> p \notin pe.streaming
    <3>1. CASE w \in Streams(p)
      BY <1>2, <2>1, <2>3, <3>1
    <3>2. CASE w \notin Streams(p)
      BY <1>2, <1>6, <2>1, <2>3, <3>2
    <3> QED BY <3>1, <3>2
  <2>4. ASSUME p \in Sources', Unsaid(less, Focuses(p)) PROVE sources'[p].focused <=> p \in pe.focused
    <3>1. CASE w \in Focuses(p)
      BY <1>2, <2>1, <2>4, <3>1
    <3>2. CASE w \notin Focuses(p)
      BY <1>2, <1>6, <2>1, <2>4, <3>2
    <3> QED BY <3>1, <3>2
  <2> QED BY <2>2, <2>3, <2>4 DEF SaidLast, Unsaid, Streams, Focuses
<1>9. peer' = pe /\ up' = less /\ Dead' = dead /\ link'.up
  BY <1>0
<1>10. ToldInv(pe, dead)' /\ pe \in PeerType /\ less \in Seq(Sent)
  BY <1>1, <1>2 DEF ToldInv
<1>11. Handling'.peer = pe /\ Handling'.up = less /\ Handling' \in [peer : PeerType, up : Seq(Sent)]
  BY <1>9, <1>10 DEF Handling
<1> QED BY <1>4, <1>7, <1>8, <1>9, <1>10, <1>11 DEF HandlerInv, Handlers

\* Whatever the word.
LEMMA ReadStep ==
    ASSUME LinkInv, HandlerInv(Handling, Dead), Dead \subseteq Dead', OwnerReads
    PROVE  HandlerInv(Handling, Dead)'
<1>1. PICK w, dead : w = Head(up) /\ dead = Dead'
  OBVIOUS
<1>2. HandlerInv(Handling, dead)
  BY <1>1, MoreGone
<1>3. up # << >> /\ up' = Tail(up) /\ peer' = peer /\ link' = link
  BY DEF OwnerReads, OnPeer, OnWatch, OnMirror, OnPause, OnResume, OnStop, OnFocus, Reads
<1>4. /\ up \in Seq(Sent) /\ Hello(up) /\ link.up /\ AskedInv(peer, up, dead)
      /\ w \in Sent /\ w = up[1] /\ 1 \in DOMAIN up
  BY <1>1, <1>2, <1>3 DEF HandlerInv, Handlers, Handling
<1>5. /\ w[1] \notin {"peer", "watch"} => w[2] \in Panes /\ w = <<w[1], w[2]>>
      /\ \A k, p : w = <<k, p>> => w[1] = k /\ w[2] = p /\ k \notin {"peer", "watch"} /\ p \in Panes
  BY <1>4, WordForms
<1>6. Sources \subseteq Panes /\ (\A p \in Sources : sources[p] \in SourceType) /\ owner \in OwnerType
  BY DEF LinkInv, LinkType
<1>7. /\ \A p : w \in Streams(p) => w = <<w[1], p>> /\ w[1] \in {"mirror", "paused", "resume"}
      /\ \A p : w \in Focuses(p) => w = <<w[1], p>> /\ w[1] \in {"mirror", "focus", "unfocused"}
  BY <1>5 DEF Streams, Focuses
<1>8. OfPane = w[2]
  BY <1>1 DEF OfPane
<1>9. ReadsAs(w)
  <2>1. CASE OnPeer
    <3>1. w[1] = "peer" /\ down = << >> /\ Sources = {} /\ sources' = sources /\ owner' = owner
      BY <1>1, <1>4, <2>1, WordForms DEF OnPeer, Reads, Hello, Silent
    <3>2. Range(down) = {} /\ Sources' = {}
      BY <3>1 DEF Range, Sources
    <3> QED BY <1>5, <3>1, <3>2 DEF ReadsAs
  <2>2. CASE OnWatch
    <3>1. w[1] = "watch" /\ sources' = sources /\ Sources' = Sources /\ owner'.refusing = owner.refusing /\ down' = down
      BY <1>1, <1>6, <2>2 DEF OnWatch, Reads, Sources, OwnerType
    <3> QED BY <1>5, <1>7, <3>1 DEF ReadsAs
  <2>3. CASE OnMirror
    <3> DEFINE p == w[2]
    <3>1. w = <<"mirror", p>> /\ p \in Panes /\ down' = down
      BY <1>1, <1>5, <2>3 DEF OnMirror, Reads
    <3>2. p \notin Sources
      <4>1. Said(up, "mirror", p)
        BY <1>4, <3>1 DEF Said, Range
      <4> QED BY <1>4, <3>1, <4>1 DEF AskedInv
    <3>3. /\ w \in Streams(p) /\ w \in Focuses(p) /\ \A q : q # p => w \notin Streams(q) /\ w \notin Focuses(q)
          /\ \A q : w # <<"stop", q>> /\ (w = <<"mirror", q>> <=> q = p)
          /\ w # <<"paused", p>> /\ w # <<"focus", p>>
      BY <3>1, <1>5 DEF Streams, Focuses
    <3>4. CASE p \notin Sources \cup Alive
      <4>1. owner'.refusing = owner.refusing \cup {p} /\ sources' = sources /\ Sources' = Sources
        BY <1>6, <1>8, <2>3, <3>2, <3>4 DEF OnMirror, OwnerType, Sources
      <4> HIDE DEF p
      <4> QED BY <3>1, <3>2, <3>3, <4>1 DEF ReadsAs
    <3>5. CASE p \in Alive
      <4>1. Queued(NewSource, p)
        BY <1>8, <2>3, <3>2, <3>5 DEF OnMirror
      <4>2. NewSource \in SourceType /\ ~NewSource.paused /\ ~NewSource.focused
        BY DEF NewSource, SourceType
      <4> HIDE DEF p
      <4>3. /\ Sources' = Sources \cup {p} /\ \A q \in Sources \ {p} : sources'[q] = sources[q]
            /\ sources'[p].paused = NewSource.paused /\ sources'[p].focused = NewSource.focused
            /\ owner'.refusing = owner.refusing
        BY <3>1, <4>1, <4>2, QueuedDoes DEF LinkInv
      <4> QED BY <3>1, <3>2, <3>3, <4>2, <4>3 DEF ReadsAs
    <3> QED BY <3>2, <3>4, <3>5
  <2>4. CASE OnPause
    <3> DEFINE p == w[2]
    <3>1. w = <<"paused", p>> /\ down' = down /\ owner' = owner
      BY <1>1, <1>5, <2>4 DEF OnPause, Reads
    <3>2. sources' = [q \in Sources |-> [sources[q] EXCEPT !.paused = @ \/ q = p]]
      BY <1>8, <2>4 DEF OnPause
    <3>3. Sources' = Sources
      BY <3>2 DEF Sources
    <3>4. \A q \in Sources : /\ sources'[q].paused = (sources[q].paused \/ q = p)
                             /\ sources'[q].focused = sources[q].focused
      <4> SUFFICES ASSUME NEW q \in Sources
                   PROVE  /\ sources'[q].paused = (sources[q].paused \/ q = p)
                          /\ sources'[q].focused = sources[q].focused
        OBVIOUS
      <4>1. sources'[q] = [sources[q] EXCEPT !.paused = sources[q].paused \/ q = p] /\ sources[q] \in SourceType
        BY <1>6, <3>2
      <4> QED BY <4>1 DEF SourceType
    <3>5. /\ w \in Streams(p) /\ \A q : w \notin Focuses(q) /\ (w \in Streams(q) => q = p)
          /\ \A q : w # <<"stop", q>> /\ w # <<"mirror", q>>
      BY <3>1, <1>5 DEF Streams, Focuses
    <3>6. \A q \in Sources : w \notin Streams(q) => q # p
      BY <3>5
    <3> HIDE DEF p
    <3> QED BY <3>1, <3>3, <3>4, <3>5, <3>6 DEF ReadsAs
  <2>5. CASE OnResume
    <3> DEFINE p == w[2]
    <3>1. w = <<"resume", p>> /\ down' = down /\ p \in Panes
      BY <1>1, <1>5, <2>5 DEF OnResume, Reads
    <3>2. /\ w \in Streams(p) /\ \A q : w \notin Focuses(q) /\ (w \in Streams(q) => q = p)
          /\ \A q : w # <<"stop", q>> /\ w # <<"mirror", q>> /\ w # <<"paused", q>>
      BY <3>1, <1>5 DEF Streams, Focuses
    <3>3. CASE p \in Sources /\ sources[p].paused
      <4> DEFINE s == Resumed(sources[p])
      <4>1. Queued(s, p)
        BY <1>8, <2>5, <3>3 DEF OnResume
      <4>2. s \in SourceType /\ ~s.paused /\ s.focused = sources[p].focused
        <5>1. sources[p] \in SourceType
          BY <1>6, <3>3
        <5> QED BY <5>1 DEF Resumed, SourceType
      <4> HIDE DEF p, s
      <4>3. /\ Sources' = Sources \cup {p} /\ \A q \in Sources \ {p} : sources'[q] = sources[q]
            /\ sources'[p].paused = s.paused /\ sources'[p].focused = s.focused
            /\ owner'.refusing = owner.refusing
        BY <3>1, <4>1, <4>2, QueuedDoes DEF LinkInv
      <4> QED BY <3>1, <3>2, <3>3, <4>2, <4>3 DEF ReadsAs
    <3>4. CASE ~(p \in Sources /\ sources[p].paused)
      <4>1. owner' = owner /\ sources' = sources /\ Sources' = Sources
        BY <1>8, <2>5, <3>4 DEF OnResume, Sources
      <4> HIDE DEF p
      <4> QED BY <3>1, <3>2, <3>4, <4>1 DEF ReadsAs
    <3> QED BY <3>3, <3>4
  <2>6. CASE OnStop
    <3> DEFINE p == w[2]
    <3>1. w = <<"stop", p>> /\ down' = down /\ owner' = owner
      BY <1>1, <1>5, <2>6 DEF OnStop, Reads
    <3>2. sources' = [q \in Sources \ {p} |-> sources[q]]
      BY <1>8, <2>6 DEF OnStop, Dropped
    <3>3. Sources' = Sources \ {p} /\ \A q \in Sources' : sources'[q] = sources[q]
      BY <3>2 DEF Sources
    <3>4. /\ \A q : w \notin Focuses(q) /\ w \notin Streams(q) /\ w # <<"mirror", q>>
          /\ \A q : w = <<"stop", q>> <=> q = p
      BY <3>1, <1>5 DEF Streams, Focuses
    <3> HIDE DEF p
    <3> QED BY <3>1, <3>3, <3>4 DEF ReadsAs
  <2>7. CASE OnFocus
    <3> DEFINE p == w[2]
    <3>1. w \in {<<"focus", p>>, <<"unfocused", p>>} /\ down' = down /\ owner' = owner
      BY <1>1, <1>5, <2>7 DEF OnFocus, Reads
    <3>2. sources' = [q \in Sources |->
             IF q = p THEN [sources[q] EXCEPT !.focused = w[1] = "focus"] ELSE sources[q]]
      BY <1>1, <1>8, <2>7 DEF OnFocus
    <3>3. Sources' = Sources
      BY <3>2 DEF Sources
    <3>4. \A q \in Sources : /\ sources'[q].paused = sources[q].paused
                             /\ q # p => sources'[q].focused = sources[q].focused
                             /\ q = p => (sources'[q].focused <=> w[1] = "focus")
      BY <1>6, <3>2 DEF SourceType
    <3>5. /\ w \in Focuses(p) /\ \A q : w \notin Streams(q) /\ (w \in Focuses(q) => q = p)
          /\ \A q : w # <<"stop", q>> /\ w # <<"mirror", q>>
          /\ w[1] = "focus" <=> w = <<"focus", p>>
      BY <3>1, <1>5 DEF Streams, Focuses
    <3> HIDE DEF p
    <3> QED BY <3>1, <3>3, <3>4, <3>5 DEF ReadsAs
  <2> QED BY <2>1, <2>2, <2>3, <2>4, <2>5, <2>6, <2>7 DEF OwnerReads
<1> QED BY <1>1, <1>2, <1>3, <1>4, <1>9, ReadKeeps

\* A link begins with the hello, and with what is held.
LEMMA DialSays ==
    ASSUME NEW told \in Seq(Keys), IsInjective(told)
    PROVE  LET u == << <<"peer">> >> \o told
           IN /\ u \in Seq(Sent)
              /\ \A i \in DOMAIN u : u[i] = <<"peer">> => i = 1
              /\ \A k, p : Said(u, k, p) <=> <<k, p>> \in Range(told)
              /\ \A k, p : SaidOnce(u, <<k, p>>)
              /\ \A words, k, p : SaidLast(u, words, <<k, p>>) =>
                   /\ <<k, p>> \in Range(told)
                   /\ \A w \in words : w \in Range(told) /\ Before(told, <<k, p>>, w) => w = <<k, p>>
<1> DEFINE u == << <<"peer">> >> \o told
<1>1. /\ Len(told) \in Nat /\ DOMAIN told = 1 .. Len(told) /\ DOMAIN u = 1 .. (Len(told) + 1)
      /\ u[1] = <<"peer">> /\ \A i \in DOMAIN told : u[i + 1] = told[i] /\ told[i] \in Keys
  OBVIOUS
<1>2. u \in Seq(Sent)
  <2>1. << <<"peer">> >> \in Seq(Sent)
    BY DEF Sent
  <2>2. told \in Seq(Sent)
    BY <1>1 DEF Sent, Words
  <2> QED BY <2>1, <2>2
<1> HIDE DEF u
<1>3. \A i \in DOMAIN u : i = 1 \/ (i - 1 \in DOMAIN told /\ u[i] = told[i - 1] /\ u[i] \in Keys)
  BY <1>1
<1>4. \A i \in DOMAIN told : i + 1 \in DOMAIN u /\ i + 1 \in Nat /\ i \in Nat
  BY <1>1
<1>5. <<"peer">> \notin Keys /\ \A k, p : <<k, p>> # <<"peer">>
  BY DEF Keys
<1>6. \A i \in DOMAIN u : u[i] = <<"peer">> => i = 1
  BY <1>3, <1>5
<1>7. ASSUME NEW k, NEW p PROVE Said(u, k, p) <=> <<k, p>> \in Range(told)
  <2> DEFINE w == <<k, p>>
  <2>1. w # <<"peer">>
    BY <1>5
  <2> HIDE DEF w
  <2>2. w \in Range(u) => w \in Range(told)
    <3> SUFFICES ASSUME NEW i \in DOMAIN u, u[i] = w PROVE w \in Range(told)
      BY DEF Range
    <3>1. i # 1
      BY <1>1, <2>1
    <3> QED BY <1>3, <3>1 DEF Range
  <2>3. w \in Range(told) => w \in Range(u)
    BY <1>1, <1>4 DEF Range
  <2> QED BY <2>2, <2>3 DEF Said, w
<1>8. ASSUME NEW k, NEW p PROVE SaidOnce(u, <<k, p>>)
  <2> SUFFICES ASSUME NEW i \in DOMAIN u, NEW j \in DOMAIN u, u[i] = <<k, p>>, u[j] = <<k, p>>
               PROVE  i = j
    BY DEF SaidOnce
  <2>1. i - 1 \in DOMAIN told /\ j - 1 \in DOMAIN told /\ told[i - 1] = told[j - 1]
    BY <1>1, <1>3, <1>5
  <2>2. i - 1 = j - 1
    BY <2>1 DEF IsInjective
  <2>3. i \in Int /\ j \in Int
    BY <1>1
  <2> QED BY <2>2, <2>3
<1>9. ASSUME NEW words, NEW k, NEW p, SaidLast(u, words, <<k, p>>)
      PROVE  /\ <<k, p>> \in Range(told)
             /\ \A w \in words : w \in Range(told) /\ Before(told, <<k, p>>, w) => w = <<k, p>>
  <2>1. PICK i \in DOMAIN u : u[i] = <<k, p>> /\ \A j \in DOMAIN u : i < j => u[j] \notin words
    BY <1>9 DEF SaidLast
  <2>2. i - 1 \in DOMAIN told /\ told[i - 1] = <<k, p>> /\ i \in Int
    <3>1. i # 1
      BY <1>1, <1>5, <2>1
    <3> QED BY <1>1, <1>3, <2>1, <3>1
  <2>3. ASSUME NEW w \in words, w \in Range(told), Before(told, <<k, p>>, w) PROVE w = <<k, p>>
    <3>1. PICK j \in DOMAIN told : told[j] = w
      BY <2>3 DEF Range
    <3>2. i - 1 < j
      BY <2>2, <2>3, <3>1 DEF Before
    <3>3. i < j + 1 /\ j + 1 \in DOMAIN u /\ u[j + 1] = w
      BY <1>1, <1>4, <2>2, <3>1, <3>2
    <3> QED BY <2>1, <3>3
  <2> QED BY <2>2, <2>3 DEF Range
<1> QED BY <1>2, <1>6, <1>7, <1>8, <1>9 DEF u

\* A new link: the owner is going to do what was asked of the ones before.
LEMMA DialStep ==
    ASSUME LinkInv, HandlerInv(Handling, Dead), Dead \subseteq Dead', Dial
    PROVE  HandlerInv(Handling, Dead)'
<1>1. PICK pe, u, dead : pe = peer /\ u = << <<"peer">> >> \o peer.told /\ dead = Dead'
  OBVIOUS
<1>2. /\ peer' = pe /\ up' = u /\ link'.up /\ down' = down /\ owner' = owner /\ sources' = sources
      /\ ~link.up
  BY <1>1 DEF Dial
<1>3. ToldInv(pe, dead) /\ pe \in PeerType
  <2>1. HandlerInv(Handling, dead)
    BY <1>1, MoreGone
  <2> QED BY <1>1, <2>1 DEF HandlerInv, Handlers, Handling
<1>4. /\ u \in Seq(Sent)
      /\ \A i \in DOMAIN u : u[i] = <<"peer">> => i = 1
      /\ \A k, p : Said(u, k, p) <=> <<k, p>> \in Range(pe.told)
      /\ \A k, p : SaidOnce(u, <<k, p>>)
      /\ \A words, k, p : SaidLast(u, words, <<k, p>>) =>
           /\ <<k, p>> \in Range(pe.told)
           /\ \A w \in words : w \in Range(pe.told) /\ Before(pe.told, <<k, p>>, w) => w = <<k, p>>
  <2>1. pe.told \in Seq(Keys) /\ IsInjective(pe.told) /\ u = << <<"peer">> >> \o pe.told
    BY <1>1, <1>3 DEF ToldInv, PeerType
  <2> QED BY <2>1, DialSays
<1>5. Silent' /\ Sources' = {}
  BY <1>2 DEF LinkInv, Silent, Sources
<1>6. \A p : <<"stop", p>> \notin Range(pe.told) /\ <<"resume", p>> \notin Range(pe.told)
             /\ <<"unfocused", p>> \notin Range(pe.told)
  BY <1>3 DEF PeerType, Keys, Range
<1>7. pe.asked \cap dead = {} /\ pe.asked \subseteq Panes
  BY <1>1, <1>2, <1>3 DEF ToldInv, PeerType, Dead
<1>8. AskedInv(pe, u, dead)'
  <2> SUFFICES ASSUME NEW p \in Panes PROVE AskedInv(pe, u, dead)!(p)'
    BY DEF AskedInv
  <2>1. (Said(u, "mirror", p) <=> p \in pe.asked) /\ ~Said(u, "stop", p) /\ SaidOnce(u, <<"mirror", p>>)
    BY <1>3, <1>4, <1>6 DEF ToldInv, Holding
  <2> QED BY <1>5, <2>1
<1>9. WantedInv(pe, u)'
  <2> SUFFICES ASSUME NEW p \in pe.asked PROVE WantedInv(pe, u)!(p)'
    BY DEF WantedInv
  <2>0. p \in Panes /\ p \notin dead
    BY <1>7
  <2>1. /\ <<"mirror", p>> \in Range(pe.told)
        /\ <<"paused", p>> \in Range(pe.told) <=> p \notin pe.streaming
        /\ <<"focus", p>> \in Range(pe.told) <=> p \in pe.focused
        /\ Before(pe.told, <<"mirror", p>>, <<"paused", p>>)
        /\ Before(pe.told, <<"mirror", p>>, <<"focus", p>>)
    BY <1>3, <2>0 DEF ToldInv, Holding
  <2>2. ASSUME NEW w, SaidLast(u, Streams(p), w) PROVE w = <<"paused", p>> <=> p \notin pe.streaming
    <3>1. w \in {<<"mirror", p>>, <<"paused", p>>, <<"resume", p>>}
      BY <2>2 DEF SaidLast, Streams
    <3>2. w # <<"resume", p>>
      <4> DEFINE words == Streams(p)
      <4> HIDE DEF words
      <4>1. SaidLast(u, words, <<"resume", p>>) => <<"resume", p>> \in Range(pe.told)
        BY <1>4
      <4> QED BY <1>6, <2>2, <4>1 DEF words
    <3>3. CASE w = <<"paused", p>>
      BY <1>4, <2>1, <2>2, <3>3
    <3>4. CASE w = <<"mirror", p>>
      <4>1. <<"paused", p>> \in Streams(p) /\ <<"paused", p>> # <<"mirror", p>>
        BY DEF Streams
      <4>2. <<"paused", p>> \notin Range(pe.told)
        BY <1>4, <2>1, <2>2, <3>4, <4>1
      <4> QED BY <2>1, <3>4, <4>1, <4>2
    <3> QED BY <3>1, <3>2, <3>3, <3>4
  <2>3. ASSUME NEW w, SaidLast(u, Focuses(p), w) PROVE w = <<"focus", p>> <=> p \in pe.focused
    <3>1. w \in {<<"mirror", p>>, <<"focus", p>>, <<"unfocused", p>>}
      BY <2>3 DEF SaidLast, Focuses
    <3>2. w # <<"unfocused", p>>
      <4> DEFINE words == Focuses(p)
      <4> HIDE DEF words
      <4>1. SaidLast(u, words, <<"unfocused", p>>) => <<"unfocused", p>> \in Range(pe.told)
        BY <1>4
      <4> QED BY <1>6, <2>3, <4>1 DEF words
    <3>3. CASE w = <<"focus", p>>
      BY <1>4, <2>1, <2>3, <3>3
    <3>4. CASE w = <<"mirror", p>>
      <4>1. <<"focus", p>> \in Focuses(p) /\ <<"focus", p>> # <<"mirror", p>>
        BY DEF Focuses
      <4>2. <<"focus", p>> \notin Range(pe.told)
        BY <1>4, <2>1, <2>3, <3>4, <4>1
      <4> QED BY <2>1, <3>4, <4>1, <4>2
    <3> QED BY <3>1, <3>2, <3>3, <3>4
  <2> QED BY <1>5, <2>2, <2>3
<1>10. Hello(u)'
  BY <1>4, <1>5 DEF Hello
<1>11. Handling'.peer = pe /\ Handling'.up = u /\ Handling' \in [peer : PeerType, up : Seq(Sent)]
  BY <1>2, <1>3, <1>4 DEF Handling
<1>12. ToldInv(pe, Dead')
  BY <1>1, <1>3
<1> QED BY <1>1, <1>2, <1>8, <1>9, <1>10, <1>11, <1>12 DEF HandlerInv, Handlers

\* What is taken is not on its way any more.
LEMMA Took ==
    ASSUME NEW d \in Seq(Downs), d # << >>
    PROVE  Range(d) = Range(Tail(d)) \cup {Head(d)} /\ Head(d) \in Downs
<1> DEFINE less == Tail(d)
<1>1. /\ Len(d) \in Nat /\ DOMAIN d = 1 .. Len(d) /\ 1 \in DOMAIN d /\ Head(d) = d[1] /\ d[1] \in Downs
      /\ DOMAIN less = 1 .. (Len(d) - 1) /\ \A i \in DOMAIN less : less[i] = d[i + 1]
  OBVIOUS
<1> HIDE DEF less
<1>2. \A i \in DOMAIN d : i = 1 \/ (i - 1 \in DOMAIN less /\ d[i] = less[i - 1])
  BY <1>1
<1>3. \A i \in DOMAIN less : i + 1 \in DOMAIN d
  BY <1>1
<1>4. Range(d) \subseteq Range(less) \cup {Head(d)}
  BY <1>1, <1>2 DEF Range
<1>5. Range(less) \subseteq Range(d) /\ Head(d) \in Range(d)
  BY <1>1, <1>3 DEF Range
<1> QED BY <1>1, <1>4, <1>5 DEF less

\* The owner writes, or its panes come and go: the peer hears of it later.
LEMMA OwnerStep ==
    ASSUME LinkInv, HandlerInv(Handling, Dead), Dead \subseteq Dead',
           \/ WriteTree \/ WriteFrame \/ FrameFails \/ QueueTree
           \/ \E p \in Panes : Refuse(p) \/ Open(p) \/ Ends(p) \/ Prints(p)
    PROVE  HandlerInv(Handling, Dead)'
<1>1. PICK t, dead : t = Handling /\ dead = Dead
  OBVIOUS
<1>2. HandlerInv(t, dead) /\ t.peer = peer /\ t.up = up /\ peer.asked \subseteq Panes
  BY <1>1 DEF Handling, HandlerInv, Handlers, PeerType
<1>3. peer' = t.peer /\ up' = t.up /\ link' = link /\ dead \subseteq Dead'
  BY <1>1, <1>2 DEF WriteTree, WriteFrame, FrameFails, QueueTree, Refuse, Open, Ends, Prints, wire
<1>4. /\ down \in Seq(Downs) /\ owner \in OwnerType
      /\ Sources \subseteq Panes /\ \A p \in Sources : sources[p] \in SourceType
  BY DEF LinkInv, LinkType
<1>5. \A y : LET more == Append(down, y) IN Range(more) = Range(down) \cup {y}
  <2> SUFFICES ASSUME NEW y PROVE Range(Append(down, y)) = Range(down) \cup {y}
    OBVIOUS
  <2> DEFINE d == down
             more == Append(d, y)
  <2>1. /\ Len(d) \in Nat /\ DOMAIN d = 1 .. Len(d) /\ DOMAIN more = 1 .. (Len(d) + 1)
        /\ more[Len(d) + 1] = y /\ \A i \in DOMAIN d : more[i] = d[i]
    BY <1>4
  <2> HIDE DEF more, d
  <2>2. Range(more) = Range(d) \cup {y}
    BY <2>1 DEF Range
  <2> QED BY <2>2 DEF more, d
\* Nobody is refused anything, and whatever is lent stays.
<1>6. ASSUME Silent => Silent', UNCHANGED <<Sources, down>>, owner'.refusing = owner.refusing,
             \A q \in Sources : /\ sources'[q].paused = sources[q].paused
                                /\ sources'[q].focused = sources[q].focused
      PROVE  HandlerInv(Handling, Dead)'
  BY <1>2, <1>3, <1>6, OwnerKeeps
<1>7. CASE WriteTree
  <2>1. ~Silent
    BY <1>7 DEF WriteTree, Silent, NoLink
  <2>2. Sources' = Sources /\ sources' = sources /\ owner'.refusing = owner.refusing /\ Range(down) \subseteq Range(down')
    BY <1>4, <1>5, <1>7 DEF WriteTree, OwnerType, Sources
  <2> QED BY <1>2, <1>3, <2>1, <2>2, OwnerKeeps
<1>8. CASE WriteFrame
  <2> DEFINE p == Head(owner.queue)[2]
  <2>1. ~Silent
    <3>1. owner.queue # << >>
      BY <1>8 DEF WriteFrame
    <3>2. NoLink.queue = << >>
      BY DEF NoLink
    <3> QED BY <3>1, <3>2 DEF Silent
  <2>2. owner'.refusing = owner.refusing /\ Range(down) \subseteq Range(down')
    BY <1>4, <1>5, <1>8 DEF WriteFrame, OwnerType
  <2>3. /\ Sources' = Sources
        /\ \A q \in Sources : sources'[q].paused = sources[q].paused /\ sources'[q].focused = sources[q].focused
    <3>1. CASE p \notin Sources
      BY <1>8, <3>1 DEF WriteFrame, Sources
    <3>2. CASE p \in Sources
      <4> DEFINE s == sources[p]
                 now == version[p]
      <4>1. sources' = [sources EXCEPT ![p] = Framed(s, now)]
        BY <1>8, <3>2 DEF WriteFrame
      <4>2. Framed(s, now).paused = s.paused /\ Framed(s, now).focused = s.focused
        <5>1. s \in SourceType
          BY <1>4, <3>2
        <5> HIDE DEF s, now
        <5> QED BY <5>1 DEF Framed, SourceType
      <4> HIDE DEF now, p
      <4> QED BY <4>1, <4>2 DEF Sources
    <3> QED BY <3>1, <3>2
  <2> QED BY <1>2, <1>3, <2>1, <2>2, <2>3, OwnerKeeps
<1>9. CASE FrameFails
  <2> DEFINE p == Head(owner.queue)[2]
  <2>1. /\ ~Silent /\ sources' = [q \in Sources \ {p} |-> sources[q]] /\ down' = down
        /\ owner' = [owner EXCEPT !.queue = Tail(@), !.refusing = @ \cup {p}]
    BY <1>9 DEF FrameFails, Silent, Dropped, wire
  <2>2. /\ Sources' = Sources \ {p} /\ \A q \in Sources' : sources'[q] = sources[q]
        /\ owner'.refusing = owner.refusing \cup {p}
    BY <1>4, <2>1 DEF Sources, OwnerType
  <2> HIDE DEF p
  <2> QED BY <1>2, <1>3, <2>1, <2>2, OwnerKeeps
<1>10. CASE QueueTree
  <2>1. ~Silent /\ UNCHANGED <<sources, down>> /\ owner'.refusing = owner.refusing
    BY <1>4, <1>10 DEF QueueTree, Silent, NoLink, wire, OwnerType
  <2> QED BY <1>6, <2>1 DEF Sources
<1>11. ASSUME NEW p \in Panes, Refuse(p) PROVE HandlerInv(Handling, Dead)'
  <2>1. /\ ~Silent /\ Sources' = Sources /\ sources' = sources
        /\ owner'.refusing = owner.refusing \ {p} /\ down' = Append(down, <<"refused", p>>)
    BY <1>4, <1>11 DEF Refuse, Silent, NoLink, OwnerType, Sources
  <2>2. Range(down') = Range(down) \cup {<<"refused", p>>}
    BY <1>5, <2>1
  <2> QED BY <1>2, <1>3, <2>1, <2>2, OwnerKeeps
<1>12. ASSUME NEW p \in Panes, Open(p) \/ Ends(p) PROVE HandlerInv(Handling, Dead)'
  <2>1. UNCHANGED <<sources, down, owner>>
    BY <1>12 DEF Open, Ends, wire
  <2> QED BY <1>6, <2>1 DEF Silent, Sources
<1>13. ASSUME NEW p \in Panes, Prints(p) PROVE HandlerInv(Handling, Dead)'
  <2>1. down' = down
    BY <1>13 DEF Prints, wire
  <2>2. CASE UNCHANGED <<owner, sources>>
    BY <1>6, <2>1, <2>2 DEF Silent, Sources
  <2>3. CASE p \in Sources /\ Queued(sources[p], p)
    <3> DEFINE s == sources[p]
    <3>1. s \in SourceType /\ Queued(s, p) /\ ~Silent
      BY <1>4, <2>3 DEF Silent
    <3> HIDE DEF s
    <3>2. /\ Sources' = Sources \cup {p} /\ \A q \in Sources \ {p} : sources'[q] = sources[q]
          /\ sources'[p].paused = s.paused /\ sources'[p].focused = s.focused
          /\ owner'.refusing = owner.refusing
      BY <3>1, QueuedDoes DEF LinkInv
    <3> QED BY <1>6, <2>1, <2>3, <3>1, <3>2 DEF s
  <2> QED BY <1>13, <2>2, <2>3 DEF Prints
<1> QED BY <1>7, <1>8, <1>9, <1>10, <1>11, <1>12, <1>13

\* The peer takes a packet: a tree it goes by, a frame for the page, a refusal.
LEMMA TakeStep ==
    ASSUME LinkInv, TreeInv, HandlerInv(Handling, Dead), Dead \subseteq Dead', Takes
    PROVE  HandlerInv(Handling, Dead)'
<1>1. /\ down \in Seq(Downs) /\ down # << >> /\ down' = Tail(down) /\ ~Silent
      /\ link' = link /\ owner' = owner /\ Sources' = Sources /\ sources' = sources
  BY DEF Takes, TakeAccepted, TakeFrame, TakeRefusal, TakeTree, Silent, Sources, LinkInv, LinkType
<1>2. Range(down) = Range(down') \cup {Head(down)} /\ Head(down) \in Downs
  BY <1>1, Took
<1>3. ASSUME NEW t, HandlerInv(t, Dead'), peer' = t.peer, up' = t.up,
             \A q \in t.peer.asked : Head(down) = <<"refused", q>> => q \in t.peer.refused
      PROVE  HandlerInv(Handling, Dead)'
  <2>1. PICK dead : dead = Dead'
    OBVIOUS
  <2> QED BY <1>1, <1>2, <1>3, <2>1, OwnerKeeps
<1>4. ASSUME NEW panes, NEW seen, TakeTree(panes, seen) PROVE HandlerInv(Handling, Dead)'
  <2>1. PICK t : t = [peer |-> peer', up |-> up']
    OBVIOUS
  <2>2. HandlerInv(t, Dead')
    BY <1>4, <2>1, TakesTree
  <2>3. t.peer = peer' /\ t.up = up'
    BY <2>1
  <2>4. \A q : Head(down) # <<"refused", q>>
    BY <1>4 DEF TakeTree
  <2> QED BY <1>3, <2>2, <2>3, <2>4
<1>5. CASE TakeAccepted \/ TakeFrame \/ TakeRefusal
  <2>1. PICK t : t = [peer |-> peer', up |-> up']
    OBVIOUS
  <2>2. /\ t.peer = peer' /\ t.up = up' /\ up' = up
        /\ HandlerInv(Handling, Dead') /\ Handling.peer = peer /\ Handling.up = up /\ peer \in PeerType
    BY <1>5, <2>1, MoreGone DEF TakeAccepted, TakeFrame, TakeRefusal, Handling, HandlerInv, Handlers
  <2>3. /\ peer' \in PeerType
        /\ peer'.tree = peer.tree /\ peer'.asked = peer.asked /\ peer'.streaming = peer.streaming
        /\ peer'.focused = peer.focused /\ peer'.told = peer.told
        /\ peer.refused \subseteq peer'.refused
        /\ \A q \in peer.asked : Head(down) = <<"refused", q>> => q \in peer'.refused
    <3>1. CASE TakeAccepted
      BY <2>2, <3>1 DEF TakeAccepted
    <3>2. CASE TakeFrame
      <4>1. peer' = peer \/ peer' = [peer EXCEPT !.stale = @ \ {Head(down)[2]}]
        BY <3>2 DEF TakeFrame
      <4>2. \A q : Head(down) # <<"refused", q>>
        BY <3>2 DEF TakeFrame
      <4> QED BY <2>2, <4>1, <4>2 DEF PeerType
    <3>3. CASE TakeRefusal
      <4>1. peer' = [peer EXCEPT !.refused = @ \cup ({Head(down)[2]} \cap peer.asked)]
        BY <3>3 DEF TakeRefusal
      <4>2. \A q : Head(down) = <<"refused", q>> => Head(down)[2] = q
        OBVIOUS
      <4> QED BY <2>2, <4>1, <4>2 DEF PeerType
    <3> QED BY <1>5, <3>1, <3>2, <3>3
  <2>4. HandlerInv(t, Dead')
    <3>1. t \in Handlers
      <4>1. t \in [peer : PeerType, up : Seq(Sent)] /\ Hello(up)
        BY <2>1, <2>2, <2>3 DEF HandlerInv, Handlers
      <4> QED BY <2>2, <4>1 DEF Handlers
    <3>2. ToldInv(t.peer, Dead')
      <4>1. ToldInv(peer, Dead')
        BY <2>2 DEF HandlerInv
      <4> QED BY <2>2, <2>3, <4>1 DEF ToldInv, Holding
    <3>3. ASSUME link.up PROVE AskedInv(t.peer, t.up, Dead') /\ WantedInv(t.peer, t.up)
      <4>1. AskedInv(peer, up, Dead') /\ WantedInv(peer, up)
        BY <2>2, <3>3 DEF HandlerInv
      <4>2. AskedInv(t.peer, t.up, Dead')
        BY <2>2, <2>3, <4>1 DEF AskedInv
      <4>3. WantedInv(t.peer, t.up)
        BY <2>2, <2>3, <4>1 DEF WantedInv
      <4> QED BY <4>2, <4>3
    <3>4. ~link.up => t.up = << >>
      BY <2>2 DEF HandlerInv
    <3> QED BY <3>1, <3>2, <3>3, <3>4 DEF HandlerInv
  <2> QED BY <1>3, <2>2, <2>3, <2>4
<1> QED BY <1>4, <1>5 DEF Takes

\* Whoever acts.
LEMMA HandlerStep ==
    ASSUME LinkInv, TreeInv, HandlerInv(Handling, Dead), Dead \subseteq Dead', MirrorNext
    PROVE  HandlerInv(Handling, Dead)'
<1>1. ASSUME NEW panes \in SUBSET peer.tree, SyncSight(panes) \/ SyncFocus(panes)
      PROVE  HandlerInv(Handling, Dead)'
  <2>1. PICK h, dead : h = Handling /\ dead = Dead
    OBVIOUS
  <2>2. HandlerInv(h, dead) /\ h.peer = peer /\ h.peer.tree \cap dead = {}
    BY <2>1 DEF Handling, Dead
  <2>3. PICK t : (t = Sight(h, panes) \/ t = FocusOn(h, panes)) /\ peer' = t.peer /\ up' = t.up
    BY <1>1, <2>1 DEF SyncSight, SyncFocus, Done
  <2>4. HandlerInv(t, dead)
    BY <2>2, <2>3, SightKeeps, FocusOnKeeps
  <2>5. UNCHANGED <<down, link, owner, sources>> /\ dead \subseteq Dead'
    BY <1>1, <2>1 DEF SyncSight, SyncFocus
  <2>6. Sources' = Sources /\ Silent' = Silent
    BY <2>5 DEF Sources, Silent
  <2> QED BY <2>3, <2>4, <2>5, <2>6, OwnerKeeps
<1>2. CASE LinkGoes
  <2>1. peer' = peer /\ up' = << >> /\ ~link'.up
    BY <1>2 DEF LinkGoes, LinkInv, LinkType
  <2>2. ToldInv(peer, Dead') /\ peer \in PeerType
    <3>1. HandlerInv(Handling, Dead') /\ Handling.peer = peer
      BY MoreGone DEF Handling
    <3> QED BY <3>1 DEF HandlerInv, Handlers
  <2>3. << >> \in Seq(Sent)
    OBVIOUS
  <2>4. Handling'.peer = peer /\ Handling'.up = << >> /\ Handling' \in [peer : PeerType, up : Seq(Sent)]
    BY <2>1, <2>2, <2>3 DEF Handling
  <2>5. Hello(<< >>)'
    BY DEF Hello
  <2> QED BY <2>1, <2>2, <2>4, <2>5 DEF HandlerInv, Handlers
<1> QED BY <1>1, <1>2, DialStep, TakeStep, ReadStep, OwnerStep DEF MirrorNext, Writes

\* Once a link went, nothing of it is left.
LEMMA LinkStep ==
    ASSUME LinkInv, HandlerInv(Handling, Dead), HandlerInv(Handling, Dead)', LinkType', MirrorNext
    PROVE  LinkInv'
<1> SUFFICES ASSUME ~link'.up PROVE up' = << >> /\ Silent'
  BY DEF LinkInv
<1>1. up' = << >>
  BY DEF HandlerInv, Handling
<1>2. CASE LinkGoes
  BY <1>2 DEF LinkGoes, Silent, Sources
<1>3. CASE ~LinkGoes
  <2>1. ~Dial
    BY DEF Dial
  <2>2. link' = link
    BY <1>3, <2>1 DEF MirrorNext, SyncSight, SyncFocus, Takes, TakeAccepted, TakeFrame, TakeRefusal, TakeTree,
       OwnerReads, OnPeer, OnWatch, OnMirror, OnPause, OnResume, OnStop, OnFocus, Reads, Writes, WriteTree,
       WriteFrame, FrameFails, QueueTree, Refuse, Open, Ends, Prints, wire
  <2>3. up = << >> /\ down = << >> /\ owner = NoLink /\ Sources = {}
    BY <2>2 DEF LinkInv, Silent
  <2>4. /\ ~Takes /\ ~OwnerReads /\ ~Writes /\ ~FrameFails /\ ~QueueTree
        /\ \A p \in Panes : ~Refuse(p)
    BY <2>3 DEF Takes, TakeAccepted, TakeFrame, TakeRefusal, TakeTree,
       OwnerReads, OnPeer, OnWatch, OnMirror, OnPause, OnResume, OnStop, OnFocus, Reads, Writes, WriteTree,
       WriteFrame, FrameFails, QueueTree, Refuse, NoLink
  <2>5. \/ \E panes \in SUBSET peer.tree : SyncSight(panes) \/ SyncFocus(panes)
        \/ \E p \in Panes : Open(p) \/ Ends(p) \/ Prints(p)
    BY <1>3, <2>1, <2>4 DEF MirrorNext
  <2>6. UNCHANGED <<down, owner, sources>>
    BY <2>3, <2>5 DEF SyncSight, SyncFocus, Open, Ends, Prints, wire
  <2> QED BY <1>1, <2>3, <2>6 DEF Silent, Sources
<1> QED BY <1>2, <1>3

-----------------------------------------------------------------------------
(* The frames. *)

\* Where there is no frame of p, none has to follow another.
LEMMA ChainNone ==
    ASSUME NEW d, NEW p, Frameless(d, p), NEW shown
    PROVE  Chain(d, p, shown)
BY DEF Chain, Frameless

\* A packet that is no frame of p is taken...
LEMMA ChainLess ==
    ASSUME NEW d \in Seq(Downs), d # << >>, NEW p, ~(Head(d)[1] = "frame" /\ Head(d)[2] = p), NEW shown
    PROVE  /\ Chain(d, p, shown) => Chain(Tail(d), p, shown)
           /\ \A sent : ChainEnd(d, p, shown, sent) => ChainEnd(Tail(d), p, shown, sent)
<1> DEFINE less == Tail(d)
<1>1. /\ Len(d) \in Nat /\ DOMAIN d = 1 .. Len(d) /\ 1 \in DOMAIN d /\ Head(d) = d[1]
      /\ DOMAIN less = 1 .. (Len(d) - 1) /\ \A i \in DOMAIN less : less[i] = d[i + 1]
      /\ \A i \in DOMAIN d : i \in Int /\ i >= 1
  OBVIOUS
<1> HIDE DEF less
<1>2. \A i \in DOMAIN less : i \in Int /\ 1 < i + 1 /\ i + 1 \in DOMAIN d /\ (FrameIn(less, p, i) <=> FrameIn(d, p, i + 1))
  BY <1>1 DEF FrameIn
<1>3. \A i \in DOMAIN d : FrameIn(d, p, i) => i \in Int /\ i - 1 \in DOMAIN less /\ FrameIn(less, p, i - 1)
  BY <1>1 DEF FrameIn
<1>4. ASSUME Chain(d, p, shown) PROVE Chain(less, p, shown)
  <2> SUFFICES ASSUME NEW i \in DOMAIN less, FrameIn(less, p, i)
               PROVE  /\ (\A j \in DOMAIN less : j < i => ~FrameIn(less, p, j)) => less[i][3] \in {0, shown}
                      /\ \A j \in DOMAIN less :
                           j < i /\ FrameIn(less, p, j) /\ (\A k \in DOMAIN less : j < k /\ k < i => ~FrameIn(less, p, k))
                             => less[i][3] \in {0, less[j][4]}
    BY DEF Chain
  <2>1. i + 1 \in DOMAIN d /\ FrameIn(d, p, i + 1) /\ less[i] = d[i + 1] /\ i \in Int
    BY <1>1, <1>2
  <2>2. ASSUME \A j \in DOMAIN less : j < i => ~FrameIn(less, p, j) PROVE less[i][3] \in {0, shown}
    <3>1. \A j \in DOMAIN d : j < i + 1 => ~FrameIn(d, p, j)
      BY <1>3, <2>1, <2>2
    <3> QED BY <1>4, <2>1, <3>1 DEF Chain
  <2>3. ASSUME NEW j \in DOMAIN less, j < i, FrameIn(less, p, j),
               \A k \in DOMAIN less : j < k /\ k < i => ~FrameIn(less, p, k)
        PROVE  less[i][3] \in {0, less[j][4]}
    <3>1. j + 1 \in DOMAIN d /\ FrameIn(d, p, j + 1) /\ less[j] = d[j + 1] /\ j + 1 < i + 1 /\ j \in Int
      BY <1>1, <1>2, <2>1, <2>3
    <3>2. \A k \in DOMAIN d : j + 1 < k /\ k < i + 1 => ~FrameIn(d, p, k)
      <4> SUFFICES ASSUME NEW k \in DOMAIN d, j + 1 < k, k < i + 1, FrameIn(d, p, k) PROVE FALSE
        OBVIOUS
      <4>1. k \in Int /\ k # 1
        BY <1>1, <1>2, <3>1
      <4>2. k - 1 \in DOMAIN less /\ FrameIn(less, p, k - 1)
        BY <1>3, <4>1
      <4>3. j < k - 1 /\ k - 1 < i
        BY <2>1, <3>1, <4>1
      <4> QED BY <2>3, <4>2, <4>3
    <3> QED BY <1>4, <2>1, <3>1, <3>2 DEF Chain
  <2> QED BY <2>2, <2>3
<1>5. ASSUME NEW sent, ChainEnd(d, p, shown, sent) PROVE ChainEnd(less, p, shown, sent)
  <2>1. Frameless(less, p) => sent \in {0, shown}
    BY <1>3, <1>5 DEF ChainEnd, Frameless
  <2>2. ASSUME NEW i \in DOMAIN less, FrameIn(less, p, i), \A j \in DOMAIN less : i < j => ~FrameIn(less, p, j)
        PROVE  sent \in {0, less[i][4]}
    <3>1. i + 1 \in DOMAIN d /\ FrameIn(d, p, i + 1) /\ less[i] = d[i + 1] /\ i \in Int
      BY <1>1, <1>2, <2>2
    <3>2. \A j \in DOMAIN d : i + 1 < j => ~FrameIn(d, p, j)
      BY <1>3, <2>2, <3>1
    <3> QED BY <1>5, <3>1, <3>2 DEF ChainEnd
  <2> QED BY <2>1, <2>2 DEF ChainEnd
<1> QED BY <1>4, <1>5 DEF less

\* ...or a frame of p is...
LEMMA ChainTook ==
    ASSUME NEW d \in Seq(Downs), d # << >>, NEW p, Head(d)[1] = "frame", Head(d)[2] = p, NEW shown
    PROVE  /\ Chain(d, p, shown) => Head(d)[3] \in {0, shown} /\ Chain(Tail(d), p, Head(d)[4])
           /\ \A sent : ChainEnd(d, p, shown, sent) => ChainEnd(Tail(d), p, Head(d)[4], sent)
<1> DEFINE less == Tail(d)
<1>1. /\ Len(d) \in Nat /\ DOMAIN d = 1 .. Len(d) /\ 1 \in DOMAIN d /\ Head(d) = d[1]
      /\ DOMAIN less = 1 .. (Len(d) - 1) /\ \A i \in DOMAIN less : less[i] = d[i + 1]
      /\ \A i \in DOMAIN d : i \in Int /\ i >= 1
  OBVIOUS
<1> HIDE DEF less
<1>2. \A i \in DOMAIN less : i \in Int /\ 1 < i + 1 /\ i + 1 \in DOMAIN d /\ (FrameIn(less, p, i) <=> FrameIn(d, p, i + 1))
  BY <1>1 DEF FrameIn
<1>3. \A i \in DOMAIN d : FrameIn(d, p, i) /\ i # 1 => i \in Int /\ i - 1 \in DOMAIN less /\ FrameIn(less, p, i - 1)
  BY <1>1 DEF FrameIn
<1>0. FrameIn(d, p, 1)
  BY <1>1 DEF FrameIn
<1>4. ASSUME Chain(d, p, shown) PROVE Chain(less, p, Head(d)[4])
  <2> SUFFICES ASSUME NEW i \in DOMAIN less, FrameIn(less, p, i)
               PROVE  /\ (\A j \in DOMAIN less : j < i => ~FrameIn(less, p, j)) => less[i][3] \in {0, Head(d)[4]}
                      /\ \A j \in DOMAIN less :
                           j < i /\ FrameIn(less, p, j) /\ (\A k \in DOMAIN less : j < k /\ k < i => ~FrameIn(less, p, k))
                             => less[i][3] \in {0, less[j][4]}
    BY DEF Chain
  <2>1. i + 1 \in DOMAIN d /\ FrameIn(d, p, i + 1) /\ less[i] = d[i + 1] /\ i \in Int /\ 1 < i + 1
    BY <1>1, <1>2
  <2>2. ASSUME \A j \in DOMAIN less : j < i => ~FrameIn(less, p, j) PROVE less[i][3] \in {0, Head(d)[4]}
    <3>1. \A k \in DOMAIN d : 1 < k /\ k < i + 1 => ~FrameIn(d, p, k)
      BY <1>3, <2>1, <2>2
    <3> QED BY <1>0, <1>1, <1>4, <2>1, <3>1 DEF Chain
  <2>3. ASSUME NEW j \in DOMAIN less, j < i, FrameIn(less, p, j),
               \A k \in DOMAIN less : j < k /\ k < i => ~FrameIn(less, p, k)
        PROVE  less[i][3] \in {0, less[j][4]}
    <3>1. j + 1 \in DOMAIN d /\ FrameIn(d, p, j + 1) /\ less[j] = d[j + 1] /\ j + 1 < i + 1 /\ j \in Int /\ 1 < j + 1
      BY <1>1, <1>2, <2>1, <2>3
    <3>2. \A k \in DOMAIN d : j + 1 < k /\ k < i + 1 => ~FrameIn(d, p, k)
      <4> SUFFICES ASSUME NEW k \in DOMAIN d, j + 1 < k, k < i + 1, FrameIn(d, p, k) PROVE FALSE
        OBVIOUS
      <4>1. k \in Int /\ k # 1
        BY <1>1, <1>2, <3>1
      <4>2. k - 1 \in DOMAIN less /\ FrameIn(less, p, k - 1)
        BY <1>3, <4>1
      <4>3. j < k - 1 /\ k - 1 < i
        BY <2>1, <3>1, <4>1
      <4> QED BY <2>3, <4>2, <4>3
    <3> QED BY <1>4, <2>1, <3>1, <3>2 DEF Chain
  <2> QED BY <2>2, <2>3
<1>5. ASSUME Chain(d, p, shown) PROVE Head(d)[3] \in {0, shown}
  <2>1. \A j \in DOMAIN d : j < 1 => ~FrameIn(d, p, j)
    BY <1>1
  <2> QED BY <1>0, <1>1, <1>5, <2>1 DEF Chain
<1>6. ASSUME NEW sent, ChainEnd(d, p, shown, sent) PROVE ChainEnd(less, p, Head(d)[4], sent)
  <2>1. ASSUME Frameless(less, p) PROVE sent \in {0, Head(d)[4]}
    <3>1. \A j \in DOMAIN d : 1 < j => ~FrameIn(d, p, j)
      BY <1>3, <2>1 DEF Frameless
    <3> QED BY <1>0, <1>1, <1>6, <3>1 DEF ChainEnd
  <2>2. ASSUME NEW i \in DOMAIN less, FrameIn(less, p, i), \A j \in DOMAIN less : i < j => ~FrameIn(less, p, j)
        PROVE  sent \in {0, less[i][4]}
    <3>1. i + 1 \in DOMAIN d /\ FrameIn(d, p, i + 1) /\ less[i] = d[i + 1] /\ i \in Int /\ 1 < i + 1
      BY <1>1, <1>2, <2>2
    <3>2. \A j \in DOMAIN d : i + 1 < j => ~FrameIn(d, p, j)
      BY <1>3, <2>2, <3>1
    <3> QED BY <1>6, <3>1, <3>2 DEF ChainEnd
  <2> QED BY <2>1, <2>2 DEF ChainEnd
<1> QED BY <1>4, <1>5, <1>6 DEF less

\* ...another packet is written...
LEMMA ChainMore ==
    ASSUME NEW d \in Seq(Downs), NEW p, NEW y, ~(y[1] = "frame" /\ y[2] = p), NEW shown
    PROVE  /\ Chain(d, p, shown) => Chain(Append(d, y), p, shown)
           /\ \A sent : ChainEnd(d, p, shown, sent) => ChainEnd(Append(d, y), p, shown, sent)
<1> DEFINE more == Append(d, y)
<1>1. /\ Len(d) \in Nat /\ DOMAIN d = 1 .. Len(d) /\ DOMAIN more = 1 .. (Len(d) + 1)
      /\ more[Len(d) + 1] = y /\ \A i \in DOMAIN d : more[i] = d[i]
  OBVIOUS
<1> HIDE DEF more
<1>2. \A i \in DOMAIN d : i \in DOMAIN more /\ (FrameIn(more, p, i) <=> FrameIn(d, p, i))
  BY <1>1 DEF FrameIn
<1>3. \A i \in DOMAIN more : FrameIn(more, p, i) => i \in DOMAIN d
  BY <1>1 DEF FrameIn
<1>4. Chain(d, p, shown) => Chain(more, p, shown)
  BY <1>1, <1>2, <1>3 DEF Chain
<1>5. \A sent : ChainEnd(d, p, shown, sent) => ChainEnd(more, p, shown, sent)
  BY <1>1, <1>2, <1>3 DEF ChainEnd, Frameless
<1> QED BY <1>4, <1>5 DEF more

\* ...or the next frame of p.
LEMMA ChainWrote ==
    ASSUME NEW d \in Seq(Downs), NEW p, NEW shown, NEW sent, NEW now,
           Chain(d, p, shown), ChainEnd(d, p, shown, sent)
    PROVE  LET more == Append(d, <<"frame", p, sent, now>>)
           IN Chain(more, p, shown) /\ ChainEnd(more, p, shown, now)
<1> DEFINE y == <<"frame", p, sent, now>>
           more == Append(d, y)
           n == Len(d) + 1
<1>1. /\ DOMAIN more = 1 .. n /\ DOMAIN d = 1 .. (n - 1) /\ n \in Nat /\ n >= 1
      /\ more[n] = y /\ \A i \in DOMAIN d : more[i] = d[i]
  OBVIOUS
<1>2. y[1] = "frame" /\ y[2] = p /\ y[3] = sent /\ y[4] = now
  OBVIOUS
<1> HIDE DEF more, y, n
<1>3. \A i \in DOMAIN d : i \in DOMAIN more /\ i < n /\ i \in Int /\ (FrameIn(more, p, i) <=> FrameIn(d, p, i))
  BY <1>1 DEF FrameIn
<1>4. \A i \in DOMAIN more : i = n \/ i \in DOMAIN d
  BY <1>1
<1>5. n \in DOMAIN more /\ FrameIn(more, p, n)
  BY <1>1, <1>2 DEF FrameIn
<1>6. Chain(more, p, shown)
  <2> SUFFICES ASSUME NEW i \in DOMAIN more, FrameIn(more, p, i)
               PROVE  /\ (\A j \in DOMAIN more : j < i => ~FrameIn(more, p, j)) => more[i][3] \in {0, shown}
                      /\ \A j \in DOMAIN more :
                           j < i /\ FrameIn(more, p, j) /\ (\A k \in DOMAIN more : j < k /\ k < i => ~FrameIn(more, p, k))
                             => more[i][3] \in {0, more[j][4]}
    BY DEF Chain
  <2>1. CASE i \in DOMAIN d
    <3>1. \A j \in DOMAIN more : j < i => j \in DOMAIN d
      BY <1>1, <1>3, <1>4, <2>1
    <3>2. FrameIn(d, p, i) /\ more[i] = d[i]
      BY <1>1, <1>3, <2>1
    <3> QED BY <1>1, <1>3, <2>1, <3>1, <3>2 DEF Chain
  <2>2. CASE i = n
    <3>1. (\A j \in DOMAIN more : j < n => ~FrameIn(more, p, j)) => sent \in {0, shown}
      BY <1>3 DEF ChainEnd, Frameless
    <3>2. ASSUME NEW j \in DOMAIN more, j < n, FrameIn(more, p, j),
                 \A k \in DOMAIN more : j < k /\ k < n => ~FrameIn(more, p, k)
          PROVE  sent \in {0, more[j][4]}
      <4>1. j \in DOMAIN d /\ FrameIn(d, p, j) /\ more[j] = d[j]
        BY <1>1, <1>3, <1>4, <3>2
      <4>2. \A k \in DOMAIN d : j < k => ~FrameIn(d, p, k)
        BY <1>3, <3>2
      <4> QED BY <4>1, <4>2 DEF ChainEnd
    <3> QED BY <1>1, <1>2, <2>2, <3>1, <3>2
  <2> QED BY <1>4, <2>1, <2>2
<1>7. ChainEnd(more, p, shown, now)
  BY <1>1, <1>2, <1>3, <1>4, <1>5 DEF ChainEnd, Frameless
<1> QED BY <1>6, <1>7 DEF more, y

\* The frames are as they were, and none was sent since.
LEMMA FramesStay ==
    ASSUME LinkInv, FrameInv, HandlerInv(Handling, Dead), HandlerInv(Handling, Dead)', Dead \subseteq Dead',
           page' = page, peer.asked \subseteq peer'.asked \cup Dead',
           peer'.asked = peer.asked \/ Sources' = Sources,
           \A i \in DOMAIN down' : down'[i][1] = "frame" => \E j \in DOMAIN down : down[j] = down'[i],
           \A p \in Panes : \A shown :
             /\ Chain(down, p, shown) => Chain(down', p, shown)
             /\ \A sent : ChainEnd(down, p, shown, sent) => ChainEnd(down', p, shown, sent),
           \A p \in Sources' : sources'[p].sent = 0 \/ (p \in Sources /\ sources'[p].sent = sources[p].sent)
    PROVE  FrameInv'
<1>1. /\ peer.asked \cap Dead = {} /\ peer.asked \subseteq Panes
      /\ peer'.asked \cap Dead' = {} /\ peer'.asked \subseteq Panes
  BY DEF HandlerInv, Handlers, Handling, ToldInv, PeerType, Dead
<1>2. ASSUME NEW p \in peer'.asked \ peer.asked PROVE Frameless(down, p) /\ p \notin Sources'
  <2>1. p \notin peer.asked \cup Dead /\ p \in Panes
    BY <1>1, <1>2
  <2>2. Frameless(down, p)
    BY <2>1 DEF FrameInv, Frameless, FrameIn
  <2>3. Sources' = Sources
    BY <1>2
  <2>4. CASE link.up
    <3>1. AskedInv(peer, up, Dead)
      BY <2>4 DEF HandlerInv, Handling
    <3> QED BY <2>1, <2>2, <2>3, <3>1 DEF AskedInv
  <2>5. CASE ~link.up
    BY <2>2, <2>3, <2>5 DEF LinkInv, Silent
  <2> QED BY <2>2, <2>4, <2>5
<1>3. ASSUME NEW i \in DOMAIN down', down'[i][1] = "frame" PROVE down'[i][2] \in peer'.asked \cup Dead'
  <2>1. PICK j \in DOMAIN down : down[j] = down'[i]
    BY <1>3
  <2>2. down[j][2] \in peer.asked \cup Dead
    BY <1>3, <2>1 DEF FrameInv
  <2> QED BY <2>1, <2>2
<1>4. ASSUME NEW p \in peer'.asked
      PROVE  Chain(down', p, page'[p]) /\ (p \in Sources' => ChainEnd(down', p, page'[p], sources'[p].sent))
  <2>1. CASE p \in peer.asked
    <3>1. Chain(down, p, page[p]) /\ (p \in Sources => ChainEnd(down, p, page[p], sources[p].sent))
      BY <2>1 DEF FrameInv
    <3>2. ChainEnd(down', p, page[p], 0)
      BY DEF ChainEnd
    <3> QED BY <1>1, <3>1, <3>2
  <2>2. CASE p \notin peer.asked
    <3>1. Frameless(down, p) /\ p \notin Sources'
      BY <1>2, <2>2
    <3>2. Chain(down, p, page[p])
      BY <3>1, ChainNone
    <3> QED BY <1>1, <3>1, <3>2
  <2> QED BY <2>1, <2>2
<1>5. (\A i \in DOMAIN down : down[i][1] = "frame" => down[i][2] \in peer.asked \cup Dead)'
  BY <1>3
<1> QED BY <1>4, <1>5 DEF FrameInv

\* So a frame that is laid on a page was drawn against that very page, or holds
\* the whole one, and is never mixed with another.
LEMMA FrameFits ==
    ASSUME LinkType, FrameInv, down # << >>, Head(down)[1] = "frame", Head(down)[2] \in peer.asked
    PROVE  Laid(page[Head(down)[2]], Head(down)[3], Head(down)[4]) = Head(down)[4]
<1> DEFINE p == Head(down)[2]
<1>1. p \in Panes /\ down \in Seq(Downs)
  <2>1. down \in Seq(Downs) /\ Head(down) \in Downs
    BY DEF LinkType
  <2> QED BY <2>1, PacketForms
<1>2. Chain(down, p, page[p])
  BY DEF FrameInv
<1>3. Head(down)[3] \in {0, page[p]}
  BY <1>1, <1>2, ChainTook
<1> QED BY <1>3 DEF Laid

\* What the owner sends follows what it sent, on what the peer has.
LEMMA FrameStep ==
    ASSUME LinkInv, TreeInv, HandlerInv(Handling, Dead), HandlerInv(Handling, Dead)', FrameInv,
           Dead \subseteq Dead', MirrorNext
    PROVE  FrameInv'
<1>1. /\ down \in Seq(Downs) /\ owner \in OwnerType /\ up \in Seq(Sent)
      /\ peer.asked \cap Dead = {} /\ peer.asked \subseteq Panes /\ page \in [Panes -> Nat]
      /\ peer \in PeerType /\ Sources \subseteq Panes /\ \A p \in Sources : sources[p] \in SourceType
  BY DEF LinkInv, LinkType, HandlerInv, Handlers, Handling, ToldInv, PeerType, Dead
<1>2. ASSUME UNCHANGED <<page, down>>, peer.asked \subseteq peer'.asked \cup Dead',
             peer'.asked = peer.asked \/ Sources' = Sources,
             \A p \in Sources' : sources'[p].sent = 0 \/ (p \in Sources /\ sources'[p].sent = sources[p].sent)
      PROVE  FrameInv'
  BY <1>2, FramesStay
<1>3. ASSUME UNCHANGED <<page, down>>, peer'.asked = peer.asked,
             \A p \in Sources' : sources'[p].sent = 0 \/ (p \in Sources /\ sources'[p].sent = sources[p].sent)
      PROVE  FrameInv'
  BY <1>2, <1>3
<1>4. ASSUME NEW y, y[1] # "frame", down' = Append(down, y), UNCHANGED <<page, peer, sources>>
      PROVE  FrameInv'
  <2> DEFINE d == down
             more == Append(d, y)
  <2>1. /\ Len(d) \in Nat /\ DOMAIN d = 1 .. Len(d) /\ DOMAIN more = 1 .. (Len(d) + 1)
        /\ more[Len(d) + 1] = y /\ \A i \in DOMAIN d : more[i] = d[i]
    BY <1>1
  <2>2. d \in Seq(Downs) /\ d = down /\ down' = more
    BY <1>1, <1>4
  <2> HIDE DEF d
  <2>3. \A p \in Panes : \A shown :
             /\ Chain(d, p, shown) => Chain(more, p, shown)
             /\ \A sent : ChainEnd(d, p, shown, sent) => ChainEnd(more, p, shown, sent)
    BY <1>4, <2>2, ChainMore
  <2> HIDE DEF more
  <2>4. \A i \in DOMAIN more : more[i][1] = "frame" => \E j \in DOMAIN d : d[j] = more[i]
    BY <1>4, <2>1
  <2>5. Sources' = Sources
    BY <1>4 DEF Sources
  <2> QED BY <1>4, <2>2, <2>3, <2>4, <2>5, FramesStay
<1>5. ASSUME down # << >>, Head(down)[1] # "frame", down' = Tail(down), UNCHANGED <<page, sources>>,
             peer.asked \subseteq peer'.asked \cup Dead'
      PROVE  FrameInv'
  <2> DEFINE d == down
             less == Tail(d)
  <2>1. /\ Len(d) \in Nat /\ DOMAIN d = 1 .. Len(d)
        /\ DOMAIN less = 1 .. (Len(d) - 1) /\ \A i \in DOMAIN less : less[i] = d[i + 1]
    BY <1>1, <1>5
  <2>2. d \in Seq(Downs) /\ d = down /\ down' = less /\ d # << >> /\ Head(d)[1] # "frame"
    BY <1>1, <1>5
  <2> HIDE DEF d
  <2>3. \A p \in Panes : \A shown :
             /\ Chain(d, p, shown) => Chain(less, p, shown)
             /\ \A sent : ChainEnd(d, p, shown, sent) => ChainEnd(less, p, shown, sent)
    BY <2>2, ChainLess
  <2> HIDE DEF less
  <2>4. \A i \in DOMAIN less : i + 1 \in DOMAIN d /\ d[i + 1] = less[i]
    BY <2>1
  <2>5. Sources' = Sources
    BY <1>5 DEF Sources
  <2> QED BY <1>5, <2>2, <2>3, <2>4, <2>5, FramesStay
<1>6. CASE down' \in {<< >>, << <<"accepted">> >>} /\ Sources' = {}
  <2>1. \A i \in DOMAIN down' : down'[i][1] # "frame"
    BY <1>6
  <2>2. \A p : Frameless(down', p)
    BY <2>1 DEF Frameless, FrameIn
  <2>3. \A p \in peer'.asked : Chain(down', p, page'[p])
    BY <2>2, ChainNone
  <2> QED BY <1>6, <2>1, <2>3 DEF FrameInv
<1>7. ASSUME NEW panes \in SUBSET peer.tree, SyncSight(panes) \/ SyncFocus(panes) PROVE FrameInv'
  <2>1. PICK h, dead : h = Handling /\ dead = Dead
    OBVIOUS
  <2>2. HandlerInv(h, dead) /\ h.peer = peer /\ h.peer.tree \cap dead = {}
    BY <2>1 DEF Handling, Dead
  <2>3. PICK t : (t = Sight(h, panes) \/ t = FocusOn(h, panes)) /\ peer' = t.peer
    BY <1>7, <2>1 DEF SyncSight, SyncFocus, Done
  <2>4. peer.asked \ dead \subseteq t.peer.asked
    BY <2>2, <2>3, SightKeeps, FocusOnKeeps
  <2>5. UNCHANGED <<page, down, sources>>
    BY <1>7 DEF SyncSight, SyncFocus
  <2> QED BY <1>1, <1>2, <2>1, <2>3, <2>4, <2>5 DEF Sources
<1>8. CASE Dial
  BY <1>3, <1>8 DEF Dial, Sources
<1>9. CASE LinkGoes
  BY <1>6, <1>9 DEF LinkGoes, Sources
<1>10. CASE Takes
  <2>1. ASSUME NEW panes, NEW seen, TakeTree(panes, seen) PROVE FrameInv'
    <3>1. peer.asked \ Dead' \subseteq peer'.asked
      BY <2>1, TakesTree
    <3>2. down # << >> /\ Head(down)[1] = "tree" /\ down' = Tail(down) /\ UNCHANGED <<page, sources>>
      BY <2>1 DEF TakeTree
    <3> QED BY <1>5, <3>1, <3>2
  <2>2. CASE TakeAccepted \/ TakeRefusal
    <3>1. /\ down # << >> /\ Head(down)[1] # "frame" /\ down' = Tail(down) /\ UNCHANGED <<page, sources>>
          /\ peer'.asked = peer.asked
      BY <1>1, <2>2 DEF TakeAccepted, TakeRefusal, PeerType
    <3> QED BY <1>5, <3>1
  <2>3. CASE TakeFrame
    <3> DEFINE d == down
               less == Tail(d)
               p == Head(d)[2]
    <3>1. /\ Len(d) \in Nat /\ DOMAIN d = 1 .. Len(d)
          /\ DOMAIN less = 1 .. (Len(d) - 1) /\ \A i \in DOMAIN less : less[i] = d[i + 1]
      BY <1>1, <2>3 DEF TakeFrame
    <3>2. /\ d \in Seq(Downs) /\ d = down /\ down' = less /\ d # << >> /\ Head(d)[1] = "frame"
          /\ peer'.asked = peer.asked /\ sources' = sources /\ Sources' = Sources
          /\ IF p \in peer.asked THEN page' = [page EXCEPT ![p] = Head(d)[4]] ELSE page' = page
      <4>1. p \in peer.asked => Laid(page[p], Head(d)[3], Head(d)[4]) = Head(d)[4]
        BY <1>1, <2>3, FrameFits DEF TakeFrame, LinkInv
      <4> QED BY <1>1, <2>3, <4>1 DEF TakeFrame, Sources, PeerType
    <3> HIDE DEF d, p
    <3>3. \A i \in DOMAIN less : i + 1 \in DOMAIN d /\ d[i + 1] = less[i]
      <4> HIDE DEF less
      <4> QED BY <3>1
    <3>4. ASSUME NEW q \in peer.asked
          PROVE  Chain(less, q, page'[q]) /\ (q \in Sources => ChainEnd(less, q, page'[q], sources[q].sent))
      <4>1. Chain(d, q, page[q]) /\ (q \in Sources => ChainEnd(d, q, page[q], sources[q].sent))
        BY <3>2 DEF FrameInv
      <4>2. CASE q = p
        <5>1. page'[q] = Head(d)[4]
          BY <1>1, <3>2, <4>2
        <5>2. Head(d)[1] = "frame" /\ Head(d)[2] = q
          BY <3>2, <4>2 DEF p
        <5>3. Chain(less, q, Head(d)[4]) /\ \A sent : ChainEnd(d, q, page[q], sent) => ChainEnd(less, q, Head(d)[4], sent)
          BY <3>2, <4>1, <5>2, ChainTook
        <5> HIDE DEF less
        <5> QED BY <4>1, <5>1, <5>3
      <4>3. CASE q # p
        <5>1. page'[q] = page[q]
          BY <1>1, <3>2, <4>3
        <5>2. ~(Head(d)[1] = "frame" /\ Head(d)[2] = q)
          BY <3>2, <4>3 DEF p
        <5>3. Chain(less, q, page[q]) /\ \A sent : ChainEnd(d, q, page[q], sent) => ChainEnd(less, q, page[q], sent)
          BY <3>2, <4>1, <5>2, ChainLess
        <5> HIDE DEF less
        <5> QED BY <4>1, <5>1, <5>3
      <4> QED BY <4>2, <4>3
    <3> HIDE DEF less
    <3>5. \A i \in DOMAIN less : less[i][1] = "frame" => less[i][2] \in peer.asked \cup Dead
      BY <3>2, <3>3 DEF FrameInv
    <3>6. \A i \in DOMAIN down' : down'[i][1] = "frame" => down'[i][2] \in peer'.asked \cup Dead'
      BY <3>2, <3>5
    <3> QED BY <3>2, <3>4, <3>6 DEF FrameInv
  <2> QED BY <1>10, <2>1, <2>2, <2>3 DEF Takes
<1>11. CASE OwnerReads
  <2>1. UNCHANGED <<page, peer>> /\ up # << >>
    BY <1>11 DEF OwnerReads, OnPeer, OnWatch, OnMirror, OnPause, OnResume, OnStop, OnFocus, Reads
  <2>2. Head(up) \in Sent /\ Head(up) = up[1] /\ 1 \in DOMAIN up
    BY <1>1, <2>1
  <2>3. CASE OnPeer
    <3>1. Sources = {}
      BY <1>1, <2>2, <2>3, WordForms DEF OnPeer, Reads, HandlerInv, Handlers, Handling, Hello, Silent
    <3> QED BY <1>6, <2>3, <3>1 DEF OnPeer, Sources
  <2>4. CASE OnWatch
    BY <1>3, <2>1, <2>4 DEF OnWatch, Sources
  <2>5. CASE OnMirror
    <3>1. OfPane \in Panes /\ down' = down
      BY <2>2, <2>5, WordForms DEF OnMirror, Reads, OfPane
    <3>2. CASE UNCHANGED sources
      BY <1>3, <2>1, <3>1, <3>2 DEF Sources
    <3>3. CASE Queued(NewSource, OfPane)
      <4>1. NewSource \in SourceType /\ NewSource.sent = 0
        BY DEF NewSource, SourceType
      <4>2. /\ Sources' = Sources \cup {OfPane} /\ \A q \in Sources \ {OfPane} : sources'[q] = sources[q]
            /\ sources'[OfPane].sent = NewSource.sent
        BY <3>1, <3>3, <4>1, QueuedDoes DEF LinkInv
      <4> QED BY <1>3, <2>1, <3>1, <4>1, <4>2
    <3> QED BY <2>5, <3>2, <3>3 DEF OnMirror
  <2>6. CASE OnPause
    <3>1. sources' = [p \in Sources |-> [sources[p] EXCEPT !.paused = @ \/ p = OfPane]] /\ down' = down
      BY <2>6 DEF OnPause
    <3>2. Sources' = Sources
      BY <3>1 DEF Sources
    <3>3. \A p \in Sources : sources'[p].sent = sources[p].sent
      BY <1>1, <3>1 DEF SourceType
    <3> QED BY <1>3, <2>1, <3>1, <3>2, <3>3
  <2>7. CASE OnResume
    <3>1. OfPane \in Panes /\ down' = down
      BY <2>2, <2>7, WordForms DEF OnResume, Reads, OfPane
    <3>2. CASE UNCHANGED sources
      BY <1>3, <2>1, <3>1, <3>2 DEF Sources
    <3>3. CASE OfPane \in Sources /\ Queued(Resumed(sources[OfPane]), OfPane)
      <4> DEFINE p == OfPane
                 s == Resumed(sources[p])
      <4>1. Queued(s, p) /\ p \in Panes /\ p \in Sources
        BY <3>1, <3>3
      <4>2. s \in SourceType /\ s.sent = sources[p].sent
        <5>1. sources[p] \in SourceType
          BY <1>1, <3>3
        <5> QED BY <5>1 DEF Resumed, SourceType
      <4> HIDE DEF p, s
      <4>3. /\ Sources' = Sources \cup {p} /\ \A q \in Sources \ {p} : sources'[q] = sources[q]
            /\ sources'[p].sent = s.sent
        BY <4>1, <4>2, QueuedDoes DEF LinkInv
      <4> QED BY <1>3, <2>1, <3>1, <4>1, <4>2, <4>3
    <3> QED BY <2>7, <3>2, <3>3 DEF OnResume
  <2>8. CASE OnStop
    <3>1. sources' = [q \in Sources \ {OfPane} |-> sources[q]] /\ down' = down
      BY <2>8 DEF OnStop, Dropped
    <3>2. Sources' = Sources \ {OfPane} /\ \A q \in Sources' : sources'[q] = sources[q]
      BY <3>1 DEF Sources
    <3> QED BY <1>3, <2>1, <3>1, <3>2
  <2>9. CASE OnFocus
    <3>1. /\ down' = down
          /\ sources' = [p \in Sources |->
               IF p = OfPane THEN [sources[p] EXCEPT !.focused = Head(up)[1] = "focus"] ELSE sources[p]]
      BY <2>9 DEF OnFocus
    <3>2. Sources' = Sources
      BY <3>1 DEF Sources
    <3>3. \A p \in Sources : sources'[p].sent = sources[p].sent
      BY <1>1, <3>1 DEF SourceType
    <3> QED BY <1>3, <2>1, <3>1, <3>2, <3>3
  <2> QED BY <1>11, <2>3, <2>4, <2>5, <2>6, <2>7, <2>8, <2>9 DEF OwnerReads
<1>12. CASE WriteTree
  BY <1>4, <1>12 DEF WriteTree
<1>13. CASE WriteFrame
  <2> DEFINE p == Head(owner.queue)[2]
             s == sources[p]
             now == version[p]
  <2>1. UNCHANGED <<peer, page>>
    BY <1>13 DEF WriteFrame
  <2>2. CASE p \notin Sources
    BY <1>3, <1>13, <2>1, <2>2 DEF WriteFrame, Sources
  <2>3. CASE p \in Sources
    <3>1. /\ sources' = [sources EXCEPT ![p] = Framed(s, now)]
          /\ down' = IF ~s.paused /\ (s.sent # now \/ s.owed) THEN Append(down, <<"frame", p, s.sent, now>>)
                     ELSE down
      BY <1>13, <2>3 DEF WriteFrame
    <3>2. s \in SourceType /\ p \in Panes
      BY <1>1, <2>3
    <3> HIDE DEF now
    <3>3. Framed(s, now).sent = IF s.paused THEN s.sent ELSE now
      <4> HIDE DEF s
      <4> QED BY <3>2 DEF Framed, SourceType
    <3>4. /\ Sources' = Sources /\ \A q \in Sources \ {p} : sources'[q] = sources[q]
          /\ sources'[p].sent = IF s.paused THEN s.sent ELSE now
      BY <2>3, <3>1, <3>3 DEF Sources
    <3>5. CASE down' = down /\ sources'[p].sent = s.sent
      BY <1>3, <2>1, <3>4, <3>5
    <3>6. CASE down' = Append(down, <<"frame", p, s.sent, now>>) /\ sources'[p].sent = now
      <4> DEFINE d == down
                 sent == s.sent
                 y == <<"frame", p, sent, now>>
                 more == Append(d, y)
      <4>1. /\ DOMAIN d = 1 .. Len(d) /\ Len(d) \in Nat /\ DOMAIN more = 1 .. (Len(d) + 1)
            /\ more[Len(d) + 1] = y /\ \A i \in DOMAIN d : more[i] = d[i]
            /\ y[1] = "frame" /\ y[2] = p
        BY <1>1
      <4>2. d \in Seq(Downs) /\ d = down /\ down' = more
        BY <1>1, <3>6
      <4>3. p \in peer.asked \cup Dead
        <5>1. link.up
          BY <2>3 DEF LinkInv, Silent
        <5>2. AskedInv(peer, up, Dead)
          BY <5>1 DEF HandlerInv, Handling
        <5> HIDE DEF p
        <5> QED BY <2>3, <3>2, <5>2 DEF AskedInv
      <4>4. s = sources[p] /\ sent = s.sent
        OBVIOUS
      <4> HIDE DEF d, p, s, sent, y
      <4>5. ASSUME NEW q \in peer.asked
            PROVE  Chain(more, q, page[q]) /\ (q \in Sources => ChainEnd(more, q, page[q], sources'[q].sent))
        <5>1. Chain(d, q, page[q]) /\ (q \in Sources => ChainEnd(d, q, page[q], sources[q].sent))
          BY <4>2 DEF FrameInv
        <5>2. CASE q = p
          <6>1. Chain(d, p, page[p]) /\ ChainEnd(d, p, page[p], sent)
            BY <2>3, <4>4, <5>1, <5>2
          <6>2. Chain(more, p, page[p]) /\ ChainEnd(more, p, page[p], now)
            BY <4>2, <6>1, ChainWrote DEF y
          <6> HIDE DEF more
          <6> QED BY <3>6, <5>2, <6>2
        <5>3. CASE q # p
          <6>1. ~(y[1] = "frame" /\ y[2] = q)
            BY <4>1, <5>3
          <6>2. Chain(more, q, page[q]) /\ \A v : ChainEnd(d, q, page[q], v) => ChainEnd(more, q, page[q], v)
            BY <4>2, <5>1, <6>1, ChainMore
          <6> HIDE DEF more
          <6> QED BY <3>4, <5>1, <5>3, <6>2
        <5> QED BY <5>2, <5>3
      <4> HIDE DEF more
      <4>6. \A i \in DOMAIN more : more[i][1] = "frame" => more[i][2] \in peer.asked \cup Dead
        <5>1. \A i \in DOMAIN more : i \in DOMAIN d \/ more[i] = y
          BY <4>1
        <5> QED BY <4>1, <4>2, <4>3, <5>1 DEF FrameInv
      <4>7. \A i \in DOMAIN down' : down'[i][1] = "frame" => down'[i][2] \in peer'.asked \cup Dead'
        BY <2>1, <4>2, <4>6
      <4> QED BY <2>1, <3>4, <4>2, <4>5, <4>7 DEF FrameInv
    <3>7. down' = down => sources'[p].sent = s.sent \/ down' = Append(down, <<"frame", p, s.sent, now>>)
      <4> DEFINE y == <<"frame", p, s.sent, now>>
      <4> HIDE DEF s, p, y
      <4> QED BY <3>1, <3>4 DEF y
    <3>8. down' # down => down' = Append(down, <<"frame", p, s.sent, now>>) /\ sources'[p].sent = now
      <4> HIDE DEF s, p
      <4> QED BY <3>1, <3>4
    <3>9. down # Append(down, <<"frame", p, s.sent, now>>)
      <4> DEFINE y == <<"frame", p, s.sent, now>>
      <4> HIDE DEF y
      <4>1. Len(down) \in Nat /\ Len(Append(down, y)) = Len(down) + 1
        BY <1>1
      <4> QED BY <4>1 DEF y
    <3> QED BY <3>5, <3>6, <3>7, <3>8, <3>9
  <2> QED BY <2>2, <2>3
<1>14. CASE FrameFails
  <2> DEFINE p == Head(owner.queue)[2]
  <2>1. sources' = [q \in Sources \ {p} |-> sources[q]] /\ UNCHANGED <<peer, page, down>>
    BY <1>14 DEF FrameFails, Dropped, wire
  <2> HIDE DEF p
  <2>2. Sources' = Sources \ {p} /\ \A q \in Sources' : sources'[q] = sources[q]
    BY <2>1 DEF Sources
  <2> QED BY <1>3, <2>1, <2>2
<1>15. CASE QueueTree
  BY <1>3, <1>15 DEF QueueTree, wire, Sources
<1>16. ASSUME NEW p \in Panes, Refuse(p) PROVE FrameInv'
  BY <1>4, <1>16 DEF Refuse
<1>17. ASSUME NEW p \in Panes, Open(p) \/ Ends(p) PROVE FrameInv'
  BY <1>3, <1>17 DEF Open, Ends, wire, Sources
<1>18. ASSUME NEW p \in Panes, Prints(p) PROVE FrameInv'
  <2>1. UNCHANGED <<peer, page, down>>
    BY <1>18 DEF Prints, wire
  <2>2. CASE UNCHANGED sources
    BY <1>3, <2>1, <2>2 DEF Sources
  <2>3. CASE p \in Sources /\ Queued(sources[p], p)
    <3> DEFINE s == sources[p]
    <3>1. s \in SourceType /\ Queued(s, p) /\ p \in Sources
      BY <1>1, <2>3
    <3> HIDE DEF s
    <3>2. /\ Sources' = Sources \cup {p} /\ \A q \in Sources \ {p} : sources'[q] = sources[q]
          /\ sources'[p].sent = s.sent
      BY <3>1, QueuedDoes DEF LinkInv
    <3> QED BY <1>3, <2>1, <3>1, <3>2 DEF s
  <2> QED BY <1>18, <2>2, <2>3 DEF Prints
<1> QED BY <1>7, <1>8, <1>9, <1>10, <1>11, <1>12, <1>13, <1>14, <1>15, <1>16, <1>17, <1>18
        DEF MirrorNext, Writes

-----------------------------------------------------------------------------
\* A server that mirrors none yet, and no link.
LEMMA MirrorStarts == MirrorInit => MirrorInv
<1> SUFFICES ASSUME MirrorInit PROVE MirrorInv
  OBVIOUS
<1>1. /\ peer = Fresh /\ page = [p \in Panes |-> 0] /\ up = << >> /\ down = << >>
      /\ link = [number |-> 0, up |-> FALSE] /\ owner = NoLink /\ sources = << >>
      /\ life \in [Panes -> {"unborn", "alive"}] /\ version = [p \in Panes |-> 1]
  BY DEF MirrorInit
<1>2. Sources = {}
  BY <1>1 DEF Sources
<1>3. LinkInv
  <2>1. << >> \in Seq(Downs) /\ << >> \in Seq(Frames \cup TreesSent)
    OBVIOUS
  <2>2. owner \in OwnerType
    BY <1>1, <2>1 DEF NoLink, OwnerType
  <2>3. life \in [Panes -> {"unborn", "alive", "gone"}] /\ page \in [Panes -> Nat] /\ version \in [Panes -> Nat]
    BY <1>1
  <2> QED BY <1>1, <1>2, <2>1, <2>2, <2>3 DEF LinkInv, LinkType, Silent
<1>4. Fresh \in PeerType
  <2>1. << <<"watch">> >> \in Seq(Keys)
    <3>1. <<"watch">> \in Keys
      BY DEF Keys
    <3> QED BY <3>1
  <2> QED BY <2>1 DEF Fresh, PeerType
<1>5. TreeInv
  <2>1. Flow = << >> \o << >>
    BY <1>1 DEF Flow, NoLink
  <2>2. Trees = {}
    BY <2>1 DEF Trees
  <2>3. peer.tree = {}
    BY <1>1 DEF Fresh
  <2> QED BY <2>2, <2>3 DEF TreeInv
<1>6. HandlerInv(Handling, Dead)
  <2>1. Handling \in Handlers
    <3>1. << >> \in Seq(Sent)
      OBVIOUS
    <3> QED BY <1>1, <1>4, <3>1 DEF Handling, Handlers, Hello
  <2>2. ToldInv(peer, Dead)
    <3>1. peer.asked = {} /\ peer.streaming = {} /\ peer.focused = {} /\ peer.tree = {} /\ peer.told = << <<"watch">> >>
      BY <1>1 DEF Fresh
    <3>2. IsInjective(peer.told)
      BY <3>1 DEF IsInjective
    <3>3. \A k, p : ~Holding(peer, k, p)
      BY <3>1 DEF Holding, Range
    <3> QED BY <1>1, <1>4, <3>1, <3>2, <3>3 DEF ToldInv
  <2> QED BY <1>1, <2>1, <2>2 DEF HandlerInv, Handling
<1>7. FrameInv
  BY <1>1 DEF FrameInv, Fresh
<1> QED BY <1>3, <1>5, <1>6, <1>7 DEF MirrorInv

\* Each step leaves the links, the trees, the keys and the frames in order.
LEMMA MirrorSteps == MirrorInv /\ [MirrorNext]_mirrorVars => MirrorInv'
<1> SUFFICES ASSUME MirrorInv, [MirrorNext]_mirrorVars PROVE MirrorInv'
  OBVIOUS
<1>1. LinkInv /\ TreeInv /\ HandlerInv(Handling, Dead) /\ FrameInv
  BY DEF MirrorInv
<1>2. CASE MirrorNext
  <2>1. LinkType /\ up \in Seq(Sent) /\ peer \in PeerType
    BY <1>1 DEF LinkInv, HandlerInv, Handlers, Handling
  <2>2. LinkType'
    BY <1>2, <2>1, TypeStep
  <2>3. TreeInv' /\ Dead \subseteq Dead'
    BY <1>1, <1>2, <2>2, TreeStep
  <2>4. HandlerInv(Handling, Dead)'
    BY <1>1, <1>2, <2>3, HandlerStep
  <2>5. LinkInv'
    BY <1>1, <1>2, <2>2, <2>4, LinkStep
  <2>6. FrameInv'
    BY <1>1, <1>2, <2>3, <2>4, FrameStep
  <2> QED BY <2>3, <2>4, <2>5, <2>6 DEF MirrorInv
<1>3. CASE UNCHANGED mirrorVars
  <2>1. UNCHANGED <<peer, page, up, down, link, owner, sources, life, version>>
    BY <1>3 DEF mirrorVars, wire, world
  <2>2. /\ Sources' = Sources /\ Silent' = Silent /\ Flow' = Flow /\ Trees' = Trees /\ Dead' = Dead
        /\ Handling' = Handling
    BY <2>1 DEF Sources, Silent, Flow, Trees, Dead, Handling
  <2>3. LinkInv' /\ TreeInv' /\ FrameInv'
    BY <1>1, <2>1, <2>2 DEF LinkInv, LinkType, TreeInv, FrameInv
  <2>4. HandlerInv(Handling, Dead)'
    <3>1. PICK t, dead : t = Handling /\ dead = Dead
      OBVIOUS
    <3>2. HandlerInv(t, dead) /\ peer' = t.peer /\ up' = t.up
      BY <1>1, <2>1, <3>1 DEF Handling
    <3> QED BY <2>1, <2>2, <3>1, <3>2, OwnerKeeps
  <2> QED BY <2>3, <2>4 DEF MirrorInv
<1> QED BY <1>2, <1>3

\* Over every run: the peer holds what its programs are, in the order the owner
\* has to hear it; what is on its way makes the owner lend that; the trees take
\* for good what they take; the frames of a pane follow each other.
THEOREM MirrorAlways == MirrorSpec => []MirrorInv
BY MirrorStarts, MirrorSteps, PTL DEF MirrorSpec

\* OwnerFollows: whenever the owner has read everything, it lends what the peer
\* asked for, streams what somebody at the peer sees and has the focus where they
\* have it, through every order of words, trees and links.
THEOREM OwnerAlwaysFollows == MirrorSpec => []OwnerFollows
<1>1. MirrorInv => OwnerFollows
  <2> SUFFICES ASSUME MirrorInv, link.up, up = << >>
               PROVE  /\ Sources \subseteq peer.asked
                      /\ \A p \in peer.asked \ Sources :
                           p \in peer.refused \cup owner.refusing \/ <<"refused", p>> \in Range(down)
                      /\ \A p \in Sources : /\ sources[p].paused = (p \notin peer.streaming)
                                            /\ sources[p].focused = (p \in peer.focused)
    BY DEF OwnerFollows
  <2>1. AskedInv(peer, up, Dead) /\ WantedInv(peer, up) /\ peer \in PeerType
    BY DEF MirrorInv, HandlerInv, Handlers, Handling
  <2>2. \A k, p : ~Said(up, k, p)
    BY DEF Said, Range
  <2>3. \A words : Unsaid(up, words)
    BY DEF Unsaid
  <2>4. Sources \subseteq Panes /\ (\A p \in Sources : sources[p] \in SourceType) /\ peer.asked \subseteq Panes
    BY <2>1 DEF MirrorInv, LinkInv, LinkType, PeerType
  <2>5. Sources \subseteq peer.asked
    BY <2>1, <2>2, <2>4 DEF AskedInv
  <2>6. \A p \in peer.asked \ Sources :
          p \in peer.refused \cup owner.refusing \/ <<"refused", p>> \in Range(down)
    BY <2>1, <2>2, <2>4 DEF AskedInv
  <2>7. ASSUME NEW p \in Sources
        PROVE  sources[p].paused = (p \notin peer.streaming) /\ sources[p].focused = (p \in peer.focused)
    <3>1. sources[p].paused \in BOOLEAN /\ sources[p].focused \in BOOLEAN
      BY <2>4 DEF SourceType
    <3>2. (sources[p].paused <=> p \notin peer.streaming) /\ (sources[p].focused <=> p \in peer.focused)
      BY <2>1, <2>3, <2>5 DEF WantedInv
    <3> QED BY <3>1, <3>2
  <2> QED BY <2>5, <2>6, <2>7
<1> QED BY <1>1, MirrorAlways, PTL

-----------------------------------------------------------------------------
(* The pages that the mirror shows. *)

\* The frames of p in d are of pages between `low` and `high`, and none is of
\* a page before the one of a frame ahead of it.
Ages(d, p, low, high) ==
  \A i \in DOMAIN d : FrameIn(d, p, i) =>
    /\ d[i][4] \in 1 .. high /\ low <= d[i][4]
    /\ \A j \in DOMAIN d : i < j /\ FrameIn(d, p, j) => d[i][4] <= d[j][4]

\* What is on its way of a pane are pages that its program had, from the one that
\* the peer shows on; nothing is of a pane that is not there yet.
PagesInv ==
  \A p \in Panes :
    /\ version[p] >= 1 /\ page[p] <= version[p]
    /\ Ages(down, p, page[p], version[p])
    /\ life[p] = "unborn" => p \notin Sources /\ Frameless(down, p)

\* A packet is taken...
LEMMA AgesLess ==
    ASSUME NEW d \in Seq(Downs), d # << >>, NEW p, NEW low, NEW high, Ages(d, p, low, high)
    PROVE  Ages(Tail(d), p, low, high) /\ (Frameless(d, p) => Frameless(Tail(d), p))
<1> DEFINE less == Tail(d)
<1>1. /\ Len(d) \in Nat /\ DOMAIN d = 1 .. Len(d)
      /\ DOMAIN less = 1 .. (Len(d) - 1) /\ \A i \in DOMAIN less : less[i] = d[i + 1]
  OBVIOUS
<1> HIDE DEF less
<1>2. \A i \in DOMAIN less : i \in Int /\ i + 1 \in DOMAIN d /\ (FrameIn(less, p, i) <=> FrameIn(d, p, i + 1))
  BY <1>1 DEF FrameIn
<1>3. ASSUME NEW i \in DOMAIN less, FrameIn(less, p, i)
      PROVE  /\ less[i][4] \in 1 .. high /\ low <= less[i][4]
             /\ \A j \in DOMAIN less : i < j /\ FrameIn(less, p, j) => less[i][4] <= less[j][4]
  <2>1. i \in Int /\ i + 1 \in DOMAIN d /\ FrameIn(d, p, i + 1) /\ less[i] = d[i + 1]
    BY <1>1, <1>2, <1>3
  <2>2. /\ d[i + 1][4] \in 1 .. high /\ low <= d[i + 1][4]
        /\ \A j \in DOMAIN d : i + 1 < j /\ FrameIn(d, p, j) => d[i + 1][4] <= d[j][4]
    BY <2>1 DEF Ages
  <2>3. ASSUME NEW j \in DOMAIN less, i < j, FrameIn(less, p, j) PROVE less[i][4] <= less[j][4]
    <3>1. j \in Int /\ j + 1 \in DOMAIN d /\ FrameIn(d, p, j + 1) /\ less[j] = d[j + 1]
      BY <1>1, <1>2, <2>3
    <3>2. i + 1 < j + 1
      BY <2>1, <2>3, <3>1
    <3> QED BY <2>1, <2>2, <3>1, <3>2
  <2> QED BY <2>1, <2>2, <2>3
<1>4. Ages(less, p, low, high)
  BY <1>3 DEF Ages
<1>5. Frameless(d, p) => Frameless(less, p)
  BY <1>2 DEF Frameless
<1> QED BY <1>4, <1>5 DEF less

\* ...and the frame of p that is taken is of no page after one still to come...
LEMMA AgesTook ==
    ASSUME NEW d \in Seq(Downs), d # << >>, NEW p, Head(d)[1] = "frame", Head(d)[2] = p,
           NEW low, NEW high, Ages(d, p, low, high)
    PROVE  /\ Head(d)[4] \in 1 .. high /\ low <= Head(d)[4]
           /\ Ages(Tail(d), p, Head(d)[4], high) /\ ~Frameless(d, p)
<1> DEFINE less == Tail(d)
<1>1. /\ Len(d) \in Nat /\ DOMAIN d = 1 .. Len(d) /\ 1 \in DOMAIN d /\ Head(d) = d[1]
      /\ DOMAIN less = 1 .. (Len(d) - 1) /\ \A i \in DOMAIN less : less[i] = d[i + 1]
  OBVIOUS
<1>2. Ages(less, p, low, high)
  BY AgesLess
<1> HIDE DEF less
<1>3. FrameIn(d, p, 1)
  BY <1>1 DEF FrameIn
<1>4. /\ d[1][4] \in 1 .. high /\ low <= d[1][4]
      /\ \A j \in DOMAIN d : 1 < j /\ FrameIn(d, p, j) => d[1][4] <= d[j][4]
  BY <1>1, <1>3 DEF Ages
<1>5. ASSUME NEW i \in DOMAIN less, FrameIn(less, p, i) PROVE d[1][4] <= less[i][4]
  <2>1. 1 < i + 1 /\ i + 1 \in DOMAIN d /\ FrameIn(d, p, i + 1) /\ less[i] = d[i + 1]
    BY <1>1, <1>5 DEF FrameIn
  <2> QED BY <1>4, <2>1
<1>6. Ages(less, p, d[1][4], high)
  BY <1>2, <1>5 DEF Ages
<1> QED BY <1>1, <1>3, <1>4, <1>6 DEF less, Frameless

\* ...another packet is written...
LEMMA AgesMore ==
    ASSUME NEW d \in Seq(Downs), NEW p, NEW y, ~(y[1] = "frame" /\ y[2] = p),
           NEW low, NEW high, Ages(d, p, low, high)
    PROVE  Ages(Append(d, y), p, low, high) /\ (Frameless(d, p) => Frameless(Append(d, y), p))
<1> DEFINE more == Append(d, y)
<1>1. /\ DOMAIN d = 1 .. Len(d) /\ DOMAIN more = 1 .. (Len(d) + 1) /\ Len(d) \in Nat
      /\ more[Len(d) + 1] = y /\ \A i \in DOMAIN d : more[i] = d[i]
  OBVIOUS
<1> HIDE DEF more
<1>2. \A i \in DOMAIN more : FrameIn(more, p, i) => i \in DOMAIN d /\ FrameIn(d, p, i) /\ more[i] = d[i]
  BY <1>1 DEF FrameIn
<1>3. Ages(more, p, low, high)
  BY <1>2 DEF Ages
<1>4. Frameless(d, p) => Frameless(more, p)
  BY <1>2 DEF Frameless
<1> QED BY <1>3, <1>4 DEF more

\* ...or a frame of the page that p has now.
LEMMA AgesWrote ==
    ASSUME NEW d \in Seq(Downs), NEW p, NEW low, NEW now \in Nat, low <= now, now >= 1,
           NEW sent, Ages(d, p, low, now)
    PROVE  Ages(Append(d, <<"frame", p, sent, now>>), p, low, now)
<1> DEFINE y == <<"frame", p, sent, now>>
           more == Append(d, y)
           n == Len(d) + 1
<1>1. /\ DOMAIN more = 1 .. n /\ DOMAIN d = 1 .. (n - 1) /\ n \in Nat
      /\ more[n] = y /\ \A i \in DOMAIN d : more[i] = d[i]
  OBVIOUS
<1>2. y[4] = now
  OBVIOUS
<1> HIDE DEF more, y, n
<1>3. \A i \in DOMAIN more : i \in Int /\ i <= n /\ (i = n \/ i \in DOMAIN d)
  BY <1>1
<1>4. \A i \in DOMAIN d : FrameIn(more, p, i) <=> FrameIn(d, p, i)
  BY <1>1 DEF FrameIn
<1>5. ASSUME NEW i \in DOMAIN more, FrameIn(more, p, i)
      PROVE  more[i][4] \in 1 .. now /\ low <= more[i][4]
  BY <1>1, <1>2, <1>3, <1>4, <1>5 DEF Ages
<1>6. ASSUME NEW i \in DOMAIN more, NEW j \in DOMAIN more, i < j, FrameIn(more, p, i), FrameIn(more, p, j)
      PROVE  more[i][4] <= more[j][4]
  <2>1. i \in DOMAIN d /\ FrameIn(d, p, i) /\ more[i] = d[i]
    <3>1. i # n
      BY <1>1, <1>3, <1>6
    <3> QED BY <1>1, <1>3, <1>4, <1>6, <3>1
  <2>2. CASE j = n
    <3>1. more[i][4] \in 1 .. now /\ more[j][4] = now
      BY <1>1, <1>2, <1>5, <1>6, <2>2
    <3> QED BY <3>1
  <2>3. CASE j \in DOMAIN d
    <3>1. FrameIn(d, p, j) /\ more[j] = d[j]
      BY <1>1, <1>4, <1>6, <2>3
    <3> QED BY <1>6, <2>1, <2>3, <3>1 DEF Ages
  <2> QED BY <1>3, <2>2, <2>3
<1>7. Ages(more, p, low, now)
  BY <1>5, <1>6 DEF Ages
<1> QED BY <1>7 DEF more, y

\* The page of a program only gets newer.
LEMMA AgesWiden ==
    ASSUME NEW d, NEW p, NEW low, NEW high \in Nat, NEW higher \in Nat, high <= higher, Ages(d, p, low, high)
    PROVE  Ages(d, p, low, higher)
<1>1. \A n \in 1 .. high : n \in 1 .. higher
  OBVIOUS
<1> QED BY <1>1 DEF Ages

\* No page is shown and none is new; what is on its way is less, or more by a
\* packet that is no frame.
LEMMA PagesStand ==
    ASSUME LinkType, PagesInv, UNCHANGED <<page, version, life>>, Sources' \subseteq Sources \cup Alive,
           \/ down' = down \/ down' = << >> \/ down' = << <<"accepted">> >>
           \/ down # << >> /\ down' = Tail(down)
           \/ \E y : y[1] # "frame" /\ down' = Append(down, y)
    PROVE  PagesInv'
<1>1. down \in Seq(Downs)
  BY DEF LinkType
<1>2. ASSUME NEW p \in Panes
      PROVE  /\ Ages(down', p, page[p], version[p])
             /\ Frameless(down, p) => Frameless(down', p)
  <2>1. Ages(down, p, page[p], version[p])
    BY DEF PagesInv
  <2>2. CASE down' = down
    BY <2>1, <2>2
  <2>3. CASE down' = << >> \/ down' = << <<"accepted">> >>
    <3>1. \A i \in DOMAIN down' : down'[i][1] # "frame"
      BY <2>3
    <3> QED BY <3>1 DEF Ages, Frameless, FrameIn
  <2>4. CASE down # << >> /\ down' = Tail(down)
    BY <1>1, <2>1, <2>4, AgesLess
  <2>5. ASSUME NEW y, y[1] # "frame", down' = Append(down, y)
        PROVE  Ages(down', p, page[p], version[p]) /\ (Frameless(down, p) => Frameless(down', p))
    BY <1>1, <2>1, <2>5, AgesMore
  <2> QED BY <2>2, <2>3, <2>4, <2>5
<1>3. \A p \in Alive : life[p] # "unborn"
  BY DEF Alive
<1> QED BY <1>2, <1>3 DEF PagesInv

\* Most steps show no page, and make none.
LEMMA StillPages ==
    ASSUME LinkInv, HandlerInv(Handling, Dead),
           \/ \E panes \in SUBSET peer.tree : SyncSight(panes) \/ SyncFocus(panes)
           \/ Dial \/ LinkGoes \/ TakeAccepted \/ TakeRefusal
           \/ \E panes, seen \in SUBSET Panes : TakeTree(panes, seen)
           \/ OwnerReads \/ WriteTree \/ FrameFails \/ QueueTree
           \/ \E p \in Panes : Refuse(p)
    PROVE  /\ UNCHANGED <<page, version, life>> /\ Sources' \subseteq Sources \cup Alive
           /\ \/ down' = down \/ down' = << >> \/ down' = << <<"accepted">> >>
              \/ down # << >> /\ down' = Tail(down)
              \/ \E y : y[1] # "frame" /\ down' = Append(down, y)
<1>1. ASSUME NEW panes, SyncSight(panes) \/ SyncFocus(panes)
      PROVE  UNCHANGED <<page, version, life, down, sources>>
  BY <1>1 DEF SyncSight, SyncFocus, world
<1>2. CASE Dial
  BY <1>2 DEF Dial, world, Sources
<1>3. CASE LinkGoes
  BY <1>3 DEF LinkGoes, world, Sources
<1>4. CASE TakeAccepted \/ TakeRefusal
  BY <1>4 DEF TakeAccepted, TakeRefusal, world, Sources
<1>5. ASSUME NEW panes, NEW seen, TakeTree(panes, seen)
      PROVE  UNCHANGED <<page, version, life, sources>> /\ down # << >> /\ down' = Tail(down)
  BY <1>5 DEF TakeTree, world
<1>6. CASE OwnerReads
  <2>1. UNCHANGED <<page, version, life>>
    BY <1>6 DEF OwnerReads, OnPeer, OnWatch, OnMirror, OnPause, OnResume, OnStop, OnFocus, Reads, world
  <2>2. down' = down \/ down' = << <<"accepted">> >>
    BY <1>6 DEF OwnerReads, OnPeer, OnWatch, OnMirror, OnPause, OnResume, OnStop, OnFocus
  <2>3. ASSUME OnPeer \/ OnWatch PROVE Sources' \subseteq Sources \cup Alive
    BY <2>3 DEF OnPeer, OnWatch, Sources
  <2>4. ASSUME OnMirror PROVE Sources' \subseteq Sources \cup Alive
    <3>1. CASE UNCHANGED sources
      BY <3>1 DEF Sources
    <3>2. CASE OfPane \in Sources \cup Alive /\ Queued(NewSource, OfPane)
      <4>1. Sources' = Sources \cup {OfPane}
        BY <3>2 DEF Queued, Sources
      <4> QED BY <3>2, <4>1
    <3> QED BY <2>4, <3>1, <3>2 DEF OnMirror
  <2>5. ASSUME OnResume PROVE Sources' \subseteq Sources \cup Alive
    <3>1. CASE UNCHANGED sources
      BY <3>1 DEF Sources
    <3>2. CASE OfPane \in Sources /\ Queued(Resumed(sources[OfPane]), OfPane)
      <4>1. Sources' = Sources \cup {OfPane}
        BY <3>2 DEF Queued, Sources
      <4> QED BY <3>2, <4>1
    <3> QED BY <2>5, <3>1, <3>2 DEF OnResume
  <2>6. ASSUME OnPause \/ OnFocus PROVE Sources' \subseteq Sources \cup Alive
    BY <2>6 DEF OnPause, OnFocus, Sources
  <2>7. ASSUME OnStop PROVE Sources' \subseteq Sources \cup Alive
    BY <2>7 DEF OnStop, Dropped, Sources
  <2>8. Sources' \subseteq Sources \cup Alive
    BY <1>6, <2>3, <2>4, <2>5, <2>6, <2>7 DEF OwnerReads
  <2> QED BY <2>1, <2>2, <2>8
<1>7. CASE WriteTree
  <2>1. /\ UNCHANGED <<page, version, life, sources>>
        /\ Head(owner.queue)[1] # "frame" /\ down' = Append(down, Head(owner.queue))
    BY <1>7 DEF WriteTree, world
  <2> QED BY <2>1 DEF Sources
<1>8. CASE FrameFails
  BY <1>8 DEF FrameFails, Dropped, world, wire, Sources
<1>9. CASE QueueTree
  BY <1>9 DEF QueueTree, world, wire, Sources
<1>10. ASSUME NEW p \in Panes, Refuse(p)
       PROVE  UNCHANGED <<page, version, life, sources>> /\ \E y : y[1] # "frame" /\ down' = Append(down, y)
  <2>1. <<"refused", p>>[1] # "frame" /\ down' = Append(down, <<"refused", p>>)
    BY <1>10 DEF Refuse
  <2> QED BY <1>10, <2>1 DEF Refuse, world
<1> QED BY <1>1, <1>2, <1>3, <1>4, <1>5, <1>6, <1>7, <1>8, <1>9, <1>10 DEF Sources

\* No page is shown of a pane, and nothing is on its way.
LEMMA PagesStart == MirrorInit => PagesInv /\ Shown!PageInit
<1> SUFFICES ASSUME MirrorInit PROVE PagesInv /\ Shown!PageInit
  OBVIOUS
<1>1. /\ page = [p \in Panes |-> 0] /\ version = [p \in Panes |-> 1] /\ down = << >> /\ sources = << >>
      /\ life \in [Panes -> {"unborn", "alive"}]
  BY DEF MirrorInit
<1>2. \A p : Ages(down, p, page[p], version[p]) /\ Frameless(down, p)
  BY <1>1 DEF Ages, Frameless
<1>3. Sources = {}
  BY <1>1 DEF Sources
<1> QED BY <1>1, <1>2, <1>3 DEF PagesInv, Shown!PageInit

\* Each step is one of PageSpec, or none.
LEMMA PagesStep ==
    ASSUME MirrorInv, PagesInv, [MirrorNext]_mirrorVars
    PROVE  PagesInv' /\ [Shown!PageNext]_(Shown!pageVars)
<1>1. /\ LinkInv /\ LinkType /\ FrameInv /\ HandlerInv(Handling, Dead)
      /\ down \in Seq(Downs) /\ page \in [Panes -> Nat] /\ version \in [Panes -> Nat]
      /\ life \in [Panes -> {"unborn", "alive", "gone"}]
  BY DEF MirrorInv, LinkInv, LinkType
<1>2. ASSUME UNCHANGED <<page, version, life>> PROVE [Shown!PageNext]_(Shown!pageVars)
  BY <1>2 DEF Shown!pageVars
<1>3. CASE UNCHANGED mirrorVars
  <2>1. UNCHANGED <<page, version, life, down, sources>>
    BY <1>3 DEF mirrorVars, wire, world
  <2>2. Sources' = Sources
    BY <2>1 DEF Sources
  <2> QED BY <1>1, <1>2, <2>1, <2>2, PagesStand
<1>4. CASE \/ \E panes \in SUBSET peer.tree : SyncSight(panes) \/ SyncFocus(panes)
           \/ Dial \/ LinkGoes \/ TakeAccepted \/ TakeRefusal
           \/ \E panes, seen \in SUBSET Panes : TakeTree(panes, seen)
           \/ OwnerReads \/ WriteTree \/ FrameFails \/ QueueTree
           \/ \E p \in Panes : Refuse(p)
  BY <1>1, <1>2, <1>4, StillPages, PagesStand
<1>5. CASE TakeFrame
  <2> DEFINE p == Head(down)[2]
             now == Head(down)[4]
  <2>1. /\ down # << >> /\ Head(down)[1] = "frame" /\ down' = Tail(down)
        /\ UNCHANGED <<version, life, sources>>
    BY <1>5 DEF TakeFrame, world
  <2>2. Sources' = Sources
    BY <2>1 DEF Sources
  <2>3. CASE page' = page
    BY <1>1, <1>2, <2>1, <2>2, <2>3, PagesStand
  <2>4. CASE p \in peer.asked
    <3>1. p \in Panes
      BY <1>1, <2>1, PacketForms
    <3>2. page' = [page EXCEPT ![p] = now]
      <4>1. Laid(page[p], Head(down)[3], now) = now
        BY <1>1, <2>1, <2>4, FrameFits
      <4> QED BY <1>5, <2>4, <4>1 DEF TakeFrame
    <3> HIDE DEF p, now
    <3>3. Ages(down, p, page[p], version[p]) /\ (life[p] = "unborn" => Frameless(down, p))
      BY <3>1 DEF PagesInv
    <3>4. /\ now \in 1 .. version[p] /\ page[p] <= now
          /\ Ages(Tail(down), p, now, version[p]) /\ life[p] # "unborn"
      BY <1>1, <2>1, <3>3, AgesTook DEF p, now
    <3>5. page'[p] = now /\ \A q \in Panes \ {p} : page'[q] = page[q]
      BY <1>1, <3>1, <3>2
    <3>6. \A q \in Panes : /\ Ages(down', q, page[q], version[q])
                           /\ Frameless(down, q) => Frameless(down', q)
      BY <1>1, <2>1, AgesLess DEF PagesInv
    <3>7. now <= version[p]
      BY <1>1, <3>1, <3>4
    <3>8. PagesInv'
      BY <2>1, <2>2, <3>4, <3>5, <3>6, <3>7 DEF PagesInv
    <3>9. Shown!Shows(p)
      BY <2>1, <3>2, <3>4 DEF Shown!Shows
    <3> QED BY <3>1, <3>8, <3>9 DEF Shown!PageNext
  <2> QED BY <1>5, <2>3, <2>4 DEF TakeFrame
<1>6. CASE WriteFrame
  <2> DEFINE p == Head(owner.queue)[2]
             now == version[p]
  <2>1. UNCHANGED <<page, version, life>>
    BY <1>6 DEF WriteFrame, world
  <2>2. Sources' = Sources
    BY <1>6 DEF WriteFrame, Sources
  <2>3. CASE down' = down
    BY <1>1, <1>2, <2>1, <2>2, <2>3, PagesStand
  <2>4. ASSUME NEW sent, p \in Sources, down' = Append(down, <<"frame", p, sent, now>>)
        PROVE  PagesInv'
    <3>1. p \in Panes
      BY <1>1, <2>4 DEF LinkType
    <3> HIDE DEF p
    <3>2. now \in Nat /\ now >= 1 /\ page[p] <= now /\ Ages(down, p, page[p], now) /\ life[p] # "unborn"
      BY <1>1, <2>4, <3>1 DEF PagesInv
    <3> HIDE DEF now
    <3>3. Ages(down', p, page[p], now)
      BY <1>1, <2>4, <3>2, AgesWrote
    <3>4. \A q \in Panes \ {p} : Ages(down', q, page[q], version[q]) /\ (Frameless(down, q) => Frameless(down', q))
      <4> DEFINE y == <<"frame", p, sent, now>>
      <4>1. y[2] = p /\ down' = Append(down, y)
        BY <2>4
      <4> HIDE DEF y
      <4> QED BY <1>1, <4>1, AgesMore DEF PagesInv
    <3>5. now = version[p]
      BY DEF now
    <3> QED BY <2>1, <2>2, <3>2, <3>3, <3>4, <3>5 DEF PagesInv
  <2>5. down' = down \/ (p \in Sources /\ \E sent : down' = Append(down, <<"frame", p, sent, now>>))
    BY <1>6 DEF WriteFrame
  <2> QED BY <1>2, <2>1, <2>3, <2>4, <2>5
<1>7. ASSUME NEW p \in Panes, Open(p) PROVE PagesInv' /\ Shown!PageNext
  <2>1. /\ life[p] = "unborn" /\ life' = [life EXCEPT ![p] = "alive"]
        /\ UNCHANGED <<page, version, down, sources>>
    BY <1>7 DEF Open, wire
  <2>2. Sources' = Sources /\ \A q \in Panes : life'[q] = "unborn" => life[q] = "unborn"
    BY <1>1, <2>1 DEF Sources
  <2>3. PagesInv'
    BY <2>1, <2>2 DEF PagesInv
  <2>4. Shown!Opens(p)
    BY <2>1 DEF Shown!Opens
  <2> QED BY <2>3, <2>4 DEF Shown!PageNext
<1>8. ASSUME NEW p \in Panes, Ends(p) PROVE PagesInv' /\ Shown!PageNext
  <2>1. /\ life[p] = "alive" /\ life' = [life EXCEPT ![p] = "gone"]
        /\ UNCHANGED <<page, version, down, sources>>
    BY <1>8 DEF Ends, wire
  <2>2. Sources' = Sources /\ \A q \in Panes : life'[q] = "unborn" => life[q] = "unborn"
    BY <1>1, <2>1 DEF Sources
  <2>3. PagesInv'
    BY <2>1, <2>2 DEF PagesInv
  <2>4. Shown!Closes(p)
    BY <2>1 DEF Shown!Closes
  <2> QED BY <2>3, <2>4 DEF Shown!PageNext
<1>9. ASSUME NEW p \in Panes, Prints(p) PROVE PagesInv' /\ Shown!PageNext
  <2>1. /\ life[p] = "alive" /\ version' = [version EXCEPT ![p] = @ + 1]
        /\ UNCHANGED <<page, life, down>>
    BY <1>9 DEF Prints, wire
  <2>2. Sources' = Sources
    <3>1. CASE UNCHANGED sources
      BY <3>1 DEF Sources
    <3>2. CASE p \in Sources /\ Queued(sources[p], p)
      <4>1. Sources' = Sources \cup {p}
        BY <3>2 DEF Queued, Sources
      <4> QED BY <3>2, <4>1
    <3> QED BY <1>9, <3>1, <3>2 DEF Prints
  <2>3. ASSUME NEW q \in Panes
        PROVE  version'[q] >= 1 /\ page[q] <= version'[q] /\ Ages(down, q, page[q], version'[q])
    <3>1. /\ version[q] \in Nat /\ version'[q] \in Nat /\ version[q] <= version'[q] /\ page[q] \in Nat
      BY <1>1, <2>1
    <3>2. version[q] >= 1 /\ page[q] <= version[q] /\ Ages(down, q, page[q], version[q])
      BY DEF PagesInv
    <3> QED BY <3>1, <3>2, AgesWiden
  <2>4. PagesInv'
    BY <2>1, <2>2, <2>3 DEF PagesInv
  <2>5. Shown!NewPage(p)
    BY <2>1 DEF Shown!NewPage
  <2> QED BY <2>4, <2>5 DEF Shown!PageNext
<1>10. CASE MirrorNext
  BY <1>4, <1>5, <1>6, <1>7, <1>8, <1>9, <1>10 DEF MirrorNext, Takes, Writes
<1> QED BY <1>3, <1>10

\* ShowsItsPages: a mirror is one of PageSpec.  Through every order of frames,
\* pauses, resumes, refusals, trees and links, what it shows of a pane is a page
\* that the program had, whole, and none is before one that it showed.
THEOREM MirrorShowsItsPages == MirrorSpec => ShowsItsPages
<1>1. MirrorInit => PagesInv /\ Shown!PageInit
  BY PagesStart
<1>2. MirrorInv /\ PagesInv /\ [MirrorNext]_mirrorVars => PagesInv' /\ [Shown!PageNext]_(Shown!pageVars)
  BY PagesStep
<1> QED BY <1>1, <1>2, MirrorAlways, PTL DEF MirrorSpec, ShowsItsPages, Shown!PageSpecification

=============================================================================
