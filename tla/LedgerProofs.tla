----------------------------- MODULE LedgerProofs -----------------------------
(***************************************************************************)
(* What holds of any log, and what the insertion of a transaction changes; *)
(* before it, what the sums and the sorted sequences of the model rest on. *)
(* The modules about the service cite these facts by name.                 *)
(***************************************************************************)
EXTENDS Ledger, SequencesExt, FiniteSetTheorems, WellFoundedInduction, TLAPS

(* Induction, of which the library states no form that the provers instantiate.    *)

\* Induction over the naturals, as a fact about a set.
LEMMA NaturalsInSet ==
    ASSUME NEW G, 0 \in G, \A n \in Nat : n \in G => n + 1 \in G
    PROVE  \A n \in Nat : n \in G
  <1> DEFINE Bad == {n \in Nat : n \notin G}
  <1> SUFFICES ASSUME Bad # {} PROVE FALSE
    OBVIOUS
  <1>1. PICK n \in Bad : \A m \in Bad : ~ (<<m, n>> \in OpToRel(<, Nat))
    <2>1. Bad \subseteq Nat
      OBVIOUS
    <2> HIDE DEF Bad
    <2> QED
      BY <2>1, NatLessThanWellFounded, WFMin
  <1>2. n - 1 \in Bad
    OBVIOUS
  <1>3. <<n - 1, n>> \in OpToRel(<, Nat)
    BY <1>2 DEF OpToRel
  <1> QED
    BY <1>1, <1>2, <1>3

\* Induction over the subsets of a finite set, likewise.
LEMMA SubsetsInSet ==
    ASSUME NEW S, IsFiniteSet(S), NEW G,
           \A U \in SUBSET S : (\A x \in U : U \ {x} \in G) => U \in G
    PROVE  \A U \in SUBSET S : U \in G
  <1> DEFINE Bad == {U \in SUBSET S : U \notin G}
  <1> SUFFICES ASSUME Bad # {} PROVE FALSE
    OBVIOUS
  <1>1. PICK U \in Bad : \A V \in Bad : ~ (<<V, U>> \in StrictSubsetOrdering(S))
    <2>1. Bad \subseteq FiniteSubsetsOf(S)
      BY FS_FiniteSubsetsOfFinite
    <2> HIDE DEF Bad
    <2> QED
      BY <2>1, FS_StrictSubsetOrderingWellFounded, WFMin
  <1>2. ASSUME NEW x \in U PROVE U \ {x} \in G
    <2>1. <<U \ {x}, U>> \in StrictSubsetOrdering(S)
      BY DEF StrictSubsetOrdering
    <2> QED
      BY <1>1, <2>1
  <1> QED
    BY <1>2

-----------------------------------------------------------------------------
(* Sums over a finite set.                                                     *)

\* total is the function that MapThenSumSet defines for the terms F and reads at S.
IsFold(total, F, S) ==
    total = [T \in SUBSET S |->
               IF T = {} THEN 0
               ELSE LET x == CHOOSE x \in T : TRUE IN F[x] + total[T \ {x}]]

\* There is such a function, so that the CHOOSE in the definition finds it.
LEMMA FoldExists ==
    ASSUME NEW S, IsFiniteSet(S), NEW F, \A x \in S : F[x] \in Int
    PROVE  \E total : IsFold(total, F, S)
  <1> DEFINE Sum(g, T) == IF T = {} THEN 0
                          ELSE LET x == CHOOSE x \in T : TRUE IN F[x] + g[T \ {x}]
             Right(g, n) == \A T \in SUBSET S : Cardinality(T) <= n => g[T] = Sum(g, T)
             G == {n \in Nat : \E g \in [SUBSET S -> Int] : Right(g, n)}
  <1>1. \A T \in SUBSET S : /\ Cardinality(T) \in Nat
                            /\ Cardinality(T) = 0 <=> T = {}
                            /\ \A x \in T : Cardinality(T \ {x}) = Cardinality(T) - 1
    BY FS_Subset, FS_CardinalityType, FS_EmptySet, FS_RemoveElement
  <1>2. \A g \in [SUBSET S -> Int], T \in SUBSET S : Sum(g, T) \in Int
    OBVIOUS
  <1>3. 0 \in G
    <2>1. [T \in SUBSET S |-> 0] \in [SUBSET S -> Int]
      OBVIOUS
    <2>2. Right([T \in SUBSET S |-> 0], 0)
      BY <1>1
    <2> QED
      BY <2>1, <2>2
  <1>4. ASSUME NEW n \in Nat, n \in G PROVE n + 1 \in G
    <2>1. PICK g \in [SUBSET S -> Int] : Right(g, n)
      BY <1>4
    <2> DEFINE h == [T \in SUBSET S |-> Sum(g, T)]
    <2>2. h \in [SUBSET S -> Int]
      BY <1>2
    <2>3. ASSUME NEW T \in SUBSET S, Cardinality(T) <= n + 1 PROVE h[T] = Sum(h, T)
      <3>1. CASE T = {}
        BY <3>1
      <3>2. CASE T # {}
        <4> DEFINE x == CHOOSE x \in T : TRUE
        <4>1. x \in T /\ T \ {x} \in SUBSET S
          BY <3>2
        <4>2. Cardinality(T \ {x}) <= n
          BY <1>1, <2>3, <4>1
        <4>3. g[T \ {x}] = Sum(g, T \ {x})
          BY <2>1, <4>1, <4>2
        <4>4. g[T \ {x}] = h[T \ {x}]
          BY <4>1, <4>3
        <4> QED
          BY <3>2, <4>4
      <3> QED
        BY <3>1, <3>2
    <2>4. Right(h, n + 1)
      <3> HIDE DEF h, Sum
      <3> QED
        BY <2>3
    <2> HIDE DEF h, Right
    <2> QED
      BY <2>2, <2>4
  <1>5. Cardinality(S) \in G
    <2> HIDE DEF G
    <2> QED
      BY <1>1, <1>3, <1>4, NaturalsInSet
  <1>6. PICK g \in [SUBSET S -> Int] : Right(g, Cardinality(S))
    BY <1>5
  <1>7. \A T \in SUBSET S : Cardinality(T) <= Cardinality(S)
    BY FS_Subset
  <1>8. g = [T \in SUBSET S |-> Sum(g, T)]
    BY <1>6, <1>7
  <1> QED
    BY <1>8 DEF IsFold

First(T) == CHOOSE x \in T : TRUE

\* What a proof needs of it: one step of the sum.
Totals(total, F, S) ==
    /\ total[{}] = 0
    /\ \A T \in SUBSET S : T # {} =>
          First(T) \in T /\ total[T] = F[First(T)] + total[T \ {First(T)}]

LEMMA FoldTotals ==
    ASSUME NEW S, NEW F, NEW total, IsFold(total, F, S)
    PROVE  Totals(total, F, S)
  BY DEF IsFold, First, Totals

LEMMA TotalType ==
    ASSUME NEW S, IsFiniteSet(S), NEW F, \A x \in S : F[x] \in Int,
           NEW total, Totals(total, F, S)
    PROVE  \A T \in SUBSET S : total[T] \in Int
  <1> DEFINE G == {T \in SUBSET S : total[T] \in Int}
  <1>1. ASSUME NEW T \in SUBSET S, \A x \in T : T \ {x} \in G PROVE T \in G
    <2>1. CASE T = {}
      BY <2>1 DEF Totals
    <2>2. CASE T # {}
      <3>1. PICK x \in T : total[T] = F[x] + total[T \ {x}]
        BY <2>2 DEF Totals
      <3> QED
        BY <1>1, <3>1
    <2> QED
      BY <2>1, <2>2
  <1>2. \A T \in SUBSET S : T \in G
    <2> HIDE DEF G
    <2> QED
      BY <1>1, SubsetsInSet
  <1> QED
    BY <1>2

\* Two sums whose terms differ at most at y differ by that difference.
LEMMA TotalChange ==
    ASSUME NEW S, IsFiniteSet(S), NEW F, \A x \in S : F[x] \in Int,
           NEW y, NEW d \in Int,
           NEW H, \A x \in S : H[x] = IF x = y THEN F[x] + d ELSE F[x],
           NEW total, Totals(total, F, S), NEW other, Totals(other, H, S)
    PROVE  other[S] = IF y \in S THEN total[S] + d ELSE total[S]
  <1> DEFINE G == {T \in SUBSET S : other[T] = IF y \in T THEN total[T] + d ELSE total[T]}
  <1>1. ASSUME NEW T \in SUBSET S, \A x \in T : T \ {x} \in G PROVE T \in G
    <2>1. CASE T = {}
      BY <2>1 DEF Totals
    <2>2. CASE T # {}
      <3>1. PICK x \in T : /\ total[T] = F[x] + total[T \ {x}]
                           /\ other[T] = H[x] + other[T \ {x}]
        BY <2>2 DEF Totals
      <3>2. /\ total[T \ {x}] \in Int /\ F[x] \in Int
            /\ other[T \ {x}] = IF y \in T \ {x} THEN total[T \ {x}] + d ELSE total[T \ {x}]
            /\ H[x] = IF x = y THEN F[x] + d ELSE F[x]
        BY <1>1, TotalType
      <3> QED
        BY <3>1, <3>2
    <2> QED
      BY <2>1, <2>2
  <1>2. \A T \in SUBSET S : T \in G
    <2> HIDE DEF G
    <2> QED
      BY <1>1, SubsetsInSet
  <1> QED
    BY <1>2

\* Two sums of the same terms are the same.
LEMMA TotalsAgree ==
    ASSUME NEW S, IsFiniteSet(S), NEW F, \A x \in S : F[x] \in Int,
           NEW H, \A x \in S : H[x] = F[x],
           NEW total, Totals(total, F, S), NEW other, Totals(other, H, S)
    PROVE  other[S] = total[S] /\ total[S] \in Int
  <1>1. \A x \in S : H[x] = IF x = 0 THEN F[x] + 0 ELSE F[x]
    OBVIOUS
  <1>2. total[S] \in Int
    BY TotalType
  <1>3. other[S] = IF 0 \in S THEN total[S] + 0 ELSE total[S]
    BY <1>1, TotalChange
  <1> QED
    BY <1>2, <1>3

\* A sum of natural numbers is at least each of them, and 0 if they all are.
LEMMA TotalBounds ==
    ASSUME NEW S, IsFiniteSet(S), NEW F, \A x \in S : F[x] \in Nat,
           NEW total, Totals(total, F, S)
    PROVE  /\ total[S] \in Nat
           /\ \A x \in S : F[x] <= total[S]
           /\ (\A x \in S : F[x] = 0) => total[S] = 0
  <1> DEFINE G == {T \in SUBSET S : /\ total[T] \in Nat
                                    /\ \A x \in T : F[x] <= total[T]
                                    /\ (\A x \in T : F[x] = 0) => total[T] = 0}
  <1>1. ASSUME NEW T \in SUBSET S, \A x \in T : T \ {x} \in G PROVE T \in G
    <2>1. CASE T = {}
      BY <2>1 DEF Totals
    <2>2. CASE T # {}
      <3>1. PICK x \in T : total[T] = F[x] + total[T \ {x}]
        BY <2>2 DEF Totals
      <3>2. /\ F[x] \in Nat
            /\ total[T \ {x}] \in Nat
            /\ \A y \in T \ {x} : F[y] \in Nat /\ F[y] <= total[T \ {x}]
            /\ (\A y \in T \ {x} : F[y] = 0) => total[T \ {x}] = 0
        BY <1>1
      <3>3. total[T] \in Nat /\ F[x] <= total[T]
        BY <3>1, <3>2
      <3>4. ASSUME NEW y \in T, y # x PROVE F[y] <= total[T]
        <4>1. F[y] \in Nat /\ F[y] <= total[T \ {x}]
          BY <3>2, <3>4
        <4> QED
          BY <3>1, <3>2, <4>1
      <3>5. (\A y \in T : F[y] = 0) => total[T] = 0
        BY <3>1, <3>2
      <3> QED
        BY <3>3, <3>4, <3>5
    <2> QED
      BY <2>1, <2>2
  <1>2. \A T \in SUBSET S : T \in G
    <2> HIDE DEF G
    <2> QED
      BY <1>1, SubsetsInSet
  <1> QED
    BY <1>2

-----------------------------------------------------------------------------
(* Finite sets of transactions, and their order by timestamp.                   *)

Stamped(log, I) == \A i \in I : i \in Nat /\ log[i].timestamp \in Int

\* A finite set of transactions that is not empty has a latest one.
LEMMA LatestInFinite ==
    ASSUME NEW log, NEW I, IsFiniteSet(I), Stamped(log, I)
    PROVE  \A U \in SUBSET I : U # {} => \E i \in U : \A j \in U : NotAfter(log, j, i)
  <1> DEFINE G == {U \in SUBSET I :
                     U # {} => \E i \in U : \A j \in U : NotAfter(log, j, i)}
  <1>1. ASSUME NEW U \in SUBSET I, \A i \in U : U \ {i} \in G PROVE U \in G
    <2> SUFFICES ASSUME NEW k \in U PROVE \E i \in U : \A j \in U : NotAfter(log, j, i)
      OBVIOUS
    <2>1. \A i, j \in U : /\ NotAfter(log, i, i)
                          /\ NotAfter(log, i, j) \/ NotAfter(log, j, i)
      BY DEF Stamped, NotAfter
    <2>2. \A h, i, j \in U : NotAfter(log, h, i) /\ NotAfter(log, i, j) => NotAfter(log, h, j)
      BY DEF Stamped, NotAfter
    <2>3. CASE U = {k}
      BY <2>1, <2>3
    <2>4. CASE U # {k}
      <3>1. PICK i \in U \ {k} : \A j \in U \ {k} : NotAfter(log, j, i)
        BY <1>1, <2>4
      <3> QED
        BY <2>1, <2>2, <3>1
    <2> QED
      BY <2>3, <2>4
  <1>2. \A U \in SUBSET I : U \in G
    <2> HIDE DEF G
    <2> QED
      BY <1>1, SubsetsInSet
  <1> QED
    BY <1>2

InOrder(log, h) == \A i, j \in DOMAIN h : i < j => NotAfter(log, h[i], h[j])

\* list.sort has a result: a finite set of transactions can be put in order.
LEMMA CanBeSorted ==
    ASSUME NEW log, NEW I, IsFiniteSet(I), Stamped(log, I)
    PROVE  \E h \in SetToSeqs(I) : InOrder(log, h)
  <1> DEFINE G == {U \in SUBSET I : \E h \in SetToSeqs(U) : InOrder(log, h)}
  <1>1. ASSUME NEW U \in SUBSET I, \A i \in U : U \ {i} \in G PROVE U \in G
    <2>1. CASE U = {}
      <3>1. <<>> \in SetToSeqs(U)
        BY <2>1, FS_EmptySet DEF SetToSeqs
      <3>2. InOrder(log, <<>>)
        BY DEF InOrder
      <3> QED
        BY <3>1, <3>2
    <2>2. CASE U # {}
      <3>1. PICK last \in U : \A j \in U : NotAfter(log, j, last)
        BY <2>2, LatestInFinite
      <3>2. PICK h \in SetToSeqs(U \ {last}) : InOrder(log, h)
        BY <1>1
      <3>3. PICK n \in Nat : n = Cardinality(U) - 1 /\ n = Cardinality(U \ {last})
        BY FS_Subset, FS_CardinalityType, FS_RemoveElement, FS_EmptySet
      <3>4. /\ h \in [1..n -> U \ {last}]
            /\ \A i, j \in 1..n : i # j => h[i] # h[j]
        BY <3>2, <3>3 DEF SetToSeqs
      <3> DEFINE k == [i \in 1..n + 1 |-> IF i = n + 1 THEN last ELSE h[i]]
      <3>5. /\ k \in [1..n + 1 -> U]
            /\ \A i \in 1..n : k[i] = h[i]
            /\ k[n + 1] = last
        BY <3>4
      <3> HIDE DEF k
      <3>6. \A i, j \in 1..n + 1 : i # j => k[i] # k[j]
        BY <3>4, <3>5
      <3>7. Cardinality(U) = n + 1
        BY <3>3, FS_Subset, FS_CardinalityType
      <3>8. k \in SetToSeqs(U)
        BY <3>5, <3>6, <3>7 DEF SetToSeqs
      <3>9. InOrder(log, k)
        <4> SUFFICES ASSUME NEW i \in 1..n + 1, NEW j \in 1..n + 1, i < j
                     PROVE  NotAfter(log, k[i], k[j])
          BY <3>5 DEF InOrder
        <4>1. CASE j = n + 1
          BY <3>1, <3>5, <4>1
        <4>2. CASE j # n + 1
          BY <3>2, <3>4, <3>5, <4>2 DEF InOrder
        <4> QED
          BY <4>1, <4>2
      <3> QED
        BY <3>8, <3>9
    <2> QED
      BY <2>1, <2>2
  <1>2. \A U \in SUBSET I : U \in G
    <2> HIDE DEF G
    <2> QED
      BY <1>1, SubsetsInSet
  <1> QED
    BY <1>2

\* The last of the sorted transactions is the latest.
LEMMA LastIsLatest ==
    ASSUME NEW log, NEW I, IsFiniteSet(I), Stamped(log, I), I # {},
           NEW h \in SetToSeqs(I), InOrder(log, h)
    PROVE  /\ Cardinality(I) \in Nat \ {0}
           /\ DOMAIN h = 1..Cardinality(I)
           /\ h[Cardinality(I)] \in I
           /\ \A j \in I : NotAfter(log, j, h[Cardinality(I)])
  <1> PICK n : n = Cardinality(I)
    OBVIOUS
  <1>1. n \in Nat \ {0}
    BY FS_CardinalityType, FS_EmptySet
  <1>2. h \in [1..n -> I] /\ \A i, j \in 1..n : i # j => h[i] # h[j]
    BY DEF SetToSeqs
  <1>3. \A j \in I : \E i \in 1..n : h[i] = j
    <2>1. h \in Injection(1..n, I)
      BY <1>2 DEF Injection, IsInjective
    <2>2. Cardinality(1..n) = n
      BY <1>1, FS_Interval
    <2>3. h \in Surjection(1..n, I)
      BY <2>1, <2>2, FS_Injection
    <2> QED
      BY <2>3 DEF Surjection
  <1>4. ASSUME NEW j \in I PROVE NotAfter(log, j, h[n])
    <2>1. PICK i \in 1..n : h[i] = j
      BY <1>3
    <2>2. CASE i = n
      BY <1>1, <1>2, <2>1, <2>2 DEF NotAfter, Stamped
    <2>3. CASE i # n
      BY <1>1, <1>2, <2>1, <2>3 DEF InOrder
    <2> QED
      BY <2>2, <2>3
  <1> QED
    BY <1>1, <1>2, <1>4


-----------------------------------------------------------------------------
(* Histories and the subscription in force.                                     *)

\* A history that is not empty has a latest transaction, so that LatestOf is one.
HasLatest(log, s, f) ==
    History(log, s, f) # {} =>
        \E i \in History(log, s, f) :
            \A j \in History(log, s, f) : NotAfter(log, j, i)

LEMMA HistoryIsFinite ==
    ASSUME NEW S, \A x \in S : x.timestamp \in Int, NEW log \in Seq(S), NEW s, NEW f
    PROVE  IsFiniteSet(History(log, s, f)) /\ Stamped(log, History(log, s, f))
  <1>1. IsFiniteSet(1..Len(log))
    BY FS_Interval
  <1>2. History(log, s, f) \subseteq 1..Len(log)
    BY DEF History
  <1>3. \A i \in 1..Len(log) : i \in Nat /\ log[i].timestamp \in Int
    OBVIOUS
  <1> QED
    BY <1>1, <1>2, <1>3, FS_Subset DEF Stamped

LEMMA LogHasLatest ==
    ASSUME NEW S, \A x \in S : x.timestamp \in Int, NEW log \in Seq(S), NEW s, NEW f
    PROVE  HasLatest(log, s, f)
  <1>1. IsFiniteSet(History(log, s, f)) /\ Stamped(log, History(log, s, f))
    BY HistoryIsFinite
  <1> QED
    BY <1>1, LatestInFinite DEF HasLatest

\* The scan of create_transactions (funds.py:111-121) yields no subscription, or one
\* of this user under this fund_id after which nothing of theirs was recorded.
LEMMA ActiveSubscriptionIsLatest ==
    ASSUME NEW log, NEW s, NEW f, HasLatest(log, s, f),
           NEW active, active = ActiveSubscription(log, s, f), 0 \notin DOMAIN log
    PROVE  /\ active # 0 =>
                /\ active \in History(log, s, f)
                /\ log[active].transaction_type = "subscribe"
                /\ \A j \in History(log, s, f) : NotAfter(log, j, active)
           /\ active = 0 /\ History(log, s, f) # {} =>
                LET i == LatestOf(log, History(log, s, f)) IN
                /\ i \in History(log, s, f)
                /\ log[i].transaction_type # "subscribe"
                /\ \A j \in History(log, s, f) : NotAfter(log, j, i)
  <1> DEFINE I == History(log, s, f)
             i == LatestOf(log, I)
  <1>1. CASE I = {}
    BY <1>1 DEF ActiveSubscription
  <1>2. CASE I # {}
    <2>1. i \in I /\ \A j \in I : NotAfter(log, j, i)
      BY <1>2 DEF HasLatest, LatestOf
    <2>2. i # 0
      BY <2>1 DEF History
    <2> QED
      BY <1>2, <2>1, <2>2 DEF ActiveSubscription
  <1> QED
    BY <1>1, <1>2

\* An insertion adds its position to the history it belongs to, and to no other.
LEMMA AppendHistory ==
    ASSUME NEW S, NEW log \in Seq(S), NEW t \in S, NEW s, NEW f
    PROVE  History(Append(log, t), s, f) =
               History(log, s, f) \cup
               (IF t.user_id = s /\ t.fund_id = f THEN {Len(log) + 1} ELSE {})
  BY DEF History

-----------------------------------------------------------------------------
(* Logs whose timestamps never decrease.                                       *)

\* What makes timestamps and positions comparable.
WellTimed(log) ==
    \A i \in DOMAIN log : i \in Nat \ {0} /\ log[i].timestamp \in Int

Sorted(log) ==
    \A i, j \in DOMAIN log : i < j => log[i].timestamp <= log[j].timestamp

\* In a sorted log the scan looks at the last transaction of the history.
LEMMA SortedActiveIsLast ==
    ASSUME NEW log, WellTimed(log), Sorted(log), NEW s, NEW f, HasLatest(log, s, f),
           NEW last \in History(log, s, f), \A j \in History(log, s, f) : j <= last
    PROVE  ActiveSubscription(log, s, f) =
               IF log[last].transaction_type = "subscribe" THEN last ELSE 0
  <1> DEFINE I == History(log, s, f)
             i == LatestOf(log, I)
  <1>1. i \in I /\ \A j \in I : NotAfter(log, j, i)
    BY DEF HasLatest, LatestOf
  <1>2. /\ \A j \in I : j \in Nat /\ j \in DOMAIN log /\ log[j].timestamp \in Int
        /\ I # {}
    BY DEF History, WellTimed
  <1> HIDE DEF i, I
  <1>3. NotAfter(log, last, i) /\ i <= last /\ i \in I /\ last \in I
    BY <1>1 DEF I
  <1>4. i < last => log[i].timestamp <= log[last].timestamp
    BY <1>2, <1>3 DEF Sorted
  <1>5. i = last
    BY <1>2, <1>3, <1>4 DEF NotAfter
  <1> QED
    BY <1>2, <1>5 DEF ActiveSubscription, i, I

\* Conversely, what the scan finds in a sorted log is the last of the history.
LEMMA SortedActive ==
    ASSUME NEW log, WellTimed(log), Sorted(log), NEW s, NEW f, HasLatest(log, s, f),
           History(log, s, f) # {}
    PROVE  \E last \in History(log, s, f) :
               /\ \A j \in History(log, s, f) : j <= last
               /\ ActiveSubscription(log, s, f) =
                      IF log[last].transaction_type = "subscribe" THEN last ELSE 0
  <1> DEFINE I == History(log, s, f)
  <1>1. PICK i \in I : \A j \in I : NotAfter(log, j, i)
    BY DEF HasLatest
  <1>2. \A j \in I : j \in Nat /\ j \in DOMAIN log /\ log[j].timestamp \in Int
    BY DEF History, WellTimed
  <1>3. ASSUME NEW j \in I PROVE j <= i
    <2> HIDE DEF I
    <2>1. NotAfter(log, j, i)
      BY <1>1
    <2>2. i < j => log[i].timestamp <= log[j].timestamp
      BY <1>2 DEF Sorted
    <2> QED
      BY <1>2, <2>1, <2>2 DEF NotAfter
  <1> QED
    BY <1>3, SortedActiveIsLast

\* An insertion that is not before anything decides the state of its history, and
\* leaves that of the others alone.
LEMMA AppendActive ==
    ASSUME NEW S, \A x \in S : x.timestamp \in Int,
           NEW log \in Seq(S), Sorted(log), NEW t \in S,
           \A i \in DOMAIN log : log[i].timestamp <= t.timestamp,
           NEW s, NEW f
    PROVE  /\ Sorted(Append(log, t))
           /\ ActiveSubscription(Append(log, t), s, f) =
                 IF t.user_id = s /\ t.fund_id = f
                 THEN IF t.transaction_type = "subscribe" THEN Len(log) + 1 ELSE 0
                 ELSE ActiveSubscription(log, s, f)
  <1> DEFINE n == Len(log) + 1
  <1> SUFFICES ASSUME NEW new, new = Append(log, t)
               PROVE  /\ Sorted(new)
                      /\ ActiveSubscription(new, s, f) =
                            IF t.user_id = s /\ t.fund_id = f
                            THEN IF t.transaction_type = "subscribe" THEN n ELSE 0
                            ELSE ActiveSubscription(log, s, f)
    OBVIOUS
  <1>1. /\ new \in Seq(S)
        /\ DOMAIN new = DOMAIN log \cup {n}
        /\ n \in Nat \ {0}
        /\ \A i \in DOMAIN log : i \in Nat /\ i < n /\ new[i] = log[i]
        /\ new[n] = t
    OBVIOUS
  <1>2. WellTimed(log) /\ WellTimed(new)
    BY <1>1 DEF WellTimed
  <1> HIDE DEF n
  <1>3. Sorted(new)
    BY <1>1, <1>2 DEF Sorted
  <1>4. HasLatest(new, s, f) /\ HasLatest(log, s, f)
    BY <1>1, LogHasLatest
  <1>5. CASE t.user_id = s /\ t.fund_id = f
    <2>1. n \in History(new, s, f) /\ \A j \in History(new, s, f) : j <= n
      BY <1>1, <1>5 DEF History
    <2> QED
      <3>1. ActiveSubscription(new, s, f) =
                IF new[n].transaction_type = "subscribe" THEN n ELSE 0
        BY <1>2, <1>3, <1>4, <2>1, SortedActiveIsLast
      <3> QED
        BY <1>1, <1>3, <1>5, <3>1
  <1>6. CASE ~ (t.user_id = s /\ t.fund_id = f)
    <2>1. History(new, s, f) = History(log, s, f)
      BY <1>1, <1>6 DEF History
    <2>2. CASE History(log, s, f) = {}
      BY <1>3, <1>6, <2>1, <2>2 DEF ActiveSubscription
    <2>3. CASE History(log, s, f) # {}
      <3>1. PICK last \in History(log, s, f) :
                /\ \A j \in History(log, s, f) : j <= last
                /\ ActiveSubscription(log, s, f) =
                       IF log[last].transaction_type = "subscribe" THEN last ELSE 0
        BY <1>2, <1>4, <2>3, SortedActive
      <3>2. new[last] = log[last]
        BY <1>1 DEF History
      <3>3. ActiveSubscription(new, s, f) =
                IF new[last].transaction_type = "subscribe" THEN last ELSE 0
        BY <1>2, <1>3, <1>4, <2>1, <3>1, SortedActiveIsLast
      <3> QED
        BY <1>3, <1>6, <3>1, <3>2, <3>3
    <2> QED
      BY <2>2, <2>3
  <1> QED
    BY <1>3, <1>5, <1>6

\* An insertion follows the last transaction of its history, and changes nothing in
\* what followed what before.
LEMMA AppendFollows ==
    ASSUME NEW S, NEW log \in Seq(S), NEW t \in S
    PROVE  /\ \A i, j \in DOMAIN log :
                 Follows(Append(log, t), i, j) <=> Follows(log, i, j)
           /\ \A i \in DOMAIN Append(log, t) :
                 Follows(Append(log, t), i, Len(log) + 1) <=>
                     /\ i \in History(log, t.user_id, t.fund_id)
                     /\ \A k \in History(log, t.user_id, t.fund_id) : k <= i
  <1> SUFFICES ASSUME NEW new, new = Append(log, t), NEW n, n = Len(log) + 1
               PROVE  /\ \A i, j \in DOMAIN log : Follows(new, i, j) <=> Follows(log, i, j)
                      /\ \A i \in DOMAIN new :
                            Follows(new, i, n) <=>
                                /\ i \in History(log, t.user_id, t.fund_id)
                                /\ \A k \in History(log, t.user_id, t.fund_id) : k <= i
    OBVIOUS
  <1>1. /\ DOMAIN new = DOMAIN log \cup {n}
        /\ n \in Nat
        /\ \A i \in DOMAIN log : i \in Nat /\ i < n /\ new[i] = log[i]
        /\ new[n] = t
    OBVIOUS
  <1>2. ASSUME NEW i \in DOMAIN log, NEW j \in DOMAIN log
        PROVE  Follows(new, i, j) <=> Follows(log, i, j)
    <2>1. \A k \in DOMAIN log : SameKey(new, k, j) <=> SameKey(log, k, j)
      BY <1>1 DEF SameKey
    <2>2. \A k \in DOMAIN new : k \in DOMAIN log \/ j <= k
      BY <1>1
    <2> QED
      BY <1>1, <2>1, <2>2 DEF Follows
  <1>3. ASSUME NEW i \in DOMAIN new
        PROVE  Follows(new, i, n) <=>
                   /\ i \in History(log, t.user_id, t.fund_id)
                   /\ \A k \in History(log, t.user_id, t.fund_id) : k <= i
    <2>1. \A k \in DOMAIN new :
             k < n /\ SameKey(new, k, n) <=> k \in History(log, t.user_id, t.fund_id)
      <3>1. ASSUME NEW k \in DOMAIN log
            PROVE  SameKey(new, k, n) <=> k \in History(log, t.user_id, t.fund_id)
        BY <1>1 DEF SameKey, History
      <3>2. n \notin History(log, t.user_id, t.fund_id) /\ ~ (n < n)
        BY <1>1 DEF History
      <3> QED
        BY <1>1, <3>1, <3>2
    <2>2. \A k \in DOMAIN new : k \in Nat /\ k <= n
      BY <1>1
    <2>3. Follows(new, i, n) <=>
             /\ i < n /\ SameKey(new, i, n)
             /\ \A k \in DOMAIN new : k < n /\ SameKey(new, k, n) => k <= i
      BY <1>1, <2>2 DEF Follows
    <2> QED
      BY <1>1, <2>1, <2>3 DEF History
  <1> QED
    BY <1>2, <1>3

=============================================================================
