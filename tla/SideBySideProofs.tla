--------------------------- MODULE SideBySideProofs ---------------------------
(***************************************************************************)
(* Proofs about the six components that MCSideBySide runs: the streams of  *)
(* a spoken reply (S), the text turns of the orchestrator and the history  *)
(* that they leave (T), the pages of the desktop history (G), the          *)
(* proactive policy (P), the readiness of the providers (R) and the avatar *)
(* bridge. Each is proved for every value of its constants and from its    *)
(* own specification; TLC checks the same formulas on small instances.     *)
(***************************************************************************)
EXTENDS MCSideBySide, Selection, TLAPS, FiniteSetTheorems

-----------------------------------------------------------------------------
(* Induction over the naturals, from the library's theorems about sets: a  *)
(* nonempty set has a least element, and what holds for 0 and with n for   *)
(* n + 1 holds for all.                                                    *)
LEMMA LessIsWellFounded == IsWellFoundedOn({p \in Nat \X Nat : p[1] < p[2]}, Nat)
BY NatLessThanWellFounded DEF OpToRel

LEMMA LeastNatural ==
  ASSUME NEW set \in SUBSET Nat, set # {}
  PROVE  \E n \in set : \A m \in set : n <= m
<1>. DEFINE Less == {p \in Nat \X Nat : p[1] < p[2]}
<1>1. IsWellFoundedOn(Less, Nat)
  BY LessIsWellFounded
<1>. HIDE DEF Less
<1>2. \E n \in set : \A m \in set : ~(<<m, n>> \in Less)
  BY <1>1, WFMin
<1>3. ASSUME NEW n \in set, NEW m \in set, ~(<<m, n>> \in Less)  PROVE n <= m
  BY <1>3 DEF Less
<1>. QED  BY <1>2, <1>3

LEMMA NaturalInduction ==
  ASSUME NEW Holds \in SUBSET Nat, 0 \in Holds, \A n \in Holds : n + 1 \in Holds
  PROVE  Holds = Nat
<1>. SUFFICES ASSUME Nat \ Holds # {}  PROVE FALSE
  OBVIOUS
<1>1. PICK n \in Nat \ Holds : \A m \in Nat \ Holds : n <= m
  BY LeastNatural
<1>2. n # 0 /\ n - 1 \in Nat /\ n - 1 \in Holds
  BY <1>1
<1>. QED  BY <1>1, <1>2

-----------------------------------------------------------------------------
(* What Chosen yields (Selection). kept is the recursive function in it.   *)
IsKept(kept, seq, set, n) ==
  /\ kept[0] = <<>>
  /\ \A i \in 1..n : kept[i] = IF seq[i] \in set THEN Append(kept[i - 1], seq[i]) ELSE kept[i - 1]

(* Such a function exists for every list.                                  *)
LEMMA KeptExists ==
  ASSUME NEW seq, NEW set, NEW n \in Nat
  PROVE  \E kept : IsKept(kept, seq, set, n)
<1>. DEFINE Holds == {m \in Nat : \E kept : IsKept(kept, seq, set, m)}
<1>1. 0 \in Holds
  <2>1. IsKept([i \in {0} |-> <<>>], seq, set, 0)
    BY DEF IsKept
  <2>. QED  BY <2>1
<1>2. ASSUME NEW m \in Holds  PROVE m + 1 \in Holds
  <2>1. PICK kept : IsKept(kept, seq, set, m)
    OBVIOUS
  <2>. DEFINE last == IF seq[m + 1] \in set THEN Append(kept[m], seq[m + 1]) ELSE kept[m]
              next == [i \in 0..(m + 1) |-> IF i <= m THEN kept[i] ELSE last]
  <2>2. m \in Nat
    OBVIOUS
  <2>3. next[m + 1] = last /\ \A i \in 0..m : next[i] = kept[i]
    BY <2>2
  <2>. HIDE DEF next
  <2>4. next[0] = <<>>
    BY <2>1, <2>2, <2>3 DEF IsKept
  <2>5. ASSUME NEW i \in 1..(m + 1)
        PROVE  next[i] = IF seq[i] \in set THEN Append(next[i - 1], seq[i]) ELSE next[i - 1]
    <3>1. CASE i = m + 1
      BY <2>2, <2>3, <3>1
    <3>2. CASE i # m + 1
      <4>1. i \in 1..m /\ i - 1 \in 0..m /\ i \in 0..m
        BY <2>2, <3>2
      <4>. QED  BY <2>1, <2>3, <4>1 DEF IsKept
    <3>. QED  BY <3>1, <3>2
  <2>6. IsKept(next, seq, set, m + 1)
    BY <2>4, <2>5 DEF IsKept
  <2>. QED  BY <2>2, <2>6
<1>3. Holds = Nat
  <2>. HIDE DEF Holds
  <2>1. Holds \in SUBSET Nat
    BY DEF Holds
  <2>. QED  BY <1>1, <1>2, <2>1, NaturalInduction
<1>. QED  BY <1>3

(* Chosen is its last value.                                               *)
LEMMA ChosenIsKept ==
  ASSUME NEW seq, NEW set, Len(seq) \in Nat
  PROVE  \E kept : IsKept(kept, seq, set, Len(seq)) /\ Chosen(seq, set) = kept[Len(seq)]
<1>. DEFINE n == Len(seq)
            Body(f, i) == IF i = 0 THEN <<>>
                          ELSE IF seq[i] \in set THEN Append(f[i - 1], seq[i]) ELSE f[i - 1]
            kept == CHOOSE f : f = [i \in 0..n |-> Body(f, i)]
<1>1. Chosen(seq, set) = kept[n]
  BY DEF Chosen
<1>2. PICK some : IsKept(some, seq, set, n)
  BY KeptExists
<1>. DEFINE f == [i \in 0..n |-> some[i]]
<1>3. ASSUME NEW i \in 0..n  PROVE f[i] = Body(f, i)
  <2>1. CASE i = 0
    BY <1>2, <2>1 DEF IsKept
  <2>2. CASE i # 0
    <3>1. i \in 1..n /\ i - 1 \in 0..n
      BY <2>2
    <3>2. f[i] = some[i] /\ f[i - 1] = some[i - 1]
      BY <3>1
    <3>. QED  BY <1>2, <3>1, <3>2 DEF IsKept
  <2>. QED  BY <2>1, <2>2
<1>4. f = [i \in 0..n |-> f[i]]
  OBVIOUS
<1>5. f = [i \in 0..n |-> Body(f, i)]
  <2>. HIDE DEF f, Body
  <2>. QED  BY <1>3, <1>4
<1>6. kept = [i \in 0..n |-> Body(kept, i)]
  <2>. HIDE DEF f, Body
  <2>. QED  BY <1>5
<1>. HIDE DEF kept
<1>7. ASSUME NEW i \in 0..n  PROVE kept[i] = Body(kept, i)
  <2>. HIDE DEF Body
  <2>. QED  BY <1>6
<1>8. IsKept(kept, seq, set, n)
  BY <1>7 DEF IsKept
<1>. QED  BY <1>1, <1>8

(* at[k] is where the k-th element that was chosen stands in the sequence. *)
IsChosen(chosen, at, seq, set, n) ==
  /\ at \in [1..Len(chosen) -> 1..n]
  /\ \A k \in 1..Len(chosen) : chosen[k] = seq[at[k]]
  /\ \A k, l \in 1..Len(chosen) : k < l => at[k] < at[l]
  /\ \A i \in 1..n : seq[i] \in set <=> \E k \in 1..Len(chosen) : at[k] = i

(* One more element of the list.                                           *)
LEMMA ChosenOnce ==
  ASSUME NEW X, NEW seq \in Seq(X), NEW set, NEW n \in 0..(Len(seq) - 1),
         NEW chosen \in Seq(X), NEW at, IsChosen(chosen, at, seq, set, n),
         NEW next, next = IF seq[n + 1] \in set THEN Append(chosen, seq[n + 1]) ELSE chosen
  PROVE  next \in Seq(X) /\ \E then : IsChosen(next, then, seq, set, n + 1)
<1>1. n \in Nat /\ n + 1 \in 1..Len(seq) /\ seq[n + 1] \in X /\ Len(chosen) \in Nat
  OBVIOUS
<1>2. CASE seq[n + 1] \notin set
  <2>1. next = chosen
    BY <1>2
  <2>2. ASSUME NEW i \in 1..(n + 1)
        PROVE  seq[i] \in set <=> \E k \in 1..Len(chosen) : at[k] = i
    <3>1. CASE i = n + 1
      BY <1>1, <1>2, <3>1 DEF IsChosen
    <3>2. CASE i # n + 1
      BY <1>1, <3>2 DEF IsChosen
    <3>. QED  BY <3>1, <3>2
  <2>3. at \in [1..Len(chosen) -> 1..(n + 1)]
    BY <1>1 DEF IsChosen
  <2>4. IsChosen(chosen, at, seq, set, n + 1)
    BY <2>2, <2>3 DEF IsChosen
  <2>. QED  BY <2>1, <2>4
<1>3. CASE seq[n + 1] \in set
  <2>. DEFINE then == [k \in 1..(Len(chosen) + 1) |-> IF k <= Len(chosen) THEN at[k] ELSE n + 1]
  <2>1. /\ next \in Seq(X) /\ Len(next) = Len(chosen) + 1 /\ next[Len(chosen) + 1] = seq[n + 1]
        /\ \A k \in 1..Len(chosen) : next[k] = chosen[k]
    BY <1>1, <1>3
  <2>2. /\ then[Len(chosen) + 1] = n + 1
        /\ \A k \in 1..Len(chosen) : then[k] = at[k] /\ then[k] \in 1..n
    <3>1. at \in [1..Len(chosen) -> 1..n]
      BY DEF IsChosen
    <3>2. \A k \in 1..Len(chosen) : k <= Len(chosen) /\ k \in 1..(Len(chosen) + 1) /\ at[k] \in 1..n
      BY <1>1, <3>1
    <3>3. Len(chosen) + 1 \in 1..(Len(chosen) + 1) /\ ~(Len(chosen) + 1 <= Len(chosen))
      BY <1>1
    <3>. QED  BY <3>2, <3>3
  <2>3. then \in [1..Len(next) -> 1..(n + 1)]
    <3>1. then = [k \in 1..Len(next) |-> then[k]]
      BY <2>1
    <3>. HIDE DEF then
    <3>2. ASSUME NEW k \in 1..Len(next)  PROVE then[k] \in 1..(n + 1)
      <4>1. k \in 1..Len(chosen) \/ k = Len(chosen) + 1
        BY <1>1, <2>1
      <4>. QED  BY <1>1, <2>2, <4>1
    <3>. QED  BY <3>1, <3>2
  <2>. HIDE DEF then
  <2>4. ASSUME NEW k \in 1..Len(next)  PROVE next[k] = seq[then[k]]
    BY <1>1, <2>1, <2>2 DEF IsChosen
  <2>5. ASSUME NEW k \in 1..Len(next), NEW l \in 1..Len(next), k < l  PROVE then[k] < then[l]
    <3>1. CASE l = Len(chosen) + 1
      <4>1. k \in 1..Len(chosen)
        BY <1>1, <2>1, <2>5, <3>1
      <4>. QED  BY <1>1, <2>2, <3>1, <4>1
    <3>2. CASE l # Len(chosen) + 1
      <4>1. k \in 1..Len(chosen) /\ l \in 1..Len(chosen)
        BY <1>1, <2>1, <2>5, <3>2
      <4>. QED  BY <2>2, <2>5, <4>1 DEF IsChosen
    <3>. QED  BY <3>1, <3>2
  <2>6. ASSUME NEW i \in 1..(n + 1)
        PROVE  seq[i] \in set <=> \E k \in 1..Len(next) : then[k] = i
    <3>1. CASE i = n + 1
      BY <1>1, <1>3, <2>1, <2>2, <3>1
    <3>2. CASE i # n + 1
      <4>1. i \in 1..n
        BY <1>1, <3>2
      <4>2. seq[i] \in set <=> \E k \in 1..Len(chosen) : at[k] = i
        BY <4>1 DEF IsChosen
      <4>3. \A k \in 1..Len(next) : then[k] = i => k \in 1..Len(chosen)
        BY <1>1, <2>1, <2>2, <4>1
      <4>4. 1..Len(chosen) \subseteq 1..Len(next)
        BY <1>1, <2>1
      <4>. QED  BY <2>2, <4>2, <4>3, <4>4
    <3>. QED  BY <3>1, <3>2
  <2>7. IsChosen(next, then, seq, set, n + 1)
    BY <2>3, <2>4, <2>5, <2>6 DEF IsChosen
  <2>. QED  BY <2>1, <2>7
<1>. QED  BY <1>2, <1>3

(* What is chosen stands in the list, in its order and all of it.          *)
LEMMA ChosenAt ==
  ASSUME NEW X, NEW seq \in Seq(X), NEW set
  PROVE  /\ Chosen(seq, set) \in Seq(X)
         /\ \E at : IsChosen(Chosen(seq, set), at, seq, set, Len(seq))
<1>1. PICK kept : IsKept(kept, seq, set, Len(seq)) /\ Chosen(seq, set) = kept[Len(seq)]
  BY ChosenIsKept
<1>. DEFINE Good(n) == kept[n] \in Seq(X) /\ \E at : IsChosen(kept[n], at, seq, set, n)
            Holds == {n \in Nat : n <= Len(seq) => Good(n)}
<1>2. 0 \in Holds
  <2>1. kept[0] = <<>>
    BY <1>1 DEF IsKept
  <2>2. IsChosen(<<>>, <<>>, seq, set, 0)
    BY DEF IsChosen
  <2>3. Good(0)
    BY <2>1, <2>2
  <2>. QED  BY <2>3
<1>3. ASSUME NEW n \in Holds  PROVE n + 1 \in Holds
  <2>. SUFFICES ASSUME n + 1 <= Len(seq)  PROVE Good(n + 1)
    OBVIOUS
  <2>1. n \in 0..(Len(seq) - 1) /\ n + 1 \in 1..Len(seq) /\ (n + 1) - 1 = n
    OBVIOUS
  <2>2. Good(n)
    BY <2>1
  <2>3. kept[n + 1] = IF seq[n + 1] \in set THEN Append(kept[n], seq[n + 1]) ELSE kept[n]
    BY <1>1, <2>1 DEF IsKept
  <2>4. PICK at : IsChosen(kept[n], at, seq, set, n)
    BY <2>2
  <2>. QED  BY <2>1, <2>2, <2>3, <2>4, ChosenOnce
<1>4. Holds = Nat
  <2>. HIDE DEF Holds
  <2>1. Holds \in SUBSET Nat
    BY DEF Holds
  <2>. QED  BY <1>2, <1>3, <2>1, NaturalInduction
<1>5. Good(Len(seq))
  BY <1>4
<1>. QED  BY <1>1, <1>5

(* Two such functions that begin with the same list are the same so far.   *)
LEMMA KeptAlike ==
  ASSUME NEW n \in Nat, NEW one, NEW two, NEW set1, NEW set2, NEW kept1, NEW kept2,
         IsKept(kept1, one, set1, n), IsKept(kept2, two, set2, n),
         \A i \in 1..n : one[i] = two[i] /\ (one[i] \in set1 <=> two[i] \in set2)
  PROVE  kept1[n] = kept2[n]
<1>. DEFINE Holds == {m \in Nat : m <= n => kept1[m] = kept2[m]}
<1>1. 0 \in Holds
  BY DEF IsKept
<1>2. ASSUME NEW m \in Holds  PROVE m + 1 \in Holds
  <2>. SUFFICES ASSUME m + 1 <= n  PROVE kept1[m + 1] = kept2[m + 1]
    OBVIOUS
  <2>1. m + 1 \in 1..n /\ (m + 1) - 1 = m /\ kept1[m] = kept2[m]
    OBVIOUS
  <2>2. kept1[m + 1] = IF one[m + 1] \in set1 THEN Append(kept1[m], one[m + 1]) ELSE kept1[m]
    BY <2>1 DEF IsKept
  <2>3. kept2[m + 1] = IF two[m + 1] \in set2 THEN Append(kept2[m], two[m + 1]) ELSE kept2[m]
    BY <2>1 DEF IsKept
  <2>. QED  BY <2>1, <2>2, <2>3
<1>3. Holds = Nat
  <2>. HIDE DEF Holds
  <2>1. Holds \in SUBSET Nat
    BY DEF Holds
  <2>. QED  BY <1>1, <1>2, <2>1, NaturalInduction
<1>. QED  BY <1>3

(* Only what the test says of the elements matters.                        *)
LEMMA ChosenAlike ==
  ASSUME NEW seq, Len(seq) \in Nat, NEW set1, NEW set2,
         \A i \in 1..Len(seq) : seq[i] \in set1 <=> seq[i] \in set2
  PROVE  Chosen(seq, set1) = Chosen(seq, set2)
BY ChosenIsKept, KeptAlike

(* One element more is tested last.                                        *)
LEMMA ChosenAppend ==
  ASSUME NEW X, NEW seq \in Seq(X), NEW e \in X, NEW set
  PROVE  Chosen(Append(seq, e), set) =
           IF e \in set THEN Append(Chosen(seq, set), e) ELSE Chosen(seq, set)
<1>. DEFINE longer == Append(seq, e)
            n == Len(seq)
<1>1. /\ longer \in Seq(X) /\ Len(longer) = n + 1 /\ n \in Nat /\ longer[n + 1] = e
      /\ \A i \in 1..n : longer[i] = seq[i]
  OBVIOUS
<1>. HIDE DEF longer
<1>2. PICK kept1 : IsKept(kept1, seq, set, n) /\ Chosen(seq, set) = kept1[n]
  BY <1>1, ChosenIsKept
<1>3. PICK kept2 : IsKept(kept2, longer, set, n + 1) /\ Chosen(longer, set) = kept2[n + 1]
  BY <1>1, ChosenIsKept
<1>4. IsKept(kept2, longer, set, n)
  BY <1>1, <1>3 DEF IsKept
<1>5. kept1[n] = kept2[n]
  BY <1>1, <1>2, <1>4, KeptAlike
<1>6. n + 1 \in 1..(n + 1) /\ (n + 1) - 1 = n
  BY <1>1
<1>7. kept2[n + 1] = IF longer[n + 1] \in set THEN Append(kept2[n], longer[n + 1]) ELSE kept2[n]
  BY <1>3, <1>6 DEF IsKept
<1>8. Chosen(longer, set) = IF e \in set THEN Append(Chosen(seq, set), e) ELSE Chosen(seq, set)
  BY <1>1, <1>2, <1>3, <1>5, <1>7
<1>. QED  BY <1>8 DEF longer

(* What the instances of Selection in the two components choose.           *)
LEMMA SameChosen ==
  /\ \A seq, set : T!Chosen(seq, set) = Chosen(seq, set)
  /\ \A seq, set : G!Chosen(seq, set) = Chosen(seq, set)
<1>1. \A seq, set : T!Chosen(seq, set) = Chosen(seq, set)
  BY DEF T!Chosen, Chosen
<1>2. \A seq, set : G!Chosen(seq, set) = Chosen(seq, set)
  BY DEF G!Chosen, Chosen
<1>. QED  BY <1>1, <1>2

-----------------------------------------------------------------------------
(* What Total yields (Dialogue).                                           *)
IsSum(sum, seq, n) ==
  /\ sum[0] = 0
  /\ \A i \in 1..n : sum[i] = sum[i - 1] + T!Weight(seq[i])

(* A function that adds up a list exists for every list.                   *)
LEMMA SumExists ==
  ASSUME NEW seq, NEW n \in Nat
  PROVE  \E sum : IsSum(sum, seq, n)
<1>. DEFINE Holds == {m \in Nat : \E sum : IsSum(sum, seq, m)}
<1>1. 0 \in Holds
  <2>1. IsSum([i \in {0} |-> 0], seq, 0)
    BY DEF IsSum
  <2>. QED  BY <2>1
<1>2. ASSUME NEW m \in Holds  PROVE m + 1 \in Holds
  <2>1. PICK sum : IsSum(sum, seq, m)
    OBVIOUS
  <2>. DEFINE last == sum[m] + T!Weight(seq[m + 1])
              next == [i \in 0..(m + 1) |-> IF i <= m THEN sum[i] ELSE last]
  <2>2. m \in Nat
    OBVIOUS
  <2>3. next[m + 1] = last /\ \A i \in 0..m : next[i] = sum[i]
    BY <2>2
  <2>. HIDE DEF next
  <2>4. next[0] = 0
    BY <2>1, <2>2, <2>3 DEF IsSum
  <2>5. ASSUME NEW i \in 1..(m + 1)
        PROVE  next[i] = next[i - 1] + T!Weight(seq[i])
    <3>1. CASE i = m + 1
      BY <2>2, <2>3, <3>1
    <3>2. CASE i # m + 1
      <4>1. i \in 1..m /\ i - 1 \in 0..m /\ i \in 0..m
        BY <2>2, <3>2
      <4>. QED  BY <2>1, <2>3, <4>1 DEF IsSum
    <3>. QED  BY <3>1, <3>2
  <2>6. IsSum(next, seq, m + 1)
    BY <2>4, <2>5 DEF IsSum
  <2>. QED  BY <2>2, <2>6
<1>3. Holds = Nat
  <2>. HIDE DEF Holds
  <2>1. Holds \in SUBSET Nat
    BY DEF Holds
  <2>. QED  BY <1>1, <1>2, <2>1, NaturalInduction
<1>. QED  BY <1>3

(* Total is its last value.                                                *)
LEMMA TotalIsSum ==
  ASSUME NEW seq, Len(seq) \in Nat
  PROVE  \E sum : IsSum(sum, seq, Len(seq)) /\ T!Total(seq) = sum[Len(seq)]
<1>. DEFINE n == Len(seq)
            Body(f, i) == IF i = 0 THEN 0 ELSE f[i - 1] + T!Weight(seq[i])
            sum == CHOOSE f : f = [i \in 0..n |-> Body(f, i)]
<1>1. T!Total(seq) = sum[n]
  BY DEF T!Total
<1>2. PICK some : IsSum(some, seq, n)
  BY SumExists
<1>. DEFINE f == [i \in 0..n |-> some[i]]
<1>3. ASSUME NEW i \in 0..n  PROVE f[i] = Body(f, i)
  <2>1. CASE i = 0
    BY <1>2, <2>1 DEF IsSum
  <2>2. CASE i # 0
    <3>1. i \in 1..n /\ i - 1 \in 0..n
      BY <2>2
    <3>2. f[i] = some[i] /\ f[i - 1] = some[i - 1]
      BY <3>1
    <3>. QED  BY <1>2, <3>1, <3>2 DEF IsSum
  <2>. QED  BY <2>1, <2>2
<1>4. f = [i \in 0..n |-> f[i]]
  OBVIOUS
<1>5. f = [i \in 0..n |-> Body(f, i)]
  <2>. HIDE DEF f, Body
  <2>. QED  BY <1>3, <1>4
<1>6. sum = [i \in 0..n |-> Body(sum, i)]
  <2>. HIDE DEF f, Body
  <2>. QED  BY <1>5
<1>. HIDE DEF sum
<1>7. ASSUME NEW i \in 0..n  PROVE sum[i] = Body(sum, i)
  <2>. HIDE DEF Body
  <2>. QED  BY <1>6
<1>8. IsSum(sum, seq, n)
  BY <1>7 DEF IsSum
<1>. QED  BY <1>1, <1>8

(* It adds up to a natural number.                                         *)
LEMMA SumIsNat ==
  ASSUME NEW seq \in Seq(Nat), NEW sum, NEW n \in 0..Len(seq), IsSum(sum, seq, n)
  PROVE  sum[n] \in Nat
<1>. DEFINE Holds == {m \in Nat : m <= n => sum[m] \in Nat}
<1>1. 0 \in Holds
  BY DEF IsSum
<1>2. ASSUME NEW m \in Holds  PROVE m + 1 \in Holds
  <2>. SUFFICES ASSUME m + 1 <= n  PROVE sum[m + 1] \in Nat
    OBVIOUS
  <2>1. m + 1 \in 1..n /\ (m + 1) - 1 = m /\ sum[m] \in Nat /\ seq[m + 1] \in Nat
    OBVIOUS
  <2>2. sum[m + 1] = sum[m] + seq[m + 1]
    BY <2>1 DEF IsSum, T!Weight
  <2>. QED  BY <2>1, <2>2
<1>3. Holds = Nat
  <2>. HIDE DEF Holds
  <2>1. Holds \in SUBSET Nat
    BY DEF Holds
  <2>. QED  BY <1>1, <1>2, <2>1, NaturalInduction
<1>. QED  BY <1>3

(* Two sums of lists that begin alike are the same so far.                 *)
LEMMA SumsAlike ==
  ASSUME NEW n \in Nat, NEW one, NEW two, NEW sum1, NEW sum2,
         IsSum(sum1, one, n), IsSum(sum2, two, n), \A i \in 1..n : one[i] = two[i]
  PROVE  sum1[n] = sum2[n]
<1>. DEFINE Holds == {m \in Nat : m <= n => sum1[m] = sum2[m]}
<1>1. 0 \in Holds
  BY DEF IsSum
<1>2. ASSUME NEW m \in Holds  PROVE m + 1 \in Holds
  <2>. SUFFICES ASSUME m + 1 <= n  PROVE sum1[m + 1] = sum2[m + 1]
    OBVIOUS
  <2>1. m + 1 \in 1..n /\ (m + 1) - 1 = m /\ sum1[m] = sum2[m] /\ one[m + 1] = two[m + 1]
    OBVIOUS
  <2>2. sum1[m + 1] = sum1[m] + T!Weight(one[m + 1]) /\ sum2[m + 1] = sum2[m] + T!Weight(two[m + 1])
    BY <2>1 DEF IsSum
  <2>. QED  BY <2>1, <2>2
<1>3. Holds = Nat
  <2>. HIDE DEF Holds
  <2>1. Holds \in SUBSET Nat
    BY DEF Holds
  <2>. QED  BY <1>1, <1>2, <2>1, NaturalInduction
<1>. QED  BY <1>3

(* The total of a longer list.                                             *)
LEMMA TotalAppend ==
  ASSUME NEW seq \in Seq(Nat), NEW e \in Nat
  PROVE  T!Total(seq) \in Nat /\ T!Total(Append(seq, e)) = T!Total(seq) + e
<1>. DEFINE longer == Append(seq, e)
            n == Len(seq)
<1>1. /\ longer \in Seq(Nat) /\ Len(longer) = n + 1 /\ n \in Nat /\ longer[n + 1] = e
      /\ \A i \in 1..n : longer[i] = seq[i]
  OBVIOUS
<1>. HIDE DEF longer
<1>2. PICK sum1 : IsSum(sum1, seq, n) /\ T!Total(seq) = sum1[n]
  BY <1>1, TotalIsSum
<1>3. PICK sum2 : IsSum(sum2, longer, n + 1) /\ T!Total(longer) = sum2[n + 1]
  BY <1>1, TotalIsSum
<1>4. IsSum(sum2, longer, n)
  BY <1>1, <1>3 DEF IsSum
<1>5. sum1[n] = sum2[n]
  <2>1. IsSum(sum1, seq, n) /\ \A i \in 1..n : seq[i] = longer[i]
    BY <1>1, <1>2
  <2>. HIDE DEF n
  <2>. QED  BY <1>1, <1>4, <2>1, SumsAlike
<1>6. n + 1 \in 1..(n + 1) /\ (n + 1) - 1 = n /\ sum1[n] \in Nat
  BY <1>1, <1>2, SumIsNat
<1>7. sum2[n + 1] = sum2[n] + T!Weight(longer[n + 1])
  BY <1>3, <1>6 DEF IsSum
<1>8. T!Total(longer) = T!Total(seq) + e
  BY <1>1, <1>2, <1>3, <1>5, <1>7 DEF T!Weight
<1>. QED  BY <1>2, <1>6, <1>8 DEF longer

-----------------------------------------------------------------------------
(* The streams of a spoken reply (SpokenReply)                             *)

(* A registered producer has something to stop; one that has ended left    *)
(* the sentinel for a consumer that still takes text.                      *)
SpeechInv ==
  /\ voiceProducer \in {"new", "read", "close", "ended", "cancelled", "failed"}
  /\ voiceRegistered => voiceProducer \in {"read", "close"}
  /\ voiceQueue \in Seq({"text", "final", "end"})
  /\ voiceConsumer \in {"get", "speak"} /\ voiceProducer \notin {"new", "read"} =>
       voiceQueue # <<>> /\ voiceQueue[Len(voiceQueue)] = "end"
  /\ voiceHeard \in Nat

LEMMA SpeechInit == S!Init => SpeechInv
BY DEF S!Init, SpeechInv

(* The end of the stream, however it comes, is the last thing in the queue.*)
LEMMA StreamLeftWakes ==
  ASSUME voiceQueue \in Seq({"text", "final", "end"}), NEW how, S!StreamLeft(how)
  PROVE  /\ voiceQueue' \in Seq({"text", "final", "end"}) /\ voiceQueue' # <<>>
         /\ voiceQueue'[Len(voiceQueue')] = "end"
<1>1. CASE how = "close"
  <2>1. voiceQueue' = voiceQueue \o <<"final", "end">> /\
        <<"final", "end">> \in Seq({"text", "final", "end"})
    BY <1>1 DEF S!StreamLeft
  <2>. QED  BY <2>1
<1>2. CASE how # "close"
  <2>1. voiceQueue' = Append(voiceQueue, "end")
    BY <1>2 DEF S!StreamLeft
  <2>. QED  BY <2>1
<1>. QED  BY <1>1, <1>2

LEMMA CancelProducerWakes ==
  ASSUME SpeechInv, S!CancelProducer, voiceRegistered \/ voiceConsumer \notin {"get", "speak"},
         voiceConsumer' = voiceConsumer \/ voiceConsumer' \notin {"get", "speak"}, voiceHeard' \in Nat
  PROVE  SpeechInv'
<1>1. CASE voiceProducer = "read"
  BY <1>1, StreamLeftWakes DEF S!CancelProducer, S!StreamLeft, SpeechInv
<1>2. CASE voiceProducer # "read"
  BY <1>2 DEF S!CancelProducer, SpeechInv
<1>. QED  BY <1>1, <1>2

LEMMA SpeechNext == SpeechInv /\ [S!Next]_S!vars => SpeechInv'
<1> SUFFICES ASSUME SpeechInv, [S!Next]_S!vars PROVE SpeechInv'
  OBVIOUS
<1>1. CASE S!Started \/ S!GeneratorClosed
  BY <1>1 DEF S!Started, S!GeneratorClosed, SpeechInv, S!filterVars, S!soundVars
<1>2. CASE S!Token
  BY <1>2 DEF S!Token, SpeechInv, S!filterVars, S!soundVars
<1>3. CASE S!StreamEnds \/ S!StreamFails
  BY <1>3, StreamLeftWakes DEF S!StreamEnds, S!StreamFails, S!StreamLeft, SpeechInv, S!filterVars,
     S!soundVars
<1>4. CASE S!TakeToken
  <2>1. /\ voiceConsumer = "get" /\ voiceQueue # <<>> /\ Head(voiceQueue) = "text"
        /\ voiceQueue' = Tail(voiceQueue)
        /\ UNCHANGED <<voiceProducer, voiceRegistered, voiceHeard>>
    BY <1>4 DEF S!TakeToken, S!modelVars, S!soundVars
  <2>2. CASE voiceProducer \in {"new", "read"}
    BY <2>1, <2>2 DEF SpeechInv
  <2>3. CASE voiceProducer \notin {"new", "read"}
    <3>1. voiceQueue[Len(voiceQueue)] = "end" /\ voiceQueue[1] = "text"
      BY <2>1, <2>3 DEF SpeechInv
    <3>2. Len(voiceQueue) > 1 /\ voiceQueue \in Seq({"text", "final", "end"})
      BY <2>1, <3>1 DEF SpeechInv
    <3>3. voiceQueue' \in Seq({"text", "final", "end"}) /\ Len(voiceQueue') = Len(voiceQueue) - 1
      BY <2>1, <3>2
    <3>4. voiceQueue' # <<>>
      BY <3>2, <3>3
    <3>5. voiceQueue'[Len(voiceQueue')] = voiceQueue[Len(voiceQueue)]
      BY <2>1, <3>2, <3>3
    <3>. QED  BY <2>1, <3>1, <3>2, <3>3, <3>4, <3>5 DEF SpeechInv
  <2>. QED  BY <2>2, <2>3
<1>5. CASE S!TakeEnd \/ S!Joined
  <2>1. /\ voiceConsumer' \notin {"get", "speak"}
        /\ UNCHANGED <<voiceProducer, voiceRegistered, voiceHeard>>
        /\ voiceQueue' = voiceQueue \/ (voiceQueue # <<>> /\ voiceQueue' = Tail(voiceQueue))
    BY <1>5 DEF S!TakeEnd, S!Joined, S!Goto, S!Contradicted, S!modelVars, S!soundVars
  <2>. QED  BY <2>1 DEF SpeechInv
<1>6. CASE S!Claim \/ S!Connected \/ S!Audio \/ S!ResponseEnds \/ S!AskNext \/ S!Unreadable \/
              S!SynthesisFails
  BY <1>6 DEF S!Claim, S!Connected, S!Audio, S!AudioBeforeCheck, S!Yield, S!ResponseEnds, S!NextRequest,
     S!AskNext,
     S!Unreadable, S!SynthesisFails, SpeechInv, S!modelVars
<1>7. CASE S!SentenceDone
  BY <1>7 DEF S!SentenceDone, S!Goto, SpeechInv, S!modelVars
<1>8. CASE S!Interrupt \/ S!CancelSynthesis \/ S!ShutSynthesis
  BY <1>8 DEF S!Interrupt, S!CancelSynthesis, S!ShutSynthesis, SpeechInv, S!modelVars, S!soundVars
<1>9. CASE S!CancelModel \/ S!ShutModel
  BY <1>9, CancelProducerWakes DEF S!CancelModel, S!ShutModel, SpeechInv, S!soundVars
<1>10. CASE S!CancelTurn
  BY <1>10, CancelProducerWakes DEF S!CancelTurn, S!Goto, S!Speaking, SpeechInv, S!modelVars, S!soundVars
<1>11. CASE S!Finished
  BY <1>11, CancelProducerWakes DEF S!Finished, S!Goto, SpeechInv, S!soundVars
<1>12. CASE UNCHANGED S!vars
  BY <1>12 DEF S!vars, SpeechInv, S!modelVars, S!soundVars
<1>. QED  BY <1>1, <1>2, <1>3, <1>4, <1>5, <1>6, <1>7, <1>8, <1>9, <1>10, <1>11, <1>12 DEF S!Next

(* The turn task does not wait for text that nobody will put: whoever ends *)
(* the producer, and wherever it is met, the sentinel is in the queue      *)
(* (services/voice_pipeline.py, _stream_speech).                           *)
THEOREM SpeechWakes == S!Spec => []ConsumerIsWoken
<1>1. SpeechInv => ConsumerIsWoken
  BY DEF SpeechInv, ConsumerIsWoken, S!ConsumerIsWoken
<1>. QED  BY <1>1, SpeechInit, SpeechNext, PTL DEF S!Spec

(* Once cancel() of the synthesis has answered True, its sentence yields   *)
(* no more audio (cloud_tts.py, synthesize_stream).                        *)
THEOREM CancelledIsSilent == S!Spec => CancelSilences
<1>1. SpeechInv /\ [S!Next]_S!vars => [voiceFlag => voiceHeard' <= voiceHeard]_S!vars
  <2> SUFFICES ASSUME SpeechInv, [S!Next]_S!vars, voiceFlag
        PROVE voiceHeard' <= voiceHeard \/ UNCHANGED S!vars
    OBVIOUS
  <2>1. voiceHeard \in Nat
    BY DEF SpeechInv
  <2>2. CASE S!Claim \/ S!Audio \/ S!ResponseEnds
    <3>1. CASE S!Claim
      BY <2>1, <3>1 DEF S!Claim
    <3>2. CASE S!Audio
      BY <3>2 DEF S!Audio
    <3>3. CASE S!ResponseEnds
      <4>1. UNCHANGED voiceHeard
        BY <3>3 DEF S!ResponseEnds
      <4>. QED  BY <2>1, <4>1
    <3>. QED  BY <2>2, <3>1, <3>2, <3>3
  <2>3. CASE UNCHANGED S!vars
    BY <2>3
  <2>4. CASE ~(S!Claim \/ S!Audio \/ S!ResponseEnds \/ UNCHANGED S!vars)
    <3>1. voiceHeard' = voiceHeard
      BY <2>4 DEF S!Next, S!Started, S!Token, S!StreamEnds, S!StreamFails, S!GeneratorClosed, S!TakeToken,
        S!TakeEnd, S!Joined, S!Connected, S!AskNext, S!Unreadable, S!SynthesisFails, S!SentenceDone,
        S!Interrupt, S!CancelModel, S!CancelSynthesis, S!CancelTurn, S!ShutModel, S!ShutSynthesis,
        S!Finished, S!soundVars
    <3>. QED  BY <2>1, <3>1
  <2>. QED  BY <2>2, <2>3, <2>4
<1>. QED  BY <1>1, SpeechInit, SpeechNext, PTL DEF S!Spec, CancelSilences, S!CancelSilences

-----------------------------------------------------------------------------
(* Text turns (Dialogue)                                                   *)

TextPCs == {"idle", "lock", "started", "generate", "response", "completed", "failed", "commit",
            "effects", "done"}
TextKinds == {"started", "response", "completed", "failed"}

StartLogged(t) == \E i \in DOMAIN turnLog : turnLog[i] = T!Event("started", t)

(* A turn has no terminal before it has published one, none that has begun *)
(* to is without one unless it is lost, and none starts twice.             *)
TurnSettled(t) ==
  /\ turnPc[t] \in {"idle", "lock", "started"} => ~StartLogged(t)
  /\ turnPc[t] \notin {"commit", "effects", "done"} => T!Terminals(t) = {}
  /\ turnPc[t] \in {"commit", "effects", "done"} /\ t \notin turnLost /\ StartLogged(t) =>
       T!Terminals(t) # {}
  /\ \A i, j \in T!Terminals(t) : i = j

TextInv ==
  /\ turnPc \in [T!Turns -> TextPCs]
  /\ turnLog \in Seq([kind : TextKinds, turn : T!Turns])
  /\ \A t \in T!Turns : TurnSettled(t)

LEMMA TextInit == T!Init => TextInv
BY DEF T!Init, TextInv, TextPCs, TurnSettled, StartLogged, T!Terminals

(* What a committed event adds to the ledger.                              *)
LEMMA CommittedAppends ==
  ASSUME TextInv, NEW t \in T!Turns, NEW kind \in TextKinds, T!Committed(t, kind)
  PROVE  /\ turnLog' \in Seq([kind : TextKinds, turn : T!Turns])
         /\ \A s \in T!Turns \ {t} : StartLogged(s)' = StartLogged(s) /\ T!Terminals(s)' = T!Terminals(s)
         /\ kind \notin {"completed", "failed"} => T!Terminals(t)' = T!Terminals(t)
         /\ kind # "started" => StartLogged(t)' = StartLogged(t)
         /\ kind \in {"completed", "failed"} /\ T!Terminals(t) = {} => T!Terminals(t)' = {Len(turnLog) + 1}
<1>. DEFINE e == [kind |-> kind, turn |-> t]
<1>1. /\ turnLog' = Append(turnLog, e) /\ turnLog \in Seq([kind : TextKinds, turn : T!Turns])
      /\ e \in [kind : TextKinds, turn : T!Turns] /\ e.kind = kind /\ e.turn = t
  BY DEF T!Committed, T!Event, TextInv
<1>. HIDE DEF e
<1>2. /\ turnLog' \in Seq([kind : TextKinds, turn : T!Turns]) /\ DOMAIN turnLog = 1..Len(turnLog)
      /\ DOMAIN turnLog' = DOMAIN turnLog \cup {Len(turnLog) + 1} /\ Len(turnLog) \in Nat
      /\ turnLog'[Len(turnLog) + 1] = e /\ \A i \in DOMAIN turnLog : turnLog'[i] = turnLog[i]
  BY <1>1
<1>3. \A s \in T!Turns : s # t \/ kind # "started" => StartLogged(s)' = StartLogged(s)
  BY <1>1, <1>2 DEF StartLogged, T!Event
<1>4. \A s \in T!Turns : s # t \/ kind \notin {"completed", "failed"} => T!Terminals(s)' = T!Terminals(s)
  BY <1>1, <1>2 DEF T!Terminals
<1>5. kind \in {"completed", "failed"} => T!Terminals(t)' = T!Terminals(t) \cup {Len(turnLog) + 1}
  BY <1>1, <1>2 DEF T!Terminals
<1>. QED  BY <1>2, <1>3, <1>4, <1>5

(* A caller moves on without a word to the ledger.                         *)
LEMMA MovesOn ==
  ASSUME TextInv, NEW t \in T!Turns, NEW where \in TextPCs, T!Goto(t, where), turnLog' = turnLog,
         turnLost' = turnLost \/ turnLost' = turnLost \cup {t},
         \/ where = turnPc[t]
         \/ /\ turnPc[t] \in {"idle", "lock", "started"} => where \in {"idle", "lock", "started"} \/
              ~StartLogged(t)
            /\ where \in {"commit", "effects", "done"} =>
                 t \in turnLost' \/ turnPc[t] \in {"commit", "effects"} \/ ~StartLogged(t)
            /\ where \notin {"commit", "effects", "done"} => turnPc[t] \notin {"commit", "effects", "done"}
            /\ where \in {"idle", "lock", "started"} => turnPc[t] \in {"idle", "lock", "started"}
  PROVE  TextInv'
<1>1. /\ turnPc' \in [T!Turns -> TextPCs] /\ turnPc'[t] = where
      /\ \A s \in T!Turns \ {t} : turnPc'[s] = turnPc[s] /\ (s \in turnLost' <=> s \in turnLost)
  BY DEF T!Goto, TextInv
<1>2. \A s \in T!Turns : StartLogged(s)' = StartLogged(s) /\ T!Terminals(s)' = T!Terminals(s)
  BY DEF StartLogged, T!Terminals, T!Event
<1>3. ASSUME NEW s \in T!Turns PROVE TurnSettled(s)'
  BY <1>1, <1>2 DEF TextInv, TurnSettled
<1>. QED  BY <1>1, <1>3 DEF TextInv

(* A caller publishes and moves on.                                        *)
LEMMA PublishesAndMovesOn ==
  ASSUME TextInv, NEW t \in T!Turns, NEW kind \in TextKinds, T!Committed(t, kind),
         NEW where \in TextPCs \ {"idle", "lock", "started"}, T!Goto(t, where),
         turnPc[t] \notin {"commit", "effects", "done"},
         where \in {"commit", "effects", "done"} <=> kind \in {"completed", "failed"}
  PROVE  TextInv'
<1>1. /\ turnPc' \in [T!Turns -> TextPCs] /\ turnPc'[t] = where /\ turnLost' = turnLost
      /\ \A s \in T!Turns \ {t} : turnPc'[s] = turnPc[s]
  BY DEF T!Goto, T!Committed, TextInv
<1>2. T!Terminals(t) = {}
  BY DEF TextInv, TurnSettled
<1>3. ASSUME NEW s \in T!Turns \ {t} PROVE TurnSettled(s)'
  BY <1>1, CommittedAppends DEF TextInv, TurnSettled
<1>4. TurnSettled(t)'
  BY <1>1, <1>2, CommittedAppends DEF TurnSettled
<1>. QED  BY <1>1, <1>3, <1>4, CommittedAppends DEF TextInv

LEMMA TextStep == ASSUME TextInv, NEW t \in T!Turns PROVE
  /\ T!Call(t) \/ T!Enter(t) \/ T!Retry(t) \/ T!Generated(t) \/ T!AvatarTold(t) \/ T!Cancel(t) => TextInv'
  /\ T!StartPublished(t) \/ T!ResponsePublished(t) => TextInv'
  /\ T!CompletionPublished(t) \/ T!FailurePublished(t) => TextInv'
  /\ T!HistoryCommitted(t) => TextInv'
<1>1. turnPc[t] \in TextPCs /\ (turnPc[t] \in {"idle", "lock", "started"} => ~StartLogged(t))
  BY DEF TextInv, TurnSettled
<1>2. T!Call(t) \/ T!Enter(t) \/ T!Generated(t) \/ T!AvatarTold(t) => TextInv'
  BY <1>1, MovesOn DEF T!Call, T!Enter, T!Generated, T!Answered, T!NotPrepared, T!AvatarTold, T!Leave,
     TextPCs
<1>3. T!Retry(t) => TextInv'
  BY <1>1 DEF T!Retry, TextInv, TurnSettled, StartLogged, T!Terminals
<1>4. T!Cancel(t) => TextInv'
  <2>1. CASE UNCHANGED <<turnPc, turnLog, turnLost>>
    BY <2>1 DEF TextInv, TurnSettled, StartLogged, T!Terminals
  <2>2. ASSUME T!Cancel(t), ~UNCHANGED <<turnPc, turnLog, turnLost>> PROVE TextInv'
    BY <1>1, <2>2, MovesOn DEF T!Cancel, TextPCs
  <2>. QED  BY <2>1, <2>2
<1>5. T!StartPublished(t) => TextInv'
  <2>1. ASSUME T!StartPublished(t), T!Committed(t, "started") PROVE TextInv'
    BY <2>1, PublishesAndMovesOn DEF T!StartPublished, T!Refused, T!Committed, TextPCs, TextKinds
  <2>2. ASSUME T!StartPublished(t), ~T!Committed(t, "started") PROVE TextInv'
    BY <1>1, <2>2, MovesOn DEF T!StartPublished, T!Refused, T!Dropped, T!Leave, TextPCs
  <2>. QED  BY <2>1, <2>2
<1>6. T!ResponsePublished(t) => TextInv'
  <2>1. ASSUME T!ResponsePublished(t), T!Committed(t, "response") PROVE TextInv'
    BY <2>1, PublishesAndMovesOn DEF T!ResponsePublished, TextPCs, TextKinds
  <2>2. ASSUME T!ResponsePublished(t), ~T!Committed(t, "response") PROVE TextInv'
    BY <1>1, <2>2, MovesOn DEF T!ResponsePublished, T!Refused, T!Dropped, TextPCs
  <2>. QED  BY <2>1, <2>2
<1>7. T!CompletionPublished(t) => TextInv'
  <2>1. ASSUME T!CompletionPublished(t), T!Committed(t, "completed") PROVE TextInv'
    <3>1. turnLog' # turnLog
      BY <2>1, CommittedAppends DEF T!Committed, TextInv, TextKinds
    <3>2. T!Goto(t, "commit")
      BY <2>1, <3>1 DEF T!CompletionPublished, T!Refused
    <3>. QED  BY <2>1, <3>2, PublishesAndMovesOn DEF T!CompletionPublished, TextPCs, TextKinds
  <2>2. ASSUME T!CompletionPublished(t), ~T!Committed(t, "completed") PROVE TextInv'
    BY <1>1, <2>2, MovesOn DEF T!CompletionPublished, T!Refused, T!Dropped, TextPCs
  <2>. QED  BY <2>1, <2>2
<1>8. T!FailurePublished(t) => TextInv'
  <2>1. ASSUME T!FailurePublished(t), T!Committed(t, "failed") PROVE TextInv'
    BY <2>1, PublishesAndMovesOn DEF T!FailurePublished, T!Leave, TextPCs, TextKinds
  <2>2. ASSUME T!FailurePublished(t), ~T!Committed(t, "failed") PROVE TextInv'
    BY <1>1, <2>2, MovesOn DEF T!FailurePublished, T!Refused, T!Dropped, T!Leave, TextPCs
  <2>. QED  BY <2>1, <2>2
<1>9. T!HistoryCommitted(t) => TextInv'
  BY <1>1, MovesOn DEF T!HistoryCommitted, T!Leave, TextPCs
<1>. QED  BY <1>2, <1>3, <1>4, <1>5, <1>6, <1>7, <1>8, <1>9

LEMMA TextNext == TextInv /\ [T!Next]_T!vars => TextInv'
<1> SUFFICES ASSUME TextInv, [T!Next]_T!vars PROVE TextInv'
  OBVIOUS
<1>1. CASE T!CloseBus \/ UNCHANGED T!vars
  BY <1>1 DEF T!CloseBus, T!turn, T!vars, TextInv, TurnSettled, StartLogged, T!Terminals
<1>. QED  BY <1>1, TextStep DEF T!Next

(* However callers are cancelled, publishes refused and the bus closed, a  *)
(* text turn has at most one terminal in the ledger, and one that returned *)
(* has one if it was started and not lost (orchestrator.py,                *)
(* process_user_input).                                                    *)
THEOREM TextTurnsSettle == T!Spec => []TextTurnsAreSettled
<1>1. TextInv => TextTurnsAreSettled
  BY DEF TextInv, TurnSettled, StartLogged, TextTurnsAreSettled, T!TextTurnsAreSettled
<1>. QED  BY <1>1, TextInit, TextNext, PTL DEF T!Spec

-----------------------------------------------------------------------------
(* The history of the text turns (Dialogue): what trimming leaves of it.   *)

(* The newest part of a list, element by element.                          *)
LEMMA NewestIs ==
  ASSUME NEW X, NEW seq \in Seq(X), NEW n \in 1..(Len(seq) + 1)
  PROVE  /\ T!Newest(seq, n) \in Seq(X) /\ Len(T!Newest(seq, n)) = Len(seq) + 1 - n
         /\ \A i \in 1..(Len(seq) + 1 - n) : T!Newest(seq, n)[i] = seq[n + i - 1]
<1>1. T!Newest(seq, n) \in Seq(X) /\ Len(T!Newest(seq, n)) = Len(seq) + 1 - n
  BY DEF T!Newest
<1>2. \A i \in 1..(Len(seq) + 1 - n) : T!Newest(seq, n)[i] = seq[n + i - 1]
  BY DEF T!Newest
<1>. QED  BY <1>1, <1>2

(* The newest part of the newest part.                                     *)
LEMMA NewestOfNewest ==
  ASSUME NEW X, NEW seq \in Seq(X), NEW n \in 1..(Len(seq) + 1), NEW m \in 1..(Len(T!Newest(seq, n)) + 1)
  PROVE  n + m - 1 \in 1..(Len(seq) + 1) /\ T!Newest(T!Newest(seq, n), m) = T!Newest(seq, n + m - 1)
<1>. DEFINE part == T!Newest(seq, n)
            one  == T!Newest(part, m)
            two  == T!Newest(seq, n + m - 1)
<1>1. /\ part \in Seq(X) /\ Len(part) = Len(seq) + 1 - n
      /\ \A i \in 1..(Len(seq) + 1 - n) : part[i] = seq[n + i - 1]
  BY NewestIs
<1>2. n + m - 1 \in 1..(Len(seq) + 1)
  BY <1>1
<1>3. /\ one \in Seq(X) /\ Len(one) = Len(part) + 1 - m
      /\ \A i \in 1..(Len(part) + 1 - m) : one[i] = part[m + i - 1]
  <2>1. m \in 1..(Len(part) + 1)
    OBVIOUS
  <2>. HIDE DEF part
  <2>. QED  BY <1>1, <2>1, NewestIs
<1>4. /\ two \in Seq(X) /\ Len(two) = Len(seq) + 1 - (n + m - 1)
      /\ \A i \in 1..(Len(seq) + 1 - (n + m - 1)) : two[i] = seq[n + m - 1 + i - 1]
  BY <1>2, NewestIs
<1>. HIDE DEF part, one, two
<1>5. Len(one) = Len(two)
  BY <1>1, <1>3, <1>4
<1>6. ASSUME NEW i \in 1..Len(one)  PROVE one[i] = two[i]
  <2>1. m + i - 1 \in 1..(Len(seq) + 1 - n) /\ i \in 1..(Len(part) + 1 - m)
    BY <1>1, <1>3
  <2>2. n + (m + i - 1) - 1 = n + m - 1 + i - 1
    BY <1>1, <1>3
  <2>3. one[i] = seq[n + m - 1 + i - 1]
    BY <1>1, <1>3, <2>1, <2>2
  <2>4. i \in 1..(Len(seq) + 1 - (n + m - 1))
    BY <1>4, <1>5
  <2>. QED  BY <1>4, <2>3, <2>4
<1>7. one = two
  <2>1. one \in Seq(X) /\ two \in Seq(X)
    BY <1>3, <1>4
  <2>. QED  BY <1>5, <1>6, <2>1
<1>. QED  BY <1>2, <1>7 DEF one, two, part

(* The newest part of a longer list.                                       *)
LEMMA NewestAppend ==
  ASSUME NEW X, NEW seq \in Seq(X), NEW e \in X, NEW n \in 1..(Len(seq) + 1)
  PROVE  T!Newest(Append(seq, e), n) = Append(T!Newest(seq, n), e)
<1>. DEFINE longer == Append(seq, e)
            part   == T!Newest(seq, n)
            one    == T!Newest(longer, n)
            two    == Append(part, e)
<1>1. /\ longer \in Seq(X) /\ Len(longer) = Len(seq) + 1 /\ longer[Len(seq) + 1] = e
      /\ \A i \in 1..Len(seq) : longer[i] = seq[i]
  OBVIOUS
<1>. HIDE DEF longer
<1>2. /\ part \in Seq(X) /\ Len(part) = Len(seq) + 1 - n
      /\ \A i \in 1..(Len(seq) + 1 - n) : part[i] = seq[n + i - 1]
  BY NewestIs
<1>3. /\ one \in Seq(X) /\ Len(one) = Len(longer) + 1 - n
      /\ \A i \in 1..(Len(longer) + 1 - n) : one[i] = longer[n + i - 1]
  BY <1>1, NewestIs
<1>. HIDE DEF part, one
<1>4. /\ two \in Seq(X) /\ Len(two) = Len(part) + 1 /\ two[Len(part) + 1] = e
      /\ \A i \in 1..Len(part) : two[i] = part[i]
  BY <1>2
<1>. HIDE DEF two
<1>5. Len(one) = Len(two)
  BY <1>1, <1>2, <1>3, <1>4
<1>6. ASSUME NEW i \in 1..Len(one)  PROVE one[i] = two[i]
  <2>1. i \in 1..(Len(longer) + 1 - n) /\ n + i - 1 \in 1..(Len(seq) + 1)
    BY <1>1, <1>3
  <2>2. CASE i = Len(part) + 1
    <3>1. n + i - 1 = Len(seq) + 1
      BY <1>2, <2>2
    <3>. QED  BY <1>1, <1>3, <1>4, <2>1, <2>2, <3>1
  <2>3. CASE i # Len(part) + 1
    <3>1. i \in 1..Len(part) /\ n + i - 1 \in 1..Len(seq) /\ i \in 1..(Len(seq) + 1 - n)
      BY <1>1, <1>2, <1>3, <2>3
    <3>. QED  BY <1>1, <1>2, <1>3, <1>4, <2>1, <3>1
  <2>. QED  BY <2>2, <2>3
<1>7. one = two
  BY <1>3, <1>4, <1>5, <1>6
<1>. QED  BY <1>7 DEF one, two, longer, part

(* What does not fit does not fit with one more.                           *)
LEMMA FitsNoMore ==
  ASSUME T!SizesAssumption, NEW seq \in Seq(Nat), seq # <<>>, NEW e \in Nat, ~T!Fits(seq)
  PROVE  ~T!Fits(Append(seq, e))
<1>1. /\ Len(Append(seq, e)) = Len(seq) + 1 /\ Len(seq) \in Nat \ {0}
      /\ MaxEntries \in Nat /\ MaxTokens \in Nat
  BY DEF T!SizesAssumption
<1>2. T!Total(seq) \in Nat /\ T!Total(Append(seq, e)) = T!Total(seq) + e
  BY TotalAppend
<1>. QED  BY <1>1, <1>2 DEF T!Fits

(* add_turn() keeps the longest part that fits, and its total.             *)
LEMMA TrimmedKeeps ==
  ASSUME T!SizesAssumption, NEW seq \in Seq(Nat), seq # <<>>, NEW total
  PROVE  \E n \in 1..Len(seq) :
           /\ T!Fits(T!Newest(seq, n)) /\ \A k \in 1..(n - 1) : ~T!Fits(T!Newest(seq, k))
           /\ T!Trimmed(seq, total) =
                <<T!Newest(seq, n), total - (T!Total(seq) - T!Total(T!Newest(seq, n)))>>
<1>. DEFINE fitting == {n \in 1..Len(seq) : T!Fits(T!Newest(seq, n))}
            Is(n) == T!Fits(T!Newest(seq, n)) /\ \A k \in 1..(n - 1) : ~T!Fits(T!Newest(seq, k))
            first == CHOOSE n \in 1..Len(seq) : Is(n)
<1>1. Len(seq) \in 1..Len(seq) /\ Len(seq) \in Nat
  OBVIOUS
<1>2. Len(T!Newest(seq, Len(seq))) = 1
  <2>1. Len(seq) \in 1..(Len(seq) + 1) /\ Len(seq) + 1 - Len(seq) = 1
    BY <1>1
  <2>2. Len(T!Newest(seq, Len(seq))) = Len(seq) + 1 - Len(seq)
    BY <2>1, NewestIs
  <2>. QED  BY <2>1, <2>2
<1>3. Len(seq) \in fitting
  <2>1. MaxEntries \in Nat \ {0}
    BY DEF T!SizesAssumption
  <2>2. T!Fits(T!Newest(seq, Len(seq)))
    BY <1>2, <2>1 DEF T!Fits
  <2>. QED  BY <1>1, <2>2
<1>4. PICK n \in fitting : \A m \in fitting : n <= m
  <2>1. fitting \in SUBSET Nat
    OBVIOUS
  <2>. HIDE DEF fitting
  <2>. QED  BY <1>3, <2>1, LeastNatural
<1>5. n \in 1..Len(seq) /\ Is(n)
  <2>1. ASSUME NEW k \in 1..(n - 1)  PROVE ~T!Fits(T!Newest(seq, k))
    <3>1. k \in 1..Len(seq) /\ ~(n <= k)
      BY <1>1
    <3>. QED  BY <1>4, <3>1
  <2>. QED  BY <2>1
<1>6. first \in 1..Len(seq) /\ Is(first)
  <2>. HIDE DEF Is
  <2>. QED  BY <1>5
<1>7. T!TrimmedList(seq, total)[1] = T!Newest(seq, first)
  BY DEF T!TrimmedList
<1>8. T!Trimmed(seq, total) =
        <<T!Newest(seq, first), total - (T!Total(seq) - T!Total(T!Newest(seq, first)))>>
  <2>. HIDE DEF first
  <2>. QED  BY <1>7 DEF T!Trimmed
<1>. HIDE DEF first
<1>. QED  BY <1>6, <1>8

(* The history is the longest part at the end of done that fits.           *)
IsTail(kept, done) ==
  \E n \in 1..(Len(done) + 1) :
    /\ kept = T!Newest(done, n) /\ T!Fits(kept)
    /\ \A k \in 1..(n - 1) : ~T!Fits(T!Newest(done, k))

(* Trimming the history turn by turn keeps what trimming all of the turns  *)
(* at once would keep.                                                     *)
LEMMA TrimmedIsTail ==
  ASSUME T!SizesAssumption, NEW done \in Seq(T!Turns), NEW kept, IsTail(kept, done),
         NEW t \in T!Turns, NEW total, total = T!Total(kept),
         NEW new, new = T!Trimmed(Append(kept, t), total + T!Weight(t))
  PROVE  IsTail(new[1], Append(done, t)) /\ new[2] = T!Total(new[1])
<1>1. T!Turns \subseteq Nat /\ done \in Seq(Nat) /\ t \in Nat
  <2>1. T!Turns \subseteq Nat
    BY DEF T!Turns, T!SizesAssumption
  <2>2. Len(done) \in Nat /\ done = [i \in 1..Len(done) |-> done[i]]
    OBVIOUS
  <2>3. \A i \in 1..Len(done) : done[i] \in T!Turns
    OBVIOUS
  <2>4. done \in Seq(Nat)
    BY <2>1, <2>2, <2>3
  <2>. QED  BY <2>1, <2>4
<1>2. PICK n \in 1..(Len(done) + 1) :
         /\ kept = T!Newest(done, n)
         /\ \A k \in 1..(n - 1) : ~T!Fits(T!Newest(done, k))
  BY DEF IsTail
<1>3. kept \in Seq(Nat) /\ Len(kept) = Len(done) + 1 - n
  BY <1>1, <1>2, NewestIs
<1>. DEFINE longer == Append(done, t)
            seq    == Append(kept, t)
            sum    == total + T!Weight(t)
<1>4. /\ longer \in Seq(Nat) /\ Len(longer) = Len(done) + 1
      /\ seq \in Seq(Nat) /\ Len(seq) = Len(kept) + 1 /\ seq # <<>> /\ Len(done) \in Nat
  <2>1. longer \in Seq(Nat) /\ Len(longer) = Len(done) + 1 /\ Len(done) \in Nat
    BY <1>1
  <2>. HIDE DEF longer
  <2>2. seq \in Seq(Nat) /\ Len(seq) = Len(kept) + 1 /\ Len(kept) \in Nat
    <3>1. kept \in Seq(Nat) /\ t \in Nat
      BY <1>1, <1>3
    <3>. QED  BY <3>1
  <2>. HIDE DEF seq
  <2>3. seq # <<>>
    BY <2>2
  <2>. QED  BY <2>1, <2>2, <2>3
<1>5. seq = T!Newest(longer, n)
  BY <1>1, <1>2, NewestAppend
<1>6. T!Total(kept) \in Nat /\ T!Total(seq) = T!Total(kept) + t
  BY <1>1, <1>3, TotalAppend
<1>. HIDE DEF longer, seq, sum
<1>7. PICK m \in 1..Len(seq) :
         /\ T!Fits(T!Newest(seq, m)) /\ \A k \in 1..(m - 1) : ~T!Fits(T!Newest(seq, k))
         /\ T!Trimmed(seq, sum) =
              <<T!Newest(seq, m), sum - (T!Total(seq) - T!Total(T!Newest(seq, m)))>>
  BY <1>4, TrimmedKeeps
<1>8. /\ n \in 1..(Len(longer) + 1) /\ \A k \in 1..m : k \in 1..(Len(T!Newest(longer, n)) + 1)
      /\ m \in 1..(Len(T!Newest(longer, n)) + 1)
  BY <1>3, <1>4, <1>5
<1>9. /\ n + m - 1 \in 1..(Len(longer) + 1) /\ T!Newest(seq, m) = T!Newest(longer, n + m - 1)
      /\ \A k \in 1..m : T!Newest(seq, k) = T!Newest(longer, n + k - 1)
  BY <1>4, <1>5, <1>8, NewestOfNewest
<1>10. ASSUME NEW k \in 1..(n + m - 1 - 1)  PROVE ~T!Fits(T!Newest(longer, k))
  <2>1. CASE k < n
    <3>1. k \in 1..(n - 1) /\ k \in 1..(Len(done) + 1)
      BY <1>4, <2>1
    <3>2. T!Newest(longer, k) = Append(T!Newest(done, k), t)
      BY <1>1, <3>1, NewestAppend DEF longer
    <3>3. T!Newest(done, k) \in Seq(Nat) /\ Len(T!Newest(done, k)) = Len(done) + 1 - k
      BY <1>1, <3>1, NewestIs
    <3>4. T!Newest(done, k) # <<>>
      BY <1>4, <2>1, <3>1, <3>3
    <3>. QED  BY <1>1, <1>2, <3>1, <3>2, <3>3, <3>4, FitsNoMore
  <2>2. CASE k >= n
    <3>1. PICK j \in 1..(m - 1) : k = n + j - 1
      <4>1. k - n + 1 \in 1..(m - 1) /\ k = n + (k - n + 1) - 1
        BY <1>4, <2>2
      <4>. QED  BY <4>1
    <3>2. j \in 1..m
      BY <1>4
    <3>. QED  BY <1>7, <1>9, <3>1, <3>2
  <2>. QED  BY <1>4, <2>1, <2>2
<1>11. new = <<T!Newest(seq, m), sum - (T!Total(seq) - T!Total(T!Newest(seq, m)))>>
  BY <1>7 DEF seq, sum
<1>12. IsTail(T!Newest(seq, m), longer)
  <2>1. T!Fits(T!Newest(longer, n + m - 1))
    BY <1>7, <1>9
  <2>2. IsTail(T!Newest(longer, n + m - 1), longer)
    BY <1>9, <1>10, <2>1 DEF IsTail
  <2>. QED  BY <1>9, <2>2
<1>13. T!Total(T!Newest(seq, m)) \in Nat
  <2>1. m \in 1..(Len(seq) + 1)
    BY <1>4
  <2>2. T!Newest(seq, m) \in Seq(Nat)
    BY <1>4, <2>1, NewestIs
  <2>. QED  BY <2>2, TotalAppend
<1>14. sum - (T!Total(seq) - T!Total(T!Newest(seq, m))) = T!Total(T!Newest(seq, m))
  BY <1>1, <1>6, <1>13 DEF T!Weight, sum
<1>. QED  BY <1>11, <1>12, <1>14 DEF longer

-----------------------------------------------------------------------------
(* The history and the ledger (Dialogue).                                  *)

Completed(t) == T!Event("completed", t)
LogEntries == [kind : TextKinds, turn : T!Turns]

(* The completed events of the ledger whose commit is over.                *)
Noted == {Completed(t) : t \in {u \in T!Turns : turnPc[u] # "commit"}}

(* The turns of the completed events, a sequence like any other.           *)
LEMMA CompletedIs ==
  ASSUME TextInv
  PROVE  /\ Chosen(turnLog, Noted) \in Seq(LogEntries)
         /\ T!CompletedTurns = [i \in DOMAIN Chosen(turnLog, Noted) |-> Chosen(turnLog, Noted)[i].turn]
         /\ T!CompletedTurns \in Seq(T!Turns)
<1>. DEFINE done == Chosen(turnLog, Noted)
<1>1. done \in Seq(LogEntries)
  <2>1. turnLog \in Seq(LogEntries)
    BY DEF TextInv, LogEntries
  <2>. QED  BY <2>1, ChosenAt
<1>2. T!CompletedTurns = [i \in DOMAIN done |-> done[i].turn]
  BY SameChosen DEF T!CompletedTurns, Noted, Completed
<1>. HIDE DEF done
<1>3. [i \in DOMAIN done |-> done[i].turn] \in Seq(T!Turns)
  <2>1. Len(done) \in Nat /\ DOMAIN done = 1..Len(done) /\ \A i \in 1..Len(done) : done[i] \in LogEntries
    BY <1>1
  <2>2. \A i \in 1..Len(done) : done[i].turn \in T!Turns
    BY <2>1 DEF LogEntries
  <2>. QED  BY <2>1, <2>2
<1>. QED  BY <1>1, <1>2, <1>3 DEF done

(* An event that is not the completion of a turn changes nothing.          *)
LEMMA CompletedKept ==
  ASSUME TextInv,
         \A u \in T!Turns : turnPc'[u] = "commit" <=> turnPc[u] = "commit",
         \/ turnLog' = turnLog
         \/ \E e \in LogEntries : turnLog' = Append(turnLog, e) /\ e.kind # "completed"
  PROVE  T!CompletedTurns' = T!CompletedTurns
<1>1. Noted' = Noted
  BY DEF Noted, Completed, T!Event
<1>2. Chosen(turnLog', Noted) = Chosen(turnLog, Noted)
  <2>1. CASE turnLog' = turnLog
    BY <2>1
  <2>2. ASSUME NEW e \in LogEntries, turnLog' = Append(turnLog, e), e.kind # "completed"
        PROVE  Chosen(turnLog', Noted) = Chosen(turnLog, Noted)
    <3>1. turnLog \in Seq(LogEntries)
      BY DEF TextInv, LogEntries
    <3>2. e \notin Noted
      BY <2>2 DEF Noted, Completed, T!Event
    <3>3. Chosen(Append(turnLog, e), Noted) = Chosen(turnLog, Noted)
      BY <3>1, <3>2, ChosenAppend
    <3>. QED  BY <2>2, <3>3
  <2>. QED  BY <2>1, <2>2
<1>. QED  BY <1>1, <1>2, SameChosen DEF T!CompletedTurns, Noted, Completed

(* A completion that is recorded counts when its turn is committed.        *)
LEMMA CompletedLater ==
  ASSUME TextInv, NEW t \in T!Turns, turnLog' = Append(turnLog, Completed(t)),
         T!Terminals(t) = {}, turnPc[t] # "commit", turnPc' = [turnPc EXCEPT ![t] = "commit"]
  PROVE  T!CompletedTurns' = T!CompletedTurns
<1>1. turnLog \in Seq(LogEntries) /\ Completed(t) \in LogEntries
  BY DEF TextInv, LogEntries, Completed, T!Event, TextKinds
<1>2. Noted' = Noted \ {Completed(t)}
  <2>1. turnPc'[t] = "commit" /\ \A u \in T!Turns \ {t} : turnPc'[u] = turnPc[u]
    BY DEF TextInv
  <2>2. \A u \in T!Turns : Completed(u) = Completed(t) <=> u = t
    BY DEF Completed, T!Event
  <2>. QED  BY <2>1, <2>2 DEF Noted, Completed, T!Event
<1>3. Chosen(turnLog', Noted') = Chosen(turnLog, Noted')
  <2>1. Completed(t) \notin Noted'
    BY <1>2
  <2>2. Chosen(Append(turnLog, Completed(t)), Noted') = Chosen(turnLog, Noted')
    BY <1>1, <2>1, ChosenAppend
  <2>. QED  BY <2>2
<1>4. Chosen(turnLog, Noted') = Chosen(turnLog, Noted)
  <2>1. ASSUME NEW i \in 1..Len(turnLog)  PROVE turnLog[i] # Completed(t)
    <3>1. i \in DOMAIN turnLog /\ i \notin T!Terminals(t)
      BY <1>1
    <3>. QED  BY <3>1 DEF T!Terminals, Completed, T!Event
  <2>2. Len(turnLog) \in Nat /\ \A i \in 1..Len(turnLog) : turnLog[i] \in Noted' <=> turnLog[i] \in Noted
    BY <1>1, <1>2, <2>1
  <2>. QED  BY <2>2, ChosenAlike
<1>. QED  BY <1>3, <1>4, SameChosen DEF T!CompletedTurns, Noted, Completed

(* The commit of the turn whose completion is last in the ledger.          *)
LEMMA CompletedNow ==
  ASSUME TextInv, NEW t \in T!Turns, turnLog' = turnLog, turnLog # <<>>,
         turnLog[Len(turnLog)] = Completed(t), turnPc[t] = "commit",
         turnPc' = [turnPc EXCEPT ![t] = "effects"]
  PROVE  T!CompletedTurns' = Append(T!CompletedTurns, t)
<1>. DEFINE n     == Len(turnLog)
            front == SubSeq(turnLog, 1, n - 1)
            e     == Completed(t)
<1>1. turnLog \in Seq(LogEntries) /\ e \in LogEntries /\ e.turn = t /\ n \in Nat \ {0}
  BY DEF TextInv, LogEntries, Completed, T!Event, TextKinds
<1>2. Noted' = Noted \cup {e} /\ e \notin Noted
  <2>1. turnPc'[t] = "effects" /\ \A u \in T!Turns \ {t} : turnPc'[u] = turnPc[u]
    BY DEF TextInv
  <2>2. \A u \in T!Turns : Completed(u) = Completed(t) <=> u = t
    BY DEF Completed, T!Event
  <2>. QED  BY <2>1, <2>2 DEF Noted, Completed, T!Event
<1>3. /\ front \in Seq(LogEntries) /\ Len(front) = n - 1
      /\ \A i \in 1..(n - 1) : front[i] = turnLog[i]
  <2>. HIDE DEF e
  <2>1. n - 1 \in 0..Len(turnLog)
    BY <1>1
  <2>2. front = [i \in 1..(n - 1) |-> turnLog[i]] /\ \A i \in 1..(n - 1) : turnLog[i] \in LogEntries
    BY <1>1, <2>1
  <2>3. n - 1 \in Nat
    BY <1>1
  <2>. HIDE DEF front, n
  <2>. QED  BY <2>2, <2>3
<1>. HIDE DEF front
<1>4. turnLog = Append(front, e)
  <2>1. Append(front, e) \in Seq(LogEntries) /\ Len(Append(front, e)) = n
    BY <1>1, <1>3
  <2>2. ASSUME NEW i \in 1..n  PROVE turnLog[i] = Append(front, e)[i]
    BY <1>1, <1>3
  <2>. QED  BY <1>1, <2>1, <2>2
<1>5. ASSUME NEW i \in 1..Len(front)  PROVE front[i] # e
  <2>1. i \in DOMAIN turnLog /\ n \in DOMAIN turnLog /\ i # n /\ turnLog[i] = front[i]
    BY <1>1, <1>3
  <2>2. \A j, k \in T!Terminals(t) : j = k
    BY DEF TextInv, TurnSettled
  <2>3. n \in T!Terminals(t) /\ i \notin T!Terminals(t)
    <3>1. n \in T!Terminals(t)
      BY <2>1 DEF T!Terminals, Completed, T!Event
    <3>. QED  BY <2>1, <2>2, <3>1
  <2>. QED  BY <2>1, <2>3 DEF T!Terminals, Completed, T!Event
<1>6. Chosen(turnLog, Noted) = Chosen(front, Noted)
  BY <1>1, <1>2, <1>3, <1>4, ChosenAppend
<1>7. Chosen(turnLog, Noted') = Append(Chosen(front, Noted'), e)
  BY <1>1, <1>2, <1>3, <1>4, ChosenAppend
<1>8. Chosen(front, Noted') = Chosen(front, Noted)
  <2>1. Len(front) \in Nat /\ \A i \in 1..Len(front) : front[i] \in Noted' <=> front[i] \in Noted
    BY <1>1, <1>2, <1>3, <1>5
  <2>. QED  BY <2>1, ChosenAlike
<1>. DEFINE done == Chosen(turnLog, Noted)
            now  == Chosen(turnLog, Noted')
<1>9. done \in Seq(LogEntries) /\ T!CompletedTurns = [i \in DOMAIN done |-> done[i].turn]
  BY CompletedIs
<1>10. now = Append(done, e)
  BY <1>6, <1>7, <1>8
<1>11. T!CompletedTurns' = [i \in DOMAIN now |-> now[i].turn]
  BY SameChosen DEF T!CompletedTurns, Noted, Completed
<1>. HIDE DEF done, now
<1>12. [i \in DOMAIN now |-> now[i].turn] = Append([i \in DOMAIN done |-> done[i].turn], t)
  <2>. HIDE DEF e
  <2>1. /\ now \in Seq(LogEntries) /\ Len(now) = Len(done) + 1 /\ now[Len(done) + 1] = e
        /\ \A i \in 1..Len(done) : now[i] = done[i]
    BY <1>1, <1>9, <1>10
  <2>. DEFINE one == [i \in DOMAIN done |-> done[i].turn]
              two == [i \in DOMAIN now |-> now[i].turn]
  <2>2. /\ one \in Seq(T!Turns) /\ Len(one) = Len(done) /\ Len(done) \in Nat
        /\ \A i \in 1..Len(done) : one[i] = done[i].turn
    BY <1>9, CompletedIs
  <2>3. /\ DOMAIN two = 1..(Len(one) + 1) /\ two[Len(one) + 1] = t
        /\ \A i \in 1..Len(one) : two[i] = one[i]
    BY <1>1, <2>1, <2>2
  <2>4. two = [i \in 1..(Len(one) + 1) |-> two[i]]
    BY <2>3
  <2>. HIDE DEF one, two
  <2>5. Append(one, t) \in Seq(T!Turns) /\ Len(Append(one, t)) = Len(one) + 1
    BY <2>2
  <2>6. ASSUME NEW i \in 1..(Len(one) + 1)  PROVE Append(one, t)[i] = two[i]
    BY <2>2, <2>3
  <2>7. Append(one, t) = two
    <3>1. Append(one, t) = [i \in 1..Len(Append(one, t)) |-> Append(one, t)[i]]
      <4>. DEFINE three == Append(one, t)
      <4>1. three \in Seq(T!Turns)
        BY <2>5
      <4>. HIDE DEF three
      <4>2. three = [i \in 1..Len(three) |-> three[i]]
        BY <4>1
      <4>. QED  BY <4>2 DEF three
    <3>. QED  BY <2>4, <2>5, <2>6, <3>1
  <2>. QED  BY <2>7 DEF one, two
<1>. QED  BY <1>9, <1>11, <1>12

Resting == {"idle", "lock", "done"}

(* Who publishes or commits has the lock, so that the completion of a turn *)
(* is the last event until its commit, and the history is the tail of the  *)
(* turns that were committed.                                              *)
TailInv ==
  /\ TextInv
  /\ \A t \in T!Turns : turnPc[t] \notin Resting => turnLock = t
  /\ turnLost = {} =>
       /\ \A t \in T!Turns : turnPc[t] = "commit" =>
            turnLog # <<>> /\ turnLog[Len(turnLog)] = Completed(t)
       /\ IsTail(turnHistory, T!CompletedTurns)
       /\ turnTokens = T!Total(turnHistory)

LEMMA TailInit == T!Init => TailInv
<1>. SUFFICES ASSUME T!Init  PROVE TailInv
  OBVIOUS
<1>1. TextInv
  BY TextInit
<1>2. turnLog = <<>> /\ turnHistory = <<>> /\ turnTokens = 0 /\ \A t \in T!Turns : turnPc[t] = "idle"
  BY DEF T!Init
<1>3. T!CompletedTurns = <<>>
  <2>1. <<>> \in Seq(LogEntries) /\ Len(<<>>) = 0
    OBVIOUS
  <2>2. PICK kept : IsKept(kept, <<>>, Noted, Len(<<>>)) /\ Chosen(<<>>, Noted) = kept[Len(<<>>)]
    BY <2>1, ChosenIsKept
  <2>3. Chosen(turnLog, Noted) = <<>>
    BY <1>2, <2>1, <2>2 DEF IsKept
  <2>4. T!CompletedTurns \in Seq(T!Turns) /\ DOMAIN T!CompletedTurns = {}
    BY <1>1, <2>3, CompletedIs
  <2>. QED  BY <2>4
<1>4. T!Total(<<>>) = 0
  <2>1. PICK sum : IsSum(sum, <<>>, Len(<<>>)) /\ T!Total(<<>>) = sum[Len(<<>>)]
    BY TotalIsSum
  <2>. QED  BY <2>1 DEF IsSum
<1>5. IsTail(<<>>, <<>>)
  <2>1. T!Newest(<<>>, 1) = <<>>
    BY DEF T!Newest
  <2>2. T!Fits(<<>>)
    BY <1>4, TextAssumption DEF T!Fits, T!SizesAssumption
  <2>3. 1 \in 1..(Len(<<>>) + 1) /\ 1..(1 - 1) = {}
    OBVIOUS
  <2>. QED  BY <2>1, <2>2, <2>3 DEF IsTail
<1>. QED  BY <1>1, <1>2, <1>3, <1>4, <1>5 DEF TailInv, Resting

(* Caller t moves on, before or after its commit.                          *)
LEMMA TailMoves ==
  ASSUME TailInv, TextInv', NEW t \in T!Turns, NEW where \in TextPCs,
         turnPc' = [turnPc EXCEPT ![t] = where], turnPc[t] # "commit" <=> where # "commit",
         UNCHANGED <<turnHistory, turnTokens>>, turnLost' = turnLost \/ turnLost' # {},
         \/ turnLog' = turnLog
         \/ /\ turnPc[t] \notin Resting /\ where # "commit"
            /\ \E e \in LogEntries : turnLog' = Append(turnLog, e) /\ e.kind # "completed",
         \/ turnLock' = turnLock /\ (turnPc[t] \notin Resting \/ where \in Resting)
         \/ turnLock' = None /\ turnPc[t] \notin Resting /\ where \in Resting
         \/ turnLock' = t /\ turnLock = None
  PROVE  TailInv'
<1>1. turnPc'[t] = where /\ \A u \in T!Turns \ {t} : turnPc'[u] = turnPc[u]
  BY DEF TailInv, TextInv
<1>2. ASSUME NEW u \in T!Turns, turnPc'[u] \notin Resting  PROVE turnLock' = u
  <2>1. None \notin T!Turns
    BY TextAssumption DEF T!NobodyAssumption
  <2>2. CASE u = t
    BY <1>1, <1>2, <2>2 DEF TailInv
  <2>3. CASE u # t
    <3>1. turnLock = u /\ u # None
      BY <1>1, <1>2, <2>1, <2>3 DEF TailInv
    <3>2. turnPc[t] \notin Resting => FALSE
      BY <2>3, <3>1 DEF TailInv
    <3>. QED  BY <3>1, <3>2
  <2>. QED  BY <2>2, <2>3
<1>3. T!CompletedTurns' = T!CompletedTurns
  <2>1. \A u \in T!Turns : turnPc'[u] = "commit" <=> turnPc[u] = "commit"
    BY <1>1
  <2>. QED  BY <2>1, CompletedKept DEF TailInv
<1>4. ASSUME turnLost' = {}, NEW u \in T!Turns, turnPc'[u] = "commit"
      PROVE  turnLog' # <<>> /\ turnLog'[Len(turnLog')] = Completed(u)'
  <2>1. turnPc[u] = "commit" /\ turnLost = {} /\ turnLock = u
    BY <1>1, <1>4 DEF TailInv, Resting
  <2>2. turnLog' = turnLog
    BY <1>1, <1>4, <2>1 DEF TailInv
  <2>. QED  BY <2>1, <2>2 DEF TailInv, Completed, T!Event
<1>5. turnLost' = {} => IsTail(turnHistory', T!CompletedTurns') /\ turnTokens' = T!Total(turnHistory')
  BY <1>3 DEF TailInv
<1>. QED  BY <1>2, <1>4, <1>5 DEF TailInv

(* A commit appends the turn whose completion is the last one in the       *)
(* ledger, and trims: the tail of the longer list.                         *)
LEMMA CommitStep ==
  ASSUME TailInv, TextInv', NEW t \in T!Turns, T!HistoryCommitted(t)
  PROVE  TailInv'
<1>1. turnPc[t] = "commit" /\ turnLock = t /\ turnLog' = turnLog
  BY DEF T!HistoryCommitted, TailInv, Resting
<1>2. CASE turnLost' # {}
  <2>1. PICK where \in {"effects", "done"} :
          /\ turnPc' = [turnPc EXCEPT ![t] = where]
          /\ where = "effects" => turnLock' = turnLock
          /\ where = "done" => turnLock' = None
    BY DEF T!HistoryCommitted, T!Goto, T!Leave
  <2>2. turnPc'[t] = where /\ \A u \in T!Turns \ {t} : turnPc'[u] = turnPc[u]
    BY <2>1 DEF TailInv, TextInv
  <2>3. ASSUME NEW u \in T!Turns, turnPc'[u] \notin Resting  PROVE turnLock' = u
    <3>1. CASE u = t
      BY <1>1, <2>1, <2>2, <2>3, <3>1 DEF Resting
    <3>2. CASE u # t
      BY <1>1, <2>2, <2>3, <3>2 DEF TailInv
    <3>. QED  BY <3>1, <3>2
  <2>. QED  BY <1>2, <2>3 DEF TailInv
<1>3. CASE turnLost' = {}
  <2>. DEFINE new == T!Trimmed(Append(turnHistory, t), turnTokens + T!Weight(t))
  <2>1. /\ turnHistory' = new[1] /\ turnTokens' = new[2] /\ turnPc' = [turnPc EXCEPT ![t] = "effects"]
        /\ UNCHANGED <<turnLock, turnLost>>
    BY <1>3 DEF T!HistoryCommitted, T!Goto
  <2>2. turnPc'[t] = "effects" /\ \A u \in T!Turns \ {t} : turnPc'[u] = turnPc[u]
    BY <2>1 DEF TailInv, TextInv
  <2>3. ASSUME NEW u \in T!Turns, turnPc'[u] \notin Resting
        PROVE  turnLock' = u /\ turnPc'[u] # "commit"
    <3>1. CASE u = t
      BY <1>1, <2>1, <2>2, <3>1
    <3>2. CASE u # t
      BY <1>1, <2>2, <2>3, <3>2 DEF TailInv
    <3>. QED  BY <3>1, <3>2
  <2>4. T!CompletedTurns' = Append(T!CompletedTurns, t)
    BY <1>1, <1>3, <2>1, CompletedNow DEF TailInv
  <2>5. IsTail(turnHistory, T!CompletedTurns) /\ turnTokens = T!Total(turnHistory)
    BY <1>3, <2>1 DEF TailInv
  <2>6. T!CompletedTurns \in Seq(T!Turns)
    BY CompletedIs DEF TailInv
  <2>7. PICK done, kept, total, next :
          done = T!CompletedTurns /\ kept = turnHistory /\ total = turnTokens /\ next = new
    OBVIOUS
  <2>8. T!SizesAssumption
    BY TextAssumption
  <2>9. IsTail(next[1], Append(done, t)) /\ next[2] = T!Total(next[1])
    BY <2>5, <2>6, <2>7, <2>8, TrimmedIsTail
  <2>10. IsTail(turnHistory', T!CompletedTurns') /\ turnTokens' = T!Total(turnHistory')
    BY <2>1, <2>4, <2>7, <2>9
  <2>. QED  BY <2>3, <2>10 DEF TailInv, Resting
<1>. QED  BY <1>2, <1>3

(* A completion that is recorded waits for its commit.                     *)
LEMMA CompletionStep ==
  ASSUME TailInv, TextInv', NEW t \in T!Turns, T!CompletionPublished(t)
  PROVE  TailInv'
<1>1. turnPc[t] = "completed" /\ turnLock = t /\ UNCHANGED <<turnLock, turnHistory, turnTokens>>
  BY DEF T!CompletionPublished, TailInv, Resting, T!entries
<1>2. PICK where \in {"commit", "failed"} : turnPc' = [turnPc EXCEPT ![t] = where]
  BY DEF T!CompletionPublished, T!Goto
<1>3. CASE where = "failed"
  <2>1. turnLog' = turnLog /\ turnLost' = turnLost
    <3>1. turnPc'[t] = "failed"
      BY <1>2, <1>3 DEF TailInv, TextInv
    <3>2. ~T!Goto(t, "commit")
      BY <3>1 DEF T!Goto, TailInv, TextInv
    <3>. QED  BY <3>2 DEF T!CompletionPublished, T!Refused
  <2>. QED  BY <1>1, <1>2, <1>3, <2>1, TailMoves DEF TextPCs, Resting
<1>4. CASE where = "commit"
  <2>1. turnPc'[t] = "commit" /\ \A u \in T!Turns \ {t} : turnPc'[u] = turnPc[u]
    BY <1>2, <1>4 DEF TailInv, TextInv
  <2>2. ASSUME NEW u \in T!Turns, turnPc'[u] \notin Resting  PROVE turnLock' = u /\ u = t
    BY <1>1, <2>1, <2>2 DEF TailInv
  <2>3. CASE turnLost' # {}
    BY <2>2, <2>3 DEF TailInv
  <2>4. CASE turnLost' = {}
    <3>1. turnLog' = Append(turnLog, Completed(t)) /\ turnLost = {}
      <4>1. ~T!Goto(t, "failed") /\ ~T!Dropped(t)
        BY <2>1, <2>4 DEF T!Goto, T!Dropped, TailInv, TextInv
      <4>2. T!Committed(t, "completed")
        BY <4>1 DEF T!CompletionPublished
      <4>. QED  BY <2>4, <4>2 DEF T!Committed, Completed
    <3>2. T!CompletedTurns' = T!CompletedTurns
      <4>1. T!Terminals(t) = {}
        BY <1>1 DEF TailInv, TextInv, TurnSettled
      <4>. QED  BY <1>1, <1>2, <1>4, <3>1, <4>1, CompletedLater DEF TailInv
    <3>3. turnLog' # <<>> /\ turnLog'[Len(turnLog')] = Completed(t)
      <4>1. turnLog \in Seq(LogEntries) /\ Completed(t) \in LogEntries
        BY DEF TailInv, TextInv, LogEntries, Completed, T!Event, TextKinds
      <4>. HIDE DEF Completed
      <4>2. Len(turnLog') = Len(turnLog) + 1 /\ Len(turnLog) \in Nat
        BY <3>1, <4>1
      <4>3. turnLog' # <<>>
        BY <4>2
      <4>. QED  BY <3>1, <4>1, <4>2, <4>3
    <3>4. IsTail(turnHistory', T!CompletedTurns') /\ turnTokens' = T!Total(turnHistory')
      BY <1>1, <3>1, <3>2 DEF TailInv
    <3>5. ASSUME NEW u \in T!Turns, turnPc'[u] = "commit"
          PROVE  turnLog' # <<>> /\ turnLog'[Len(turnLog')] = Completed(u)'
      <4>1. u = t
        BY <2>2, <3>5 DEF Resting
      <4>. QED  BY <3>3, <4>1 DEF Completed, T!Event
    <3>. QED  BY <2>2, <3>4, <3>5 DEF TailInv
  <2>. QED  BY <2>3, <2>4
<1>. QED  BY <1>2, <1>3, <1>4

LEMMA TailStep == ASSUME TailInv, TextInv', NEW t \in T!Turns PROVE
  /\ T!Call(t) \/ T!Enter(t) \/ T!Generated(t) \/ T!AvatarTold(t) => TailInv'
  /\ T!Retry(t) \/ T!Cancel(t) => TailInv'
  /\ T!StartPublished(t) \/ T!ResponsePublished(t) \/ T!FailurePublished(t) => TailInv'
<1>1. T!Call(t) \/ T!Enter(t) \/ T!Generated(t) \/ T!AvatarTold(t) => TailInv'
  BY TailMoves DEF T!Call, T!Enter, T!Generated, T!Answered, T!NotPrepared, T!AvatarTold, T!Leave, T!Goto,
     T!entries, TextPCs, Resting
<1>2. UNCHANGED <<turnPc, turnLog, turnLost, turnLock, turnHistory, turnTokens>> => TailInv'
  <2>. SUFFICES ASSUME UNCHANGED <<turnPc, turnLog, turnLost, turnLock, turnHistory, turnTokens>>
         PROVE  TailInv'
    OBVIOUS
  <2>1. T!CompletedTurns' = T!CompletedTurns
    BY CompletedKept DEF TailInv
  <2>2. turnLost' = {} => IsTail(turnHistory', T!CompletedTurns') /\ turnTokens' = T!Total(turnHistory')
    BY <2>1 DEF TailInv
  <2>. QED  BY <2>2 DEF TailInv, Completed, T!Event
<1>3. T!Retry(t) => TailInv'
  BY <1>2 DEF T!Retry, T!entries
<1>4. T!Cancel(t) => TailInv'
  <2>1. ASSUME T!Cancel(t), turnPc' # turnPc PROVE TailInv'
    BY <2>1, TailMoves DEF T!Cancel, T!Goto, T!entries, TextPCs, Resting
  <2>2. ASSUME T!Cancel(t), turnPc' = turnPc PROVE TailInv'
    BY <1>2, <2>2 DEF T!Cancel, T!entries
  <2>. QED  BY <2>1, <2>2
<1>5. \A kind \in {"started", "response", "failed"} :
        T!Event(kind, t) \in LogEntries /\ T!Event(kind, t).kind # "completed"
  BY DEF LogEntries, T!Event, TextKinds
<1>6. T!StartPublished(t) => TailInv'
  BY <1>5, TailMoves DEF T!StartPublished, T!Committed, T!Refused, T!Dropped, T!Leave, T!Goto, T!entries,
     TextPCs, Resting
<1>7. T!ResponsePublished(t) => TailInv'
  BY <1>5, TailMoves DEF T!ResponsePublished, T!Committed, T!Refused, T!Dropped, T!Goto, T!entries,
     TextPCs, Resting
<1>8. T!FailurePublished(t) => TailInv'
  BY <1>5, TailMoves DEF T!FailurePublished, T!Committed, T!Refused, T!Dropped, T!Leave, T!Goto, T!entries,
     TextPCs, Resting
<1>. QED  BY <1>1, <1>3, <1>4, <1>6, <1>7, <1>8

LEMMA TailNext == TailInv /\ [T!Next]_T!vars => TailInv'
<1> SUFFICES ASSUME TailInv, [T!Next]_T!vars PROVE TailInv'
  OBVIOUS
<1>1. TextInv'
  BY TextNext DEF TailInv
<1>2. CASE T!CloseBus \/ UNCHANGED T!vars
  <2>1. UNCHANGED <<turnPc, turnLog, turnLost, turnLock, turnHistory, turnTokens>>
    BY <1>2 DEF T!CloseBus, T!turn, T!entries, T!vars
  <2>2. T!CompletedTurns' = T!CompletedTurns
    BY <2>1, CompletedKept DEF TailInv
  <2>3. turnLost' = {} => IsTail(turnHistory', T!CompletedTurns') /\ turnTokens' = T!Total(turnHistory')
    BY <2>1, <2>2 DEF TailInv
  <2>. QED  BY <1>1, <2>1, <2>3 DEF TailInv, Completed, T!Event
<1>. QED  BY <1>1, <1>2, TailStep, CompletionStep, CommitStep DEF T!Next

(* While turns are cancelled, refused by the bus and trimmed one by one,   *)
(* the history that the model is shown is always the longest part at the   *)
(* end of what the ledger completed that fits, with the right token total, *)
(* unless a commit was lost (conversation.py, add_turn and _trim;          *)
(* orchestrator.py, process_user_input).                                   *)
THEOREM HistoryIsTheTail == T!Spec => []HistoryFollowsLedger
<1>1. TailInv => HistoryFollowsLedger
  BY DEF TailInv, IsTail, HistoryFollowsLedger, T!HistoryFollowsLedger
<1>. QED  BY <1>1, TailInit, TailNext, PTL DEF T!Spec

-----------------------------------------------------------------------------
(* The life of a text turn (Dialogue).                                     *)

(* The events in the life of one turn, and what a ledger records of it.    *)
LifeKinds == {"started", "completed", "failed"}
OwnEvents(t) == {T!Event(kind, t) : kind \in LifeKinds}
Lived(ledger, t) ==
  LET own == Chosen(ledger, OwnEvents(t))
  IN [i \in DOMAIN own |-> T!Life[own[i].kind]]
Lives == [t \in T!Turns |-> Lived(turnLog, t)]

(* Who generates or publishes an answer has begun.                         *)
LifeInv ==
  /\ TextInv
  /\ \A t \in T!Turns : turnPc[t] \in {"generate", "response", "completed"} => StartLogged(t)

(* What the component records is read from the ledger alone.               *)
LEMMA LifeIsLived ==
  /\ DOMAIN T!Life = LifeKinds
  /\ \A t : T!LifeOf(t) = Lived(turnLog, t)
  /\ [t \in T!Turns |-> T!LifeOf(t)] = Lives
  /\ [t \in T!Turns |-> T!LifeOf(t)]' = Lives'
<1>1. DOMAIN T!Life = LifeKinds
  BY DEF T!Life, LifeKinds
<1>2. ASSUME NEW t  PROVE T!LifeOf(t) = Lived(turnLog, t)
  BY <1>1, SameChosen DEF T!LifeOf, Lived, OwnEvents
<1>3. [t \in T!Turns |-> T!LifeOf(t)] = Lives
  BY <1>2 DEF Lives
<1>4. ASSUME NEW t  PROVE T!LifeOf(t)' = Lived(turnLog', t)
  BY <1>1, SameChosen DEF T!LifeOf, Lived, OwnEvents
<1>5. [t \in T!Turns |-> T!LifeOf(t)]' = Lives'
  BY <1>4 DEF Lives
<1>. QED  BY <1>1, <1>2, <1>3, <1>5

(* Only the own events of the turn are in its life, and all of them.       *)
LEMMA LivedIs ==
  ASSUME NEW ledger \in Seq(LogEntries), NEW t \in T!Turns
  PROVE  /\ Lived(ledger, t) \in Seq({"Started", "Completed", "Failed"})
         /\ \A kind \in LifeKinds :
              (\E i \in 1..Len(Lived(ledger, t)) : Lived(ledger, t)[i] = T!Life[kind]) <=>
              (\E i \in DOMAIN ledger : ledger[i] = T!Event(kind, t))
<1>. DEFINE own == Chosen(ledger, OwnEvents(t))
<1>1. own \in Seq(LogEntries)
  BY ChosenAt
<1>2. PICK at : IsChosen(own, at, ledger, OwnEvents(t), Len(ledger))
  BY ChosenAt
<1>3. Lived(ledger, t) = [i \in DOMAIN own |-> T!Life[own[i].kind]]
  BY DEF Lived
<1>. HIDE DEF own
<1>4. /\ Len(own) \in Nat /\ DOMAIN own = 1..Len(own)
      /\ Len(ledger) \in Nat /\ DOMAIN ledger = 1..Len(ledger)
  BY <1>1
<1>5. \A k \in 1..Len(own) : own[k] \in OwnEvents(t)
  <2>. SUFFICES ASSUME NEW k \in 1..Len(own)  PROVE own[k] \in OwnEvents(t)
    OBVIOUS
  <2>1. at[k] \in 1..Len(ledger) /\ own[k] = ledger[at[k]]
    BY <1>2 DEF IsChosen
  <2>2. ledger[at[k]] \in OwnEvents(t)
    BY <1>2, <2>1 DEF IsChosen
  <2>. QED  BY <2>1, <2>2
<1>6. \A k \in 1..Len(own) : own[k].kind \in LifeKinds /\ own[k] = T!Event(own[k].kind, t)
  BY <1>5 DEF OwnEvents, T!Event
<1>7. \A kind \in LifeKinds : T!Life[kind] \in {"Started", "Completed", "Failed"}
  BY DEF T!Life, LifeKinds
<1>8. \A one, two \in LifeKinds : T!Life[one] = T!Life[two] => one = two
  BY DEF T!Life, LifeKinds
<1>9. /\ Lived(ledger, t) \in Seq({"Started", "Completed", "Failed"})
      /\ Len(Lived(ledger, t)) = Len(own)
      /\ \A k \in 1..Len(own) : Lived(ledger, t)[k] = T!Life[own[k].kind]
  BY <1>3, <1>4, <1>6, <1>7
<1>10. ASSUME NEW kind \in LifeKinds
       PROVE  (\E i \in 1..Len(own) : own[i].kind = kind) <=>
              (\E i \in DOMAIN ledger : ledger[i] = T!Event(kind, t))
  <2>1. ASSUME NEW i \in 1..Len(own), own[i].kind = kind
        PROVE  \E j \in DOMAIN ledger : ledger[j] = T!Event(kind, t)
    <3>1. at[i] \in 1..Len(ledger) /\ own[i] = ledger[at[i]]
      BY <1>2 DEF IsChosen
    <3>. QED  BY <1>4, <1>6, <2>1, <3>1
  <2>2. ASSUME NEW i \in DOMAIN ledger, ledger[i] = T!Event(kind, t)
        PROVE  \E k \in 1..Len(own) : own[k].kind = kind
    <3>1. ledger[i] \in OwnEvents(t)
      BY <2>2 DEF OwnEvents
    <3>2. PICK k \in 1..Len(own) : at[k] = i
      BY <1>2, <1>4, <3>1 DEF IsChosen
    <3>3. own[k] = ledger[i]
      BY <1>2, <3>2 DEF IsChosen
    <3>. QED  BY <2>2, <3>3 DEF T!Event
  <2>. QED  BY <2>1, <2>2
<1>. QED  BY <1>6, <1>8, <1>9, <1>10

(* An event of the lifecycle goes on that of its turn, an answer on none.  *)
LEMMA LivesOn ==
  ASSUME TextInv, NEW t \in T!Turns, NEW kind \in TextKinds, T!Committed(t, kind)
  PROVE  Lives' = IF kind \in LifeKinds
                  THEN [Lives EXCEPT ![t] = Append(@, T!Life[kind])] ELSE Lives
<1>. DEFINE e == T!Event(kind, t)
<1>1. turnLog' = Append(turnLog, e) /\ turnLog \in Seq(LogEntries) /\ e \in LogEntries
  BY DEF T!Committed, TextInv, LogEntries, T!Event
<1>2. \A s \in T!Turns : e \in OwnEvents(s) <=> s = t /\ kind \in LifeKinds
  BY DEF OwnEvents, T!Event
<1>3. e.kind = kind
  BY DEF T!Event
<1>. HIDE DEF e
<1>4. ASSUME NEW s \in T!Turns
      PROVE  Lived(turnLog', s) =
               IF s = t /\ kind \in LifeKinds THEN Append(Lived(turnLog, s), T!Life[kind])
               ELSE Lived(turnLog, s)
  <2>. DEFINE own == Chosen(turnLog, OwnEvents(s))
              more == Chosen(turnLog', OwnEvents(s))
  <2>1. own \in Seq(LogEntries)
    BY <1>1, ChosenAt
  <2>2. more = IF e \in OwnEvents(s) THEN Append(own, e) ELSE own
    BY <1>1, ChosenAppend
  <2>3. /\ Lived(turnLog, s) = [i \in DOMAIN own |-> T!Life[own[i].kind]]
        /\ Lived(turnLog', s) = [i \in DOMAIN more |-> T!Life[more[i].kind]]
    BY DEF Lived
  <2>. HIDE DEF own, more
  <2>4. CASE ~(s = t /\ kind \in LifeKinds)
    BY <1>2, <2>2, <2>3, <2>4
  <2>5. CASE s = t /\ kind \in LifeKinds
    <3>1. more = Append(own, e)
      BY <1>2, <2>2, <2>5
    <3>2. /\ Len(own) \in Nat /\ DOMAIN own = 1..Len(own) /\ DOMAIN more = 1..(Len(own) + 1)
          /\ more[Len(own) + 1] = e /\ \A i \in 1..Len(own) : more[i] = own[i]
      BY <1>1, <2>1, <3>1
    <3>3. \A i \in DOMAIN own : T!Life[own[i].kind] \in {T!Life[own[j].kind] : j \in DOMAIN own}
      OBVIOUS
    <3>4. Lived(turnLog, s) \in Seq({T!Life[own[j].kind] : j \in DOMAIN own})
      BY <2>3, <3>2, <3>3
    <3>5. /\ Len(Lived(turnLog, s)) = Len(own)
          /\ \A i \in 1..Len(own) : Lived(turnLog, s)[i] = T!Life[own[i].kind]
      BY <2>3, <3>2
    <3>6. Append(Lived(turnLog, s), T!Life[kind]) =
            [i \in 1..(Len(own) + 1) |-> IF i = Len(own) + 1 THEN T!Life[kind]
                                         ELSE T!Life[own[i].kind]]
      BY <3>2, <3>4, <3>5
    <3>7. Lived(turnLog', s) =
            [i \in 1..(Len(own) + 1) |-> IF i = Len(own) + 1 THEN T!Life[kind]
                                         ELSE T!Life[own[i].kind]]
      BY <1>3, <2>3, <3>2
    <3>. QED  BY <2>5, <3>6, <3>7
  <2>. QED  BY <2>4, <2>5
<1>5. Lives' = [s \in T!Turns |-> Lived(turnLog', s)]
  BY DEF Lives
<1>6. Lives = [s \in T!Turns |-> Lived(turnLog, s)]
  BY DEF Lives
<1>. QED  BY <1>4, <1>5, <1>6

(* What is recorded of a turn at each await.                               *)
LEMMA LivedSoFar ==
  ASSUME LifeInv, NEW t \in T!Turns
  PROVE  /\ turnPc[t] = "started" => Lives[t] = <<>>
         /\ turnPc[t] \in {"started", "response", "completed", "failed"} =>
              ~T!Lifecycle!Ended(t)
         /\ turnPc[t] = "completed" => T!Lifecycle!Has(t, "Started")
<1>. DEFINE life == Lives[t]
<1>1. turnLog \in Seq(LogEntries) /\ TurnSettled(t)
  BY DEF LifeInv, TextInv, LogEntries
<1>2. life = Lived(turnLog, t) /\ life \in Seq({"Started", "Completed", "Failed"})
  BY <1>1, LivedIs DEF Lives
<1>3. /\ T!Life["started"] = "Started" /\ T!Life["completed"] = "Completed"
      /\ T!Life["failed"] = "Failed" /\ LifeKinds = {"started", "completed", "failed"}
  BY DEF T!Life, LifeKinds
<1>4. (\E i \in 1..Len(life) : life[i] = "Started") <=> StartLogged(t)
  BY <1>1, <1>2, <1>3, LivedIs DEF StartLogged
<1>5. ASSUME T!Terminals(t) = {}
      PROVE  ~\E i \in 1..Len(life) : life[i] \in {"Completed", "Failed"}
  <2>1. \A kind \in {"completed", "failed"} :
          ~\E i \in DOMAIN turnLog : turnLog[i] = T!Event(kind, t)
    BY <1>5 DEF T!Terminals, T!Event
  <2>2. \A kind \in {"completed", "failed"} : ~\E i \in 1..Len(life) : life[i] = T!Life[kind]
    BY <1>1, <1>2, <1>3, <2>1, LivedIs
  <2>. QED  BY <1>3, <2>2
<1>6. \A e : T!Lifecycle!Has(t, e) <=> \E i \in 1..Len(life) : life[i] = e
  BY LifeIsLived DEF T!Lifecycle!Has, T!Lifecycle!Occurs, Lives
<1>. HIDE DEF life
<1>7. turnPc[t] \in {"started", "response", "completed", "failed"} => T!Terminals(t) = {}
  BY <1>1 DEF TurnSettled
<1>8. turnPc[t] \in {"started", "response", "completed", "failed"} => ~T!Lifecycle!Ended(t)
  BY <1>5, <1>6, <1>7 DEF T!Lifecycle!Ended
<1>9. turnPc[t] = "completed" => T!Lifecycle!Has(t, "Started")
  BY <1>4, <1>6 DEF LifeInv
<1>10. turnPc[t] = "started" => life = <<>>
  <2>. SUFFICES ASSUME turnPc[t] = "started"  PROVE life = <<>>
    OBVIOUS
  <2>1. ~\E i \in 1..Len(life) : life[i] \in {"Started", "Completed", "Failed"}
    BY <1>1, <1>4, <1>5, <1>7 DEF TurnSettled
  <2>2. \A i \in 1..Len(life) : life[i] \in {"Started", "Completed", "Failed"}
    BY <1>2
  <2>. QED  BY <1>2, <2>1, <2>2
<1>. QED  BY <1>8, <1>9, <1>10 DEF life

(* Nobody has begun.                                                       *)
LEMMA LifeInit == T!Init => LifeInv
BY TextInit DEF LifeInv, T!Init

(* A start stays in the ledger, and who goes on has published it.          *)
LEMMA LifeKept ==
  ASSUME LifeInv, TextInv', [T!Next]_T!vars
  PROVE  LifeInv'
<1>. SUFFICES ASSUME NEW t \in T!Turns, turnPc'[t] \in {"generate", "response", "completed"}
              PROVE  StartLogged(t)'
  BY DEF LifeInv
<1>1. ASSUME StartLogged(t)
      PROVE  StartLogged(t)'
  <2>1. CASE turnLog' = turnLog
    BY <1>1, <2>1 DEF StartLogged
  <2>2. CASE \E s \in T!Turns, kind \in TextKinds : T!Committed(s, kind)
    <3>1. PICK s \in T!Turns, kind \in TextKinds : T!Committed(s, kind)
      BY <2>2
    <3>2. /\ turnLog \in Seq(LogEntries) /\ turnLog' = Append(turnLog, T!Event(kind, s))
      BY <3>1 DEF LifeInv, TextInv, LogEntries, T!Committed
    <3>. QED  BY <1>1, <3>2 DEF StartLogged, LogEntries
  <2>. QED  BY <2>1, <2>2 DEF TextKinds, T!Next, T!vars, T!turn, T!Call, T!Enter, T!StartPublished,
     T!Retry, T!Generated, T!ResponsePublished, T!CompletionPublished, T!FailurePublished,
     T!HistoryCommitted, T!AvatarTold, T!Cancel, T!CloseBus, T!Refused, T!Dropped
<1>2. ASSUME ~StartLogged(t)
      PROVE  StartLogged(t)'
  <2>1. turnPc[t] \notin {"generate", "response", "completed"} /\ turnPc \in [T!Turns -> TextPCs]
    BY <1>2 DEF LifeInv, TextInv
  <2>2. PICK s \in T!Turns : T!StartPublished(s) /\ T!Committed(s, "started") /\ s = t
    BY <2>1 DEF T!Next, T!vars, T!turn, T!Call, T!Enter, T!StartPublished, T!Retry, T!Generated,
      T!Answered, T!NotPrepared, T!ResponsePublished, T!CompletionPublished, T!FailurePublished,
      T!HistoryCommitted, T!AvatarTold, T!Cancel, T!CloseBus, T!Goto, T!Leave, T!Refused, T!Dropped
  <2>3. turnLog \in Seq(LogEntries) /\ turnLog' = Append(turnLog, T!Event("started", t))
    BY <2>2 DEF LifeInv, TextInv, LogEntries, T!Committed
  <2>. QED  BY <2>3 DEF StartLogged, LogEntries
<1>. QED  BY <1>1, <1>2

(* A publish that is committed is a step of the lifecycle, or an answer.   *)
LEMMA CommittedLives ==
  ASSUME LifeInv, NEW t \in T!Turns, NEW kind \in TextKinds, T!Committed(t, kind), turnPc[t] = kind
  PROVE  Lives' = Lives \/ T!Lifecycle!Next
<1>1. CASE kind = "response"
  BY <1>1, LivesOn DEF LifeInv, LifeKinds
<1>2. CASE kind # "response"
  <2>1. kind \in LifeKinds
    BY <1>2 DEF TextKinds, LifeKinds
  <2>2. T!Lifecycle!Record(t, T!Life[kind])
    <3>1. Lives' = [Lives EXCEPT ![t] = Append(@, T!Life[kind])]
      BY <2>1, LivesOn DEF LifeInv
    <3>. QED  BY <3>1, LifeIsLived DEF T!Lifecycle!Record
  <2>3. CASE kind = "started"
    BY <2>2, <2>3, LivedSoFar, LifeIsLived DEF T!Life, T!Lifecycle!Start, T!Lifecycle!Next, Lives
  <2>4. CASE kind = "completed"
    BY <2>2, <2>4, LivedSoFar DEF T!Life, T!Lifecycle!Complete, T!Lifecycle!Next
  <2>5. CASE kind = "failed"
    BY <2>2, <2>5, LivedSoFar DEF T!Life, T!Lifecycle!Fail, T!Lifecycle!Next
  <2>. QED  BY <2>1, <2>3, <2>4, <2>5 DEF LifeKinds
<1>. QED  BY <1>1, <1>2

(* Whatever is cancelled, refused or lost, and however many callers        *)
(* compete for the lock, the ledger holds of each text turn what the       *)
(* lifecycle of a spoken one allows: a start first, one terminal at the    *)
(* end, a completion only after a start (orchestrator.py,                  *)
(* process_user_input).                                                    *)
THEOREM TextTurnsImplementLifecycle == T!Spec => T!ImplementsLifecycle
<1>1. T!Init => T!Lifecycle!Init
  <2>. SUFFICES ASSUME T!Init  PROVE T!Lifecycle!Init
    OBVIOUS
  <2>1. turnLog = <<>> /\ LifeInv
    BY LifeInit DEF T!Init
  <2>2. \A t \in T!Turns : Lived(turnLog, t) = <<>>
    <3>. SUFFICES ASSUME NEW t \in T!Turns  PROVE Lived(turnLog, t) = <<>>
      OBVIOUS
    <3>1. turnLog \in Seq(LogEntries) /\ Len(turnLog) = 0
      BY <2>1
    <3>2. PICK kept : IsKept(kept, turnLog, OwnEvents(t), 0) /\ Chosen(turnLog, OwnEvents(t)) = kept[0]
      BY <3>1, ChosenIsKept
    <3>3. Chosen(turnLog, OwnEvents(t)) = <<>>
      BY <3>2 DEF IsKept
    <3>. QED  BY <3>3 DEF Lived
  <2>. QED  BY <2>2, LifeIsLived DEF T!Lifecycle!Init
<1>2. LifeInv /\ [T!Next]_T!vars => [T!Lifecycle!Next]_[t \in T!Turns |-> T!LifeOf(t)]
  <2>. SUFFICES ASSUME LifeInv, [T!Next]_T!vars
                PROVE  Lives' = Lives \/ T!Lifecycle!Next
    BY LifeIsLived
  <2>1. CASE turnLog' = turnLog
    BY <2>1 DEF Lives
  <2>2. CASE turnLog' # turnLog
    <3>1. PICK t \in T!Turns, kind \in TextKinds : T!Committed(t, kind) /\ turnPc[t] = kind
      BY <2>2 DEF TextKinds, T!Next, T!vars, T!turn, T!Call, T!Enter, T!StartPublished, T!Retry,
        T!Generated, T!ResponsePublished, T!CompletionPublished, T!FailurePublished,
        T!HistoryCommitted, T!AvatarTold, T!Cancel, T!CloseBus, T!Refused, T!Dropped
    <3>. QED  BY <3>1, CommittedLives
  <2>. QED  BY <2>1, <2>2
<1>3. LifeInv /\ [T!Next]_T!vars => LifeInv'
  BY TextNext, LifeKept DEF LifeInv
<1>. QED  BY <1>1, <1>2, <1>3, LifeInit, PTL DEF T!Spec, T!ImplementsLifecycle, T!Lifecycle!Spec

-----------------------------------------------------------------------------
(* The pages of the history (ConversationPages).                           *)

From == IF pageCursor.seen = 0 THEN 1 ELSE pageCursor.seen

(* What is read goes down one by one, and up again where the ledger grew   *)
(* between two batches: no turn is left out.                               *)
IsRead(read, from, length) ==
  /\ read \in Seq(Nat)
  /\ \A i \in 1..Len(read) : from <= read[i] /\ read[i] <= length + 1 - i
  /\ \A i \in 1..(Len(read) - 1) : read[i] - 1 <= read[i + 1]

(* Each session stands where the turns down to its newest one have put it. *)
Listed(ledger, rows, snapshot) ==
  /\ rows \in Seq(Sessions)
  /\ \A k, l \in 1..Len(rows) : rows[k] = rows[l] => k = l
  /\ \A k \in 1..Len(rows) :
       \E t \in 1..snapshot :
         /\ ledger[t] = rows[k] /\ \A u \in (t + 1)..snapshot : ledger[u] # rows[k]
         /\ \A u \in t..snapshot : \E l \in 1..k : rows[l] = ledger[u]

ReadInv ==
  /\ pageLedger \in Seq(Sessions) /\ Len(pageLedger) <= MaxTurns
  /\ pageAsked \in Sessions \cup {AllSessions} /\ pageReading \in BOOLEAN
  /\ pageOpened \in 0..Len(pageLedger)
  /\ pageCursor \in [snapshot : Nat, offset : Nat, seen : Nat]
  /\ pageCursor # G!NoMore =>
       /\ pageCursor.seen <= pageCursor.snapshot /\ pageCursor.snapshot <= Len(pageLedger)
       /\ pageCursor.snapshot = 0 => pageCursor = G!Start
       /\ pageCursor.snapshot # 0 => pageOpened <= pageCursor.snapshot
  /\ IF pageReading
     THEN /\ pageCursor # G!NoMore
          /\ IsRead(pageEvents, From, Len(pageLedger)) /\ Len(pageEvents) < MaxEvents
          /\ pageEvents # <<>> => pageOpened <= pageEvents[1] /\ pageCursor.snapshot <= pageEvents[1]
     ELSE pageEvents = <<>>

SessionsInv ==
  /\ pageCursor # G!NoMore =>
       /\ pageCursor.seen = 0 /\ Len(pageShown) = pageCursor.offset
       /\ Listed(pageLedger, pageShown, pageCursor.snapshot)
  /\ \A k, l \in DOMAIN pageShown : pageShown[k] = pageShown[l] => k = l
  /\ pageCursor = G!NoMore =>
       \A t \in 1..pageOpened : \E k \in DOMAIN pageShown : pageShown[k] = pageLedger[t]

TurnsInv ==
  /\ pageShown \in Seq(Nat)
  /\ \A k \in 1..Len(pageShown) : pageShown[k] \in G!Wanted
  /\ \A k \in 1..Len(pageShown), t \in G!Wanted :
       t < pageShown[k] => \E l \in 1..(k - 1) : pageShown[l] = t
  /\ pageCursor # G!NoMore =>
       /\ pageCursor.offset = 0 /\ (pageCursor.seen = 0 => pageShown = <<>>)
       /\ pageCursor.seen # 0 => pageShown # <<>> /\ pageShown[Len(pageShown)] = pageCursor.seen
  /\ pageCursor = G!NoMore =>
       \A t \in G!Wanted : t <= pageOpened => \E k \in DOMAIN pageShown : pageShown[k] = t

PageInv ==
  /\ pageLedger \in Seq(Sessions)
  /\ Len(pageLedger) <= MaxEvents =>
       ReadInv /\ IF pageAsked = AllSessions THEN SessionsInv ELSE TurnsInv

(* What the constants are.                                                 *)
LEMMA PagesTypes ==
  /\ {MaxTurns, BatchSize, MaxEvents, MaxLimit} \subseteq Nat \ {0} /\ AllSessions \notin Sessions
BY PagesAssumption DEF G!ListingAssumption, G!PagingAssumption

LEMMA PageInit == G!Init => PageInv
<1>. SUFFICES ASSUME G!Init  PROVE PageInv
  OBVIOUS
<1>1. /\ pageLedger = <<>> /\ pageAsked \in Sessions \cup {AllSessions} /\ pageReading = FALSE
      /\ pageOpened = 0 /\ pageEvents = <<>> /\ pageShown = <<>> /\ pageCursor = G!Start
  BY DEF G!Init
<1>2. G!Start = [snapshot |-> 0, offset |-> 0, seen |-> 0] /\ G!Start # G!NoMore
  BY PagesTypes DEF G!Start, G!NoMore, G!Cursor
<1>3. /\ pageCursor \in [snapshot : Nat, offset : Nat, seen : Nat]
      /\ pageCursor.seen = 0 /\ pageCursor.snapshot = 0
  BY <1>1, <1>2
<1>4. pageLedger \in Seq(Sessions) /\ Len(pageLedger) = 0 /\ 0 <= MaxTurns
  BY <1>1, PagesTypes
<1>5. ReadInv
  <2>1. pageOpened \in 0..Len(pageLedger) /\ Len(pageLedger) <= MaxTurns
    BY <1>1, <1>4
  <2>2. pageReading \in BOOLEAN /\ ~pageReading /\ pageEvents = <<>>
    BY <1>1
  <2>3. pageCursor.seen <= pageCursor.snapshot /\ pageCursor.snapshot <= Len(pageLedger)
    BY <1>3, <1>4
  <2>. QED  BY <1>1, <1>3, <1>4, <2>1, <2>2, <2>3 DEF ReadInv
<1>6. SessionsInv
  BY <1>1, <1>2 DEF SessionsInv, Listed
<1>7. TurnsInv
  BY <1>1, <1>2 DEF TurnsInv
<1>. QED  BY <1>4, <1>5, <1>6, <1>7 DEF PageInv

(* One query: the rows from Len(pageEvents) on, newest first.              *)
LEMMA BatchIs ==
  ASSUME ReadInv, pageReading
  PROVE  LET batch == G!NextBatch
             room  == IF BatchSize < MaxEvents - Len(pageEvents) THEN BatchSize
                      ELSE MaxEvents - Len(pageEvents)
             left  == Len(pageLedger) + 1 - From - Len(pageEvents)
         IN /\ batch \in Seq(Nat) /\ left \in Nat /\ room \in Nat \ {0}
            /\ Len(batch) = IF room < left THEN room ELSE left
            /\ \A i \in 1..Len(batch) : batch[i] = Len(pageLedger) + 1 - (Len(pageEvents) + i)
<1>. DEFINE batch  == G!NextBatch
            offset == Len(pageEvents)
            length == Len(pageLedger)
            room   == IF BatchSize < MaxEvents - offset THEN BatchSize ELSE MaxEvents - offset
            left   == length + 1 - From - offset
            rows   == [k \in 1..(length - From + 1) |-> length + 1 - k]
            to     == IF offset + room < Len(rows) THEN offset + room ELSE Len(rows)
<1>1. length \in Nat /\ offset \in Nat /\ From \in Nat \ {0} /\ From <= length + 1
  BY DEF ReadInv, From, IsRead
<1>2. room \in Nat \ {0}
  BY <1>1, PagesTypes DEF ReadInv
<1>3. left \in Nat
  <2>1. CASE offset = 0
    BY <1>1, <2>1
  <2>2. CASE offset # 0
    <3>1. offset \in 1..offset
      BY <1>1, <2>2
    <3>2. /\ From <= pageEvents[offset] /\ pageEvents[offset] <= length + 1 - offset
          /\ pageEvents[offset] \in Nat
      BY <1>1, <3>1 DEF ReadInv, IsRead
    <3>. QED  BY <1>1, <3>2
  <2>. QED  BY <2>1, <2>2
<1>4. rows \in Seq(Nat) /\ Len(rows) = length - From + 1
  <2>1. length - From + 1 \in Nat
    BY <1>1
  <2>2. \A k \in 1..(length - From + 1) : length + 1 - k \in Nat
    BY <1>1
  <2>. QED  BY <2>1, <2>2
<1>5. batch = SubSeq(rows, offset + 1, to)
  BY DEF G!NextBatch, G!Query, From
<1>. HIDE DEF batch, room
<1>6. to \in Nat /\ offset <= to /\ to <= Len(rows) /\ to - offset = IF room < left THEN room ELSE left
  BY <1>1, <1>2, <1>3, <1>4
<1>7. \A k \in 1..Len(rows) : rows[k] = length + 1 - k
  BY <1>4
<1>. HIDE DEF rows, to, offset, length
<1>8. batch \in Seq(Nat) /\ Len(batch) = to - offset
  BY <1>1, <1>4, <1>5, <1>6
<1>9. ASSUME NEW i \in 1..Len(batch)  PROVE batch[i] = length + 1 - (offset + i)
  <2>1. offset + i \in 1..Len(rows)
    BY <1>1, <1>4, <1>6, <1>8
  <2>2. batch[i] = rows[offset + i]
    BY <1>1, <1>4, <1>5, <1>6, <1>8, <2>1
  <2>. QED  BY <1>7, <2>1, <2>2
<1>. QED  BY <1>2, <1>3, <1>6, <1>8, <1>9 DEF batch, room, offset, length

(* Between two values that were read, every value was.                     *)
LEMMA NoGap ==
  ASSUME NEW from, NEW length, NEW read, IsRead(read, from, length),
         NEW a \in 1..Len(read), NEW b \in a..Len(read), NEW t \in Nat, read[b] <= t, t <= read[a]
  PROVE  \E i \in a..b : read[i] = t
<1>. DEFINE below == {i \in a..b : read[i] <= t}
<1>1. read \in Seq(Nat) /\ Len(read) \in Nat /\ a \in Nat /\ b \in Nat /\ b \in below
  BY DEF IsRead
<1>2. PICK i \in below : \A j \in below : i <= j
  <2>1. below \in SUBSET Nat /\ below # {}
    BY <1>1
  <2>. HIDE DEF below
  <2>. QED  BY <2>1, LeastNatural
<1>3. CASE i = a
  <2>1. read[i] = t
    <3>1. read[a] \in Nat
      BY <1>1
    <3>. QED  BY <1>3, <3>1
  <2>. QED  BY <2>1
<1>4. CASE i # a
  <2>1. i - 1 \in 1..(Len(read) - 1) /\ (i - 1) + 1 = i /\ i - 1 \in a..b /\ ~(i <= i - 1)
    BY <1>1, <1>4
  <2>2. i - 1 \notin below /\ read[i - 1] - 1 <= read[i]
    BY <1>2, <2>1 DEF IsRead
  <2>3. read[i] \in Nat /\ read[i - 1] \in Nat
    BY <1>1, <2>1
  <2>4. read[i] = t
    BY <2>1, <2>2, <2>3
  <2>. QED  BY <2>4
<1>. QED  BY <1>3, <1>4

(* A further batch leaves no gap either.                                   *)
LEMMA ReadGoesOn ==
  ASSUME ReadInv, pageReading
  PROVE  LET read == pageEvents \o G!NextBatch
         IN /\ IsRead(read, From, Len(pageLedger)) /\ Len(read) = Len(pageEvents) + Len(G!NextBatch)
            /\ read # <<>> => pageOpened <= read[1] /\ pageCursor.snapshot <= read[1]
<1>. DEFINE batch  == G!NextBatch
            read   == pageEvents \o batch
            length == Len(pageLedger)
            offset == Len(pageEvents)
<1>1. /\ batch \in Seq(Nat) /\ Len(batch) \in Nat /\ Len(batch) <= length + 1 - From - offset
      /\ \A i \in 1..Len(batch) : batch[i] = length + 1 - (offset + i)
  BY BatchIs
<1>2. pageEvents \in Seq(Nat) /\ offset \in Nat /\ length \in Nat /\ From \in Nat \ {0}
  BY DEF ReadInv, IsRead, From
<1>. HIDE DEF batch
<1>3. /\ read \in Seq(Nat) /\ Len(read) = offset + Len(batch)
      /\ \A i \in 1..offset : read[i] = pageEvents[i]
      /\ \A i \in 1..Len(batch) : read[offset + i] = batch[i]
  BY <1>1, <1>2
<1>4. \A i \in 1..Len(read) : i > offset => read[i] = length + 1 - i
  <2>1. ASSUME NEW i \in 1..Len(read), i > offset  PROVE read[i] = length + 1 - i
    <3>1. i - offset \in 1..Len(batch) /\ offset + (i - offset) = i
      BY <1>1, <1>2, <1>3, <2>1
    <3>. QED  BY <1>1, <1>3, <3>1
  <2>. QED  BY <2>1
<1>. HIDE DEF read, offset, length
<1>5. ASSUME NEW i \in 1..Len(read)  PROVE From <= read[i] /\ read[i] <= length + 1 - i
  <2>1. CASE i \in 1..offset
    BY <1>3, <2>1 DEF ReadInv, IsRead, offset, length
  <2>2. CASE i \notin 1..offset
    BY <1>1, <1>2, <1>3, <1>4, <2>2
  <2>. QED  BY <2>1, <2>2
<1>6. ASSUME NEW i \in 1..(Len(read) - 1)  PROVE read[i] - 1 <= read[i + 1]
  <2>1. i \in 1..Len(read) /\ i + 1 \in 1..Len(read)
    BY <1>1, <1>2, <1>3
  <2>2. CASE i + 1 \in 1..offset
    <3>1. i \in 1..(offset - 1) /\ i \in 1..offset
      BY <1>2, <2>2
    <3>. QED  BY <1>3, <2>2, <3>1 DEF ReadInv, IsRead, offset
  <2>3. CASE i + 1 \notin 1..offset
    <3>1. read[i + 1] = length + 1 - (i + 1)
      BY <1>2, <1>4, <2>1, <2>3
    <3>2. read[i] <= length + 1 - i /\ read[i] \in Nat
      BY <1>3, <1>5, <2>1
    <3>. QED  BY <1>2, <3>1, <3>2
  <2>. QED  BY <2>2, <2>3
<1>7. IsRead(read, From, length)
  BY <1>3, <1>5, <1>6 DEF IsRead
<1>8. ASSUME read # <<>>  PROVE pageOpened <= read[1] /\ pageCursor.snapshot <= read[1]
  <2>1. 1 \in 1..Len(read)
    BY <1>3, <1>8
  <2>2. CASE pageEvents # <<>>
    <3>1. 1 \in 1..offset
      BY <1>2, <2>2 DEF offset
    <3>. QED  BY <1>3, <2>2, <3>1 DEF ReadInv
  <2>3. CASE pageEvents = <<>>
    <3>1. offset = 0
      BY <2>3 DEF offset
    <3>2. read[1] = length
      BY <1>2, <1>4, <2>1, <3>1
    <3>. QED  BY <3>2 DEF ReadInv, length
  <2>. QED  BY <2>2, <2>3
<1>. QED  BY <1>3, <1>7, <1>8 DEF read, batch, offset, length

(* Who reads as many turns as there are has read the oldest.               *)
LEMMA LastOfRead ==
  ASSUME NEW from \in Nat, NEW length \in Nat, NEW read, IsRead(read, from, length), read # <<>>,
         Len(read) >= length + 1 - from
  PROVE  read[Len(read)] = from
<1>1. read \in Seq(Nat) /\ Len(read) \in Nat
  BY DEF IsRead
<1>2. Len(read) \in 1..Len(read)
  BY <1>1
<1>3. from <= read[Len(read)] /\ read[Len(read)] <= length + 1 - Len(read)
  BY <1>2 DEF IsRead
<1>4. read[Len(read)] \in Nat
  BY <1>1, <1>2
<1>. QED  BY <1>1, <1>3, <1>4

(* The last batch reaches the oldest turn that is asked for.               *)
LEMMA AllIsRead ==
  ASSUME ReadInv, pageReading, G!LastBatch(G!NextBatch), Len(pageLedger) <= MaxEvents,
         NEW read, read = pageEvents \o G!NextBatch
  PROVE  IF read = <<>> THEN Len(pageLedger) = 0 ELSE read[Len(read)] = From
<1>. DEFINE batch  == G!NextBatch
            length == Len(pageLedger)
            offset == Len(pageEvents)
            room   == IF BatchSize < MaxEvents - offset THEN BatchSize ELSE MaxEvents - offset
            left   == length + 1 - From - offset
<1>1. /\ Len(batch) = (IF room < left THEN room ELSE left) /\ left \in Nat /\ room \in Nat \ {0}
  BY BatchIs
<1>2. /\ IsRead(read, From, length) /\ Len(read) = offset + Len(batch)
  BY ReadGoesOn
<1>3. /\ offset \in Nat /\ length \in Nat /\ From \in Nat \ {0} /\ length <= MaxEvents
      /\ offset < MaxEvents /\ MaxEvents \in Nat /\ BatchSize \in Nat \ {0}
  BY PagesTypes DEF ReadInv, IsRead, From
<1>4. Len(batch) < BatchSize \/ offset + Len(batch) >= MaxEvents
  BY DEF G!LastBatch
<1>. HIDE DEF batch, length, offset
<1>5. Len(read) >= length + 1 - From
  <2>1. CASE room < left
    <3>1. Len(batch) = room
      BY <1>1, <2>1
    <3>2. offset + Len(batch) >= MaxEvents
      BY <1>3, <1>4, <3>1
    <3>. QED  BY <1>2, <1>3, <3>2
  <2>2. CASE ~(room < left)
    <3>1. Len(batch) = left
      BY <1>1, <2>2
    <3>. QED  BY <1>2, <1>3, <3>1
  <2>. QED  BY <2>1, <2>2
<1>6. CASE read = <<>>
  <2>1. 0 >= length + 1 - From
    BY <1>5, <1>6
  <2>2. From = 1 \/ From <= length
    BY DEF ReadInv, From, length
  <2>. QED  BY <1>3, <1>6, <2>1, <2>2 DEF length
<1>7. CASE read # <<>>
  BY <1>2, <1>3, <1>5, <1>7, LastOfRead
<1>. QED  BY <1>6, <1>7

(* What a page is made of: everything from From up to the snapshot.        *)
IsAll(read, snapshot) ==
  /\ IsRead(read, From, Len(pageLedger)) /\ snapshot \in 0..Len(pageLedger)
  /\ IF read = <<>> THEN Len(pageLedger) = 0 ELSE read[Len(read)] = From /\ snapshot <= read[1]

(* Every turn of the range is among those read.                            *)
LEMMA AllIsThere ==
  ASSUME ReadInv, NEW read, NEW snapshot, IsAll(read, snapshot), NEW t \in Nat, From <= t, t <= snapshot
  PROVE  \E i \in 1..Len(read) : read[i] = t
<1>1. From \in Nat \ {0} /\ snapshot <= Len(pageLedger) /\ Len(pageLedger) \in Nat
  BY DEF ReadInv, From, IsAll
<1>2. read # <<>> /\ read \in Seq(Nat) /\ read[Len(read)] = From /\ snapshot <= read[1] /\ snapshot \in Nat
  BY <1>1 DEF IsAll, IsRead
<1>3. 1 \in 1..Len(read) /\ Len(read) \in 1..Len(read) /\ read[1] \in Nat
  BY <1>2
<1>4. t <= read[1]
  BY <1>2, <1>3
<1>5. IsRead(read, From, Len(pageLedger)) /\ read[Len(read)] <= t
  BY <1>2 DEF IsAll
<1>. QED  BY <1>3, <1>4, <1>5, NoGap

(* The rows of one session: its turns in the range, oldest first.          *)
LEMMA TurnRowsAre ==
  ASSUME ReadInv, NEW read, NEW snapshot, IsAll(read, snapshot),
         NEW rows, rows = G!TurnRows(read, snapshot)
  PROVE  /\ rows \in Seq(Nat)
         /\ \A k \in 1..Len(rows) :
              rows[k] \in G!Wanted /\ pageCursor.seen < rows[k] /\ rows[k] <= snapshot
         /\ \A k \in 1..Len(rows), t \in G!Wanted :
              pageCursor.seen < t /\ t < rows[k] => \E l \in 1..(k - 1) : rows[l] = t
         /\ \A t \in G!Wanted :
              pageCursor.seen < t /\ t <= snapshot => \E l \in 1..Len(rows) : rows[l] = t
<1>. DEFINE back   == G!Reverse(read)
            n      == Len(read)
            picked == {t \in DOMAIN pageLedger :
                         pageCursor.seen < t /\ t <= snapshot /\ pageLedger[t] = pageAsked}
<1>1. /\ read \in Seq(Nat) /\ n \in Nat /\ snapshot \in Nat /\ DOMAIN pageLedger \subseteq Nat
      /\ pageCursor.seen \in Nat /\ From \in Nat
  BY DEF IsAll, IsRead, ReadInv, From
<1>2. back \in Seq(Nat) /\ Len(back) = n /\ \A i \in 1..n : back[i] = read[n - i + 1]
  <2>1. back = [i \in 1..n |-> read[(n - i) + 1]] /\ \A i \in 1..n : read[(n - i) + 1] \in Nat
    BY <1>1 DEF G!Reverse
  <2>. HIDE DEF back, n
  <2>. QED  BY <1>1, <2>1
<1>3. rows = Chosen(back, picked)
  BY SameChosen DEF G!TurnRows
<1>. HIDE DEF back, picked
<1>4. rows \in Seq(Nat)
  BY <1>2, <1>3, ChosenAt
<1>5. PICK at : IsChosen(rows, at, back, picked, n)
  BY <1>2, <1>3, ChosenAt
<1>6. \A k \in 1..Len(rows) : at[k] \in 1..n /\ rows[k] = back[at[k]] /\ rows[k] \in picked
  <2>1. \A k \in 1..Len(rows) : at[k] \in 1..n /\ rows[k] = back[at[k]]
    BY <1>5 DEF IsChosen
  <2>2. \A k \in 1..Len(rows) : back[at[k]] \in picked
    BY <1>5, <2>1 DEF IsChosen
  <2>. QED  BY <2>1, <2>2
<1>7. \A k \in 1..Len(rows) :
        rows[k] \in G!Wanted /\ pageCursor.seen < rows[k] /\ rows[k] <= snapshot
  BY <1>6 DEF picked, G!Wanted
<1>8. \A t \in G!Wanted : t \in Nat /\ (pageCursor.seen < t => From <= t)
  BY <1>1 DEF G!Wanted, From
<1>9. ASSUME NEW t \in G!Wanted, pageCursor.seen < t, t <= snapshot
      PROVE  \E l \in 1..Len(rows) : rows[l] = t
  <2>1. PICK i \in 1..n : read[i] = t
    BY <1>8, <1>9, AllIsThere
  <2>2. n - i + 1 \in 1..n /\ n - (n - i + 1) + 1 = i
    BY <1>1
  <2>3. back[n - i + 1] = t /\ t \in picked
    BY <1>2, <1>9, <2>1, <2>2 DEF picked, G!Wanted
  <2>4. PICK l \in 1..Len(rows) : at[l] = n - i + 1
    BY <1>5, <2>2, <2>3 DEF IsChosen
  <2>. QED  BY <1>6, <2>3, <2>4
<1>10. ASSUME NEW k \in 1..Len(rows), NEW t \in G!Wanted, pageCursor.seen < t, t < rows[k]
       PROVE  \E l \in 1..(k - 1) : rows[l] = t
  <2>. DEFINE a == n - at[k] + 1
  <2>1. at[k] \in 1..n /\ rows[k] = read[a] /\ a \in 1..n
    <3>1. at[k] \in 1..n /\ rows[k] = back[at[k]]
      BY <1>6
    <3>2. back[at[k]] = read[a]
      BY <1>2, <3>1
    <3>3. a \in 1..n
      BY <1>1, <3>1
    <3>. QED  BY <3>1, <3>2, <3>3
  <2>2. n \in a..n /\ read # <<>> /\ read[n] = From
    BY <1>1, <2>1 DEF IsAll
  <2>3. t \in Nat /\ read[n] <= t /\ t <= read[a] /\ read[a] \in Nat
    <3>1. read[a] \in Nat
      BY <1>1, <2>1
    <3>. QED  BY <1>8, <1>10, <2>1, <2>2, <3>1
  <2>4. IsRead(read, From, Len(pageLedger))
    BY DEF IsAll
  <2>. HIDE DEF a
  <2>5. PICK i \in a..n : read[i] = t
    BY <2>1, <2>2, <2>3, <2>4, NoGap
  <2>6. n - i + 1 \in 1..n /\ n - (n - i + 1) + 1 = i /\ n - i + 1 <= at[k]
    BY <1>1, <2>1 DEF a
  <2>7. back[n - i + 1] = t /\ t \in picked
    <3>1. t <= snapshot
      BY <1>1, <1>4, <1>7, <1>8, <1>10
    <3>. QED  BY <1>2, <1>10, <2>5, <2>6, <3>1 DEF picked, G!Wanted
  <2>8. PICK l \in 1..Len(rows) : at[l] = n - i + 1
    BY <1>5, <2>6, <2>7 DEF IsChosen
  <2>9. rows[l] = t
    BY <1>6, <2>7, <2>8
  <2>10. l < k
    <3>1. rows[k] \in Nat /\ l # k
      BY <1>4, <1>8, <1>10, <2>9
    <3>2. ~(k < l)
      <4>1. k < l => at[k] < at[l]
        BY <1>5 DEF IsChosen
      <4>. QED  BY <1>1, <2>1, <2>6, <2>8, <4>1
    <3>. QED  BY <1>4, <3>1, <3>2
  <2>. QED  BY <1>4, <2>9, <2>10
<1>. QED  BY <1>4, <1>7, <1>9, <1>10

(* Where a session is met first, newest turn first.                        *)
LEMMA SessionRowsAre ==
  ASSUME ReadInv, pageCursor.seen = 0, NEW read, NEW snapshot, IsAll(read, snapshot),
         NEW rows, rows = G!SessionRows(read, snapshot)
  PROVE  /\ Listed(pageLedger, rows, snapshot)
         /\ \A t \in 1..snapshot : \E l \in 1..Len(rows) : rows[l] = pageLedger[t]
<1>. DEFINE n      == Len(read)
            places == [i \in DOMAIN read |-> i]
            Meets(i, j) == read[j] <= snapshot /\ pageLedger[read[j]] = pageLedger[read[i]]
            firsts == {i \in DOMAIN read : Meets(i, i) /\ \A j \in 1..(i - 1) : ~Meets(i, j)}
            first  == Chosen(places, firsts)
<1>1. /\ read \in Seq(Nat) /\ n \in Nat /\ snapshot \in Nat /\ From = 1 /\ pageLedger \in Seq(Sessions)
      /\ DOMAIN read = 1..n /\ snapshot <= Len(pageLedger) /\ Len(pageLedger) \in Nat
  BY DEF IsAll, IsRead, ReadInv, From
<1>2. places \in Seq(Nat) /\ Len(places) = n /\ \A i \in 1..n : places[i] = i
  BY <1>1
<1>3. rows = [k \in DOMAIN first |-> pageLedger[read[first[k]]]]
  <2>1. G!Chosen(places, firsts) = first
    BY SameChosen
  <2>. QED  BY <2>1 DEF G!SessionRows
<1>. HIDE DEF places, firsts
<1>4. first \in Seq(Nat) /\ Len(first) \in Nat
  BY <1>2, ChosenAt
<1>5. PICK at : IsChosen(first, at, places, firsts, n)
  BY <1>2, ChosenAt
<1>. HIDE DEF first, n
<1>6. /\ \A k \in 1..Len(first) : first[k] \in 1..n /\ first[k] \in firsts
      /\ \A k, l \in 1..Len(first) : k < l => first[k] < first[l]
      /\ \A i \in 1..n : i \in firsts => \E k \in 1..Len(first) : first[k] = i
  <2>1. \A k \in 1..Len(first) : at[k] \in 1..n /\ first[k] = places[at[k]]
    BY <1>5 DEF IsChosen
  <2>2. \A k \in 1..Len(first) : first[k] = at[k]
    BY <1>2, <2>1
  <2>3. \A i \in 1..n : places[i] \in firsts <=> \E k \in 1..Len(first) : at[k] = i
    BY <1>5 DEF IsChosen
  <2>4. \A i \in 1..n : i \in firsts <=> \E k \in 1..Len(first) : first[k] = i
    BY <1>2, <2>2, <2>3
  <2>5. \A k, l \in 1..Len(first) : k < l => at[k] < at[l]
    BY <1>5 DEF IsChosen
  <2>. QED  BY <2>1, <2>2, <2>4, <2>5
<1>7. \A i \in 1..n : read[i] \in Nat /\ 1 <= read[i] /\ read[i] <= Len(pageLedger)
  <2>1. ASSUME NEW i \in 1..n  PROVE read[i] \in Nat /\ 1 <= read[i] /\ read[i] <= Len(pageLedger)
    <3>1. From <= read[i] /\ read[i] <= Len(pageLedger) + 1 - i
      BY DEF IsAll, IsRead, n
    <3>2. read[i] \in Nat
      BY <1>1 DEF n
    <3>. QED  BY <1>1, <3>1, <3>2
  <2>. QED  BY <2>1
<1>8. /\ DOMAIN rows = 1..Len(first) /\ \A k \in 1..Len(first) : rows[k] = pageLedger[read[first[k]]]
  BY <1>3, <1>4
<1>9. rows \in Seq(Sessions) /\ Len(rows) = Len(first)
  <2>1. \A k \in 1..Len(first) : pageLedger[read[first[k]]] \in Sessions
    BY <1>1, <1>6, <1>7
  <2>2. rows = [k \in 1..Len(first) |-> pageLedger[read[first[k]]]]
    BY <1>3, <1>4
  <2>. QED  BY <1>4, <2>1, <2>2
(* Every turn that was met belongs to a session that is there by then.     *)
<1>10. ASSUME NEW i \in 1..n, read[i] <= snapshot
       PROVE  \E l \in 1..Len(first) : first[l] <= i /\ rows[l] = pageLedger[read[i]]
  <2>. DEFINE same == {j \in 1..n : read[j] <= snapshot /\ pageLedger[read[j]] = pageLedger[read[i]]}
  <2>1. i \in same /\ same \in SUBSET Nat
    BY <1>10
  <2>2. PICK j \in same : \A m \in same : j <= m
    <3>. HIDE DEF same
    <3>. QED  BY <2>1, LeastNatural
  <2>3. j \in 1..n /\ j <= i /\ read[j] <= snapshot /\ pageLedger[read[j]] = pageLedger[read[i]]
    BY <2>1, <2>2
  <2>4. ASSUME NEW m \in 1..(j - 1)  PROVE ~Meets(j, m)
    <3>1. m \in 1..n /\ m \notin same
      BY <1>1, <2>2
    <3>. QED  BY <2>3, <3>1
  <2>5. j \in firsts
    BY <1>1, <2>3, <2>4 DEF firsts
  <2>6. PICK l \in 1..Len(first) : first[l] = j
    BY <1>6, <2>3, <2>5
  <2>. QED  BY <1>8, <2>3, <2>6
<1>11. ASSUME NEW t \in 1..snapshot  PROVE \E l \in 1..Len(rows) : rows[l] = pageLedger[t]
  <2>1. PICK i \in 1..n : read[i] = t
    <3>1. t \in Nat /\ From <= t /\ t <= snapshot
      BY <1>1
    <3>. QED  BY <3>1, AllIsThere DEF n
  <2>. QED  BY <1>9, <1>10, <2>1
<1>12. ASSUME NEW k \in 1..Len(rows), NEW l \in 1..Len(rows), k < l  PROVE rows[k] # rows[l]
  <2>1. /\ first[k] \in 1..n /\ first[l] \in 1..n /\ first[k] < first[l]
        /\ first[k] \in firsts /\ first[l] \in firsts
    BY <1>6, <1>9, <1>12
  <2>2. first[k] \in 1..(first[l] - 1)
    BY <1>1, <2>1
  <2>3. ~Meets(first[l], first[k]) /\ read[first[k]] <= snapshot
    BY <2>1, <2>2 DEF firsts
  <2>. QED  BY <1>8, <1>9, <2>3
<1>13. ASSUME NEW k \in 1..Len(rows)
       PROVE  \E t \in 1..snapshot :
                /\ pageLedger[t] = rows[k] /\ \A u \in (t + 1)..snapshot : pageLedger[u] # rows[k]
                /\ \A u \in t..snapshot : \E l \in 1..k : rows[l] = pageLedger[u]
  <2>. DEFINE i == first[k]
              t == read[i]
  <2>1. i \in 1..n /\ i \in firsts /\ pageLedger[t] = rows[k]
    BY <1>6, <1>8, <1>9
  <2>2. t \in 1..snapshot
    BY <1>1, <1>7, <2>1 DEF firsts
  <2>3. ASSUME NEW u \in t..snapshot  PROVE \E j \in 1..i : read[j] = u
    <3>1. read # <<>> /\ 1 \in 1..Len(read) /\ i \in 1..Len(read)
      BY <1>1, <2>1 DEF n
    <3>2. snapshot <= read[1] /\ read[1] \in Nat /\ IsRead(read, From, Len(pageLedger))
      BY <1>1, <3>1 DEF IsAll
    <3>3. u \in Nat /\ read[i] <= u /\ u <= read[1]
      BY <1>1, <2>2, <3>2
    <3>. HIDE DEF i
    <3>. QED  BY <3>1, <3>2, <3>3, NoGap
  <2>4. ASSUME NEW u \in (t + 1)..snapshot  PROVE pageLedger[u] # rows[k]
    <3>1. u \in t..snapshot /\ u # t
      BY <2>2
    <3>2. PICK j \in 1..i : read[j] = u
      BY <2>3, <3>1
    <3>3. j \in 1..(i - 1)
      BY <1>1, <2>1, <3>1, <3>2
    <3>4. ~Meets(i, j)
      BY <2>1, <3>3 DEF firsts
    <3>. QED  BY <2>1, <3>2, <3>4
  <2>5. ASSUME NEW u \in t..snapshot  PROVE \E l \in 1..k : rows[l] = pageLedger[u]
    <3>1. PICK j \in 1..i : read[j] = u
      BY <2>3
    <3>2. j \in 1..n /\ j <= i
      BY <1>1, <2>1
    <3>3. PICK l \in 1..Len(first) : first[l] <= j /\ rows[l] = pageLedger[u]
      BY <1>10, <3>1, <3>2
    <3>4. ~(k < l)
      <4>1. k < l => i < first[l]
        BY <1>6, <1>9
      <4>. QED  BY <1>4, <1>6, <2>1, <3>2, <3>3, <4>1
    <3>. QED  BY <1>9, <3>3, <3>4
  <2>. QED  BY <2>1, <2>2, <2>4, <2>5
<1>14. \A k, l \in 1..Len(rows) : rows[k] = rows[l] => k = l
  BY <1>4, <1>9, <1>12
<1>. QED  BY <1>9, <1>11, <1>13, <1>14 DEF Listed

(* What was listed up to a snapshot is how every listing of it begins.     *)
LEMMA ListedAlike ==
  ASSUME NEW snapshot \in Nat, NEW one, NEW two,
         Listed(pageLedger, one, snapshot), Listed(pageLedger, two, snapshot),
         \A t \in 1..snapshot : \E l \in 1..Len(two) : two[l] = pageLedger[t]
  PROVE  Len(one) <= Len(two) /\ \A k \in 1..Len(one) : one[k] = two[k]
<1>. DEFINE Same(k) == k \in 1..Len(two) /\ one[k] = two[k]
            differ == {k \in 1..Len(one) : ~Same(k)}
<1>1. Len(one) \in Nat /\ Len(two) \in Nat
  BY DEF Listed
<1>2. ASSUME differ # {}  PROVE FALSE
  <2>1. PICK k \in differ : \A m \in differ : k <= m
    <3>1. differ \in SUBSET Nat
      OBVIOUS
    <3>. HIDE DEF differ
    <3>. QED  BY <1>2, <3>1, LeastNatural
  <2>2. k \in 1..Len(one) /\ ~Same(k) /\ \A m \in 1..(k - 1) : Same(m)
    <3>1. ASSUME NEW m \in 1..(k - 1)  PROVE Same(m)
      <4>1. m \in 1..Len(one) /\ ~(k <= m)
        BY <1>1, <2>1
      <4>. HIDE DEF Same
      <4>. QED  BY <2>1, <4>1
    <3>. QED  BY <2>1, <3>1
  <2>3. PICK t \in 1..snapshot :
          /\ pageLedger[t] = one[k] /\ \A u \in (t + 1)..snapshot : pageLedger[u] # one[k]
          /\ \A u \in t..snapshot : \E l \in 1..k : one[l] = pageLedger[u]
    BY <2>2 DEF Listed
  <2>4. PICK j \in 1..Len(two) : two[j] = one[k]
    BY <2>3
  <2>5. ~(j < k)
    <3>1. ASSUME j < k  PROVE FALSE
      <4>1. j \in 1..(k - 1) /\ j \in 1..Len(one)
        BY <1>1, <2>2, <3>1
      <4>2. one[j] = one[k]
        BY <2>2, <2>4, <4>1
      <4>3. j = k
        BY <2>2, <4>1, <4>2 DEF Listed
      <4>. QED  BY <3>1, <4>3
    <3>. QED  BY <3>1
  <2>6. k \in 1..Len(two) /\ j # k /\ k < j
    BY <1>1, <2>2, <2>4, <2>5
  <2>7. PICK s \in 1..snapshot :
          /\ pageLedger[s] = two[k]
          /\ \A u \in s..snapshot : \E l \in 1..k : two[l] = pageLedger[u]
    BY <2>6 DEF Listed
  <2>8. ~(s <= t)
    <3>1. ASSUME s <= t  PROVE FALSE
      <4>1. t \in s..snapshot
        BY <3>1
      <4>2. PICK l \in 1..k : two[l] = pageLedger[t]
        BY <2>7, <4>1
      <4>3. l \in 1..Len(two) /\ two[l] = two[j] /\ l # j
        BY <1>1, <2>3, <2>4, <2>6, <4>2
      <4>. QED  BY <4>3 DEF Listed
    <3>. QED  BY <3>1
  <2>9. s \in t..snapshot
    BY <2>8
  <2>10. PICK l \in 1..k : one[l] = two[k]
    BY <2>3, <2>7, <2>9
  <2>11. CASE l = k
    BY <2>2, <2>6, <2>10, <2>11
  <2>12. CASE l # k
    <3>1. l \in 1..(k - 1) /\ l \in 1..Len(two)
      BY <1>1, <2>2, <2>6, <2>12
    <3>2. two[l] = two[k]
      BY <2>2, <2>10, <3>1
    <3>. QED  BY <2>6, <2>12, <3>1, <3>2 DEF Listed
  <2>. QED  BY <2>11, <2>12
<1>3. \A k \in 1..Len(one) : Same(k)
  BY <1>2
<1>4. Len(one) <= Len(two)
  <2>1. CASE Len(one) = 0
    BY <1>1, <2>1
  <2>2. CASE Len(one) # 0
    BY <1>1, <1>3, <2>2
  <2>. QED  BY <2>1, <2>2
<1>. QED  BY <1>3, <1>4

(* A page is the rows from the offset on, at least one if there is one.    *)
LEMMA PageIs ==
  ASSUME NEW X, NEW rows \in Seq(X), NEW limit \in 1..MaxLimit, pageCursor.offset \in 0..Len(rows),
         NEW page, page = G!PageOf(rows, limit)
  PROVE  /\ page \in Seq(X) /\ pageCursor.offset + Len(page) <= Len(rows)
         /\ \A k \in 1..Len(page) : page[k] = rows[pageCursor.offset + k]
         /\ pageCursor.offset < Len(rows) => Len(page) # 0
<1>. DEFINE offset == pageCursor.offset
            to     == IF offset + limit < Len(rows) THEN offset + limit ELSE Len(rows)
<1>1. /\ offset \in Nat /\ Len(rows) \in Nat /\ limit \in Nat \ {0} /\ to \in Nat
      /\ offset <= to /\ to <= Len(rows) /\ (offset < Len(rows) => offset < to)
  BY PagesTypes
<1>2. page = SubSeq(rows, offset + 1, to)
  BY DEF G!PageOf
<1>. HIDE DEF offset, to
<1>3. page \in Seq(X) /\ Len(page) = to - offset
  BY <1>1, <1>2
<1>4. ASSUME NEW k \in 1..Len(page)  PROVE page[k] = rows[offset + k]
  BY <1>1, <1>2, <1>3
<1>. QED  BY <1>1, <1>3, <1>4 DEF offset

(* One sequence after another.                                             *)
LEMMA JoinedIs ==
  ASSUME NEW X, NEW one \in Seq(X), NEW two \in Seq(X)
  PROVE  LET both == one \o two
         IN /\ both \in Seq(X) /\ Len(both) = Len(one) + Len(two)
            /\ \A k \in 1..Len(one) : both[k] = one[k]
            /\ \A k \in 1..Len(two) : both[Len(one) + k] = two[k]
            /\ \A k \in 1..Len(both) : k \in 1..Len(one) \/ \E j \in 1..Len(two) : k = Len(one) + j
<1>. DEFINE both == one \o two
<1>1. /\ both \in Seq(X) /\ Len(both) = Len(one) + Len(two) /\ Len(one) \in Nat /\ Len(two) \in Nat
      /\ \A k \in 1..Len(one) : both[k] = one[k]
      /\ \A k \in 1..Len(two) : both[Len(one) + k] = two[k]
  OBVIOUS
<1>. HIDE DEF both
<1>2. ASSUME NEW k \in 1..Len(both), k \notin 1..Len(one)  PROVE \E j \in 1..Len(two) : k = Len(one) + j
  <2>1. k - Len(one) \in 1..Len(two) /\ k = Len(one) + (k - Len(one))
    BY <1>1, <1>2
  <2>. QED  BY <2>1
<1>. QED  BY <1>1, <1>2 DEF both

(* A page of turns goes on where the last one shown stands.                *)
LEMMA TurnsPage ==
  ASSUME ReadInv, TurnsInv, pageCursor # G!NoMore, NEW read, NEW snapshot, IsAll(read, snapshot),
         pageOpened <= snapshot, NEW limit \in 1..MaxLimit,
         NEW rows, rows = G!TurnRows(read, snapshot), NEW page, page = G!PageOf(rows, limit),
         UNCHANGED <<pageLedger, pageAsked, pageOpened>>, pageShown' = pageShown \o page,
         IF pageCursor.offset + Len(page) >= Len(rows) THEN pageCursor' = G!NoMore
         ELSE pageCursor' = G!Cursor(snapshot, 0, page[Len(page)])
  PROVE  TurnsInv' /\ (pageCursor' # G!NoMore => page[Len(page)] \in 1..snapshot)
<1>1. /\ rows \in Seq(Nat)
      /\ \A k \in 1..Len(rows) :
           rows[k] \in G!Wanted /\ pageCursor.seen < rows[k] /\ rows[k] <= snapshot
      /\ \A k \in 1..Len(rows), t \in G!Wanted :
           pageCursor.seen < t /\ t < rows[k] => \E l \in 1..(k - 1) : rows[l] = t
      /\ \A t \in G!Wanted :
           pageCursor.seen < t /\ t <= snapshot => \E l \in 1..Len(rows) : rows[l] = t
  BY TurnRowsAre
<1>2. pageCursor.offset = 0 /\ Len(rows) \in Nat /\ pageCursor.seen \in Nat /\ G!Wanted \subseteq Nat
  BY <1>1 DEF TurnsInv, ReadInv, G!Wanted
<1>3. /\ page \in Seq(Nat) /\ Len(page) <= Len(rows) /\ (0 < Len(rows) => Len(page) # 0)
      /\ \A k \in 1..Len(page) : page[k] = rows[k] /\ k \in 1..Len(rows)
  <2>1. /\ page \in Seq(Nat) /\ 0 + Len(page) <= Len(rows)
        /\ \A k \in 1..Len(page) : page[k] = rows[0 + k]
        /\ 0 < Len(rows) => Len(page) # 0
    BY <1>1, <1>2, PageIs
  <2>2. Len(page) \in Nat
    BY <2>1
  <2>. QED  BY <1>2, <2>1, <2>2
<1>. DEFINE shown == pageShown
            n     == Len(shown)
<1>4. /\ pageShown' \in Seq(Nat) /\ Len(pageShown') = n + Len(page)
      /\ \A k \in 1..n : pageShown'[k] = shown[k]
      /\ \A k \in 1..Len(page) : pageShown'[n + k] = page[k]
      /\ \A k \in 1..Len(pageShown') : k \in 1..n \/ \E j \in 1..Len(page) : k = n + j
      /\ n \in Nat /\ Len(page) \in Nat /\ shown \in Seq(Nat)
  <2>1. shown \in Seq(Nat)
    BY DEF TurnsInv
  <2>2. n \in Nat /\ Len(page) \in Nat
    BY <1>3, <2>1
  <2>3. PICK both : both = pageShown'
    OBVIOUS
  <2>4. /\ both \in Seq(Nat) /\ Len(both) = n + Len(page)
        /\ \A k \in 1..n : both[k] = shown[k]
        /\ \A k \in 1..Len(page) : both[n + k] = page[k]
        /\ \A k \in 1..Len(both) : k \in 1..n \/ \E j \in 1..Len(page) : k = n + j
    <3>. HIDE DEF n
    <3>1. both = pageShown \o page /\ page \in Seq(Nat) /\ pageShown \in Seq(Nat)
      BY <1>3, <2>1, <2>3
    <3>2. /\ both \in Seq(Nat) /\ Len(both) = Len(pageShown) + Len(page)
          /\ \A k \in 1..Len(pageShown) : both[k] = pageShown[k]
          /\ \A k \in 1..Len(page) : both[Len(pageShown) + k] = page[k]
          /\ \A k \in 1..Len(both) :
               k \in 1..Len(pageShown) \/ \E j \in 1..Len(page) : k = Len(pageShown) + j
      BY <3>1, JoinedIs
    <3>. QED  BY <3>2 DEF n
  <2>. QED  BY <2>1, <2>2, <2>3, <2>4
<1>5. G!Wanted' = G!Wanted
  BY DEF G!Wanted
(* What the client has seen the end of is there.                           *)
<1>6. ASSUME NEW t \in G!Wanted, t <= pageCursor.seen
      PROVE  \E l \in 1..n : shown[l] = t
  <2>1. pageCursor.seen # 0 /\ shown # <<>> /\ shown[n] = pageCursor.seen
    <3>1. t \in 1..Len(pageLedger) /\ Len(pageLedger) \in Nat
      BY DEF G!Wanted, ReadInv
    <3>2. pageCursor.seen # 0
      BY <1>2, <1>6, <3>1
    <3>. QED  BY <3>2 DEF TurnsInv
  <2>2. n \in 1..n
    BY <1>4, <2>1
  <2>3. CASE t = shown[n]
    BY <2>2, <2>3
  <2>4. CASE t # shown[n]
    <3>1. t < shown[n]
      BY <1>2, <1>6, <2>1, <2>4
    <3>2. PICK l \in 1..(n - 1) : shown[l] = t
      BY <2>2, <3>1 DEF TurnsInv
    <3>. QED  BY <1>4, <3>2
  <2>. QED  BY <2>3, <2>4
<1>7. ASSUME NEW k \in 1..Len(pageShown')  PROVE pageShown'[k] \in G!Wanted
  <2>1. CASE k \in 1..n
    BY <1>4, <2>1 DEF TurnsInv
  <2>2. ASSUME NEW j \in 1..Len(page), k = n + j  PROVE pageShown'[k] \in G!Wanted
    <3>1. pageShown'[k] = page[j]
      BY <1>4, <2>2
    <3>2. page[j] = rows[j] /\ rows[j] \in G!Wanted
      BY <1>1, <1>3
    <3>. QED  BY <3>1, <3>2
  <2>. QED  BY <1>4, <2>1, <2>2
<1>8. ASSUME NEW k \in 1..Len(pageShown'), NEW t \in G!Wanted, t < pageShown'[k]
      PROVE  \E l \in 1..(k - 1) : pageShown'[l] = t
  <2>1. CASE k \in 1..n
    <3>1. PICK l \in 1..(k - 1) : shown[l] = t
      BY <1>4, <1>8, <2>1 DEF TurnsInv
    <3>2. l \in 1..n
      BY <1>4, <2>1
    <3>. QED  BY <1>4, <3>1, <3>2
  <2>2. ASSUME NEW j \in 1..Len(page), k = n + j  PROVE \E l \in 1..(k - 1) : pageShown'[l] = t
    <3>1. t < rows[j] /\ j \in 1..Len(rows)
      BY <1>3, <1>4, <1>8, <2>2
    <3>2. CASE t <= pageCursor.seen
      <4>1. PICK l \in 1..n : shown[l] = t
        BY <1>6, <3>2
      <4>2. l \in 1..(k - 1)
        BY <1>4, <2>2
      <4>. QED  BY <1>4, <4>1, <4>2
    <3>3. CASE pageCursor.seen < t
      <4>1. PICK i \in 1..(j - 1) : rows[i] = t
        BY <1>1, <3>1, <3>3
      <4>2. i \in 1..Len(page) /\ n + i \in 1..(k - 1)
        BY <1>4, <2>2
      <4>3. pageShown'[n + i] = t
        BY <1>3, <1>4, <4>1, <4>2
      <4>. QED  BY <4>2, <4>3
    <3>. QED  BY <1>2, <3>2, <3>3
  <2>. QED  BY <1>4, <2>1, <2>2
<1>9. ASSUME pageCursor' # G!NoMore
      PROVE  /\ pageCursor' = G!Cursor(snapshot, 0, page[Len(page)]) /\ Len(page) \in 1..Len(page)
             /\ page[Len(page)] \in 1..snapshot
  <2>1. pageCursor' = G!Cursor(snapshot, 0, page[Len(page)]) /\ Len(page) < Len(rows)
    BY <1>2, <1>4, <1>9
  <2>2. Len(page) \in 1..Len(page)
    BY <1>2, <1>3, <1>4, <2>1
  <2>3. page[Len(page)] = rows[Len(page)] /\ Len(page) \in 1..Len(rows)
    BY <1>3, <2>2
  <2>4. rows[Len(page)] \in Nat /\ pageCursor.seen < rows[Len(page)] /\ rows[Len(page)] <= snapshot
    BY <1>1, <2>3
  <2>5. snapshot \in Nat
    BY DEF IsAll, ReadInv
  <2>. QED  BY <1>2, <2>1, <2>2, <2>3, <2>4, <2>5
<1>10. ASSUME pageCursor' # G!NoMore
       PROVE  /\ pageCursor'.offset = 0 /\ pageCursor'.seen # 0
              /\ pageShown' # <<>> /\ pageShown'[Len(pageShown')] = pageCursor'.seen
  <2>1. pageCursor'.offset = 0 /\ pageCursor'.seen = page[Len(page)]
    BY <1>9, <1>10 DEF G!Cursor
  <2>2. Len(pageShown') # 0 /\ pageShown'[Len(pageShown')] = page[Len(page)]
    BY <1>4, <1>9, <1>10
  <2>3. page[Len(page)] # 0
    BY <1>9, <1>10
  <2>. QED  BY <1>4, <2>1, <2>2, <2>3
<1>11. ASSUME pageCursor' = G!NoMore, NEW t \in G!Wanted, t <= pageOpened
       PROVE  \E k \in DOMAIN pageShown' : pageShown'[k] = t
  <2>1. DOMAIN pageShown' = 1..Len(pageShown')
    BY <1>4
  <2>2. CASE t <= pageCursor.seen
    <3>1. PICK l \in 1..n : shown[l] = t
      BY <1>6, <2>2
    <3>2. l \in 1..Len(pageShown') /\ pageShown'[l] = t
      BY <1>4, <3>1
    <3>. QED  BY <2>1, <3>2
  <2>3. CASE pageCursor.seen < t
    <3>1. t <= snapshot
      <4>1. t \in Nat /\ pageOpened \in Nat /\ snapshot \in Nat
        BY <1>2 DEF ReadInv, IsAll
      <4>. QED  BY <1>11, <4>1
    <3>2. PICK l \in 1..Len(rows) : rows[l] = t
      BY <1>1, <2>3, <3>1
    <3>3. Len(page) = Len(rows)
      <4>1. page[Len(page)] \in Nat /\ (Len(page) < Len(rows) => Len(page) # 0)
        BY <1>2, <1>3, <1>4, <3>2
      <4>2. CASE Len(page) < Len(rows)
        <5>1. pageCursor' = G!Cursor(snapshot, 0, page[Len(page)])
          BY <1>2, <1>4, <4>2
        <5>2. Len(page) \in 1..Len(rows) /\ page[Len(page)] = rows[Len(page)]
          BY <1>2, <1>3, <1>4, <4>1, <4>2
        <5>3. rows[Len(page)] \in G!Wanted
          BY <1>1, <5>2
        <5>4. page[Len(page)] # MaxTurns + 1
          <6>1. page[Len(page)] \in 1..Len(pageLedger)
            <7>1. pageLedger \in Seq(Sessions)
              BY DEF ReadInv
            <7>2. rows[Len(page)] \in 1..Len(pageLedger)
              BY <5>3, <7>1 DEF G!Wanted
            <7>. QED  BY <5>2, <7>2
          <6>2. Len(pageLedger) <= MaxTurns /\ Len(pageLedger) \in Nat /\ MaxTurns \in Nat
            BY PagesTypes DEF ReadInv
          <6>. HIDE DEF n
          <6>. QED  BY <6>1, <6>2
        <5>5. pageCursor'.seen = page[Len(page)] /\ pageCursor'.seen = MaxTurns + 1
          BY <1>11, <5>1 DEF G!Cursor, G!NoMore
        <5>. QED  BY <5>4, <5>5
      <4>. QED  BY <1>2, <1>3, <1>4, <4>2
    <3>4. n + l \in 1..Len(pageShown') /\ pageShown'[n + l] = t
      BY <1>3, <1>4, <3>2, <3>3
    <3>. QED  BY <2>1, <3>4
  <2>. QED  BY <1>2, <2>2, <2>3
<1>12. TurnsInv'
  BY <1>4, <1>5, <1>7, <1>8, <1>10, <1>11 DEF TurnsInv
<1>. QED  BY <1>9, <1>12

(* A page of sessions goes on at the offset: the listing begins with what  *)
(* was shown, as the snapshot has not changed.                             *)
LEMMA SessionsPage ==
  ASSUME ReadInv, SessionsInv, pageCursor # G!NoMore, NEW read, NEW snapshot, IsAll(read, snapshot),
         pageOpened <= snapshot, pageCursor.snapshot # 0 => snapshot = pageCursor.snapshot,
         NEW limit \in 1..MaxLimit,
         NEW rows, rows = G!SessionRows(read, snapshot), NEW page, page = G!PageOf(rows, limit),
         UNCHANGED <<pageLedger, pageAsked, pageOpened>>, pageShown' = pageShown \o page,
         IF pageCursor.offset + Len(page) >= Len(rows) THEN pageCursor' = G!NoMore
         ELSE pageCursor' = G!Cursor(snapshot, pageCursor.offset + Len(page), 0)
  PROVE  /\ SessionsInv'
         /\ pageCursor' # G!NoMore =>
              snapshot # 0 /\ \E n \in Nat : pageCursor' = [snapshot |-> snapshot, offset |-> n, seen |-> 0]
<1>. DEFINE offset == pageCursor.offset
            n      == offset + Len(page)
<1>1. /\ Listed(pageLedger, rows, snapshot) /\ rows \in Seq(Sessions)
      /\ \A t \in 1..snapshot : \E l \in 1..Len(rows) : rows[l] = pageLedger[t]
      /\ \A k, l \in 1..Len(rows) : rows[k] = rows[l] => k = l
  <2>1. pageCursor.seen = 0
    BY DEF SessionsInv
  <2>2. /\ Listed(pageLedger, rows, snapshot)
        /\ \A t \in 1..snapshot : \E l \in 1..Len(rows) : rows[l] = pageLedger[t]
    BY <2>1, SessionRowsAre
  <2>. QED  BY <2>2 DEF Listed
<1>2. /\ pageShown \in Seq(Sessions) /\ Len(pageShown) = offset /\ offset \in Nat
      /\ Len(rows) \in Nat /\ snapshot \in Nat
  <2>1. pageShown \in Seq(Sessions) /\ Len(pageShown) = offset
    BY DEF SessionsInv, Listed
  <2>2. snapshot \in Nat
    BY DEF IsAll, ReadInv
  <2>. QED  BY <1>1, <2>1, <2>2
<1>3. offset <= Len(rows) /\ \A k \in 1..offset : pageShown[k] = rows[k]
  <2>1. CASE pageCursor.snapshot = 0
    <3>1. offset = 0
      BY <2>1 DEF ReadInv, G!Start, G!Cursor
    <3>. QED  BY <1>2, <3>1
  <2>2. CASE pageCursor.snapshot # 0
    <3>1. Listed(pageLedger, pageShown, snapshot)
      BY <2>2 DEF SessionsInv
    <3>2. \A t \in 1..snapshot : \E l \in 1..Len(rows) : rows[l] = pageLedger[t]
      BY <1>1
    <3>3. snapshot \in Nat /\ Listed(pageLedger, rows, snapshot)
      BY <1>1, <1>2
    <3>4. Len(pageShown) <= Len(rows) /\ \A k \in 1..Len(pageShown) : pageShown[k] = rows[k]
      BY <3>1, <3>2, <3>3, ListedAlike
    <3>. QED  BY <1>2, <3>4
  <2>. QED  BY <2>1, <2>2
<1>4. /\ page \in Seq(Sessions) /\ n <= Len(rows) /\ n \in Nat
      /\ \A k \in 1..Len(page) : page[k] = rows[offset + k]
  <2>1. offset \in 0..Len(rows)
    BY <1>2, <1>3
  <2>2. /\ page \in Seq(Sessions) /\ n <= Len(rows)
        /\ \A k \in 1..Len(page) : page[k] = rows[offset + k]
    BY <1>1, <2>1, PageIs
  <2>. QED  BY <1>2, <2>2
<1>5. PICK both : both = pageShown'
  OBVIOUS
<1>6. /\ both \in Seq(Sessions) /\ Len(both) = n
      /\ \A k \in 1..offset : both[k] = pageShown[k]
      /\ \A k \in 1..Len(page) : both[offset + k] = page[k]
      /\ \A k \in 1..Len(both) : k \in 1..offset \/ \E j \in 1..Len(page) : k = offset + j
  <2>1. both = pageShown \o page /\ page \in Seq(Sessions) /\ pageShown \in Seq(Sessions)
    BY <1>2, <1>4, <1>5
  <2>2. /\ both \in Seq(Sessions) /\ Len(both) = Len(pageShown) + Len(page)
        /\ \A k \in 1..Len(pageShown) : both[k] = pageShown[k]
        /\ \A k \in 1..Len(page) : both[Len(pageShown) + k] = page[k]
        /\ \A k \in 1..Len(both) :
             k \in 1..Len(pageShown) \/ \E j \in 1..Len(page) : k = Len(pageShown) + j
    BY <2>1, JoinedIs
  <2>. QED  BY <1>2, <2>2
<1>. HIDE DEF n, offset
<1>7. ASSUME NEW k \in 1..n  PROVE both[k] = rows[k] /\ k \in 1..Len(rows)
  <2>1. k \in 1..Len(rows)
    BY <1>2, <1>4
  <2>2. CASE k \in 1..offset
    BY <1>3, <1>6, <2>1, <2>2
  <2>3. ASSUME NEW j \in 1..Len(page), k = offset + j  PROVE both[k] = rows[k]
    BY <1>4, <1>6, <2>3
  <2>. QED  BY <1>6, <2>1, <2>2, <2>3
<1>8. \A k, l \in 1..n : both[k] = both[l] => k = l
  BY <1>1, <1>7
<1>9. Listed(pageLedger, both, snapshot)
  <2>1. ASSUME NEW k \in 1..n
        PROVE  \E t \in 1..snapshot :
                 /\ pageLedger[t] = both[k] /\ \A u \in (t + 1)..snapshot : pageLedger[u] # both[k]
                 /\ \A u \in t..snapshot : \E l \in 1..k : both[l] = pageLedger[u]
    <3>1. k \in 1..Len(rows) /\ both[k] = rows[k] /\ \A l \in 1..k : both[l] = rows[l]
      BY <1>4, <1>7
    <3>2. PICK t \in 1..snapshot :
            /\ pageLedger[t] = rows[k] /\ \A u \in (t + 1)..snapshot : pageLedger[u] # rows[k]
            /\ \A u \in t..snapshot : \E l \in 1..k : rows[l] = pageLedger[u]
      BY <1>1, <3>1 DEF Listed
    <3>3. \A u \in t..snapshot : \E l \in 1..k : both[l] = pageLedger[u]
      BY <3>1, <3>2
    <3>. QED  BY <3>1, <3>2, <3>3
  <2>. QED  BY <1>6, <1>8, <2>1 DEF Listed
<1>10. DOMAIN both = 1..n
  BY <1>6
<1>11. \A k, l \in DOMAIN pageShown' : pageShown'[k] = pageShown'[l] => k = l
  <2>1. ASSUME NEW k \in DOMAIN pageShown', NEW l \in DOMAIN pageShown', pageShown'[k] = pageShown'[l]
        PROVE  k = l
    <3>1. k \in 1..n /\ l \in 1..n /\ both[k] = both[l]
      BY <1>5, <1>10, <2>1
    <3>. QED  BY <1>8, <3>1
  <2>. QED  BY <2>1
<1>12. CASE n >= Len(rows)
  <2>1. pageCursor' = G!NoMore
    BY <1>12 DEF n, offset
  <2>2. n = Len(rows)
    BY <1>2, <1>4, <1>12
  <2>3. ASSUME NEW t \in 1..pageOpened  PROVE \E k \in DOMAIN both : both[k] = pageLedger[t]
    <3>1. t \in 1..snapshot
      <4>1. pageOpened \in Nat
        BY DEF ReadInv
      <4>. QED  BY <1>2, <4>1
    <3>2. PICK l \in 1..Len(rows) : rows[l] = pageLedger[t]
      BY <1>1, <3>1
    <3>. QED  BY <1>7, <1>10, <2>2, <3>2
  <2>4. \A t \in 1..pageOpened' : \E k \in DOMAIN pageShown' : pageShown'[k] = pageLedger'[t]
    BY <1>5, <2>3
  <2>. QED  BY <1>11, <2>1, <2>4 DEF SessionsInv
<1>13. CASE ~(n >= Len(rows))
  <2>1. pageCursor' = G!Cursor(snapshot, n, 0)
    BY <1>13 DEF n, offset
  <2>2. pageCursor'.seen = 0 /\ pageCursor'.offset = n /\ pageCursor'.snapshot = snapshot
    BY <2>1 DEF G!Cursor
  <2>3. pageCursor' # G!NoMore
    <3>1. G!NoMore.seen = MaxTurns + 1 /\ MaxTurns \in Nat
      BY PagesTypes DEF G!NoMore, G!Cursor
    <3>. QED  BY <2>2, <3>1
  <2>4. Listed(pageLedger', pageShown', pageCursor'.snapshot)
    BY <1>5, <1>9, <2>2
  <2>5. snapshot # 0
    <3>1. 1 \in 1..Len(rows)
      BY <1>2, <1>4, <1>13
    <3>2. \E t \in 1..snapshot : TRUE
      BY <1>1, <3>1 DEF Listed
    <3>. QED  BY <1>2, <3>2
  <2>6. Len(pageShown') = n
    BY <1>5, <1>6
  <2>7. SessionsInv'
    BY <1>11, <2>2, <2>3, <2>4, <2>5, <2>6 DEF SessionsInv
  <2>8. pageCursor' = [snapshot |-> snapshot, offset |-> n, seen |-> 0]
    BY <2>1 DEF G!Cursor
  <2>. QED  BY <1>4, <2>5, <2>7, <2>8
<1>. QED  BY <1>12, <1>13

(* What a page is put together from, and what it leaves behind.            *)
LEMMA PageStep ==
  ASSUME PageInv, NEW limit \in 1..MaxLimit, G!PageDone(limit), Len(pageLedger) <= MaxEvents
  PROVE  PageInv'
<1>. DEFINE read     == pageEvents \o G!NextBatch
            snapshot == G!Snapshot(read)
            rows     == IF pageAsked = AllSessions THEN G!SessionRows(read, snapshot)
                        ELSE G!TurnRows(read, snapshot)
            page     == G!PageOf(rows, limit)
            reached  == pageCursor.offset + Len(page)
<1>1. ReadInv /\ pageReading /\ pageCursor # G!NoMore /\ G!LastBatch(G!NextBatch)
  BY DEF PageInv, ReadInv, G!PageDone
<1>2. /\ pageReading' = FALSE /\ pageEvents' = <<>>
      /\ UNCHANGED <<pageLedger, pageAsked, pageOpened>>
      /\ pageShown' = pageShown \o page
      /\ pageCursor' = G!CursorAfter(page, snapshot, rows)
  BY DEF G!PageDone
<1>3. /\ pageLedger \in Seq(Sessions) /\ Len(pageLedger) \in Nat /\ Len(pageLedger) <= MaxTurns
      /\ pageOpened \in 0..Len(pageLedger) /\ pageAsked \in Sessions \cup {AllSessions}
      /\ pageCursor \in [snapshot : Nat, offset : Nat, seen : Nat]
      /\ pageCursor.snapshot <= Len(pageLedger)
  BY <1>1 DEF ReadInv
<1>4. /\ IsRead(read, From, Len(pageLedger))
      /\ read # <<>> => pageOpened <= read[1] /\ pageCursor.snapshot <= read[1]
  BY <1>1, ReadGoesOn
<1>5. IF read = <<>> THEN Len(pageLedger) = 0 ELSE read[Len(read)] = From
  BY <1>1, AllIsRead
<1>6. snapshot = IF pageCursor.snapshot # 0 THEN pageCursor.snapshot
                 ELSE IF read = <<>> THEN Len(pageLedger) ELSE read[1]
  BY DEF G!Snapshot, G!SnapshotRenewed
<1>. HIDE DEF read, snapshot, page
<1>7. read # <<>> => read[1] \in 0..Len(pageLedger)
  <2>1. ASSUME read # <<>>  PROVE read[1] \in 0..Len(pageLedger)
    <3>1. read \in Seq(Nat)
      BY <1>4 DEF IsRead
    <3>2. 1 \in 1..Len(read)
      BY <2>1, <3>1
    <3>3. read[1] \in Nat /\ read[1] <= Len(pageLedger) + 1 - 1
      BY <1>4, <3>1, <3>2 DEF IsRead
    <3>. QED  BY <1>3, <3>3
  <2>. QED  BY <2>1
<1>8. snapshot \in 0..Len(pageLedger) /\ snapshot \in Nat
  BY <1>3, <1>6, <1>7
<1>9. IsAll(read, snapshot)
  <2>1. read # <<>> => snapshot <= read[1]
    BY <1>3, <1>4, <1>6, <1>7
  <2>. QED  BY <1>4, <1>5, <1>8, <2>1 DEF IsAll
<1>10. pageOpened <= snapshot
  <2>1. CASE pageCursor.snapshot # 0
    BY <1>1, <1>6, <2>1 DEF ReadInv
  <2>2. CASE pageCursor.snapshot = 0
    BY <1>3, <1>4, <1>6, <2>2
  <2>. QED  BY <2>1, <2>2
<1>11. /\ G!Start = [snapshot |-> 0, offset |-> 0, seen |-> 0]
       /\ G!NoMore \in [snapshot : Nat, offset : Nat, seen : Nat]
  BY PagesTypes DEF G!Start, G!NoMore, G!Cursor
(* What ReadInv says of the new cursor.                                    *)
<1>12. ASSUME pageCursor' # G!NoMore =>
                /\ pageCursor' \in [snapshot : Nat, offset : Nat, seen : Nat]
                /\ pageCursor'.seen <= snapshot /\ pageCursor'.snapshot = snapshot /\ snapshot # 0
       PROVE  ReadInv'
  <2>1. pageCursor' \in [snapshot : Nat, offset : Nat, seen : Nat]
    BY <1>11, <1>12
  <2>2. pageCursor' # G!NoMore =>
          /\ pageCursor'.seen <= pageCursor'.snapshot /\ pageCursor'.snapshot <= Len(pageLedger')
          /\ pageCursor'.snapshot # 0 /\ pageOpened' <= pageCursor'.snapshot
    BY <1>2, <1>8, <1>10, <1>12
  <2>3. /\ pageLedger' \in Seq(Sessions) /\ Len(pageLedger') <= MaxTurns
        /\ pageAsked' \in Sessions \cup {AllSessions} /\ pageOpened' \in 0..Len(pageLedger')
    BY <1>2, <1>3
  <2>4. pageReading' \in BOOLEAN /\ ~pageReading' /\ pageEvents' = <<>>
    BY <1>2
  <2>. QED  BY <2>1, <2>2, <2>3, <2>4 DEF ReadInv
<1>13. CASE pageAsked = AllSessions
  <2>1. SessionsInv /\ rows = G!SessionRows(read, snapshot)
    BY <1>13 DEF PageInv
  <2>. HIDE DEF rows
  <2>2. IF reached >= Len(rows) THEN pageCursor' = G!NoMore
        ELSE pageCursor' = G!Cursor(snapshot, reached, 0)
    BY <1>2, <1>13 DEF G!CursorAfter
  <2>3. /\ SessionsInv'
        /\ pageCursor' # G!NoMore =>
             snapshot # 0 /\ \E n \in Nat : pageCursor' = [snapshot |-> snapshot, offset |-> n, seen |-> 0]
    <3>1. page = G!PageOf(rows, limit)
      BY DEF page
    <3>2. pageCursor.snapshot # 0 => snapshot = pageCursor.snapshot
      BY <1>6
    <3>. QED  BY <1>1, <1>2, <1>9, <1>10, <2>1, <2>2, <3>1, <3>2, SessionsPage
  <2>4. ReadInv'
    <3>1. ASSUME pageCursor' # G!NoMore
          PROVE  /\ pageCursor' \in [snapshot : Nat, offset : Nat, seen : Nat]
                 /\ pageCursor'.seen <= snapshot /\ pageCursor'.snapshot = snapshot /\ snapshot # 0
      <4>1. PICK n \in Nat : pageCursor' = [snapshot |-> snapshot, offset |-> n, seen |-> 0]
        BY <2>3, <3>1
      <4>. QED  BY <1>8, <2>3, <3>1, <4>1
    <3>. QED  BY <1>12, <3>1
  <2>. QED  BY <1>2, <1>3, <1>13, <2>3, <2>4 DEF PageInv
<1>14. CASE pageAsked # AllSessions
  <2>1. TurnsInv /\ rows = G!TurnRows(read, snapshot)
    BY <1>14 DEF PageInv
  <2>. HIDE DEF rows
  <2>2. IF reached >= Len(rows) THEN pageCursor' = G!NoMore
        ELSE pageCursor' = G!Cursor(snapshot, 0, page[Len(page)])
    BY <1>2, <1>14 DEF G!CursorAfter, G!Last
  <2>3. TurnsInv' /\ (pageCursor' # G!NoMore => page[Len(page)] \in 1..snapshot)
    <3>1. page = G!PageOf(rows, limit)
      BY DEF page
    <3>. QED  BY <1>1, <1>2, <1>9, <1>10, <2>1, <2>2, <3>1, TurnsPage
  <2>4. ReadInv'
    <3>1. ASSUME pageCursor' # G!NoMore
          PROVE  /\ pageCursor' \in [snapshot : Nat, offset : Nat, seen : Nat]
                 /\ pageCursor'.seen <= snapshot /\ pageCursor'.snapshot = snapshot /\ snapshot # 0
      <4>1. pageCursor' = [snapshot |-> snapshot, offset |-> 0, seen |-> page[Len(page)]]
        BY <2>2, <3>1 DEF G!Cursor
      <4>2. page[Len(page)] \in 1..snapshot
        BY <2>3, <3>1
      <4>. QED  BY <1>8, <4>1, <4>2
    <3>. QED  BY <1>12, <3>1
  <2>. QED  BY <1>2, <1>3, <1>14, <2>3, <2>4 DEF PageInv
<1>. QED  BY <1>13, <1>14

(* A turn that completes leaves what was read and shown where it was.      *)
LEMMA TurnStep ==
  ASSUME PageInv, G!TurnCompleted
  PROVE  PageInv'
<1>1. PICK s \in Sessions : pageLedger' = Append(pageLedger, s)
  BY DEF G!TurnCompleted
<1>2. /\ Len(pageLedger) < MaxTurns
      /\ UNCHANGED <<pageAsked, pageCursor, pageReading, pageEvents, pageShown, pageOpened>>
  BY DEF G!TurnCompleted
<1>. DEFINE length == Len(pageLedger)
<1>3. pageLedger \in Seq(Sessions) /\ length \in Nat /\ MaxTurns \in Nat /\ MaxEvents \in Nat
  BY PagesTypes DEF PageInv
<1>4. pageLedger' \in Seq(Sessions) /\ Len(pageLedger') = length + 1
  BY <1>1, <1>3
<1>5. \A t \in 1..length : pageLedger'[t] = pageLedger[t]
  BY <1>1, <1>3
<1>6. SUFFICES ASSUME Len(pageLedger') <= MaxEvents
               PROVE  ReadInv' /\ IF pageAsked' = AllSessions THEN SessionsInv' ELSE TurnsInv'
  BY <1>4 DEF PageInv
<1>7. ReadInv /\ IF pageAsked = AllSessions THEN SessionsInv ELSE TurnsInv
  BY <1>3, <1>4, <1>6 DEF PageInv
<1>. HIDE DEF length
<1>8. /\ pageOpened \in Nat /\ pageOpened <= length
      /\ pageCursor \in [snapshot : Nat, offset : Nat, seen : Nat]
      /\ pageCursor # G!NoMore => pageCursor.snapshot <= length
  BY <1>7 DEF ReadInv, length
<1>9. ASSUME NEW read, IsRead(read, From, length)  PROVE IsRead(read, From', Len(pageLedger'))
  <2>1. From' = From
    BY <1>2 DEF From
  <2>2. read \in Seq(Nat)
    BY <1>9 DEF IsRead
  <2>3. \A i \in 1..Len(read) : From <= read[i] /\ read[i] <= length + 1 + 1 - i
    <3>1. ASSUME NEW i \in 1..Len(read)  PROVE From <= read[i] /\ read[i] <= length + 1 + 1 - i
      <4>1. From <= read[i] /\ read[i] <= length + 1 - i /\ read[i] \in Nat
        BY <1>9, <2>2 DEF IsRead
      <4>. QED  BY <1>3, <4>1
    <3>. QED  BY <3>1
  <2>. QED  BY <1>4, <1>9, <2>1, <2>2, <2>3 DEF IsRead
<1>10. ReadInv'
  <2>1. /\ Len(pageLedger') <= MaxTurns /\ pageOpened' \in 0..Len(pageLedger')
    BY <1>2, <1>3, <1>4, <1>8 DEF length
  <2>2. /\ pageAsked' \in Sessions \cup {AllSessions} /\ pageReading' \in BOOLEAN
        /\ pageCursor' \in [snapshot : Nat, offset : Nat, seen : Nat]
    BY <1>2, <1>7 DEF ReadInv
  <2>3. pageCursor' # G!NoMore =>
          /\ pageCursor'.seen <= pageCursor'.snapshot /\ pageCursor'.snapshot <= Len(pageLedger')
          /\ pageCursor'.snapshot = 0 => pageCursor' = G!Start
          /\ pageCursor'.snapshot # 0 => pageOpened' <= pageCursor'.snapshot
    <3>1. pageCursor # G!NoMore =>
            /\ pageCursor.seen <= pageCursor.snapshot /\ pageCursor.snapshot <= Len(pageLedger')
            /\ pageCursor.snapshot = 0 => pageCursor = G!Start
            /\ pageCursor.snapshot # 0 => pageOpened <= pageCursor.snapshot
      BY <1>3, <1>4, <1>7, <1>8 DEF ReadInv
    <3>. QED  BY <1>2, <3>1
  <2>4. IF pageReading'
        THEN /\ pageCursor' # G!NoMore
             /\ IsRead(pageEvents', From', Len(pageLedger')) /\ Len(pageEvents') < MaxEvents
             /\ pageEvents' # <<>> =>
                  pageOpened' <= pageEvents'[1] /\ pageCursor'.snapshot <= pageEvents'[1]
        ELSE pageEvents' = <<>>
    <3>1. CASE pageReading
      <4>1. IsRead(pageEvents, From, length)
        BY <1>7, <3>1 DEF ReadInv, length
      <4>2. IsRead(pageEvents, From', Len(pageLedger'))
        BY <1>9, <4>1
      <4>. QED  BY <1>2, <1>7, <3>1, <4>2 DEF ReadInv
    <3>2. CASE ~pageReading
      BY <1>2, <1>7, <3>2 DEF ReadInv
    <3>. QED  BY <3>1, <3>2
  <2>. QED  BY <1>4, <2>1, <2>2, <2>3, <2>4 DEF ReadInv
<1>11. CASE pageAsked = AllSessions
  <2>1. SessionsInv
    BY <1>7, <1>11
  <2>2. ASSUME NEW rows, NEW snapshot \in 0..length, Listed(pageLedger, rows, snapshot)
        PROVE  Listed(pageLedger', rows, snapshot)
    <3>1. ASSUME NEW k \in 1..Len(rows)
          PROVE  \E t \in 1..snapshot :
                   /\ pageLedger'[t] = rows[k] /\ \A u \in (t + 1)..snapshot : pageLedger'[u] # rows[k]
                   /\ \A u \in t..snapshot : \E l \in 1..k : rows[l] = pageLedger'[u]
      <4>1. PICK t \in 1..snapshot :
              /\ pageLedger[t] = rows[k] /\ \A u \in (t + 1)..snapshot : pageLedger[u] # rows[k]
              /\ \A u \in t..snapshot : \E l \in 1..k : rows[l] = pageLedger[u]
        BY <2>2 DEF Listed
      <4>2. \A u \in t..snapshot : pageLedger'[u] = pageLedger[u]
        <5>1. \A u \in t..snapshot : u \in 1..length
          BY <1>3
        <5>. QED  BY <1>5, <5>1
      <4>3. pageLedger'[t] = rows[k]
        BY <4>1, <4>2
      <4>4. \A u \in (t + 1)..snapshot : pageLedger'[u] # rows[k]
        BY <4>1, <4>2
      <4>5. \A u \in t..snapshot : \E l \in 1..k : rows[l] = pageLedger'[u]
        BY <4>1, <4>2
      <4>. QED  BY <4>3, <4>4, <4>5
    <3>. QED  BY <2>2, <3>1 DEF Listed
  <2>3. pageCursor # G!NoMore =>
          /\ pageCursor.seen = 0 /\ Len(pageShown) = pageCursor.offset
          /\ Listed(pageLedger', pageShown, pageCursor.snapshot)
    <3>1. ASSUME pageCursor # G!NoMore  PROVE Listed(pageLedger', pageShown, pageCursor.snapshot)
      <4>1. pageCursor.snapshot \in 0..length
        BY <1>3, <1>8, <3>1
      <4>2. Listed(pageLedger, pageShown, pageCursor.snapshot)
        BY <2>1, <3>1 DEF SessionsInv
      <4>. QED  BY <2>2, <4>1, <4>2
    <3>. QED  BY <2>1, <3>1 DEF SessionsInv
  <2>4. pageCursor = G!NoMore =>
          \A t \in 1..pageOpened : \E k \in DOMAIN pageShown : pageShown[k] = pageLedger'[t]
    <3>1. \A t \in 1..pageOpened : pageLedger'[t] = pageLedger[t]
      BY <1>3, <1>5, <1>8
    <3>. QED  BY <2>1, <3>1 DEF SessionsInv
  <2>5. SessionsInv'
    BY <1>2, <2>1, <2>3, <2>4 DEF SessionsInv
  <2>. QED  BY <1>2, <1>10, <1>11, <2>5
<1>12. CASE pageAsked # AllSessions
  <2>1. TurnsInv
    BY <1>7, <1>12
  <2>2. /\ \A t \in G!Wanted : t \in 1..length /\ t \in G!Wanted'
        /\ \A t \in G!Wanted' : t \in Nat /\ (t <= length => t \in G!Wanted)
    <3>1. DOMAIN pageLedger = 1..length /\ DOMAIN pageLedger' = 1..(length + 1)
      BY <1>3, <1>4 DEF length
    <3>. QED  BY <1>2, <1>3, <1>5, <3>1 DEF G!Wanted
  <2>3. /\ pageShown \in Seq(Nat)
        /\ \A k \in 1..Len(pageShown) : pageShown[k] \in G!Wanted
        /\ \A k \in 1..Len(pageShown), t \in G!Wanted :
             t < pageShown[k] => \E l \in 1..(k - 1) : pageShown[l] = t
    BY <2>1 DEF TurnsInv
  <2>4. \A k \in 1..Len(pageShown) : pageShown[k] \in G!Wanted'
    BY <2>2, <2>3
  <2>5. ASSUME NEW k \in 1..Len(pageShown), NEW t \in G!Wanted', t < pageShown[k]
        PROVE  \E l \in 1..(k - 1) : pageShown[l] = t
    <3>1. pageShown[k] \in 1..length
      BY <2>2, <2>3
    <3>2. t \in G!Wanted
      BY <1>3, <2>2, <2>5, <3>1
    <3>. QED  BY <2>3, <2>5, <3>2
  <2>6. ASSUME pageCursor = G!NoMore, NEW t \in G!Wanted', t <= pageOpened
        PROVE  \E k \in DOMAIN pageShown : pageShown[k] = t
    <3>1. t \in G!Wanted
      BY <1>3, <1>8, <2>2, <2>6
    <3>. QED  BY <2>1, <2>6, <3>1 DEF TurnsInv
  <2>7. TurnsInv'
    <3>1. pageCursor' # G!NoMore =>
            /\ pageCursor'.offset = 0 /\ (pageCursor'.seen = 0 => pageShown' = <<>>)
            /\ pageCursor'.seen # 0 =>
                 pageShown' # <<>> /\ pageShown'[Len(pageShown')] = pageCursor'.seen
      BY <1>2, <2>1 DEF TurnsInv
    <3>. QED  BY <1>2, <2>3, <2>4, <2>5, <2>6, <3>1 DEF TurnsInv
  <2>. QED  BY <1>2, <1>10, <1>12, <2>7
<1>. QED  BY <1>11, <1>12

(* A request fixes what there was at the first one, and begins to read.    *)
LEMMA AskStep ==
  ASSUME PageInv, G!AskPage, Len(pageLedger) <= MaxEvents
  PROVE  PageInv'
<1>1. ReadInv /\ ~pageReading /\ pageCursor # G!NoMore
  BY DEF PageInv, G!AskPage
<1>2. /\ pageReading' = TRUE /\ pageEvents' = <<>>
      /\ pageOpened' = IF pageCursor = G!Start THEN Len(pageLedger) ELSE pageOpened
      /\ UNCHANGED <<pageLedger, pageAsked, pageCursor, pageShown>>
  BY DEF G!AskPage
<1>3. pageLedger \in Seq(Sessions) /\ Len(pageLedger) \in Nat /\ pageOpened \in 0..Len(pageLedger)
  BY <1>1 DEF ReadInv
<1>4. IsRead(pageEvents', From', Len(pageLedger'))
  BY <1>2 DEF IsRead
<1>5. ReadInv'
  <2>1. pageOpened' \in 0..Len(pageLedger')
    BY <1>2, <1>3
  <2>2. pageCursor'.snapshot # 0 => pageOpened' <= pageCursor'.snapshot
    <3>1. pageCursor = G!Start => pageCursor.snapshot = 0
      BY DEF G!Start, G!Cursor
    <3>. QED  BY <1>1, <1>2, <3>1 DEF ReadInv
  <2>3. Len(pageEvents') < MaxEvents /\ pageEvents' = <<>> /\ pageReading'
    BY <1>2, PagesTypes
  <2>4. /\ pageLedger' \in Seq(Sessions) /\ Len(pageLedger') <= MaxTurns
        /\ pageAsked' \in Sessions \cup {AllSessions} /\ pageReading' \in BOOLEAN
        /\ pageCursor' \in [snapshot : Nat, offset : Nat, seen : Nat] /\ pageCursor' # G!NoMore
        /\ pageCursor'.seen <= pageCursor'.snapshot /\ pageCursor'.snapshot <= Len(pageLedger')
        /\ pageCursor'.snapshot = 0 => pageCursor' = G!Start
    BY <1>1, <1>2 DEF ReadInv
  <2>. QED  BY <1>4, <2>1, <2>2, <2>3, <2>4 DEF ReadInv
<1>6. CASE pageAsked = AllSessions
  <2>1. SessionsInv'
    BY <1>1, <1>2, <1>6 DEF PageInv, SessionsInv
  <2>. QED  BY <1>2, <1>3, <1>5, <1>6, <2>1 DEF PageInv
<1>7. CASE pageAsked # AllSessions
  <2>1. G!Wanted' = G!Wanted
    BY <1>2 DEF G!Wanted
  <2>2. TurnsInv'
    BY <1>1, <1>2, <1>7, <2>1 DEF PageInv, TurnsInv
  <2>. QED  BY <1>2, <1>3, <1>5, <1>7, <2>2 DEF PageInv
<1>. QED  BY <1>6, <1>7

(* A batch that is not the last.                                           *)
LEMMA ReadOnStep ==
  ASSUME PageInv, G!ReadOn, Len(pageLedger) <= MaxEvents
  PROVE  PageInv'
<1>. DEFINE batch == G!NextBatch
            read  == pageEvents \o batch
<1>1. ReadInv /\ pageReading /\ ~G!LastBatch(batch)
  BY DEF PageInv, G!ReadOn
<1>2. /\ pageEvents' = read
      /\ UNCHANGED <<pageLedger, pageAsked, pageCursor, pageReading, pageShown, pageOpened>>
  BY DEF G!ReadOn
<1>3. /\ IsRead(read, From, Len(pageLedger)) /\ Len(read) = Len(pageEvents) + Len(batch)
      /\ read # <<>> => pageOpened <= read[1] /\ pageCursor.snapshot <= read[1]
  BY <1>1, ReadGoesOn
<1>4. Len(read) < MaxEvents
  <2>1. Len(batch) \in Nat /\ Len(pageEvents) \in Nat /\ MaxEvents \in Nat
    <3>1. batch \in Seq(Nat) /\ pageEvents \in Seq(Nat)
      BY <1>1, BatchIs DEF ReadInv, IsRead
    <3>. QED  BY <3>1, PagesTypes
  <2>. HIDE DEF batch
  <2>. QED  BY <1>1, <1>3, <2>1 DEF G!LastBatch
<1>. HIDE DEF read
<1>5. ReadInv'
  <2>1. From' = From
    BY <1>2 DEF From
  <2>2. /\ pageReading' /\ pageCursor' # G!NoMore
        /\ IsRead(pageEvents', From', Len(pageLedger')) /\ Len(pageEvents') < MaxEvents
        /\ pageEvents' # <<>> => pageOpened' <= pageEvents'[1] /\ pageCursor'.snapshot <= pageEvents'[1]
    <3>1. pageCursor # G!NoMore
      BY <1>1 DEF ReadInv
    <3>. QED  BY <1>1, <1>2, <1>3, <1>4, <2>1, <3>1
  <2>3. /\ pageLedger' \in Seq(Sessions) /\ Len(pageLedger') <= MaxTurns
        /\ pageAsked' \in Sessions \cup {AllSessions} /\ pageReading' \in BOOLEAN
        /\ pageOpened' \in 0..Len(pageLedger')
        /\ pageCursor' \in [snapshot : Nat, offset : Nat, seen : Nat]
        /\ pageCursor' # G!NoMore =>
             /\ pageCursor'.seen <= pageCursor'.snapshot /\ pageCursor'.snapshot <= Len(pageLedger')
             /\ pageCursor'.snapshot = 0 => pageCursor' = G!Start
             /\ pageCursor'.snapshot # 0 => pageOpened' <= pageCursor'.snapshot
    BY <1>1, <1>2 DEF ReadInv
  <2>. QED  BY <2>2, <2>3 DEF ReadInv
<1>6. CASE pageAsked = AllSessions
  <2>1. SessionsInv'
    BY <1>2, <1>6 DEF PageInv, SessionsInv
  <2>. QED  BY <1>2, <1>5, <1>6, <2>1 DEF PageInv
<1>7. CASE pageAsked # AllSessions
  <2>1. G!Wanted' = G!Wanted
    BY <1>2 DEF G!Wanted
  <2>2. TurnsInv'
    BY <1>2, <1>7, <2>1 DEF PageInv, TurnsInv
  <2>. QED  BY <1>2, <1>5, <1>7, <2>2 DEF PageInv
<1>. QED  BY <1>6, <1>7

(* Every step keeps the invariant.                                         *)
LEMMA PageNext == PageInv /\ [G!Next]_G!vars => PageInv'
<1>. SUFFICES ASSUME PageInv, [G!Next]_G!vars  PROVE PageInv'
  OBVIOUS
<1>1. CASE G!TurnCompleted
  BY <1>1, TurnStep
<1>2. ASSUME UNCHANGED pageLedger, ~(Len(pageLedger) <= MaxEvents)  PROVE PageInv'
  BY <1>2 DEF PageInv
<1>3. CASE G!AskPage
  BY <1>2, <1>3, AskStep DEF G!AskPage
<1>4. CASE G!ReadOn
  BY <1>2, <1>4, ReadOnStep DEF G!ReadOn
<1>5. ASSUME NEW limit \in 1..MaxLimit, G!PageDone(limit)  PROVE PageInv'
  BY <1>2, <1>5, PageStep DEF G!PageDone
<1>6. CASE UNCHANGED G!vars
  <2>1. UNCHANGED <<pageLedger, pageAsked, pageCursor, pageReading, pageEvents, pageShown, pageOpened>>
    BY <1>6 DEF G!vars
  <2>2. From' = From /\ G!Wanted' = G!Wanted
    BY <2>1 DEF From, G!Wanted
  <2>3. ReadInv => ReadInv'
    BY <2>1, <2>2 DEF ReadInv
  <2>4. (SessionsInv => SessionsInv') /\ (TurnsInv => TurnsInv')
    BY <2>1, <2>2 DEF SessionsInv, TurnsInv
  <2>. QED  BY <2>1, <2>3, <2>4 DEF PageInv
<1>. QED  BY <1>1, <1>3, <1>4, <1>5, <1>6 DEF G!Next

(* Turns may complete between any two queries and each page may have its   *)
(* own limit: no turn is shown before all the older ones of its session,   *)
(* no session is listed twice, and the last page leaves out nothing that   *)
(* there was at the first (desktop/history.py, list_sessions, history).    *)
THEOREM HistoryIsPagedThrough == G!Spec => []PagesMissNothing
<1>1. PageInv => PagesMissNothing
  <2>. SUFFICES ASSUME PageInv, Len(pageLedger) <= MaxEvents
                PROVE  IF pageAsked = AllSessions
                       THEN /\ G!IsInjective(pageShown)
                            /\ pageCursor = G!NoMore =>
                                 {pageLedger[t] : t \in 1..pageOpened} \subseteq G!Range(pageShown)
                       ELSE /\ \A i \in DOMAIN pageShown, t \in G!Wanted :
                                 t < pageShown[i] => \E j \in 1..(i - 1) : pageShown[j] = t
                            /\ pageCursor = G!NoMore =>
                                 {t \in G!Wanted : t <= pageOpened} \subseteq G!Range(pageShown)
    BY DEF PagesMissNothing, G!PagesMissNothing
  <2>1. CASE pageAsked = AllSessions
    <3>1. SessionsInv
      BY <2>1 DEF PageInv
    <3>2. G!IsInjective(pageShown)
      BY <3>1 DEF SessionsInv, G!IsInjective
    <3>3. pageCursor = G!NoMore => {pageLedger[t] : t \in 1..pageOpened} \subseteq G!Range(pageShown)
      BY <3>1 DEF SessionsInv, G!Range
    <3>. QED  BY <2>1, <3>2, <3>3
  <2>2. CASE pageAsked # AllSessions
    <3>1. TurnsInv
      BY <2>2 DEF PageInv
    <3>2. DOMAIN pageShown = 1..Len(pageShown)
      BY <3>1 DEF TurnsInv
    <3>3. pageCursor = G!NoMore => {t \in G!Wanted : t <= pageOpened} \subseteq G!Range(pageShown)
      BY <3>1 DEF TurnsInv, G!Range
    <3>. QED  BY <2>2, <3>1, <3>2, <3>3 DEF TurnsInv
  <2>. QED  BY <2>1, <2>2
<1>. QED  BY <1>1, PageInit, PageNext, PTL DEF G!Spec

-----------------------------------------------------------------------------
(* The proactive policy (ProactivePolicy)                                  *)

(* The instance counts as the module FiniteSets does.                      *)
LEMMA PolicyCounts ==
  /\ \A set : P!IsFiniteSet(set) <=> IsFiniteSet(set)
  /\ \A set : P!Cardinality(set) = Cardinality(set)
<1>1. \A set : P!IsFiniteSet(set) <=> IsFiniteSet(set)
  BY DEF P!IsFiniteSet, IsFiniteSet
<1>2. \A set : P!Cardinality(set) = Cardinality(set)
  BY DEF P!Cardinality, Cardinality
<1>. QED  BY <1>1, <1>2

(* Recent approvals of level k.                                            *)
RecentOf(k) == {a \in P!Recent : a.level = k}

LEMMA RecentOfIsFinite ==
  ASSUME P!HistoryInv, NEW k
  PROVE  IsFiniteSet(RecentOf(k)) /\ P!Count(k) = Cardinality(RecentOf(k)) /\ P!Count(k) \in Nat
<1>1. RecentOf(k) \subseteq policyApproved
  BY DEF RecentOf, P!Recent, P!HistoryInv
<1>2. IsFiniteSet(RecentOf(k))
  BY <1>1, FS_Subset, PolicyCounts DEF P!HistoryInv
<1>3. P!Count(k) = Cardinality(RecentOf(k))
  BY PolicyCounts DEF P!Count, RecentOf
<1>. QED  BY <1>2, <1>3, FS_CardinalityType

(* The level that a proposal ends at has budget left.                      *)
LEMMA AffordableLevel ==
  ASSUME P!LimitsAssumption, NEW l \in P!Levels, P!Affordable(l) # 0
  PROVE  P!Affordable(l) \in P!Levels /\ P!Count(P!Affordable(l)) < Budget[P!Affordable(l)]
<1>. DEFINE open == {k \in 1..l : P!Count(k) < Budget[k]}
<1>1. open \subseteq {1, 2, 3, 4} /\ \A k \in open : k \in P!Levels /\ P!Count(k) < Budget[k]
  BY DEF P!Levels
<1>2. open # {} /\ P!Affordable(l) = CHOOSE k \in open : \A j \in open : j <= k
  BY DEF P!Affordable
<1>. HIDE DEF open
<1>3. \E k \in open : \A j \in open : j <= k
  <2>1. CASE 4 \in open
    BY <1>1, <2>1
  <2>2. CASE 4 \notin open /\ 3 \in open
    BY <1>1, <2>2
  <2>3. CASE 4 \notin open /\ 3 \notin open /\ 2 \in open
    BY <1>1, <2>3
  <2>4. CASE 4 \notin open /\ 3 \notin open /\ 2 \notin open
    <3>1. 1 \in open
      BY <1>1, <1>2, <2>4
    <3>. QED  BY <1>1, <2>4, <3>1
  <2>. QED  BY <2>1, <2>2, <2>3, <2>4
<1>4. P!Affordable(l) \in open
  BY <1>2, <1>3
<1>. QED  BY <1>1, <1>4

-----------------------------------------------------------------------------
(* Forgetting what is older than an hour, as every count does.             *)
LEMMA ForgettingKeepsLimits ==
  ASSUME P!LimitsAssumption, P!LimitsInv, policyHistory' \in {policyHistory, P!Recent},
         UNCHANGED <<policyNow, policyApproved>>
  PROVE  P!LimitsInv'
<1>1. P!Recent' = P!Recent
  BY DEF P!Recent
<1>2. \A k : P!Count(k)' = P!Count(k)
  BY <1>1 DEF P!Count
<1>3. P!HistoryInv'
  BY <1>2 DEF P!LimitsInv, P!HistoryInv, P!Recent
<1>4. P!LimitsKept'
  BY DEF P!LimitsInv, P!LimitsKept
<1>. QED  BY <1>3, <1>4 DEF P!LimitsInv

LEMMA TickKeepsLimits ==
  ASSUME P!LimitsAssumption, P!LimitsInv, policyNow' = policyNow + 1, UNCHANGED <<policyHistory,
         policyApproved>>
  PROVE  P!LimitsInv'
<1>1. P!HistoryInv'
  BY DEF P!LimitsInv, P!HistoryInv, P!LimitsAssumption
<1>2. P!LimitsKept'
  BY DEF P!LimitsInv, P!LimitsKept
<1>. QED  BY <1>1, <1>2 DEF P!LimitsInv

LEMMA ApprovalKeepsLimits ==
  ASSUME P!LimitsAssumption, P!LimitsInv, NEW k \in P!Levels, P!Count(k) < Budget[k], ~P!Cooling(k),
         policyNow' = policyNow,
         NEW entry, entry = [time |-> policyNow, level |-> k, nth |-> P!Count(k)],
         policyHistory' = P!Recent \cup {entry}, policyApproved' = policyApproved \cup {entry}
  PROVE  P!LimitsInv'
<1>. USE DEF P!LimitsInv
<1>1. /\ policyNow \in Nat /\ Hour \in Nat /\ Budget[k] \in Nat /\ Cooldown[k] \in Nat
      /\ entry.time = policyNow /\ entry.level = k /\ entry.nth = P!Count(k)
  BY DEF P!HistoryInv, P!LimitsAssumption
<1>2. /\ IsFiniteSet(RecentOf(k)) /\ P!Count(k) = Cardinality(RecentOf(k)) /\ P!Count(k) \in Nat
      /\ IsFiniteSet(policyApproved) /\ policyHistory \subseteq policyApproved
      /\ \A a \in policyApproved : a.time \in 0..policyNow /\ a.level \in P!Levels /\ a.nth \in Nat
      /\ \A a \in policyApproved : a.time >= policyNow - Hour => a \in P!Recent
  BY RecentOfIsFinite, PolicyCounts DEF P!HistoryInv, P!Recent
<1>3. entry \notin policyApproved
  BY <1>1, <1>2 DEF P!HistoryInv
<1>4. RecentOf(k) = {a \in policyApproved : a.level = k /\ a.time >= policyNow - Hour}
  BY <1>2 DEF RecentOf, P!Recent
<1>5. P!Recent' = P!Recent \cup {entry}
  BY <1>1 DEF P!Recent
<1>6. P!Count(k)' = P!Count(k) + 1
  <2>1. {a \in P!Recent' : a.level = k} = RecentOf(k) \cup {entry}
    BY <1>1, <1>5 DEF RecentOf
  <2>2. entry \notin RecentOf(k)
    BY <1>3, <1>4
  <2>3. P!Count(k)' = Cardinality({a \in P!Recent' : a.level = k})
    BY PolicyCounts DEF P!Count
  <2>4. Cardinality(RecentOf(k) \cup {entry}) = Cardinality(RecentOf(k)) + 1
    BY <1>2, <2>2, FS_AddElement
  <2>. QED  BY <1>2, <2>1, <2>3, <2>4
<1>7. \A l \in P!Levels \ {k} : P!Count(l)' = P!Count(l)
  <2>1. TAKE l \in P!Levels \ {k}
  <2>2. {a \in P!Recent' : a.level = l} = {a \in P!Recent : a.level = l}
    BY <1>1, <1>5
  <2>. QED  BY <2>2 DEF P!Count
<1>8. P!HistoryInv'
  <2>1. /\ policyNow' \in Nat /\ policyHistory' \subseteq policyApproved'
        /\ \A a \in policyApproved' : a.time \in 0..policyNow' /\ a.level \in P!Levels /\ a.nth \in Nat
        /\ \A a \in policyApproved' : a.time >= policyNow' - Hour => a \in policyHistory'
    BY <1>1, <1>2 DEF P!Recent
  <2>2. IsFiniteSet(policyApproved')
    BY <1>2, FS_AddElement
  <2>3. \A a \in policyApproved' : a.time = policyNow' => a.nth < P!Count(a.level)'
    BY <1>1, <1>2, <1>6, <1>7 DEF P!HistoryInv
  <2>. QED  BY <2>1, <2>2, <2>3, PolicyCounts DEF P!HistoryInv
<1>9. P!LimitsKept'
  <2>1. SUFFICES ASSUME NEW a \in policyApproved'
                 PROVE  LET before == {b \in policyApproved' : b.level = a.level /\ b # a /\
                        b.time <= a.time}
                        IN /\ Cardinality({b \in before : b.time >= a.time - Hour}) < Budget[a.level]
                           /\ \A b \in before : a.time - b.time >= Cooldown[a.level]
    BY PolicyCounts DEF P!LimitsKept
  <2>. DEFINE before == {b \in policyApproved : b.level = a.level /\ b # a /\ b.time <= a.time}
             after  == {b \in policyApproved' : b.level = a.level /\ b # a /\ b.time <= a.time}
  <2>2. CASE a = entry
    <3>1. {b \in after : b.time >= a.time - Hour} = RecentOf(k)
      BY <1>1, <1>2, <1>3, <1>4, <2>2
    <3>2. \A b \in after : a.time - b.time >= Cooldown[k]
      <4>1. TAKE b \in after
      <4>2. b \in policyApproved /\ b.level = k /\ b.time \in 0..policyNow
        BY <1>1, <1>2, <2>2, <4>1
      <4>3. CASE b.time >= policyNow - Hour
        <5>1. b \in P!Recent
          BY <1>2, <4>2, <4>3
        <5>. QED  BY <1>1, <2>2, <4>2, <5>1 DEF P!Cooling
      <4>4. CASE ~(b.time >= policyNow - Hour)
        BY <1>1, <2>2, <4>2, <4>4 DEF P!LimitsAssumption
      <4>. QED  BY <4>3, <4>4
    <3>. QED  BY <1>1, <1>2, <2>2, <3>1, <3>2
  <2>3. CASE a # entry /\ (a.level # k \/ a.time # policyNow)
    <3>1. a \in policyApproved /\ a.time \in 0..policyNow
      BY <1>2, <2>1, <2>3
    <3>2. after = before
      BY <1>1, <2>3, <3>1
    <3>. QED  BY <3>1, <3>2, PolicyCounts DEF P!LimitsKept
  <2>4. CASE a # entry /\ a.level = k /\ a.time = policyNow
    <3>1. a \in policyApproved /\ a \in RecentOf(k)
      BY <1>1, <1>2, <1>4, <2>1, <2>4
    <3>2. {b \in after : b.time >= a.time - Hour} = (RecentOf(k) \ {a}) \cup {entry}
      <4>1. ASSUME NEW b \in after, b.time >= a.time - Hour
            PROVE  b \in (RecentOf(k) \ {a}) \cup {entry}
        BY <1>1, <1>4, <2>4, <4>1
      <4>2. ASSUME NEW b \in (RecentOf(k) \ {a}) \cup {entry}
            PROVE  b \in after /\ b.time >= a.time - Hour
        <5>1. CASE b = entry
          BY <1>1, <2>4, <5>1
        <5>2. CASE b # entry
          BY <1>1, <1>2, <1>4, <2>4, <4>2, <5>2
        <5>. QED  BY <5>1, <5>2
      <4>. QED  BY <4>1, <4>2
    <3>3. entry \notin RecentOf(k)
      BY <1>3, <1>4
    <3>4. Cardinality((RecentOf(k) \ {a}) \cup {entry}) = P!Count(k)
      <4>1. IsFiniteSet(RecentOf(k) \ {a}) /\ Cardinality(RecentOf(k) \ {a}) = P!Count(k) - 1
        BY <1>2, <3>1, FS_RemoveElement
      <4>2. entry \notin RecentOf(k) \ {a}
        BY <3>3
      <4>3. Cardinality((RecentOf(k) \ {a}) \cup {entry}) = (P!Count(k) - 1) + 1
        BY <4>1, <4>2, FS_AddElement
      <4>. QED  BY <1>2, <4>3
    <3>5. \A b \in after : a.time - b.time >= Cooldown[k]
      <4>1. TAKE b \in after
      <4>2. CASE b = entry
        <5>1. policyNow - a.time >= Cooldown[k]
          <6>1. a \in P!Recent /\ a.time \in 0..policyNow
            BY <1>2, <3>1 DEF RecentOf
          <6>. QED  BY <1>1, <2>4, <6>1 DEF P!Cooling
        <5>. QED  BY <1>1, <2>4, <4>2, <5>1
      <4>3. CASE b # entry
        BY <2>4, <3>1, <4>3 DEF P!LimitsKept
      <4>. QED  BY <4>2, <4>3
    <3>. QED  BY <2>4, <3>2, <3>4, <3>5
  <2>. QED  BY <2>2, <2>3, <2>4
<1>. QED  BY <1>8, <1>9

-----------------------------------------------------------------------------
LEMMA EvaluationKeepsLimits ==
  ASSUME P!LimitsAssumption, P!LimitsInv, NEW l \in P!Levels, NEW gain, P!Evaluate(l, gain),
         policyNow' = policyNow
  PROVE  P!LimitsInv'
<1>1. CASE policyHistory' \in {policyHistory, P!Recent} /\ policyApproved' = policyApproved
  BY <1>1, ForgettingKeepsLimits
<1>2. CASE ~(policyHistory' \in {policyHistory, P!Recent} /\ policyApproved' = policyApproved)
  <2>. DEFINE k == P!Affordable(l)
             entry == [time |-> policyNow, level |-> k, nth |-> P!Count(k)]
  <2>1. k # 0 /\ ~P!Cooling(k) /\ policyHistory' = P!Recent \cup {entry} /\
        policyApproved' = policyApproved \cup {entry}
    BY <1>2 DEF P!Evaluate
  <2>2. k \in P!Levels /\ P!Count(k) < Budget[k]
    BY <2>1, AffordableLevel
  <2>. HIDE DEF k
  <2>. QED  BY <2>1, <2>2, ApprovalKeepsLimits
<1>. QED  BY <1>1, <1>2

LEMMA PolicyNext == P!LimitsAssumption /\ P!LimitsInv /\ [P!Next]_P!vars => P!LimitsInv'
<1>1. SUFFICES ASSUME P!LimitsAssumption, P!LimitsInv, [P!Next]_P!vars PROVE P!LimitsInv'
  OBVIOUS
<1>2. ASSUME NEW l \in P!Levels, NEW gain, P!Propose(l, gain)  PROVE P!LimitsInv'
  BY <1>1, <1>2, EvaluationKeepsLimits DEF P!Propose
<1>3. CASE P!AppSwitch \/ P!PeriodicCheck \/ P!ReflectionPlan \/ P!Milestone \/ P!ScheduleEvent \/
              P!ActionProposal
  BY <1>2, <1>3 DEF P!AppSwitch, P!PeriodicCheck, P!ReflectionPlan, P!Milestone, P!ScheduleEvent,
     P!ActionProposal, P!Levels
<1>4. CASE P!UserIdle \/ P!UserReturn
  BY <1>2, <1>4 DEF P!UserIdle, P!UserReturn, P!Levels
<1>5. CASE P!UserActive \/ P!SetContext \/ P!Feedback \/ UNCHANGED P!vars
  BY <1>1, <1>5, ForgettingKeepsLimits DEF P!UserActive, P!SetContext, P!Feedback, P!vars
<1>6. CASE P!Tick
  BY <1>1, <1>6, TickKeepsLimits DEF P!Tick
<1>. QED  BY <1>1, <1>3, <1>4, <1>5, <1>6 DEF P!Next

LEMMA PolicyInit == P!Init => P!LimitsInv
BY FS_EmptySet, PolicyCounts DEF P!Init, P!LimitsInv, P!HistoryInv, P!LimitsKept

(* Whatever triggers, contexts and answers come in whatever order, no      *)
(* level gets more approvals in an hour than its budget, and two of a      *)
(* level are a cooldown apart (core/policy_gate.py, evaluate_proactive).   *)
THEOREM ApprovalsAreLimited == P!Spec => []LimitsKept
<1>2. P!LimitsInv /\ [P!Next]_P!vars => P!LimitsInv'
  BY PolicyAssumption, PolicyNext
<1>3. P!LimitsInv => LimitsKept
  BY DEF P!LimitsInv, LimitsKept
<1>. QED  BY <1>2, <1>3, PolicyInit, PTL DEF P!Spec

-----------------------------------------------------------------------------
(* The readiness of the providers (Readiness)                              *)

LEMMA ReadyInit == R!Init => R!ReadyInv
BY DEF R!Init, R!ReadyInv, R!StatusOK, R!SeenOK

(* The end of a check says of the runtime what it was told.                *)
LEMMA Concluded ==
  ASSUME NEW r \in BOOLEAN, R!SeenOK, R!Conclude(r)
  PROVE  R!StatusOK' /\ readyStatus'.runtime = r
BY DEF R!Conclude, R!Believe, R!StatusOK, R!SeenOK

(* The health that a check finds is a truth value.                         *)
LEMMA HealthType == R!LlmHealth \subseteq BOOLEAN /\ R!SpeechHealth \subseteq BOOLEAN
BY DEF R!LlmHealth, R!SpeechHealth

LEMMA CheckKeepsReady ==
  ASSUME R!ReadyInv, R!RetryReadiness \/ R!Announce \/ R!Probe \/ R!Gather \/ R!Startup
  PROVE  R!ReadyInv'
<1>. USE DEF R!ReadyInv
<1>1. CASE R!RetryReadiness \/ R!Announce
  BY <1>1 DEF R!RetryReadiness, R!Announce, R!StatusOK, R!SeenOK, R!provider, R!belief, R!voice
<1>2. CASE R!Probe
  BY <1>2, HealthType DEF R!Probe, R!StatusOK, R!SeenOK, R!provider, R!belief, R!voice
<1>3. CASE R!Gather
  <2>1. UNCHANGED <<readyRunning, readySeen, readyMic, readyStart, readyStage>>
    BY <1>3 DEF R!Gather, R!Gathered, R!voice
  <2>2. PICK local \in BOOLEAN : R!Gathered(local)
    BY <1>3 DEF R!Gather
  <2>3. CASE readySeen.llm /\ local /\ ~readyRunning
    BY <2>1, <2>2, <2>3 DEF R!Gathered, R!StatusOK, R!SeenOK, R!belief
  <2>4. CASE ~(readySeen.llm /\ local /\ ~readyRunning)
    <3>1. (readySeen.llm /\ local) \in BOOLEAN /\ R!Conclude(readySeen.llm /\ local)
      BY <2>2, <2>4 DEF R!Gathered
    <3>2. R!StatusOK' /\ readyStatus'.runtime = (readySeen.llm /\ local)
      BY <3>1, Concluded
    <3>. QED  BY <2>1, <2>4, <3>2 DEF R!SeenOK
  <2>. QED  BY <2>3, <2>4
<1>4. CASE R!Startup
  <2>1. UNCHANGED <<readySeen, readyMic, readyStart, readyStage>>
    BY <1>4 DEF R!Startup, R!voice
  <2>2. CASE readyRunning' = TRUE /\ R!Conclude(TRUE)
    BY <2>1, <2>2, Concluded DEF R!SeenOK
  <2>3. CASE UNCHANGED readyRunning /\ R!Conclude(FALSE)
    BY <2>1, <2>3, Concluded DEF R!SeenOK
  <2>. QED  BY <1>4, <2>2, <2>3 DEF R!Startup
<1>. QED  BY <1>1, <1>2, <1>3, <1>4

LEMMA RequestKeepsReady ==
  ASSUME R!ReadyInv,
         \/ R!SetCredential \/ R!TurnBegins \/ R!TurnEnds
         \/ R!StartVoice \/ R!PrepareVoice \/ R!OpenMicrophone \/ R!StartTimesOut \/ R!StopVoice
  PROVE  R!ReadyInv'
<1>. USE DEF R!ReadyInv, R!provider, R!belief, R!voice
<1>1. CASE R!SetCredential \/ R!TurnBegins \/ R!TurnEnds
  BY <1>1 DEF R!SetCredential, R!TurnBegins, R!TurnEnds, R!StatusOK, R!SeenOK
<1>2. CASE R!StartVoice
  BY <1>2 DEF R!StartVoice, R!StatusOK, R!SeenOK
<1>3. CASE R!PrepareVoice
  <2>1. R!StatusOK' /\ readyStatus'.runtime = readyStatus.runtime
    BY <1>3 DEF R!PrepareVoice, R!Believe, R!StatusOK
  <2>. QED  BY <1>3, <2>1 DEF R!PrepareVoice, R!SeenOK
<1>4. CASE R!OpenMicrophone \/ R!StartTimesOut \/ R!StopVoice
  BY <1>4 DEF R!OpenMicrophone, R!StartTimesOut, R!StopVoice, R!StatusOK, R!SeenOK
<1>. QED  BY <1>1, <1>2, <1>3, <1>4

LEMMA ReadyNext == R!ReadyInv /\ [R!Next]_R!vars => R!ReadyInv'
<1>1. SUFFICES ASSUME R!ReadyInv, [R!Next]_R!vars PROVE R!ReadyInv'
  OBVIOUS
<1>2. CASE R!Quit \/ R!ServerStops \/ R!RuntimeStops
  BY <1>1, <1>2 DEF R!Quit, R!ServerStops, R!RuntimeStops, R!ReadyInv, R!StatusOK, R!SeenOK, R!provider,
     R!belief, R!voice
<1>3. CASE UNCHANGED R!vars
  BY <1>1, <1>3 DEF R!vars, R!ReadyInv, R!StatusOK, R!SeenOK, R!provider, R!belief, R!voice
<1>. QED  BY <1>1, <1>2, <1>3, CheckKeepsReady, RequestKeepsReady DEF R!Next

(* What the desktop host reports as a healthy runtime, and the microphone  *)
(* that it has opened for one, have an orchestrator that was started       *)
(* (host.py, _run_readiness, _start_voice).                                *)
THEOREM RuntimeWasStarted == R!Spec => []RuntimeIsThere
<1>1. R!ReadyInv => RuntimeIsThere
  BY DEF R!ReadyInv, RuntimeIsThere, R!RuntimeIsThere, R!Serving
<1>. QED  BY <1>1, ReadyInit, ReadyNext, PTL DEF R!Spec

-----------------------------------------------------------------------------
(* The avatar bridge (AvatarBridge)                                        *)

USE CallsAssumption, ConnsAssumption

-----------------------------------------------------------------------------
(* Types                                                                   *)

LEMMA EndsType ==
  ASSUME TypeOK, NEW c \in Calls, Ends(c)
  PROVE  /\ pc' \in [Calls -> PCs] /\ lock' \in Calls \cup {NoCall}
         /\ on' \in [Calls -> Conns \cup {NoConn}]
         /\ answer' \in [Calls -> {"none", "ok", "error"}]
BY DEF TypeOK, Ends, Goto, PCs

LEMMA DisconnectType ==
  ASSUME TypeOK, NEW c \in Calls, Disconnect(c)
  PROVE  /\ pc' \in [Calls -> PCs] /\ lock' \in Calls \cup {NoCall}
         /\ on' \in [Calls -> Conns \cup {NoConn}]
         /\ answer' \in [Calls -> {"none", "ok", "error"}]
         /\ conn' \in Conns \cup {NoConn} /\ reader' \in Conns \cup {NoConn}
         /\ link' \in [Conns -> BOOLEAN]
<1>1. /\ conn' \in Conns \cup {NoConn} /\ reader' \in Conns \cup {NoConn}
      /\ link' \in [Conns -> BOOLEAN]
  BY DEF Disconnect
<1>2. CASE conn = NoConn /\ (reader = NoConn \/ task[reader] = "done")
  BY <1>1, <1>2, EndsType DEF Disconnect
<1>3. CASE ~(conn = NoConn /\ (reader = NoConn \/ task[reader] = "done"))
  BY <1>1, <1>3 DEF TypeOK, Disconnect, Goto, PCs
<1>. QED  BY <1>2, <1>3

LEMMA FailsType ==
  ASSUME TypeOK, NEW c \in Calls, Fails(c)
  PROVE  /\ pc' \in [Calls -> PCs] /\ lock' \in Calls \cup {NoCall}
         /\ on' \in [Calls -> Conns \cup {NoConn}]
         /\ answer' \in [Calls -> {"none", "ok", "error"}]
         /\ conn' \in Conns \cup {NoConn} /\ reader' \in Conns \cup {NoConn}
         /\ link' \in [Conns -> BOOLEAN]
BY EndsType, DisconnectType DEF Fails, TypeOK, slot

LEMMA SendType ==
  ASSUME TypeOK, NEW c \in Calls, NEW k \in Conns, NEW kind \in Kinds, Send(c, k, kind)
  PROVE  /\ pc' \in [Calls -> PCs] /\ lock' \in Calls \cup {NoCall}
         /\ on' \in [Calls -> Conns \cup {NoConn}]
         /\ answer' \in [Calls -> {"none", "ok", "error"}]
         /\ conn' \in Conns \cup {NoConn} /\ reader' \in Conns \cup {NoConn}
         /\ link' \in [Conns -> BOOLEAN]
         /\ wire' \in [Conns -> SUBSET (Calls \X Kinds)]
<1>1. CASE link[k]
  <2>1. wire' \in [Conns -> SUBSET (Calls \X Kinds)]
    BY <1>1 DEF TypeOK, Send
  <2>. QED  BY <1>1, <2>1 DEF TypeOK, Send, Goto, PCs, slot
<1>2. CASE ~link[k]
  BY <1>2, FailsType DEF Send, TypeOK
<1>. QED  BY <1>1, <1>2

LEMMA LockedType ==
  ASSUME TypeOK, NEW c \in Calls, Locked(c)
  PROVE  TypeOK'
<1>1. CASE conn # NoConn /\ Send(c, conn, "request") /\ UNCHANGED <<closed, opened, task, auth>>
  BY <1>1, SendType DEF TypeOK, Kinds
<1>2. CASE lock' = c /\ Goto(c, "open") /\ UNCHANGED <<closed, slot, links, on, answer>>
  BY <1>2 DEF TypeOK, Goto, PCs, slot, links
<1>3. CASE Fails(c) /\ UNCHANGED <<closed, opened, task, wire, auth>>
  BY <1>3, FailsType DEF TypeOK
<1>. QED  BY <1>1, <1>2, <1>3 DEF Locked

LEMMA CallType ==
  ASSUME TypeOK, OnConnection, NEW c \in Calls,
         CallStep(c) \/ Request(c) \/ Shutdown(c) \/ Cancel(c)
  PROVE  TypeOK'
<1>1. CASE TakeLock(c)
  BY <1>1, LockedType DEF TakeLock
<1>2. CASE Connected(c)
  <2>1. opened + 1 \in Conns
    BY <1>2 DEF Connected, TypeOK, Conns
  <2>2. wire' \in [Conns -> SUBSET (Calls \X Kinds)]
    BY <1>2, <2>1 DEF Connected, TypeOK, Kinds
  <2>. QED  BY <1>2, <2>1, <2>2 DEF Connected, TypeOK, Goto, PCs, Kinds, gate, Conns
<1>3. CASE Unreachable(c) \/ RequestFails(c)
  BY <1>3, FailsType DEF Unreachable, RequestFails, TypeOK
<1>4. CASE Shaken(c)
  <2>1. on[c] \in Conns
    BY <1>4 DEF Shaken, OnConnection, Kinds
  <2>. QED  BY <1>4, <2>1, SendType DEF Shaken, TypeOK, Kinds
<1>5. CASE HandshakeFails(c)
  BY <1>5, DisconnectType DEF HandshakeFails, TypeOK
<1>6. CASE Answered(c) \/ Joined(c)
  BY <1>6, EndsType DEF Answered, Joined, TypeOK, slot, links
<1>7. CASE CloseReturned(c)
  <2>1. CASE task[on[c]] = "done"
    BY <1>7, <2>1, EndsType DEF CloseReturned, TypeOK, slot, links
  <2>2. CASE task[on[c]] # "done"
    BY <1>7, <2>2 DEF CloseReturned, TypeOK, Goto, PCs, slot, links
  <2>. QED  BY <2>1, <2>2
<1>8. CASE Request(c)
  <2>1. CASE Fails(c) /\ UNCHANGED <<closed, opened, task, wire, auth>>
    BY <2>1, FailsType DEF TypeOK
  <2>2. CASE Locked(c)
    BY <2>2, LockedType
  <2>3. CASE Goto(c, "lock") /\ UNCHANGED <<gate, slot, links, on, answer>>
    BY <2>3 DEF TypeOK, Goto, PCs, gate, slot, links
  <2>. QED  BY <1>8, <2>1, <2>2, <2>3 DEF Request
<1>9. CASE Shutdown(c)
  BY <1>9, DisconnectType DEF Shutdown, TypeOK
<1>10. CASE Cancel(c)
  BY <1>10, EndsType DEF Cancel, TypeOK, slot
<1>. QED
  BY <1>1, <1>2, <1>3, <1>4, <1>5, <1>6, <1>7, <1>8, <1>9, <1>10 DEF CallStep

LEMMA LinkType ==
  ASSUME TypeOK, NEW k \in Conns,
         ReaderStep(k) \/ Receive(k) \/ Violation(k) \/ LinkLost(k)
  PROVE  TypeOK'
<1>1. CASE ReaderStops(k)
  BY <1>1 DEF TypeOK, ReaderStops, gate
<1>2. CASE ReaderClosed(k) \/ LinkLost(k)
  BY <1>2 DEF TypeOK, ReaderClosed, LinkLost, gate, slot
<1>3. CASE Receive(k)
  <2>1. PICK id \in wire[k], a \in {"ok", "error"} :
          /\ wire' = [wire EXCEPT ![k] = @ \ {id}]
          /\ answer' = IF Waiting(id[1]) /\ pc[id[1]] = id[2]
                       THEN [answer EXCEPT ![id[1]] = a] ELSE answer
    BY <1>3 DEF Receive
  <2>2. /\ wire' \in [Conns -> SUBSET (Calls \X Kinds)]
        /\ answer' \in [Calls -> {"none", "ok", "error"}]
    BY <2>1 DEF TypeOK
  <2>. QED  BY <1>3, <2>2 DEF Receive, TypeOK, gate, slot
<1>. QED  BY <1>1, <1>2, <1>3 DEF ReaderStep, ReaderEnds, Violation

-----------------------------------------------------------------------------
(* What the shared steps do to a call and to the connection.               *)

(* Call c leaves what it was doing; the others stay; a connection may be   *)
(* given up, and no other comes in its place.                              *)
Leaves(c) ==
  /\ pc'[c] \notin Kinds \cup {"open"}
  /\ \A d \in Calls \ {c} : pc'[d] = pc[d] /\ on'[d] = on[d] /\ answer'[d] = answer[d]
  /\ lock' = lock \/ (lock = c /\ lock' = NoCall)
  /\ conn' \in {conn, NoConn}
  /\ \A k \in Conns : link'[k] => link[k]
  /\ conn' # conn => \A k \in Conns : link'[k] => k # conn

(* Call c waits for the answer to what it sent on connection k, or leaves. *)
Sends(c, k, kind) ==
  /\ link[k] /\ pc'[c] = kind /\ on'[c] = k /\ answer'[c] = "none"
  /\ \A d \in Calls \ {c} : pc'[d] = pc[d] /\ on'[d] = on[d] /\ answer'[d] = answer[d]
  /\ kind = "request" => lock' = lock \/ (lock = c /\ lock' = NoCall)
  /\ conn' = conn /\ link' = link
  /\ wire' = [wire EXCEPT ![k] = @ \cup {<<c, kind>>}]

LEMMA EndsLeaves ==
  ASSUME TypeOK, NEW c \in Calls, Ends(c), UNCHANGED <<slot, link>>
  PROVE  Leaves(c)
BY DEF TypeOK, Ends, Goto, Leaves, slot, Kinds

LEMMA DisconnectLeaves ==
  ASSUME TypeOK, NEW c \in Calls, Disconnect(c)
  PROVE  Leaves(c)
<1>1. /\ conn' = NoConn
      /\ \A k \in Conns : link'[k] => link[k] /\ k # conn
  BY DEF Disconnect
<1>2. CASE Ends(c)
  BY <1>1, <1>2 DEF TypeOK, Ends, Goto, Leaves, Kinds
<1>3. CASE ~Ends(c)
  BY <1>1, <1>3 DEF TypeOK, Disconnect, Goto, Leaves, Kinds
<1>. QED  BY <1>2, <1>3

LEMMA FailsLeaves ==
  ASSUME TypeOK, NEW c \in Calls, Fails(c)
  PROVE  Leaves(c)
BY EndsLeaves, DisconnectLeaves DEF Fails

LEMMA SendSendsOrLeaves ==
  ASSUME TypeOK, NEW c \in Calls, NEW k \in Conns, NEW kind \in Kinds, Send(c, k, kind)
  PROVE  Sends(c, k, kind) \/ (Leaves(c) /\ wire' = wire)
<1>1. CASE link[k]
  BY <1>1 DEF Send, Sends, TypeOK, Goto, slot
<1>2. CASE ~link[k]
  BY <1>2, FailsLeaves DEF Send
<1>. QED  BY <1>1, <1>2

-----------------------------------------------------------------------------
(* The inductive invariant                                                 *)

LEMMA LeavingKeepsInv ==
  ASSUME TypeOK, BridgeInv, NEW c \in Calls, Leaves(c), UNCHANGED <<task, wire>>,
         \/ auth' = auth /\ (pc[c] = "handshake" => conn' = NoConn)
         \/ pc[c] = "handshake" /\ \E a \in {"shaken", "cancelled"} :
                                     auth' = [auth EXCEPT ![on[c]] = a]
  PROVE  BridgeInv'
<1>. USE DEF BridgeInv, Leaves, Kinds, TypeOK
<1>1. OnConnection'
  BY DEF OnConnection
<1>2. LinkIsRead'
  BY DEF LinkIsRead
<1>3. LockIsHeld'
  BY DEF LockIsHeld
<1>4. \A k \in Conns : auth[k] # "none" => auth'[k] # "none"
  OBVIOUS
<1>5. ShakesHands'
  <2>1. SUFFICES ASSUME conn' # NoConn, auth'[conn'] = "none"
                 PROVE  \E d \in Calls : pc'[d] = "handshake" /\ on'[d] = conn'
    BY DEF ShakesHands
  <2>2. conn' = conn /\ conn \in Conns /\ auth[conn] = "none"
    BY <1>4, <2>1 DEF NoConn
  <2>3. PICK d \in Calls : pc[d] = "handshake" /\ on[d] = conn
    BY <2>1, <2>2 DEF ShakesHands
  <2>4. d # c
    BY <2>1, <2>2, <2>3
  <2>. QED  BY <2>2, <2>3, <2>4
<1>6. WaitingIsRead'
  BY DEF WaitingIsRead, Waiting
<1>7. OneLiveConnection'
  BY DEF OneLiveConnection
<1>8. ShakenOrCancelled'
  BY <1>4 DEF ShakenOrCancelled
<1>. QED  BY <1>1, <1>2, <1>3, <1>5, <1>6, <1>7, <1>8

(* The handshake succeeded on a connection that is lost by then.           *)
LEMMA ShakenUnsentKeepsInv ==
  ASSUME TypeOK, BridgeInv, NEW c \in Calls, Leaves(c), UNCHANGED <<task, wire>>,
         pc[c] = "handshake", auth' = [auth EXCEPT ![on[c]] = "shaken"]
  PROVE  BridgeInv'
BY LeavingKeepsInv

LEMMA SendingKeepsInv ==
  ASSUME TypeOK, BridgeInv, NEW c \in Calls, NEW k \in Conns, Sends(c, k, "request"),
         task' = task,
         \/ auth' = auth /\ auth[k] # "none" /\ pc[c] # "handshake"
         \/ pc[c] = "handshake" /\ on[c] = k /\ auth' = [auth EXCEPT ![k] = "shaken"]
  PROVE  BridgeInv'
<1>. USE DEF BridgeInv, Sends, Kinds, TypeOK
<1>1. OnConnection'
  BY DEF OnConnection
<1>2. LinkIsRead'
  BY DEF LinkIsRead
<1>3. LockIsHeld'
  BY DEF LockIsHeld
<1>4. auth'[k] # "none" /\ \A j \in Conns : auth[j] # "none" => auth'[j] # "none"
  OBVIOUS
<1>5. ShakesHands'
  <2>1. SUFFICES ASSUME conn' # NoConn, auth'[conn'] = "none"
                 PROVE  \E d \in Calls : pc'[d] = "handshake" /\ on'[d] = conn'
    BY DEF ShakesHands
  <2>2. conn' = conn /\ conn \in Conns /\ conn # k /\ auth[conn] = "none"
    BY <1>4, <2>1
  <2>3. k = conn
    BY DEF OneLiveConnection
  <2>. QED  BY <2>2, <2>3
<1>6. WaitingIsRead'
  BY DEF WaitingIsRead, Waiting, LinkIsRead
<1>7. OneLiveConnection'
  BY DEF OneLiveConnection
<1>8. ShakenOrCancelled'
  BY <1>4 DEF ShakenOrCancelled
<1>. QED  BY <1>1, <1>2, <1>3, <1>5, <1>6, <1>7, <1>8

LEMMA LockedKeepsInv ==
  ASSUME TypeOK, BridgeInv, NEW c \in Calls, pc[c] \in {"idle", "lock"}, lock = NoCall, Locked(c)
  PROVE  BridgeInv'
<1>1. CASE conn # NoConn /\ Send(c, conn, "request") /\ UNCHANGED <<closed, opened, task, auth>>
  <2>1. conn \in Conns /\ "request" \in Kinds
    BY <1>1 DEF TypeOK, Kinds
  <2>2. ASSUME NEW d \in Calls  PROVE pc[d] # "handshake"
    BY DEF BridgeInv, LockIsHeld
  <2>3. auth[conn] # "none"
    BY <1>1, <2>2 DEF BridgeInv, ShakesHands
  <2>. QED
    BY <1>1, <2>1, <2>2, <2>3, SendSendsOrLeaves, SendingKeepsInv, LeavingKeepsInv
<1>2. CASE /\ conn = NoConn
           /\ lock' = c /\ Goto(c, "open") /\ UNCHANGED <<closed, slot, links, on, answer>>
  BY <1>2 DEF Goto, slot, links, TypeOK, BridgeInv, OnConnection, LinkIsRead, LockIsHeld, ShakesHands,
              WaitingIsRead, Waiting, Kinds, OneLiveConnection, ShakenOrCancelled
<1>3. CASE Fails(c) /\ UNCHANGED <<closed, opened, task, wire, auth>>
  BY <1>3, FailsLeaves, LeavingKeepsInv
<1>. QED  BY <1>1, <1>2, <1>3 DEF Locked

LEMMA ConnectedKeepsInv ==
  ASSUME TypeOK, BridgeInv, NEW c \in Calls, Connected(c)
  PROVE  BridgeInv'
<1>. DEFINE k == opened + 1
<1>1. k \in Conns /\ conn = NoConn /\ lock = c
  <2>1. k \in Conns
    BY DEF Connected, TypeOK, Conns
  <2>2. conn = NoConn /\ lock = c
    BY DEF Connected, BridgeInv, LockIsHeld
  <2>. QED  BY <2>1, <2>2
<1>2. /\ conn' = k /\ auth' = auth /\ lock' = lock
      /\ link' = [link EXCEPT ![k] = TRUE] /\ task' = [task EXCEPT ![k] = "reading"]
      /\ wire' = [wire EXCEPT ![k] = {<<c, "handshake">>}]
      /\ pc' = [pc EXCEPT ![c] = "handshake"] /\ on' = [on EXCEPT ![c] = k]
      /\ answer' = [answer EXCEPT ![c] = "none"]
  BY DEF Connected, Goto, gate
<1>3. /\ pc'[c] = "handshake" /\ on'[c] = k
      /\ \A d \in Calls \ {c} : pc'[d] = pc[d] /\ on'[d] = on[d] /\ answer'[d] = answer[d]
      /\ task'[k] = "reading" /\ \A j \in Conns \ {k} : task'[j] = task[j] /\ link'[j] = link[j]
      /\ \A j \in Conns \ {k} : wire'[j] = wire[j]
      /\ \A d \in Calls : <<d, "request">> \notin wire'[k]
  BY <1>1, <1>2 DEF TypeOK
<1>. HIDE DEF k
<1>4. \A j \in Conns : link[j] => FALSE
  BY <1>1 DEF BridgeInv, OneLiveConnection, Conns, NoConn
<1>. USE DEF BridgeInv
<1>5. OnConnection' /\ LockIsHeld' /\ ShakesHands'
  BY <1>1, <1>2, <1>3 DEF OnConnection, LockIsHeld, ShakesHands
<1>6. LinkIsRead' /\ OneLiveConnection'
  BY <1>1, <1>2, <1>3, <1>4 DEF LinkIsRead, OneLiveConnection
<1>7. WaitingIsRead'
  BY <1>1, <1>3 DEF WaitingIsRead, Waiting, OnConnection, Kinds
<1>8. ShakenOrCancelled'
  BY <1>2, <1>3 DEF ShakenOrCancelled
<1>. QED  BY <1>5, <1>6, <1>7, <1>8

LEMMA CallKeepsInv ==
  ASSUME TypeOK, BridgeInv, NEW c \in Calls,
         CallStep(c) \/ Request(c) \/ Shutdown(c) \/ Cancel(c)
  PROVE  BridgeInv'
<1>1. CASE TakeLock(c)
  BY <1>1, LockedKeepsInv DEF TakeLock
<1>2. CASE Connected(c)
  BY <1>2, ConnectedKeepsInv
<1>3. CASE Unreachable(c) \/ RequestFails(c)
  BY <1>3, FailsLeaves, LeavingKeepsInv DEF Unreachable, RequestFails
<1>4. CASE Shaken(c)
  <2>1. on[c] \in Conns /\ "request" \in Kinds
    BY <1>4 DEF Shaken, BridgeInv, OnConnection, Kinds
  <2>2. CASE Sends(c, on[c], "request")
    BY <1>4, <2>1, <2>2, SendingKeepsInv DEF Shaken
  <2>3. CASE Leaves(c) /\ wire' = wire
    BY <1>4, <2>1, <2>3, ShakenUnsentKeepsInv DEF Shaken
  <2>. QED  BY <1>4, <2>1, <2>2, <2>3, SendSendsOrLeaves DEF Shaken
<1>5. CASE HandshakeFails(c)
  BY <1>5, DisconnectLeaves, LeavingKeepsInv DEF HandshakeFails, Disconnect
<1>6. CASE Answered(c) \/ Joined(c)
  BY <1>6, EndsLeaves, LeavingKeepsInv DEF Answered, Joined, slot, links
<1>7. CASE CloseReturned(c)
  <2>1. Leaves(c)
    BY <1>7, EndsLeaves DEF CloseReturned, Leaves, TypeOK, Goto, Kinds, slot, links
  <2>. QED  BY <1>7, <2>1, LeavingKeepsInv DEF CloseReturned, slot, links
<1>8. CASE Request(c)
  <2>1. CASE Fails(c) /\ UNCHANGED <<closed, opened, task, wire, auth>>
    BY <1>8, <2>1, FailsLeaves, LeavingKeepsInv DEF Request
  <2>2. CASE lock = NoCall /\ Locked(c)
    BY <1>8, <2>2, LockedKeepsInv DEF Request
  <2>3. CASE Goto(c, "lock") /\ UNCHANGED <<gate, slot, links, on, answer>>
    <3>1. Leaves(c)
      BY <2>3 DEF Leaves, TypeOK, Goto, Kinds, gate, slot, links
    <3>. QED  BY <1>8, <2>3, <3>1, LeavingKeepsInv DEF Request, links
  <2>. QED  BY <1>8, <2>1, <2>2, <2>3 DEF Request
<1>9. CASE Shutdown(c)
  BY <1>9, DisconnectLeaves, LeavingKeepsInv DEF Shutdown
<1>10. CASE Cancel(c)
  BY <1>10, EndsLeaves, LeavingKeepsInv DEF Cancel, slot
<1>. QED
  BY <1>1, <1>2, <1>3, <1>4, <1>5, <1>6, <1>7, <1>8, <1>9, <1>10 DEF CallStep

LEMMA LinkKeepsInv ==
  ASSUME TypeOK, BridgeInv, NEW k \in Conns,
         ReaderStep(k) \/ Receive(k) \/ Violation(k) \/ LinkLost(k)
  PROVE  BridgeInv'
<1>. USE DEF BridgeInv
<1>1. CASE ReaderStops(k)
  <2>. USE <1>1 DEF ReaderStops, TypeOK, gate
  <2>1. OnConnection' /\ LockIsHeld' /\ ShakesHands'
    BY DEF OnConnection, LockIsHeld, ShakesHands
  <2>2. LinkIsRead' /\ OneLiveConnection'
    BY DEF LinkIsRead, OneLiveConnection
  <2>3. WaitingIsRead'
    BY DEF WaitingIsRead, Waiting
  <2>4. ShakenOrCancelled'
    BY DEF ShakenOrCancelled
  <2>. QED  BY <2>1, <2>2, <2>3, <2>4
<1>2. CASE ReaderClosed(k)
  BY <1>2 DEF ReaderClosed, TypeOK, gate, slot, OnConnection, LockIsHeld, ShakesHands, LinkIsRead,
              OneLiveConnection, WaitingIsRead, Waiting, ShakenOrCancelled
<1>3. CASE LinkLost(k)
  BY <1>3 DEF LinkLost, TypeOK, gate, slot, OnConnection, LockIsHeld, ShakesHands, LinkIsRead,
              OneLiveConnection, WaitingIsRead, Waiting, ShakenOrCancelled
<1>4. CASE Receive(k)
  <2>1. /\ UNCHANGED <<lock, conn, link, task, auth, pc, on>>
        /\ \A j \in Conns : wire'[j] \subseteq wire[j]
        /\ \A d \in Calls : answer'[d] = "none" => answer[d] = "none"
    BY <1>4 DEF Receive, TypeOK, gate, slot
  <2>2. OnConnection' /\ LockIsHeld' /\ ShakesHands' /\ LinkIsRead' /\ OneLiveConnection'
    BY <2>1 DEF OnConnection, LockIsHeld, ShakesHands, LinkIsRead, OneLiveConnection
  <2>3. WaitingIsRead'
    BY <2>1 DEF WaitingIsRead, Waiting
  <2>4. ShakenOrCancelled'
    BY <2>1 DEF ShakenOrCancelled
  <2>. QED  BY <2>2, <2>3, <2>4
<1>. QED  BY <1>1, <1>2, <1>3, <1>4 DEF ReaderStep, ReaderEnds, Violation

-----------------------------------------------------------------------------
(* The theorems                                                            *)

LEMMA InitInv == Init => TypeOK /\ BridgeInv
<1>1. Init => TypeOK
  <2>1. SUFFICES ASSUME Init PROVE TypeOK
    OBVIOUS
  <2>2. /\ closed \in BOOLEAN /\ conn \in Conns \cup {NoConn} /\ reader \in Conns \cup {NoConn}
        /\ lock \in Calls \cup {NoCall}
    BY <2>1 DEF Init
  <2>3. opened \in 0..MaxConns
    BY <2>1 DEF Init
  <2>4. /\ link \in [Conns -> BOOLEAN]
        /\ task \in [Conns -> {"none", "reading", "closing", "done"}]
        /\ wire \in [Conns -> SUBSET (Calls \X Kinds)]
        /\ auth \in [Conns -> {"none", "shaken", "cancelled"}]
    BY <2>1 DEF Init
  <2>5. /\ pc \in [Calls -> PCs] /\ on \in [Calls -> Conns \cup {NoConn}]
        /\ answer \in [Calls -> {"none", "ok", "error"}]
    BY <2>1 DEF Init, PCs
  <2>. QED  BY <2>2, <2>3, <2>4, <2>5 DEF TypeOK
<1>2. Init => OnConnection /\ LockIsHeld /\ ShakesHands /\ LinkIsRead
  BY DEF Init, OnConnection, LockIsHeld, ShakesHands, LinkIsRead, Kinds
<1>3. Init => OneLiveConnection /\ WaitingIsRead /\ ShakenOrCancelled
  BY DEF Init, OneLiveConnection, WaitingIsRead, Waiting, ShakenOrCancelled, Kinds
<1>. QED  BY <1>1, <1>2, <1>3 DEF BridgeInv

LEMMA NextInv == TypeOK /\ BridgeInv /\ [Next]_vars => TypeOK' /\ BridgeInv'
<1>1. SUFFICES ASSUME TypeOK, BridgeInv, [Next]_vars PROVE TypeOK' /\ BridgeInv'
  OBVIOUS
<1>2. ASSUME NEW c \in Calls, CallStep(c) \/ Request(c) \/ Shutdown(c) \/ Cancel(c)
      PROVE  TypeOK' /\ BridgeInv'
  BY <1>1, <1>2, CallType, CallKeepsInv DEF BridgeInv
<1>3. ASSUME NEW k \in Conns, ReaderStep(k) \/ Receive(k) \/ Violation(k) \/ LinkLost(k)
      PROVE  TypeOK' /\ BridgeInv'
  BY <1>1, <1>3, LinkType, LinkKeepsInv
<1>4. CASE UNCHANGED vars
  BY <1>1, <1>4 DEF vars, gate, slot, links, TypeOK, BridgeInv, OnConnection, LockIsHeld, ShakesHands,
     LinkIsRead, OneLiveConnection, WaitingIsRead, Waiting, ShakenOrCancelled
<1>. QED  BY <1>1, <1>2, <1>3, <1>4 DEF Next, ProviderStep

(* Types, for every set of calls and every number of connections           *)
(* (providers/implementations/websocket_avatar.py).                        *)
THEOREM TypeCorrect == Spec => []TypeOK
BY InitInv, NextInv, PTL DEF Spec

(* The inductive invariant of the bridge client: who opens a connection    *)
(* has the lock, a live one is the provider's and is read.                 *)
THEOREM BridgeInvariant == Spec => []BridgeInv
BY InitInv, NextInv, PTL DEF Spec

(* No request waits for an answer that nobody would read (_reader_loop).   *)
THEOREM RequestsAreRead == Spec => []WaitingIsRead
BY BridgeInvariant, PTL DEF BridgeInv

(* The stage never has two live connections of this client, whatever       *)
(* breaks, is cancelled or times out (_ensure_connected, _disconnect).     *)
THEOREM OneConnection == Spec => []OneLiveConnection
BY BridgeInvariant, PTL DEF BridgeInv

(* A connection carries a command only when its handshake succeeded, or    *)
(* when the task that made it was cancelled in it: never when it failed or *)
(* is still under way (_ensure_connected).                                 *)
THEOREM FailedHandshakesAreUnused == Spec => []ShakenOrCancelled
BY BridgeInvariant, PTL DEF BridgeInv
=============================================================================
