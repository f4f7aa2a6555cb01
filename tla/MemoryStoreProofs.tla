------------------------- MODULE MemoryStoreProofs --------------------------
(***************************************************************************)
(* MemoryStore keeps its cap and implements StoreContract, for every cap,  *)
(* any number of keys and every sequence of calls, purges and evictions.   *)
(* The cap is a matter of the Map's keys and their order (MapInv); the     *)
(* contract, of what the entries show a client (EntryInv): every call that *)
(* changes quotas is one step of the contract, every other call none.      *)
(***************************************************************************)
EXTENDS MemoryStore, FiniteSetTheorems, SequenceTheorems, WellFoundedInduction, TLAPS

-----------------------------------------------------------------------------
(* Sequences without repetition                                            *)

\* The keys of a sequence.
Elems(s) == {s[i] : i \in 1..Len(s)}

LEMMA InjectiveLen ==
    ASSUME NEW S, NEW s \in Seq(S), IsInjective(s)
    PROVE  IsFiniteSet(Elems(s)) /\ Cardinality(Elems(s)) = Len(s) /\ Len(s) \in Nat
<1>1. PICK E : E = Elems(s)
  OBVIOUS
<1>2. Len(s) \in Nat /\ IsFiniteSet(1..Len(s)) /\ Cardinality(1..Len(s)) = Len(s)
  <2>1. Len(s) \in Nat
    OBVIOUS
  <2> QED BY <2>1, FS_Interval
<1>3. s \in [1..Len(s) -> E] /\ DOMAIN s = 1..Len(s)
  BY <1>1 DEF Elems
<1>4. s \in Surjection(1..Len(s), E)
  BY <1>1, <1>3 DEF Surjection, Elems
<1>5. s \in Injection(1..Len(s), E)
  BY <1>3 DEF Injection, IsInjective
<1> QED BY <1>1, <1>2, <1>4, <1>5, FS_Surjection

\* The ranks of a finite set of numbers are 1, 2, ... without a gap.
LEMMA Ranks ==
    ASSUME NEW T, T \subseteq Nat, IsFiniteSet(T), NEW n, n = Cardinality(T),
           NEW j \in 1..n
    PROVE  \E i \in T : Cardinality({x \in T : x <= i}) = j
<1> DEFINE below(i) == {x \in T : x <= i}
           f == [i \in T |-> Cardinality(below(i))]
<1>1. n \in Nat /\ IsFiniteSet(1..n) /\ Cardinality(1..n) = n
  <2>1. n \in Nat
    BY FS_CardinalityType
  <2> QED BY <2>1, FS_Interval
<1>2. ASSUME NEW i \in T
      PROVE  IsFiniteSet(below(i)) /\ Cardinality(below(i)) \in Nat /\ Cardinality(below(i)) \in 1..n
  <2>1. below(i) \in SUBSET T /\ i \in below(i)
    OBVIOUS
  <2>2. IsFiniteSet(below(i)) /\ Cardinality(below(i)) <= n
    BY <2>1, FS_Subset
  <2>3. Cardinality(below(i)) \in Nat /\ Cardinality(below(i)) # 0
    BY <2>1, <2>2, FS_CardinalityType, FS_EmptySet
  <2> QED BY <1>1, <2>2, <2>3
<1>3. ASSUME NEW i \in T, NEW k \in T, i < k PROVE Cardinality(below(i)) # Cardinality(below(k))
  <2>1. below(i) \in SUBSET below(k) /\ k \in below(k) /\ k \notin below(i)
    <3>1. \A x \in T : x \in Nat
      OBVIOUS
    <3>2. i \in Nat /\ k \in Nat
      OBVIOUS
    <3>3. ASSUME NEW x \in T, x <= i PROVE x <= k
      BY <1>3, <3>1, <3>2, <3>3
    <3>4. k <= k /\ ~(k <= i)
      BY <1>3, <3>2
    <3> QED BY <3>3, <3>4
  <2>2. IsFiniteSet(below(k))
    BY <1>2
  <2> HIDE DEF below
  <2>3. Cardinality(below(k)) = Cardinality(below(i)) => below(k) = below(i)
    BY <2>1, <2>2, FS_Subset
  <2> QED BY <2>1, <2>3
<1>4. f \in Injection(T, 1..n)
  <2>1. f \in [T -> 1..n]
    BY <1>2
  <2>2. ASSUME NEW i \in T, NEW k \in T, f[i] = f[k] PROVE i = k
    <3>1. f[i] = Cardinality(below(i)) /\ f[k] = Cardinality(below(k))
      OBVIOUS
    <3>2. ~(i < k) /\ ~(k < i)
      BY <1>3, <2>2, <3>1
    <3>3. i \in Nat /\ k \in Nat
      OBVIOUS
    <3> QED BY <3>2, <3>3
  <2> QED BY <2>1, <2>2 DEF Injection, IsInjective
<1>5. f \in Surjection(T, 1..n)
  <2> HIDE DEF f
  <2> QED BY <1>1, <1>4, FS_Injection
<1>6. PICK i \in T : f[i] = j
  BY <1>5 DEF Surjection
<1> QED BY <1>6

\* What Without leaves: the elements that are not among keys, each once.
LEMMA WithoutIs ==
    ASSUME NEW S, NEW s \in Seq(S), IsInjective(s), NEW keys
    PROVE  /\ Without(s, keys) \in Seq(S) /\ IsInjective(Without(s, keys))
           /\ Elems(Without(s, keys)) = Elems(s) \ keys
<1> DEFINE stay == {i \in DOMAIN s : s[i] \notin keys}
           rank(i) == Cardinality({x \in stay : x <= i})
           pick(j) == CHOOSE i \in stay : rank(i) = j
           n == Cardinality(stay)
           t == [j \in 1..n |-> s[pick(j)]]
<1>1. Without(s, keys) = t
  BY DEF Without, Keep
<1>2. Len(s) \in Nat /\ DOMAIN s = 1..Len(s) /\ \A i \in DOMAIN s : s[i] \in S
  OBVIOUS
<1>3. stay \subseteq Nat /\ IsFiniteSet(stay) /\ n \in Nat
  <2>1. stay \in SUBSET (1..Len(s)) /\ stay \subseteq Nat
    BY <1>2
  <2>2. IsFiniteSet(1..Len(s))
    BY <1>2, FS_Interval
  <2> HIDE DEF stay
  <2>3. IsFiniteSet(stay)
    BY <2>1, <2>2, FS_Subset
  <2> QED BY <2>1, <2>3, FS_CardinalityType
<1>4. ASSUME NEW j \in 1..n PROVE pick(j) \in stay /\ rank(pick(j)) = j
  <2> HIDE DEF stay
  <2>1. \E i \in stay : rank(i) = j
    BY <1>3, Ranks
  <2> QED BY <2>1
<1>5. ASSUME NEW i \in stay PROVE rank(i) \in 1..n
  <2> HIDE DEF stay
  <2>1. PICK B : B = {x \in stay : x <= i}
    OBVIOUS
  <2>2. B \in SUBSET stay /\ i \in B
    BY <1>3, <2>1
  <2>3. IsFiniteSet(B) /\ Cardinality(B) <= n
    BY <1>3, <2>2, FS_Subset
  <2>4. Cardinality(B) \in Nat /\ Cardinality(B) # 0
    BY <2>2, <2>3, FS_CardinalityType, FS_EmptySet
  <2> QED BY <1>3, <2>1, <2>3, <2>4
<1>6. ASSUME NEW i \in stay PROVE pick(rank(i)) = i
  <2>1. PICK j \in 1..n : j = rank(i)
    BY <1>5
  <2>2. pick(j) \in stay /\ rank(pick(j)) = j
    BY <1>4
  <2>3. PICK k \in stay : k = pick(j)
    BY <2>2
  <2>4. rank(k) = rank(i)
    BY <2>1, <2>2, <2>3
  <2>5. k = i
    <3> HIDE DEF stay
    <3>1. k \in Nat /\ i \in Nat
      BY <1>3
    <3>2. ASSUME NEW a \in stay, NEW b \in stay, a < b PROVE rank(a) # rank(b)
      <4>1. PICK A : A = {x \in stay : x <= a}
        OBVIOUS
      <4>2. PICK B : B = {x \in stay : x <= b}
        OBVIOUS
      <4>3. a \in Nat /\ b \in Nat /\ \A x \in stay : x \in Nat
        BY <1>3
      <4>4. A \in SUBSET B /\ B \in SUBSET stay /\ b \in B /\ b \notin A
        <5>1. ASSUME NEW x \in stay, x <= a PROVE x <= b
          BY <3>2, <4>3, <5>1
        <5>2. b <= b /\ ~(b <= a)
          BY <3>2, <4>3
        <5> QED BY <4>1, <4>2, <5>1, <5>2
      <4>5. IsFiniteSet(B)
        BY <1>3, <4>4, FS_Subset
      <4>6. Cardinality(B) = Cardinality(A) => B = A
        BY <4>4, <4>5, FS_Subset
      <4> QED BY <4>1, <4>2, <4>4, <4>6
    <3>3. ~(k < i) /\ ~(i < k)
      BY <2>4, <3>2
    <3> QED BY <3>1, <3>3
  <2> QED BY <2>1, <2>3, <2>5
<1>7. \A j \in 1..n : t[j] \in S /\ t[j] \in Elems(s) \ keys
  BY <1>2, <1>4 DEF Elems
<1>8. t \in Seq(S) /\ Len(t) = n /\ DOMAIN t = 1..n
  <2>1. PICK m \in Nat : m = n
    BY <1>3
  <2>2. PICK g : g = t
    OBVIOUS
  <2>3. g \in [1..m -> S]
    BY <1>7, <2>1, <2>2
  <2>4. g \in Seq(S) /\ Len(g) = m /\ DOMAIN g = 1..m
    BY <2>3
  <2> HIDE DEF t, n
  <2> QED BY <2>1, <2>2, <2>4
<1>9. ASSUME NEW a \in 1..n, NEW b \in 1..n, t[a] = t[b] PROVE a = b
  <2>1. pick(a) \in stay /\ pick(b) \in stay /\ rank(pick(a)) = a /\ rank(pick(b)) = b
    BY <1>4
  <2>2. s[pick(a)] = s[pick(b)]
    BY <1>9
  <2>3. pick(a) = pick(b)
    BY <2>1, <2>2 DEF IsInjective
  <2> QED BY <2>1, <2>3
<1>10. IsInjective(t)
  BY <1>8, <1>9 DEF IsInjective
<1>11. ASSUME NEW x \in Elems(s) \ keys PROVE x \in Elems(t)
  <2>1. PICK i \in stay : x = s[i]
    BY <1>2 DEF Elems
  <2>2. rank(i) \in 1..n /\ pick(rank(i)) = i
    BY <1>5, <1>6
  <2>3. t[rank(i)] = x
    BY <2>1, <2>2
  <2> QED BY <1>8, <2>2, <2>3 DEF Elems
<1>12. \A x \in Elems(t) : x \in Elems(s) \ keys
  BY <1>7, <1>8 DEF Elems
<1> QED BY <1>1, <1>8, <1>10, <1>11, <1>12

-----------------------------------------------------------------------------
(* The inductive invariant                                                 *)

\* The Map without the keys that reset() has put in fits its cap.
MapInv ==
    /\ order \in Seq(Keys) /\ IsInjective(order)
    /\ maxKeys \in Nat
    /\ IsFiniteSet(unroomed)
    /\ maxKeys > 0 => Cardinality(Elems(order) \ unroomed) <= maxKeys

\* A key appended to a sequence that does not have it.
LEMMA AppendIs ==
    ASSUME NEW S, NEW s \in Seq(S), IsInjective(s), NEW k \in S, k \notin Elems(s)
    PROVE  /\ Append(s, k) \in Seq(S) /\ IsInjective(Append(s, k))
           /\ Elems(Append(s, k)) = Elems(s) \union {k}
           /\ Len(Append(s, k)) = Len(s) + 1
<1>1. PICK t : t = Append(s, k)
  OBVIOUS
<1>2. Len(s) \in Nat /\ t \in Seq(S) /\ Len(t) = Len(s) + 1 /\ DOMAIN t = 1..Len(s) + 1
  BY <1>1
<1>3. t[Len(s) + 1] = k /\ \A i \in 1..Len(s) : t[i] = s[i]
  BY <1>1
<1>4. \A i \in 1..Len(s) : s[i] # k
  BY DEF Elems
<1>5. ASSUME NEW a \in DOMAIN t, NEW b \in DOMAIN t, t[a] = t[b] PROVE a = b
  <2>1. CASE a \in 1..Len(s) /\ b \in 1..Len(s)
    BY <1>3, <1>5, <2>1 DEF IsInjective
  <2>2. CASE a = Len(s) + 1 \/ b = Len(s) + 1
    <3>1. (a = Len(s) + 1 \/ a \in 1..Len(s)) /\ (b = Len(s) + 1 \/ b \in 1..Len(s))
      BY <1>2
    <3> QED BY <1>3, <1>4, <1>5, <2>2, <3>1
  <2> QED BY <1>2, <2>1, <2>2
<1>6. ASSUME NEW x PROVE x \in Elems(t) <=> x \in Elems(s) \union {k}
  <2>1. ASSUME x \in Elems(t) PROVE x \in Elems(s) \union {k}
    <3>1. PICK i \in 1..Len(s) + 1 : x = t[i]
      BY <1>2, <2>1 DEF Elems
    <3>2. i = Len(s) + 1 \/ i \in 1..Len(s)
      BY <1>2
    <3> QED BY <1>3, <3>1, <3>2 DEF Elems
  <2>2. ASSUME x \in Elems(s) PROVE x \in Elems(t)
    <3>1. PICK i \in 1..Len(s) : x = s[i]
      BY <2>2 DEF Elems
    <3>2. i \in 1..Len(t) /\ t[i] = x
      BY <1>2, <1>3, <3>1
    <3> QED BY <3>2 DEF Elems
  <2>3. k \in Elems(t)
    <3>1. Len(s) + 1 \in 1..Len(t)
      BY <1>2
    <3> QED BY <1>3, <3>1 DEF Elems
  <2> QED BY <2>1, <2>2, <2>3
<1> QED BY <1>1, <1>2, <1>5, <1>6 DEF IsInjective

\* delete and set of a key: the keys are those there were and it.
LEMMA MoveToEnd ==
    ASSUME NEW S, NEW s \in Seq(S), IsInjective(s), NEW k \in S
    PROVE  LET t == Append(Without(s, {k}), k) IN
           /\ t \in Seq(S) /\ IsInjective(t) /\ Elems(t) = Elems(s) \union {k}
<1>1. PICK w : w = Without(s, {k})
  OBVIOUS
<1>2. w \in Seq(S) /\ IsInjective(w) /\ Elems(w) = Elems(s) \ {k}
  BY <1>1, WithoutIs
<1>3. Append(w, k) \in Seq(S) /\ IsInjective(Append(w, k))
      /\ Elems(Append(w, k)) = Elems(w) \union {k}
  BY <1>2, AppendIs
<1> QED BY <1>1, <1>2, <1>3

\* EnsureRoom leaves room for the key, and moves nothing.
LEMMA RoomIs ==
    ASSUME MapInv, NEW k \in Keys
    PROVE  /\ EnsureRoom(k) \in Seq(Keys) /\ IsInjective(EnsureRoom(k))
           /\ maxKeys = 0 \/ Has(k) => EnsureRoom(k) = order
           /\ maxKeys > 0 /\ ~ Has(k) => Len(EnsureRoom(k)) < maxKeys
           /\ Elems(EnsureRoom(k)) \subseteq Elems(order)
<1>1. Len(order) \in Nat /\ maxKeys \in Nat /\ order \in Seq(Keys) /\ IsInjective(order)
  BY DEF MapInv
<1>2. CASE maxKeys = 0 \/ Has(k) \/ Len(order) < maxKeys
  BY <1>1, <1>2 DEF EnsureRoom
<1>3. CASE ~(maxKeys = 0 \/ Has(k) \/ Len(order) < maxKeys)
  <2>1. PICK m \in Nat : m = Len(order) - maxKeys + 1
    BY <1>1, <1>3
  <2>2. PICK t : t = SubSeq(order, m + 1, Len(order))
    OBVIOUS
  <2>3. EnsureRoom(k) = t
    BY <1>3, <2>1, <2>2 DEF EnsureRoom, DropFirst
  <2>4. m + 1 \in Nat /\ m + 1 \in 1..Len(order) + 1 /\ Len(order) - m = maxKeys - 1
    BY <1>1, <1>3, <2>1
  <2>5. /\ t \in Seq(Keys) /\ Len(t) = Len(order) - m
        /\ \A i \in 1..Len(t) : t[i] = order[m + i]
    BY <1>1, <2>2, <2>4
  <2>6. \A i \in 1..Len(t) : m + i \in 1..Len(order) /\ m + i \in DOMAIN order
    BY <1>1, <2>4, <2>5
  <2>7. Elems(t) \subseteq Elems(order)
    BY <2>5, <2>6 DEF Elems
  <2>8. IsInjective(t)
    <3>1. ASSUME NEW a \in 1..Len(t), NEW b \in 1..Len(t), t[a] = t[b] PROVE a = b
      <4>1. m + a = m + b
        BY <1>1, <2>5, <2>6, <3>1 DEF IsInjective
      <4> QED BY <2>1, <2>5, <4>1
    <3>2. DOMAIN t = 1..Len(t)
      BY <2>5
    <3> QED BY <3>1, <3>2 DEF IsInjective
  <2> QED BY <1>1, <1>3, <2>3, <2>4, <2>5, <2>7, <2>8
<1> QED BY <1>2, <1>3

-----------------------------------------------------------------------------
(* What the steps do to the keys                                           *)

\* Fewer keys.
LEMMA FewerKeys ==
    ASSUME MapInv, order' \in Seq(Keys), IsInjective(order)',
           Elems(order') \subseteq Elems(order), UNCHANGED <<maxKeys, unroomed>>
    PROVE  MapInv'
<1>1. IsFiniteSet(Elems(order))
  BY InjectiveLen DEF MapInv
<1>2. PICK A : A = Elems(order) \ unroomed
  OBVIOUS
<1>3. PICK B : B = Elems(order') \ unroomed
  OBVIOUS
<1>4. IsFiniteSet(A)
  BY <1>1, <1>2, FS_Difference
<1>5. B \in SUBSET A
  BY <1>2, <1>3
<1>6. Cardinality(A) \in Nat /\ Cardinality(B) \in Nat /\ Cardinality(B) <= Cardinality(A)
  BY <1>4, <1>5, FS_Subset, FS_CardinalityType
<1>7. maxKeys > 0 => Cardinality(B) <= maxKeys
  BY <1>2, <1>6 DEF MapInv
<1>8. Elems(order)' = Elems(order')
  BY DEF Elems
<1> QED BY <1>3, <1>7, <1>8 DEF MapInv

LEMMA DropKeeps ==
    ASSUME MapInv, NEW keys, order' = Without(order, keys), UNCHANGED <<maxKeys, unroomed>>
    PROVE  MapInv'
<1>1. PICK t : t = Without(order, keys)
  OBVIOUS
<1>2. t \in Seq(Keys) /\ IsInjective(t) /\ Elems(t) = Elems(order) \ keys
  BY <1>1, WithoutIs DEF MapInv
<1>3. order' = t
  BY <1>1
<1>4. IsInjective(order)'
  BY <1>2, <1>3 DEF IsInjective
<1> QED BY <1>2, <1>3, <1>4, FewerKeys

LEMMA SameKeeps ==
    ASSUME MapInv, UNCHANGED <<order, maxKeys, unroomed>>
    PROVE  MapInv'
BY DEF MapInv, Elems, IsInjective

\* resetAll() and shutdown().
LEMMA ClearKeeps ==
    ASSUME MapInv, order' = Without(order, Keys), unroomed' = {}, UNCHANGED maxKeys
    PROVE  MapInv'
<1>1. PICK t : t = Without(order, Keys)
  OBVIOUS
<1>2. t \in Seq(Keys) /\ IsInjective(t) /\ Elems(t) = Elems(order) \ Keys
  BY <1>1, WithoutIs DEF MapInv
<1>3. order' = t
  BY <1>1
<1>4. IsInjective(order)'
  BY <1>2, <1>3 DEF IsInjective
<1>5. Elems(t) \subseteq Keys
  BY <1>2 DEF Elems
<1>6. Elems(t) \ {} = {}
  BY <1>2, <1>5
<1>7. Cardinality({}) = 0 /\ IsFiniteSet({})
  BY FS_EmptySet
<1>8. Elems(order)' = Elems(t)
  BY <1>3 DEF Elems
<1>9. maxKeys' \in Nat /\ (maxKeys' > 0 => 0 <= maxKeys')
  BY DEF MapInv
<1> QED BY <1>2, <1>3, <1>4, <1>6, <1>7, <1>8, <1>9 DEF MapInv

\* A key that the Map has is used.
LEMMA UseKeeps ==
    ASSUME MapInv, NEW k \in Keys, Has(k), order' = Append(Without(order, {k}), k),
           UNCHANGED <<maxKeys, unroomed>>
    PROVE  MapInv'
<1>1. PICK t : t = Append(Without(order, {k}), k)
  OBVIOUS
<1>2. t \in Seq(Keys) /\ IsInjective(t) /\ Elems(t) = Elems(order) \union {k}
  BY <1>1, MoveToEnd DEF MapInv
<1>3. k \in Elems(order)
  BY DEF Has, Contains, Elems
<1>4. order' = t
  BY <1>1
<1>5. IsInjective(order)'
  BY <1>2, <1>4 DEF IsInjective
<1> QED BY <1>2, <1>3, <1>4, <1>5, FewerKeys

\* A new key that room was made for.
LEMMA NewKeeps ==
    ASSUME MapInv, NEW k \in Keys, ~ Has(k),
           order' = Append(Without(EnsureRoom(k), {k}), k),
           RoomMade(k), UNCHANGED maxKeys
    PROVE  MapInv'
<1>1. PICK r : r = EnsureRoom(k)
  OBVIOUS
<1>2. /\ r \in Seq(Keys) /\ IsInjective(r)
      /\ maxKeys > 0 => Len(r) < maxKeys
      /\ Elems(r) \subseteq Elems(order)
  BY <1>1, RoomIs
<1>3. PICK w : w = Without(r, {k})
  OBVIOUS
<1>4. w \in Seq(Keys) /\ IsInjective(w) /\ Elems(w) = Elems(r) \ {k}
  BY <1>2, <1>3, WithoutIs
<1>5. k \notin Elems(r)
  BY <1>2 DEF Has, Contains, Elems
<1>6. Elems(w) = Elems(r)
  BY <1>4, <1>5
<1>7. Len(w) = Len(r) /\ Len(r) \in Nat
  BY <1>2, <1>4, <1>6, InjectiveLen
<1>8. PICK t : t = Append(w, k)
  OBVIOUS
<1>9. t \in Seq(Keys) /\ IsInjective(t) /\ Len(t) = Len(w) + 1
  BY <1>4, <1>8, AppendIs
<1>10. IsFiniteSet(Elems(t)) /\ Cardinality(Elems(t)) = Len(t)
  BY <1>9, InjectiveLen
<1>11. maxKeys \in Nat /\ (maxKeys > 0 => Cardinality(Elems(t)) <= maxKeys)
  BY <1>2, <1>7, <1>9, <1>10 DEF MapInv
<1>12. order' = t
  BY <1>1, <1>3, <1>8
<1>13. IsInjective(order)' /\ Elems(order)' = Elems(t)
  BY <1>9, <1>12 DEF IsInjective, Elems
<1>14. IsFiniteSet(unroomed') /\ (maxKeys > 0 => unroomed' = {})
  BY <1>11, FS_EmptySet DEF RoomMade, MapInv
<1>15. Elems(t) \ {} = Elems(t)
  OBVIOUS
<1> QED BY <1>9, <1>11, <1>12, <1>13, <1>14, <1>15 DEF MapInv

\* An increment or a set().
LEMMA PutKeeps ==
    ASSUME MapInv, NEW k \in Keys, NEW kept, NEW e, NEW moves \in BOOLEAN,
           kept = EnsureRoom(k) \/ (Has(k) /\ moves /\ kept = Without(order, {k})),
           Put(kept, k, e, moves), RoomMade(k), UNCHANGED maxKeys
    PROVE  MapInv'
<1>1. CASE ~ Has(k)
  BY <1>1, NewKeeps DEF Put
<1>2. CASE Has(k) /\ kept = EnsureRoom(k)
  <2>1. kept = order /\ unroomed' = unroomed
    BY <1>2, RoomIs DEF RoomMade
  <2>2. order' = order \/ order' = Append(Without(order, {k}), k)
    BY <2>1 DEF Put
  <2> QED BY <1>2, <2>1, <2>2, SameKeeps, UseKeeps
<1>3. CASE Has(k) /\ moves /\ kept = Without(order, {k})
  <2>1. unroomed' = unroomed
    BY <1>3 DEF RoomMade
  <2>2. order' = Append(Without(kept, {k}), k)
    BY <1>3 DEF Put
  <2>3. kept \in Seq(Keys) /\ IsInjective(kept) /\ Elems(kept) = Elems(order) \ {k}
    BY <1>3, WithoutIs DEF MapInv
  <2>4. PICK t : t = Append(Without(kept, {k}), k)
    OBVIOUS
  <2>5. t \in Seq(Keys) /\ IsInjective(t) /\ Elems(t) = Elems(kept) \union {k}
    <3>1. /\ Append(Without(kept, {k}), k) \in Seq(Keys)
          /\ IsInjective(Append(Without(kept, {k}), k))
          /\ Elems(Append(Without(kept, {k}), k)) = Elems(kept) \union {k}
      BY <2>3, MoveToEnd
    <3> QED BY <2>4, <3>1
  <2>6. k \in Elems(order)
    BY <1>3 DEF Has, Contains, Elems
  <2>7. order' = t
    BY <2>2, <2>4
  <2>8. IsInjective(order)'
    BY <2>5, <2>7 DEF IsInjective
  <2> QED BY <2>1, <2>3, <2>5, <2>6, <2>7, <2>8, FewerKeys
<1> QED BY <1>1, <1>2, <1>3

\* reset() of a window or a bucket: a key it puts in joins unroomed.
LEMMA ResetKeeps ==
    ASSUME MapInv, NEW k \in Keys, NEW e, Put(order, k, e, FALSE), UNCHANGED maxKeys,
           unroomed' = IF maxKeys = 0 \/ Has(k) THEN unroomed ELSE unroomed \union {k}
    PROVE  MapInv'
<1>1. CASE Has(k)
  <2>1. order' = order /\ unroomed' = unroomed
    BY <1>1 DEF Put
  <2> QED BY <2>1, SameKeeps
<1>2. CASE ~ Has(k)
  <2>1. PICK t : t = Append(Without(order, {k}), k)
    OBVIOUS
  <2>2. t \in Seq(Keys) /\ IsInjective(t) /\ Elems(t) = Elems(order) \union {k}
    BY <2>1, MoveToEnd DEF MapInv
  <2>3. order' = t
    BY <1>2, <2>1 DEF Put
  <2>4. IsInjective(order)' /\ Elems(order)' = Elems(t)
    BY <2>2, <2>3 DEF IsInjective, Elems
  <2>5. CASE maxKeys = 0
    BY <1>2, <2>2, <2>3, <2>4, <2>5 DEF MapInv
  <2>6. CASE maxKeys # 0
    <3>1. unroomed' = unroomed \union {k}
      BY <1>2, <2>6
    <3>2. IsFiniteSet(unroomed')
      BY <3>1, FS_AddElement DEF MapInv
    <3>3. IsFiniteSet(Elems(order))
      BY InjectiveLen DEF MapInv
    <3>4. PICK A : A = Elems(order) \ unroomed
      OBVIOUS
    <3>5. PICK B : B = Elems(t) \ unroomed'
      OBVIOUS
    <3>6. IsFiniteSet(A)
      BY <3>3, <3>4, FS_Difference
    <3>7. B \in SUBSET A
      BY <2>2, <3>1, <3>4, <3>5
    <3>8. Cardinality(A) \in Nat /\ Cardinality(B) \in Nat /\ Cardinality(B) <= Cardinality(A)
      BY <3>6, <3>7, FS_Subset, FS_CardinalityType
    <3>9. maxKeys \in Nat /\ (maxKeys > 0 => Cardinality(B) <= maxKeys)
      BY <3>4, <3>8 DEF MapInv
    <3> QED BY <2>2, <2>3, <2>4, <3>2, <3>5, <3>9 DEF MapInv
  <2> QED BY <2>5, <2>6
<1> QED BY <1>1, <1>2

-----------------------------------------------------------------------------
(* One step                                                                *)

LEMMA IncrementKeeps ==
    ASSUME MapInv, NEW k \in Keys, NEW c \in Costs, Increment(k, c)
    PROVE  MapInv'
<1>1. RoomMade(k) /\ UNCHANGED maxKeys
  BY DEF Increment
<1>2. CASE Sliding /\ IncrementSliding(k, c)
  <2>1. PICK kept, e : /\ kept = IF WallOver(k) THEN Without(order, {k}) ELSE EnsureRoom(k)
                       /\ Put(kept, k, e, TRUE)
    BY <1>2 DEF IncrementSliding
  <2>2. WallOver(k) => Has(k)
    BY DEF WallOver
  <2> QED BY <1>1, <2>1, <2>2, PutKeeps
<1>3. CASE Fixed /\ IncrementFixed(k, c)
  <2>1. PICK m \in BOOLEAN : m <=> maxKeys > 0
    OBVIOUS
  <2>2. PICK e : Put(EnsureRoom(k), k, e, m)
    BY <1>3, <2>1 DEF IncrementFixed, Put
  <2> QED BY <1>1, <2>2, PutKeeps
<1>4. CASE Bucket /\ IncrementTokenBucket(k, c)
  <2>1. PICK m \in BOOLEAN : m <=> maxKeys > 0
    OBVIOUS
  <2>2. PICK e : Put(EnsureRoom(k), k, e, m)
    BY <1>4, <2>1 DEF IncrementTokenBucket, Put
  <2> QED BY <1>1, <2>2, PutKeeps
<1> QED BY <1>2, <1>3, <1>4 DEF Increment

LEMMA DecrementKeeps ==
    ASSUME MapInv, NEW k \in Keys, NEW c \in Costs, Decrement(k, c)
    PROVE  MapInv'
<1>1. UNCHANGED <<maxKeys, unroomed>>
  BY DEF Decrement
<1>2. order' = order \/ order' = Without(order, {k})
  BY DEF Decrement, DecrementSliding, DecrementFixed, DecrementTokenBucket, Drop, Replace
<1> QED BY <1>1, <1>2, SameKeeps, DropKeeps

LEMMA GetKeeps ==
    ASSUME MapInv, NEW k \in Keys, Get(k)
    PROVE  MapInv'
<1>1. UNCHANGED <<maxKeys, unroomed>>
  BY DEF Get
<1>2. \/ order' = order \/ order' = Without(order, {k})
      \/ Has(k) /\ order' = Append(Without(order, {k}), k)
  BY DEF Get, GetSlidingReadOnly, GetFixedReadOnly, GetTokenBucketReadOnly, Drop, Touch
<1> QED BY <1>1, <1>2, SameKeeps, DropKeeps, UseKeeps

LEMMA NextKeeps ==
    ASSUME MapInv, [Next]_vars
    PROVE  MapInv'
<1>1. CASE UNCHANGED vars
  BY <1>1, SameKeeps DEF vars
<1>2. ASSUME NEW k \in Keys, NEW c \in Costs, Increment(k, c) \/ Decrement(k, c)
      PROVE  MapInv'
  BY <1>2, IncrementKeeps, DecrementKeeps
<1>3. ASSUME NEW k \in Keys, Reset(k) PROVE MapInv'
  <2>1. UNCHANGED maxKeys
    BY <1>3 DEF Reset
  <2>2. CASE Sliding /\ Drop({k}) /\ UNCHANGED unroomed
    BY <2>1, <2>2, DropKeeps DEF Drop
  <2>3. CASE ~ Sliding
    <3>1. PICK e : /\ Put(order, k, e, FALSE)
                   /\ unroomed' = IF maxKeys = 0 \/ Has(k) THEN unroomed ELSE unroomed \union {k}
      BY <1>3, <2>3 DEF Reset
    <3> QED BY <2>1, <3>1, ResetKeeps
  <2> QED BY <1>3, <2>2, <2>3 DEF Reset
<1>4. ASSUME NEW k \in Keys, Delete(k) PROVE MapInv'
  BY <1>4, DropKeeps DEF Delete, Drop
<1>5. ASSUME NEW k \in Keys, Get(k) PROVE MapInv'
  BY <1>5, GetKeeps
<1>6. ASSUME NEW k \in Keys, NEW n \in 0..MaxSet, NEW x \in {-1, now + 1}, Set(k, n, x)
      PROVE  MapInv'
  <2>1. RoomMade(k) /\ UNCHANGED maxKeys
    BY <1>6 DEF Set
  <2>2. PICK m \in BOOLEAN : m <=> maxKeys > 0
    OBVIOUS
  <2>3. PICK e : Put(EnsureRoom(k), k, e, m)
    BY <1>6, <2>2 DEF Set, Put
  <2> QED BY <2>1, <2>3, PutKeeps
<1>7. CASE GetActiveKeys
  BY <1>7, DropKeeps DEF GetActiveKeys, Drop
<1>8. CASE ResetAll
  BY <1>8, ClearKeeps DEF ResetAll, Drop
<1>9. CASE Shutdown
  BY <1>9, ClearKeeps DEF Shutdown, Drop
<1>10. CASE Purge
  <2>1. PICK gone : order' = Without(order, gone)
    BY <1>10 DEF Purge
  <2>2. UNCHANGED <<maxKeys, unroomed>>
    BY <1>10 DEF Purge
  <2> QED BY <2>1, <2>2, DropKeeps
<1>11. CASE Tick
  BY <1>11, SameKeeps DEF Tick
<1> QED BY <1>1, <1>2, <1>3, <1>4, <1>5, <1>6, <1>7, <1>8, <1>9, <1>10, <1>11 DEF Next

LEMMA InitHolds == Init => MapInv
<1> SUFFICES ASSUME Init PROVE MapInv
  OBVIOUS
<1>1. order = << >> /\ unroomed = {} /\ maxKeys \in Nat
  BY StoreAssumption DEF Init
<1>2. order \in Seq(Keys) /\ Len(order) = 0 /\ DOMAIN order = {}
  BY <1>1
<1>3. Elems(order) = {}
  BY <1>2 DEF Elems
<1>4. IsInjective(order)
  BY <1>2 DEF IsInjective
<1>5. IsFiniteSet({}) /\ Cardinality({}) = 0 /\ {} \ {} = {}
  BY FS_EmptySet
<1> QED BY <1>1, <1>2, <1>3, <1>4, <1>5 DEF MapInv

LEMMA InvBounds == MapInv => KeysBounded
<1> SUFFICES ASSUME MapInv PROVE KeysBounded
  OBVIOUS
<1>1. IsFiniteSet(Elems(order)) /\ Cardinality(Elems(order)) = Len(order) /\ Len(order) \in Nat
  BY InjectiveLen DEF MapInv
<1>2. PICK E : E = Elems(order)
  OBVIOUS
<1>3. PICK A : A = E \ unroomed
  OBVIOUS
<1>4. PICK C : C = E \cap unroomed
  OBVIOUS
<1>5. IsFiniteSet(A) /\ Cardinality(A) = Cardinality(E) - Cardinality(C)
  BY <1>1, <1>2, <1>3, <1>4, FS_Difference
<1>6. IsFiniteSet(unroomed) /\ C \in SUBSET unroomed
  BY <1>4 DEF MapInv
<1>7. IsFiniteSet(C) /\ Cardinality(C) <= Cardinality(unroomed)
  BY <1>6, FS_Subset
<1>8. Cardinality(A) \in Nat /\ Cardinality(C) \in Nat /\ Cardinality(unroomed) \in Nat
  BY <1>5, <1>6, <1>7, FS_CardinalityType
<1>9. maxKeys > 0 => Cardinality(A) <= maxKeys
  BY <1>2, <1>3 DEF MapInv
<1>10. maxKeys \in Nat /\ IsInjective(order)
  BY DEF MapInv
<1> QED BY <1>1, <1>2, <1>5, <1>7, <1>8, <1>9, <1>10 DEF KeysBounded

\* Whatever the cap, the keys and the calls, the Map of a MemoryStore holds a key once,
\* and more keys than maxKeys only by those that reset() has put in since
\* ensureRoomForNewKey last made room.
THEOREM MapBounded == Spec => []KeysBounded
<1>1. MapInv /\ [Next]_vars => MapInv'
  BY NextKeeps
<1> QED BY <1>1, InitHolds, InvBounds, PTL DEF Spec

-----------------------------------------------------------------------------
(* The operators of the contract                                           *)

\* The quotas of the contract, as records.
Unused == [hits |-> << >>, used |-> 0, at |-> -1]
Used(hits, used, at) == IF hits = << >> /\ used = 0 THEN Unused
                        ELSE [hits |-> hits, used |-> used, at |-> at]

\* The operators of the contract are those of the store.
LEMMA ContractOps ==
    /\ Abstract!Free = Unused /\ Contract!Free = Unused
    /\ \A h, u, a : Abstract!Quota(h, u, a) = Used(h, u, a)
    /\ \A h, u, a : Contract!Quota(h, u, a) = Used(h, u, a)
    /\ \A a, b : Contract!Least(a, b) = Least(a, b)
    /\ \A a, b : Contract!Greatest(a, b) = Greatest(a, b)
    /\ \A n, t : Contract!Copies(n, t) = Copies(n, t)
    /\ \A h, t : Contract!Prune(h, t) = Prune(h, t)
    /\ \A b : Contract!Verdict(b) = Verdict(b)
    /\ Contract!Sliding = Sliding /\ Contract!Fixed = Fixed /\ Contract!Bucket = Bucket
<1>1. Abstract!Free = Unused /\ Contract!Free = Unused
  BY DEF Abstract!Free, Contract!Free, Unused
<1>2. /\ \A h, u, a : Abstract!Quota(h, u, a) = Used(h, u, a)
      /\ \A h, u, a : Contract!Quota(h, u, a) = Used(h, u, a)
  BY <1>1 DEF Abstract!Quota, Contract!Quota, Used
<1>3. /\ \A a, b : Contract!Least(a, b) = Least(a, b)
      /\ \A a, b : Contract!Greatest(a, b) = Greatest(a, b)
  BY DEF Contract!Least, Least, Contract!Greatest, Greatest
<1>4. \A n, t : Contract!Copies(n, t) = Copies(n, t)
  BY DEF Contract!Copies, Copies
<1>5. \A h, t : Contract!Prune(h, t) = Prune(h, t)
  BY DEF Contract!Prune, Prune, Contract!Keep, Keep,
         Contract!Cardinality, Cardinality
<1>6. \A b : Contract!Verdict(b) = Verdict(b)
  BY DEF Contract!Verdict, Verdict
<1>7. Contract!Sliding = Sliding /\ Contract!Fixed = Fixed /\ Contract!Bucket = Bucket
  BY DEF Contract!Sliding, Sliding, Contract!Fixed, Fixed, Contract!Bucket, Bucket
<1> QED BY <1>1, <1>2, <1>3, <1>4, <1>5, <1>6, <1>7

LEMMA ContractRefill ==
    /\ \A n, l, t : Contract!Refill(n, l, t) = Refill(n, l, t)
    /\ \A b, c : Contract!TakeTokens(b, c) = TakeTokens(b, c)
    /\ \A h, n : Contract!DropFirst(h, n) = DropFirst(h, n)
    /\ \A h, n : Contract!DropLast(h, n) = DropLast(h, n)
    /\ \A h, n, newest : Contract!DropHits(h, n, newest) = DropHits(h, n, newest)
<1>1. \A a, b : Contract!Least(a, b) = Least(a, b)
  BY ContractOps
<1>2. \A n, l, t : Contract!Refill(n, l, t) = Refill(n, l, t)
  BY <1>1 DEF Contract!Refill, Refill
<1>3. \A b, c : Contract!TakeTokens(b, c) = TakeTokens(b, c)
  BY DEF Contract!TakeTokens, TakeTokens
<1>4. /\ \A h, n : Contract!DropFirst(h, n) = DropFirst(h, n)
      /\ \A h, n : Contract!DropLast(h, n) = DropLast(h, n)
  BY DEF Contract!DropFirst, DropFirst, Contract!DropLast, DropLast
<1>5. \A h, n, newest : Contract!DropHits(h, n, newest) = DropHits(h, n, newest)
  BY <1>1, <1>4 DEF Contract!DropHits, DropHits
<1> QED BY <1>2, <1>3, <1>4, <1>5

\* Key k gets a quota.
LEMMA BecomesIs ==
    ASSUME NEW k \in Keys, NEW q, View(k)' = q,
           \A x \in Keys \ {k} : \/ View(x)' = View(x)
                                 \/ View(x)' = Unused /\ View(k) = Unused
    PROVE  Contract!Becomes(k, q)
<1>1. Contract!Free = Unused
  BY ContractOps
<1> QED BY <1>1 DEF Contract!Becomes

-----------------------------------------------------------------------------
(* Pruning stamps that are in order                                        *)

\* Consecutive elements are a subsequence.
LEMMA KeepRun ==
    ASSUME NEW s \in Seq(Nat), NEW a \in Nat, NEW b \in Nat, a <= b, b <= Len(s)
    PROVE  Keep(s, (a + 1)..b) = SubSeq(s, a + 1, b)
<1>1. Len(s) \in Nat
  OBVIOUS
<1>2. PICK J : J = (a + 1)..b
  OBVIOUS
<1>3. PICK n \in Nat : n = b - a
  OBVIOUS
<1>4. Cardinality(J) = n
  <2>1. a + 1 \in Int /\ b \in Int
    OBVIOUS
  <2>2. Cardinality((a + 1)..b) = IF a + 1 > b THEN 0 ELSE b - (a + 1) + 1
    BY <2>1, FS_Interval
  <2> QED BY <1>2, <1>3, <2>2
<1> DEFINE rank(i) == Cardinality({x \in J : x <= i})
           pick(j) == CHOOSE i \in J : rank(i) = j
<1>5. ASSUME NEW i \in J PROVE rank(i) = i - a
  <2>1. i \in Int /\ a + 1 <= i /\ i <= b
    BY <1>2
  <2>2. {x \in J : x <= i} = (a + 1)..i
    BY <1>2, <2>1
  <2>3. Cardinality((a + 1)..i) = IF a + 1 > i THEN 0 ELSE i - (a + 1) + 1
    BY <2>1, FS_Interval
  <2>4. rank(i) = Cardinality((a + 1)..i)
    BY <2>2
  <2> HIDE DEF rank
  <2> QED BY <2>1, <2>3, <2>4
<1>6. ASSUME NEW j \in 1..n PROVE pick(j) = a + j
  <2> HIDE DEF rank
  <2>1. a + j \in J
    BY <1>2, <1>3
  <2>2. rank(a + j) = j
    BY <1>5, <2>1
  <2>3. pick(j) \in J /\ rank(pick(j)) = j
    BY <2>1, <2>2
  <2>4. PICK i \in J : i = pick(j)
    BY <2>3
  <2>5. i \in Int /\ i - a = j
    BY <1>2, <1>5, <2>3, <2>4
  <2> QED BY <2>4, <2>5
<1>7. Keep(s, J) = [j \in 1..n |-> s[pick(j)]]
  BY <1>4 DEF Keep
<1>8. PICK t : t = SubSeq(s, a + 1, b)
  OBVIOUS
<1>9. t = [j \in 1..n |-> s[a + j]]
  <2>1. t \in Seq(Nat) /\ Len(t) = n /\ \A j \in 1..n : t[j] = s[a + j]
    <3>1. a + 1 \in 1..(Len(s) + 1) /\ b \in Nat /\ b <= Len(s)
      BY <1>1
    <3>2. \A j \in 1..n : t[j] = s[(a + 1) + j - 1] /\ (a + 1) + j - 1 = a + j
      BY <1>1, <1>3, <1>8, <3>1
    <3>3. t \in Seq(Nat) /\ Len(t) = n
      BY <1>1, <1>3, <1>8, <3>1
    <3> QED BY <3>2, <3>3
  <2>2. DOMAIN t = 1..n
    BY <2>1
  <2> QED BY <2>1, <2>2
<1>10. \A j \in 1..n : s[pick(j)] = s[a + j]
  <2> HIDE DEF pick
  <2> QED BY <1>6
<1> QED
  <2> HIDE DEF pick
  <2> QED BY <1>2, <1>7, <1>8, <1>9, <1>10

\* Stamps in the order of the clock.
Ascending(s) == \A i, j \in DOMAIN s : i <= j => s[i] <= s[j]

\* The first stamps of such a sequence are those that a cutoff removes.
LEMMA CutAt ==
    ASSUME NEW s \in Seq(Nat), Ascending(s), NEW cut \in Int
    PROVE  \E j \in 0..Len(s) : \A i \in DOMAIN s : s[i] > cut <=> i > j
<1>1. Len(s) \in Nat /\ DOMAIN s = 1..Len(s) /\ \A i \in DOMAIN s : s[i] \in Nat
  OBVIOUS
<1>2. PICK T : T = {i \in DOMAIN s : s[i] > cut}
  OBVIOUS
<1>3. CASE T = {}
  <2>1. \A i \in DOMAIN s : ~ (s[i] > cut) /\ ~ (i > Len(s))
    BY <1>1, <1>2, <1>3
  <2>2. \A i \in DOMAIN s : s[i] > cut <=> i > Len(s)
    BY <2>1
  <2>3. Len(s) \in 0..Len(s)
    BY <1>1
  <2> QED BY <2>2, <2>3, Zenon
<1>4. CASE T # {}
  <2> DEFINE R == OpToRel(<, Nat)
  <2>1. IsWellFoundedOn(R, Nat)
    BY NatLessThanWellFounded
  <2>2. \A x, y \in Nat : y < x => <<y, x>> \in R
    BY DEF OpToRel
  <2> HIDE DEF R
  <2>3. T \subseteq Nat
    BY <1>1, <1>2
  <2>4. PICK m \in T : \A y \in T : ~ (<<y, m>> \in R)
    BY <1>4, <2>1, <2>3, WFMin
  <2>5. ASSUME NEW y \in T PROVE m <= y
    <3>1. m \in Nat /\ y \in Nat
      BY <2>3
    <3>2. ~(y < m)
      BY <2>2, <2>4, <3>1, Zenon
    <3> QED BY <3>1, <3>2
  <2>6. m \in DOMAIN s /\ s[m] > cut /\ m - 1 \in 0..Len(s)
    BY <1>1, <1>2, <2>4
  <2>7. ASSUME NEW i \in DOMAIN s PROVE s[i] > cut <=> i > m - 1
    <3>1. i \in Int /\ m \in Int /\ s[i] \in Int /\ s[m] \in Int
      BY <1>1, <2>6
    <3>2. s[i] > cut => m <= i
      BY <1>2, <2>5
    <3>3. m <= i => s[m] <= s[i]
      BY <2>6 DEF Ascending
    <3> QED BY <2>6, <3>1, <3>2, <3>3
  <2> QED BY <2>6, <2>7
<1> QED BY <1>3, <1>4

LEMMA PruneRun ==
    ASSUME NEW s \in Seq(Nat), NEW cut \in Int, NEW j \in 0..Len(s),
           \A i \in DOMAIN s : s[i] > cut <=> i > j
    PROVE  /\ Prune(s, cut) = SubSeq(s, j + 1, Len(s))
           /\ Prune(s, cut) \in Seq(Nat) /\ Len(Prune(s, cut)) = Len(s) - j
           /\ \A i \in 1..(Len(s) - j) : Prune(s, cut)[i] = s[j + i]
<1>1. Len(s) \in Nat /\ DOMAIN s = 1..Len(s) /\ j \in Nat /\ j <= Len(s)
  OBVIOUS
<1>2. {i \in DOMAIN s : s[i] > cut} = (j + 1)..Len(s)
  BY <1>1
<1>3. Prune(s, cut) = SubSeq(s, j + 1, Len(s))
  <2>1. Prune(s, cut) = Keep(s, (j + 1)..Len(s))
    BY <1>2 DEF Prune
  <2> QED BY <1>1, <2>1, KeepRun
<1>4. PICK t : t = SubSeq(s, j + 1, Len(s))
  OBVIOUS
<1>5. t \in Seq(Nat) /\ Len(t) = Len(s) - j
  <2>1. j + 1 \in Int /\ Len(s) \in Int /\ \A i \in (j + 1)..Len(s) : s[i] \in Nat
    BY <1>1
  <2>2. t \in Seq(Nat) /\ Len(t) = IF j + 1 <= Len(s) THEN Len(s) - (j + 1) + 1 ELSE 0
    BY <1>4, <2>1, SubSeqProperties
  <2>3. Len(t) = Len(s) - j
    <3>1. j \in Nat /\ Len(s) \in Nat /\ j <= Len(s)
      BY <1>1
    <3>2. PICK L \in Nat : L = Len(s)
      BY <3>1
    <3>3. PICK l : l = Len(t)
      OBVIOUS
    <3>4. l = IF j + 1 <= L THEN L - (j + 1) + 1 ELSE 0
      BY <2>2, <3>2, <3>3
    <3>5. l = L - j
      BY <3>1, <3>2, <3>4
    <3> QED BY <3>2, <3>3, <3>5
  <2> QED BY <2>2, <2>3
<1>6. \A i \in 1..(Len(s) - j) : t[i] = s[(j + 1) + i - 1] /\ (j + 1) + i - 1 = j + i
  BY <1>1, <1>4
<1> QED BY <1>3, <1>4, <1>5, <1>6

\* A later cutoff, of what an earlier one has left or of all, leaves the same.
LEMMA PruneTwice ==
    ASSUME NEW s \in Seq(Nat), Ascending(s), NEW c \in Int, NEW d \in Int, c <= d
    PROVE  /\ Prune(Prune(s, c), d) = Prune(s, d)
           /\ Prune(s, c) \in Seq(Nat) /\ Ascending(Prune(s, c))
           /\ \A i \in DOMAIN Prune(s, c) : Prune(s, c)[i] > c
           /\ \A n \in Nat : (\A i \in DOMAIN s : s[i] <= n) =>
                             \A i \in DOMAIN Prune(s, c) : Prune(s, c)[i] <= n
<1>1. Len(s) \in Nat /\ DOMAIN s = 1..Len(s) /\ \A i \in DOMAIN s : s[i] \in Nat
  OBVIOUS
<1>2. PICK a \in 0..Len(s) : \A i \in DOMAIN s : s[i] > c <=> i > a
  BY CutAt
<1>3. PICK b \in 0..Len(s) : \A i \in DOMAIN s : s[i] > d <=> i > b
  BY CutAt
<1>4. PICK t : t = Prune(s, c)
  OBVIOUS
<1>5. /\ t \in Seq(Nat) /\ Len(t) = Len(s) - a
      /\ \A i \in 1..(Len(s) - a) : t[i] = s[a + i]
  BY <1>2, <1>4, PruneRun
<1>6. DOMAIN t = 1..(Len(s) - a) /\ \A i \in DOMAIN t : a + i \in DOMAIN s /\ i \in Nat /\ i > 0
  <2>1. DOMAIN t = 1..Len(t) /\ a \in Nat
    BY <1>1, <1>5
  <2>2. DOMAIN t = 1..(Len(s) - a)
    BY <1>5, <2>1
  <2>3. PICK L \in Nat : L = Len(s)
    BY <1>1
  <2>4. ASSUME NEW i \in 1..(L - a) PROVE a + i \in 1..L /\ i \in Nat /\ i > 0
    BY <2>1
  <2> QED BY <1>1, <2>2, <2>3, <2>4
<1>7. a <= b
  <2>1. SUFFICES ASSUME b < a PROVE FALSE
    OBVIOUS
  <2>2. a \in DOMAIN s
    BY <1>1, <2>1
  <2>3. s[a] > d /\ ~(s[a] > c) /\ s[a] \in Nat
    BY <1>1, <1>2, <1>3, <2>1, <2>2
  <2> QED BY <2>3
<1>8. PICK e \in 0..Len(t) : e = b - a
  BY <1>1, <1>5, <1>7
<1>9. ASSUME NEW i \in DOMAIN t PROVE t[i] > d <=> i > e
  <2>1. t[i] = s[a + i] /\ a + i \in DOMAIN s /\ i \in Nat
    BY <1>5, <1>6
  <2>2. s[a + i] > d <=> a + i > b
    BY <1>3, <2>1
  <2> QED BY <1>8, <2>1, <2>2
<1>10. PICK r : r = Prune(t, d)
  OBVIOUS
<1>11. /\ r \in Seq(Nat) /\ Len(r) = Len(t) - e
       /\ \A i \in 1..(Len(t) - e) : r[i] = t[e + i]
  BY <1>5, <1>9, <1>10, PruneRun
<1>12. PICK q : q = Prune(s, d)
  OBVIOUS
<1>13. /\ q \in Seq(Nat) /\ Len(q) = Len(s) - b
       /\ \A i \in 1..(Len(s) - b) : q[i] = s[b + i]
  BY <1>3, <1>12, PruneRun
<1>14. r = q
  <2>1. Len(r) = Len(q)
    BY <1>1, <1>5, <1>8, <1>11, <1>13
  <2>2. ASSUME NEW i \in 1..Len(q) PROVE r[i] = q[i]
    <3>0. PICK L \in Nat : L = Len(s)
      BY <1>1
    <3>1. a \in Nat /\ b \in Nat /\ e \in Nat /\ b = a + e
      BY <1>2, <1>3, <1>7, <1>8, <3>0
    <3>2. i \in 1..(L - b) /\ i \in Nat
      BY <1>13, <3>0
    <3>3. i \in 1..((L - a) - e) /\ e + i \in 1..(L - a) /\ a + (e + i) = b + i
      BY <3>0, <3>1, <3>2
    <3>4. r[i] = t[e + i]
      BY <1>5, <1>11, <3>0, <3>3
    <3>5. t[e + i] = s[a + (e + i)]
      BY <1>5, <3>0, <3>3
    <3>6. q[i] = s[b + i]
      BY <1>13, <3>0, <3>2
    <3> QED BY <3>3, <3>4, <3>5, <3>6
  <2>3. r \in Seq(Nat) /\ q \in Seq(Nat) /\ \A i \in 1..Len(r) : r[i] = q[i]
    BY <1>11, <1>13, <2>1, <2>2
  <2> QED BY <2>1, <2>3, SeqEqual
<1>15. Ascending(t)
  <2>1. ASSUME NEW i \in DOMAIN t, NEW k \in DOMAIN t, i <= k PROVE t[i] <= t[k]
    <3>1. a + i \in DOMAIN s /\ a + k \in DOMAIN s /\ a + i <= a + k
      BY <1>6, <2>1
    <3>2. s[a + i] <= s[a + k]
      BY <3>1 DEF Ascending
    <3>3. t[i] = s[a + i] /\ t[k] = s[a + k]
      BY <1>5, <1>6
    <3> QED BY <3>2, <3>3
  <2> QED BY <2>1 DEF Ascending
<1>16. ASSUME NEW i \in DOMAIN t PROVE t[i] > c /\ t[i] = s[a + i] /\ a + i \in DOMAIN s
  <2>1. t[i] = s[a + i] /\ a + i \in DOMAIN s /\ i \in Nat /\ i > 0
    BY <1>5, <1>6
  <2>2. s[a + i] > c <=> a + i > a
    BY <1>2, <2>1
  <2> QED BY <2>1, <2>2
<1> QED BY <1>4, <1>5, <1>10, <1>12, <1>14, <1>15, <1>16

\* Without old stamps a cutoff removes none, with old ones only it removes all.
LEMMA PruneNone ==
    ASSUME NEW s \in Seq(Nat), NEW c \in Int
    PROVE  /\ (\A i \in DOMAIN s : s[i] > c) => Prune(s, c) = s
           /\ (\A i \in DOMAIN s : s[i] <= c) => Prune(s, c) = << >>
<1>1. Len(s) \in Nat /\ DOMAIN s = 1..Len(s) /\ \A i \in DOMAIN s : s[i] \in Nat
  OBVIOUS
<1>2. ASSUME \A i \in DOMAIN s : s[i] > c PROVE Prune(s, c) = s
  <2>1. \A i \in DOMAIN s : s[i] > c <=> i > 0
    BY <1>1, <1>2
  <2>2. Prune(s, c) = SubSeq(s, 0 + 1, Len(s))
    <3>1. 0 \in 0..Len(s)
      BY <1>1
    <3> QED BY <2>1, <3>1, PruneRun
  <2> QED BY <1>1, <2>2
<1>3. ASSUME \A i \in DOMAIN s : s[i] <= c PROVE Prune(s, c) = << >>
  <2>1. \A i \in DOMAIN s : s[i] > c <=> i > Len(s)
    BY <1>1, <1>3
  <2>2. Prune(s, c) \in Seq(Nat) /\ Len(Prune(s, c)) = Len(s) - Len(s)
    <3>1. Len(s) \in 0..Len(s)
      BY <1>1
    <3> QED BY <2>1, <3>1, PruneRun
  <2> QED BY <1>1, <2>2
<1> QED BY <1>2, <1>3

LEMMA PruneEmpty == ASSUME NEW c \in Int PROVE Prune(<< >>, c) = << >>
<1>1. << >> \in Seq(Nat) /\ DOMAIN << >> = {}
  OBVIOUS
<1> QED BY <1>1, PruneNone

-----------------------------------------------------------------------------
(* What the Map and its entries show                                       *)

LEMMA Numbers ==
    /\ Window \in Nat /\ Window > 0 /\ Interval \in Nat /\ Interval > 0
    /\ TokensPerInterval \in Nat /\ TokensPerInterval > 0
    /\ BucketSize \in Nat /\ BucketSize > 0
    /\ \A c \in Costs : c \in Nat
    /\ MaxSet \in Nat
BY RowsAssumption, StoreAssumption

SlidingQuota(e, t) == IF e.wall >= 0 /\ t >= e.wall THEN Unused
                      ELSE Used(Prune(e.stamps, t - Window), 0, e.wall)
FixedQuota(e, t) == IF t >= e.at THEN Unused ELSE Used(<< >>, e.count, e.at)
BucketQuota(e, t) == LET r == Refill(e.count, e.at, t) IN
                     Used(<< >>, BucketSize - r.tokens, r.last)

LEMMA QuotaIs ==
    ASSUME NEW e, NEW t
    PROVE  /\ Sliding => QuotaOf(e, t) = SlidingQuota(e, t)
           /\ Fixed => QuotaOf(e, t) = FixedQuota(e, t)
           /\ Bucket => QuotaOf(e, t) = BucketQuota(e, t)
<1>1. Abstract!Free = Unused /\ \A h, u, a : Abstract!Quota(h, u, a) = Used(h, u, a)
  BY ContractOps
<1>2. Sliding => QuotaOf(e, t) = SlidingQuota(e, t)
  BY <1>1 DEF QuotaOf, SlidingQuota, Sliding, Fixed, Bucket
<1>3. Fixed => QuotaOf(e, t) = FixedQuota(e, t)
  BY <1>1 DEF QuotaOf, FixedQuota, Sliding, Fixed, Bucket
<1>4. Bucket => QuotaOf(e, t) = BucketQuota(e, t)
  BY <1>1 DEF QuotaOf, BucketQuota, Sliding, Fixed, Bucket
<1> QED BY <1>2, <1>3, <1>4

LEMMA ViewIs == \A k : View(k) = IF Has(k) THEN QuotaOf(entry[k], now) ELSE Unused
BY ContractOps DEF View

LEMMA ViewNext ==
    ASSUME UNCHANGED strategy
    PROVE  \A k : View(k)' = IF Has(k)' THEN QuotaOf(entry'[k], now') ELSE Unused
<1>1. (Abstract!Free)' = Unused
  BY DEF Abstract!Free, Unused
<1>2. ASSUME NEW e, NEW t PROVE QuotaOf(e, t)' = QuotaOf(e, t)
  BY DEF QuotaOf, Sliding, Fixed, Bucket, Abstract!Quota, Abstract!Free
<1>3. ASSUME NEW k PROVE View(k)' = IF Has(k)' THEN QuotaOf(entry'[k], now') ELSE Unused
  <2>1. View(k)' = IF Has(k)' THEN QuotaOf(entry[k], now)' ELSE Unused
    BY <1>1 DEF View
  <2>2. QuotaOf(entry[k], now)' = QuotaOf(entry'[k], now')
    BY DEF QuotaOf, Sliding, Fixed, Bucket, Abstract!Quota, Abstract!Free
  <2> QED BY <2>1, <2>2
<1> QED BY <1>3

\* The entries that a strategy can leave in the Map at time t.
Entries == [stamps : Seq(Nat), wall : Int, count : Nat, at : Int]

Sound(e, t) ==
    /\ e \in Entries
    /\ IF Sliding THEN Ascending(e.stamps) /\ \A i \in DOMAIN e.stamps : e.stamps[i] <= t
       ELSE e.stamps = << >>
    /\ Fixed => e.at <= t + Window
    /\ Bucket => e.count <= BucketSize /\ e.at <= t

\* Stamps are in the order of the clock, windows end within their length, and buckets
\* were refilled in the past.
EntryInv ==
    /\ strategy \in {"SLIDING_WINDOW", "FIXED_WINDOW", "TOKEN_BUCKET"}
    /\ now \in Nat
    /\ entry \in [Keys -> Entries]
    /\ \A k \in Keys : Sound(entry[k], now)

StoreInv == MapInv /\ EntryInv

LEMMA ElemsHas == \A s, x : Contains(s, x) <=> x \in Elems(s)
BY DEF Contains, Elems

\* The keys of the Map, and those of its next state.
LEMMA HasNext == ASSUME NEW s, order' = s PROVE \A x : Has(x)' <=> x \in Elems(s)
<1>1. \A x : Has(x)' <=> Contains(s, x)
  BY DEF Has, Contains
<1> QED BY <1>1, ElemsHas

LEMMA HasIs == \A x : Has(x) <=> x \in Elems(order)
BY ElemsHas DEF Has

LEMMA EntryInvNext ==
    ASSUME EntryInv, UNCHANGED <<strategy, now>>, entry' \in [Keys -> Entries],
           \A k \in Keys : Sound(entry'[k], now)
    PROVE  EntryInv'
<1>1. \A k \in Keys : Sound(entry[k], now)'
  BY DEF Sound, Sliding, Fixed, Bucket
<1> QED BY <1>1 DEF EntryInv

\* Some keys are dropped: nobody else's quota changes.
LEMMA DropShows ==
    ASSUME StoreInv, NEW keys, Drop(keys), UNCHANGED <<strategy, now>>
    PROVE  /\ \A x \in Keys : View(x)' = IF x \in keys THEN Unused ELSE View(x)
           /\ EntryInv'
<1>1. PICK t : t = Without(order, keys)
  OBVIOUS
<1>2. Elems(t) = Elems(order) \ keys
  BY <1>1, WithoutIs DEF StoreInv, MapInv
<1>3. order' = t
  BY <1>1 DEF Drop
<1>4. ASSUME NEW x \in Keys
      PROVE  /\ Has(x)' <=> Has(x) /\ x \notin keys
             /\ entry'[x] = IF x \in keys THEN NoEntry ELSE entry[x]
  BY <1>2, <1>3, HasNext, HasIs DEF Drop
<1>5. \A x \in Keys : View(x)' = IF x \in keys THEN Unused ELSE View(x)
  BY <1>4, ViewIs, ViewNext
<1>6. NoEntry \in Entries /\ Sound(NoEntry, now)
  <2>1. << >> \in Seq(Nat) /\ DOMAIN << >> = {}
    OBVIOUS
  <2>2. NoEntry \in Entries /\ NoEntry.stamps = << >> /\ NoEntry.count = 0 /\ NoEntry.at = 0
    BY <2>1 DEF NoEntry, Entries
  <2>3. Ascending(<< >>)
    BY <2>1 DEF Ascending
  <2>4. now \in Nat
    BY DEF StoreInv, EntryInv
  <2> QED BY <2>1, <2>2, <2>3, <2>4, Numbers DEF Sound
<1>7. \A x \in Keys : entry'[x] \in Entries /\ Sound(entry'[x], now)
  BY <1>4, <1>6 DEF StoreInv, EntryInv
<1>8. entry' \in [Keys -> Entries]
  BY <1>7 DEF Drop
<1> QED BY <1>5, <1>7, <1>8, EntryInvNext DEF StoreInv

\* Key k gets an entry: others are displaced only when k had no quota.
LEMMA PutShows ==
    ASSUME StoreInv, NEW k \in Keys, NEW kept, NEW e, NEW moves \in BOOLEAN,
           \/ kept = EnsureRoom(k)
           \/ kept = order
           \/ Has(k) /\ moves /\ kept = Without(order, {k}),
           Put(kept, k, e, moves), Sound(e, now), UNCHANGED <<strategy, now>>
    PROVE  /\ View(k)' = QuotaOf(e, now)
           /\ \A x \in Keys \ {k} : \/ View(x)' = View(x)
                                    \/ View(x)' = Unused /\ View(k) = Unused
           /\ kept = order => \A x \in Keys \ {k} : View(x)' = View(x)
           /\ EntryInv'
<1>1. order \in Seq(Keys) /\ IsInjective(order) /\ MapInv
  BY DEF StoreInv, MapInv
<1>2. /\ kept \in Seq(Keys) /\ IsInjective(kept) /\ Elems(kept) \subseteq Elems(order)
      /\ Has(k) => \A x \in Keys \ {k} : x \in Elems(order) => x \in Elems(kept)
      /\ Has(k) /\ ~ moves => kept = order
  <2>1. ASSUME kept = EnsureRoom(k) PROVE <1>2!1 /\ <1>2!2 /\ <1>2!3
    BY <1>1, <2>1, RoomIs
  <2>2. ASSUME kept = order PROVE <1>2!1 /\ <1>2!2 /\ <1>2!3
    BY <1>1, <2>2
  <2>3. ASSUME Has(k) /\ moves /\ kept = Without(order, {k}) PROVE <1>2!1 /\ <1>2!2 /\ <1>2!3
    BY <1>1, <2>3, WithoutIs
  <2> QED BY <2>1, <2>2, <2>3
<1>3. PICK t : t = IF Has(k) /\ ~ moves THEN kept ELSE Append(Without(kept, {k}), k)
  OBVIOUS
<1>4. order' = t
  BY <1>3 DEF Put
<1>5. Elems(t) = Elems(kept) \union {k}
  <2>1. ASSUME Has(k) /\ ~ moves PROVE Elems(t) = Elems(kept) \union {k}
    BY <1>2, <1>3, <2>1, HasIs
  <2>2. ASSUME ~ (Has(k) /\ ~ moves) PROVE Elems(t) = Elems(kept) \union {k}
    BY <1>2, <1>3, <2>2, MoveToEnd
  <2> QED BY <2>1, <2>2
<1>6. ASSUME NEW x \in Keys
      PROVE  /\ Has(x)' <=> x \in Elems(kept) \/ x = k
             /\ entry'[x] = IF x = k THEN e
                            ELSE IF x \in Elems(kept) THEN entry[x] ELSE NoEntry
  <2>1. Has(x)' <=> x \in Elems(t)
    BY <1>4, HasNext
  <2>2. Contains(kept, x) <=> x \in Elems(kept)
    BY ElemsHas
  <2>3. entry'[x] = IF x = k THEN e ELSE IF Contains(kept, x) THEN entry[x] ELSE NoEntry
    BY DEF Put
  <2> QED BY <1>5, <2>1, <2>2, <2>3
<1>7. View(k)' = QuotaOf(e, now)
  BY <1>6, ViewNext
<1>8. ASSUME NEW x \in Keys \ {k}
      PROVE  /\ View(x)' = IF x \in Elems(kept) THEN View(x) ELSE Unused
             /\ x \in Elems(kept) => x \in Elems(order)
  BY <1>2, <1>6, ViewIs, ViewNext, HasIs
<1>9. ASSUME NEW x \in Keys \ {k}
      PROVE  /\ View(x)' = View(x) \/ (View(x)' = Unused /\ View(k) = Unused)
             /\ kept = order => View(x)' = View(x)
  <2>1. PICK v, w, u : v = View(x) /\ w = View(x)' /\ u = View(k)
    OBVIOUS
  <2>2. x \notin Elems(order) => v = Unused
    BY <2>1, ViewIs, HasIs
  <2>3. ~ Has(k) => u = Unused
    BY <2>1, ViewIs
  <2>4. w = IF x \in Elems(kept) THEN v ELSE Unused
    BY <1>8, <2>1
  <2>5. (Has(k) \/ kept = order) => (x \in Elems(order) => x \in Elems(kept))
    <3>1. ASSUME Has(k) PROVE x \in Elems(order) => x \in Elems(kept)
      BY <1>2, <3>1
    <3> QED BY <3>1
  <2>6. w = v \/ (w = Unused /\ x \in Elems(order) /\ x \notin Elems(kept))
    BY <2>2, <2>4
  <2>7. w = v \/ (w = Unused /\ u = Unused /\ kept # order)
    BY <2>3, <2>5, <2>6
  <2> QED BY <2>1, <2>7
<1>10. NoEntry \in Entries /\ Sound(NoEntry, now)
  <2>1. << >> \in Seq(Nat) /\ DOMAIN << >> = {}
    OBVIOUS
  <2>2. NoEntry \in Entries /\ NoEntry.stamps = << >> /\ NoEntry.count = 0 /\ NoEntry.at = 0
    BY <2>1 DEF NoEntry, Entries
  <2>3. Ascending(<< >>)
    BY <2>1 DEF Ascending
  <2>4. now \in Nat
    BY DEF StoreInv, EntryInv
  <2> QED BY <2>1, <2>2, <2>3, <2>4, Numbers DEF Sound
<1>11. \A x \in Keys : entry'[x] \in Entries /\ Sound(entry'[x], now)
  <2>1. e \in Entries
    BY DEF Sound
  <2> QED BY <1>6, <1>10, <2>1 DEF StoreInv, EntryInv
<1>12. entry' \in [Keys -> Entries]
  BY <1>11 DEF Put
<1> QED BY <1>7, <1>9, <1>11, <1>12, EntryInvNext DEF StoreInv

\* Key k's entry is replaced in place.
LEMMA ReplaceShows ==
    ASSUME StoreInv, NEW k \in Keys, NEW e, Has(k), Replace(k, e), Sound(e, now),
           UNCHANGED <<strategy, now>>
    PROVE  /\ View(k)' = QuotaOf(e, now)
           /\ \A x \in Keys \ {k} : View(x)' = View(x)
           /\ EntryInv'
<1>1. order' = order /\ entry' = [entry EXCEPT ![k] = e] /\ entry \in [Keys -> Entries]
  BY DEF Replace, StoreInv, EntryInv
<1>2. ASSUME NEW x \in Keys PROVE entry'[x] = IF x = k THEN e ELSE entry[x]
  BY <1>1
<1>3. \A x : Has(x)' <=> Has(x)
  BY <1>1 DEF Has, Contains
<1>4. View(k)' = QuotaOf(e, now)
  BY <1>2, <1>3, ViewNext
<1>5. \A x \in Keys \ {k} : View(x)' = View(x)
  BY <1>2, <1>3, ViewIs, ViewNext
<1>6. e \in Entries
  BY DEF Sound
<1>7. entry' \in [Keys -> Entries] /\ \A x \in Keys : Sound(entry'[x], now)
  BY <1>1, <1>2, <1>6 DEF StoreInv, EntryInv
<1> QED BY <1>4, <1>5, <1>7, EntryInvNext DEF StoreInv

\* The keys and their entries stay, in whatever order.
LEMMA SameShows ==
    ASSUME StoreInv, \A x \in Keys : Has(x)' <=> Has(x), UNCHANGED <<entry, strategy, now>>
    PROVE  /\ \A x \in Keys : View(x)' = View(x)
           /\ EntryInv'
<1>1. \A x \in Keys : View(x)' = View(x)
  BY ViewIs, ViewNext
<1> QED BY <1>1, EntryInvNext DEF StoreInv, EntryInv

-----------------------------------------------------------------------------
(* Entries, stamps and refills                                             *)

LEMMA EmptyStamps == << >> \in Seq(Nat) /\ DOMAIN << >> = {} /\ Len(<< >>) = 0 /\ Ascending(<< >>)
<1>1. << >> \in Seq(Nat) /\ DOMAIN << >> = {} /\ Len(<< >>) = 0
  OBVIOUS
<1> QED BY <1>1 DEF Ascending

LEMMA EntryMade ==
    ASSUME NEW s \in Seq(Nat), NEW w \in Int, NEW n \in Nat, NEW a \in Int
    PROVE  [stamps |-> s, wall |-> w, count |-> n, at |-> a] \in Entries
BY DEF Entries

LEMMA NoEntryFields ==
    /\ NoEntry \in Entries /\ NoEntry.stamps = << >> /\ NoEntry.wall = -1
    /\ NoEntry.count = 0 /\ NoEntry.at = 0
BY EmptyStamps DEF NoEntry, Entries

LEMMA StampsFields ==
    ASSUME NEW s \in Seq(Nat), NEW w \in Int
    PROVE  Stamps(s, w) \in Entries /\ Stamps(s, w).stamps = s /\ Stamps(s, w).wall = w
<1>1. PICK z \in Entries : z = NoEntry
  BY NoEntryFields
<1>2. Stamps(s, w) = [z EXCEPT !.stamps = s, !.wall = w]
  BY <1>1 DEF Stamps
<1>3. Stamps(s, w) \in Entries
  BY <1>2 DEF Entries
<1>4. Stamps(s, w).stamps = s /\ Stamps(s, w).wall = w
  BY DEF Stamps, NoEntry
<1> QED BY <1>3, <1>4

LEMMA CounterFields ==
    ASSUME NEW n \in Nat, NEW a \in Int
    PROVE  /\ Counter(n, a) \in Entries
           /\ Counter(n, a).stamps = << >> /\ Counter(n, a).count = n /\ Counter(n, a).at = a
<1>1. PICK z \in Entries : z = NoEntry
  BY NoEntryFields
<1>2. Counter(n, a) = [z EXCEPT !.count = n, !.at = a]
  BY <1>1 DEF Counter
<1>3. Counter(n, a) \in Entries
  <2>1. z.stamps \in Seq(Nat) /\ z.wall \in Int
    BY DEF Entries
  <2>2. Counter(n, a) = [stamps |-> z.stamps, wall |-> z.wall, count |-> n, at |-> a]
    BY <1>2 DEF Entries
  <2> QED BY <2>1, <2>2, EntryMade
<1>4. Counter(n, a).stamps = << >> /\ Counter(n, a).count = n /\ Counter(n, a).at = a
  BY DEF Counter, NoEntry
<1> QED BY <1>3, <1>4

LEMMA EntryIs ==
    ASSUME NEW e \in Entries
    PROVE  e.stamps \in Seq(Nat) /\ e.wall \in Int /\ e.count \in Nat /\ e.at \in Int
BY DEF Entries

LEMMA RestampedFields ==
    ASSUME NEW e \in Entries, NEW s \in Seq(Nat), NEW d, d = [e EXCEPT !.stamps = s]
    PROVE  d \in Entries /\ d.stamps = s /\ d.wall = e.wall /\ d.count = e.count /\ d.at = e.at
<1>1. d \in Entries
  BY DEF Entries
<1>2. d.stamps = s /\ d.wall = e.wall /\ d.count = e.count /\ d.at = e.at
  BY DEF Entries
<1> QED BY <1>1, <1>2

LEMMA RecountedFields ==
    ASSUME NEW e \in Entries, NEW n \in Nat, NEW d, d = [e EXCEPT !.count = n]
    PROVE  d \in Entries /\ d.stamps = e.stamps /\ d.count = n /\ d.at = e.at
<1>1. d \in Entries
  <2>1. PICK s \in Seq(Nat), w \in Int, a \in Int : s = e.stamps /\ w = e.wall /\ a = e.at
    BY EntryIs
  <2>2. d = [stamps |-> s, wall |-> w, count |-> n, at |-> a]
    BY <2>1 DEF Entries
  <2>3. [stamps |-> s, wall |-> w, count |-> n, at |-> a] \in Entries
    BY EntryMade
  <2> QED BY <2>2, <2>3, Zenon
<1>2. d.stamps = e.stamps /\ d.count = n /\ d.at = e.at
  BY DEF Entries
<1> QED BY <1>1, <1>2

LEMMA UsedFields ==
    ASSUME NEW h, NEW u, NEW a
    PROVE  /\ Used(h, u, a).hits = h /\ Used(h, u, a).used = u
           /\ Used(h, u, a) # Unused => Used(h, u, a).at = a
           /\ (Used(h, u, a) = Unused /\ a # -1) => (h = << >> /\ u = 0)
           /\ (h = << >> /\ u = 0) => Used(h, u, a) = Unused
           /\ Unused.hits = << >> /\ Unused.used = 0 /\ Unused.at = -1
BY DEF Used, Unused

LEMMA CopiesAre ==
    ASSUME NEW n \in Nat, NEW t \in Nat
    PROVE  /\ Copies(n, t) \in Seq(Nat) /\ Len(Copies(n, t)) = n
           /\ \A i \in 1..n : Copies(n, t)[i] = t
BY DEF Copies

\* New hits come after those there are.
LEMMA HitsAre ==
    ASSUME NEW s \in Seq(Nat), Ascending(s), NEW n \in Nat, NEW t \in Nat,
           \A i \in DOMAIN s : s[i] <= t
    PROVE  /\ s \o Copies(n, t) \in Seq(Nat) /\ Ascending(s \o Copies(n, t))
           /\ \A i \in DOMAIN (s \o Copies(n, t)) : (s \o Copies(n, t))[i] <= t
           /\ \A c \in Int : (c < t /\ \A i \in DOMAIN s : s[i] > c) =>
                             Prune(s \o Copies(n, t), c) = s \o Copies(n, t)
<1>1. PICK r : r = Copies(n, t)
  OBVIOUS
<1>2. r \in Seq(Nat) /\ Len(r) = n /\ \A i \in 1..n : r[i] = t
  BY <1>1, CopiesAre
<1>3. PICK q : q = s \o r
  OBVIOUS
<1>4. PICK L \in Nat : L = Len(s)
  OBVIOUS
<1>5. q \in Seq(Nat) /\ Len(q) = L + n /\ DOMAIN q = 1..(L + n) /\ DOMAIN s = 1..L
  <2>1. q \in Seq(Nat) /\ Len(q) = L + n
    BY <1>2, <1>3, <1>4, ConcatProperties
  <2>2. DOMAIN q = 1..Len(q) /\ DOMAIN s = 1..L
    BY <1>4, <2>1
  <2> QED BY <2>1, <2>2
<1>6. ASSUME NEW i \in 1..L PROVE q[i] = s[i] /\ s[i] \in Nat
  BY <1>2, <1>3, <1>4, <1>6
<1>7. ASSUME NEW i \in 1..(L + n), i > L PROVE q[i] = t
  <2>1. i - L \in 1..n
    BY <1>7
  <2>2. q[i] = r[i - L]
    BY <1>2, <1>3, <1>4, <1>7
  <2> QED BY <1>2, <2>1, <2>2
<1>8. ASSUME NEW i \in 1..(L + n) PROVE i \in 1..L \/ i > L
  OBVIOUS
<1>9. \A i \in DOMAIN q : q[i] <= t
  BY <1>5, <1>6, <1>7, <1>8
<1>10. ASSUME NEW i \in DOMAIN q, NEW j \in DOMAIN q, i <= j PROVE q[i] <= q[j]
  <2>1. CASE j > L
    BY <1>5, <1>7, <1>9, <2>1
  <2>2. CASE ~ (j > L)
    <3>1. i \in 1..L /\ j \in 1..L
      BY <1>5, <1>10, <2>2
    <3>2. s[i] <= s[j]
      BY <1>5, <1>10, <3>1 DEF Ascending
    <3> QED BY <1>6, <3>1, <3>2
  <2> QED BY <2>1, <2>2
<1>11. ASSUME NEW c \in Int, c < t, \A i \in DOMAIN s : s[i] > c PROVE Prune(q, c) = q
  <2>1. \A i \in DOMAIN q : q[i] > c
    BY <1>5, <1>6, <1>7, <1>8, <1>11
  <2> QED BY <1>5, <2>1, PruneNone
<1> QED BY <1>1, <1>3, <1>5, <1>9, <1>10, <1>11 DEF Ascending

LEMMA OnlyHits ==
    ASSUME NEW n \in Nat, NEW t \in Nat
    PROVE  /\ Ascending(Copies(n, t)) /\ \A i \in DOMAIN Copies(n, t) : Copies(n, t)[i] <= t
           /\ \A c \in Int : c < t => Prune(Copies(n, t), c) = Copies(n, t)
<1>1. PICK s : s = << >>
  OBVIOUS
<1>2. s \in Seq(Nat) /\ DOMAIN s = {} /\ Ascending(s)
  BY <1>1, EmptyStamps
<1>3. Copies(n, t) \in Seq(Nat)
  BY CopiesAre
<1>4. PICK r : r = Copies(n, t)
  OBVIOUS
<1>5. s \o r = r
  BY <1>1, <1>3, <1>4
<1>6. /\ Ascending(s \o Copies(n, t))
      /\ \A i \in DOMAIN (s \o Copies(n, t)) : (s \o Copies(n, t))[i] <= t
      /\ \A c \in Int : (c < t /\ \A i \in DOMAIN s : s[i] > c) =>
                        Prune(s \o Copies(n, t), c) = s \o Copies(n, t)
  BY <1>2, HitsAre
<1> QED BY <1>2, <1>4, <1>5, <1>6

LEMMA Division ==
    ASSUME NEW x \in Int, NEW n \in Nat, n > 0
    PROVE  /\ x \div n \in Int
           /\ n * (x \div n) <= x /\ x < n * (x \div n) + n
OBVIOUS

LEMMA Multiples ==
    ASSUME NEW n \in Nat, n > 0, NEW j \in Int, NEW k \in Int
    PROVE  /\ n * j \in Int /\ (n * j < n * k + n => j <= k)
           /\ j < k => n * j + n <= n * k
           /\ j <= k => n * j <= n * k
<1>1. n * j \in Int /\ n * k \in Int
  OBVIOUS
<1>2. n * (k + 1) = n * k + n /\ n * (j + 1) = n * j + n
  OBVIOUS
<1>3. j <= k => n * j <= n * k
  OBVIOUS
<1>4. j < k => n * (j + 1) <= n * k
  OBVIOUS
<1>5. j > k => n * (k + 1) <= n * j
  OBVIOUS
<1> QED BY <1>1, <1>2, <1>3, <1>4, <1>5

LEMMA Quotient ==
    ASSUME NEW x \in Int, NEW n \in Nat, n > 0, NEW k \in Int, n * k <= x, x < n * k + n
    PROVE  x \div n = k
<1>1. PICK i \in Int : i = x \div n
  BY Division
<1>2. n * i <= x /\ x < n * i + n /\ n * i \in Int /\ n * k \in Int
  BY <1>1, Division
<1>3. n * i < n * k + n /\ n * k < n * i + n
  BY <1>2
<1>4. i <= k /\ k <= i
  BY <1>3, Multiples
<1> QED BY <1>1, <1>4

\* A refill from l to t is one of k intervals, that take g ticks and bring p tokens.
Refilled(l, t, k, g, p) ==
    /\ k \in Nat /\ g \in Nat /\ p \in Nat
    /\ g = Interval * k /\ p = TokensPerInterval * k
    /\ l + g <= t /\ t < l + g + Interval
    /\ \A n \in Int : /\ Refill(n, l, t).last = l + g
                      /\ Refill(n, l, t).tokens =
                            IF k = 0 THEN n ELSE Least(BucketSize, n + p)

LEMMA RefillIs ==
    ASSUME NEW l \in Int, NEW t \in Int, l <= t
    PROVE  \E k, g, p : Refilled(l, t, k, g, p)
<1> USE Numbers
<1>1. PICK k \in Int : k = (t - l) \div Interval
  BY Division
<1>2. Interval * k <= t - l /\ t - l < Interval * k + Interval /\ Interval * k \in Int
  BY <1>1, Division
<1>3. k \in Nat
  <2>1. Interval * 0 < Interval * k + Interval
    BY <1>2
  <2>2. 0 <= k
    BY <2>1, Multiples
  <2> QED BY <2>2
<1>4. PICK g \in Nat : g = Interval * k
  BY <1>3
<1>5. PICK p \in Nat : p = TokensPerInterval * k
  BY <1>3
<1>6. k * Interval = g /\ k * TokensPerInterval = p /\ (k = 0 => g = 0)
  BY <1>3, <1>4, <1>5
<1>7. ASSUME NEW m \in Int
      PROVE  /\ Refill(m, l, t).last = l + g
             /\ Refill(m, l, t).tokens = IF k = 0 THEN m ELSE Least(BucketSize, m + p)
  <2>1. CASE k = 0
    <3>1. Refill(m, l, t) = [tokens |-> m, last |-> l]
      BY <1>1, <2>1 DEF Refill
    <3> QED BY <1>6, <2>1, <3>1
  <2>2. CASE k # 0
    <3>1. k > 0
      BY <1>3, <2>2
    <3>2. Refill(m, l, t) = [tokens |-> Least(BucketSize, m + k * TokensPerInterval),
                             last |-> l + k * Interval]
      BY <1>1, <3>1 DEF Refill
    <3> QED BY <1>6, <2>2, <3>2
  <2> QED BY <2>1, <2>2
<1>8. l + g <= t /\ t < l + g + Interval
  BY <1>2, <1>4
<1>9. Refilled(l, t, k, g, p)
  BY <1>3, <1>4, <1>5, <1>7, <1>8 DEF Refilled
<1> QED BY <1>9

\* It stays a bucket, refilled less than an interval ago; a second refill does nothing.
LEMMA BucketRefilled ==
    ASSUME NEW n \in 0..BucketSize, NEW l \in Int, NEW t \in Int, l <= t
    PROVE  LET r == Refill(n, l, t) IN
           /\ r.tokens \in 0..BucketSize /\ n <= r.tokens
           /\ r.last \in Int /\ r.last <= t /\ t < r.last + Interval
<1>0. PICK k, g, p : Refilled(l, t, k, g, p)
  BY RefillIs
<1>1. /\ k \in Nat /\ g \in Nat /\ p \in Nat
      /\ l + g <= t /\ t < l + g + Interval
      /\ Refill(n, l, t).last = l + g
      /\ Refill(n, l, t).tokens = IF k = 0 THEN n ELSE Least(BucketSize, n + p)
  BY <1>0, Numbers DEF Refilled
<1>2. BucketSize \in Nat /\ n \in Nat /\ n <= BucketSize
  BY Numbers
<1>3. PICK r : r = Refill(n, l, t)
  OBVIOUS
<1>4. Least(BucketSize, n + p) \in 0..BucketSize /\ n <= Least(BucketSize, n + p)
  BY <1>1, <1>2 DEF Least
<1>5. r.tokens \in 0..BucketSize /\ n <= r.tokens
  BY <1>1, <1>2, <1>3, <1>4
<1> QED BY <1>1, <1>3, <1>5

LEMMA RefillNothing ==
    ASSUME NEW n \in Int, NEW l \in Int, NEW t \in Int, l <= t, t < l + Interval
    PROVE  Refill(n, l, t).tokens = n /\ Refill(n, l, t).last = l
<1> USE Numbers
<1>1. Interval * 0 <= t - l /\ t - l < Interval * 0 + Interval /\ t - l \in Int
  OBVIOUS
<1>2. (t - l) \div Interval = 0
  BY <1>1, Quotient
<1>3. Refill(n, l, t) = [tokens |-> n, last |-> l]
  BY <1>2 DEF Refill
<1> QED BY <1>3

\* Tokens given back before a refill are there after it.
LEMMA RefillMore ==
    ASSUME NEW n \in 0..BucketSize, NEW c \in Nat, NEW l \in Int, NEW t \in Int, l <= t
    PROVE  /\ Refill(Least(BucketSize, n + c), l, t).last = Refill(n, l, t).last
           /\ Refill(Least(BucketSize, n + c), l, t).tokens
                = Least(BucketSize, Refill(n, l, t).tokens + c)
<1>1. BucketSize \in Nat /\ n \in Nat /\ n <= BucketSize
  BY Numbers
<1>2. PICK m \in Nat : m = Least(BucketSize, n + c)
  BY <1>1 DEF Least
<1>3. PICK k, g, p : Refilled(l, t, k, g, p)
  BY RefillIs
<1>4. /\ k \in Nat /\ p \in Nat
      /\ Refill(m, l, t).last = Refill(n, l, t).last
      /\ Refill(n, l, t).tokens = IF k = 0 THEN n ELSE Least(BucketSize, n + p)
      /\ Refill(m, l, t).tokens = IF k = 0 THEN m ELSE Least(BucketSize, m + p)
  BY <1>1, <1>3 DEF Refilled
<1>5. Least(BucketSize, m + p) = Least(BucketSize, Least(BucketSize, n + p) + c)
  BY <1>1, <1>2, <1>4 DEF Least
<1> QED BY <1>2, <1>4, <1>5

\* A refill at the next tick of the clock, from the stored bucket or from the refilled one.
LEMMA RefillNext ==
    ASSUME NEW n \in 0..BucketSize, NEW l \in Int, NEW t \in Int, l <= t
    PROVE  LET r == Refill(n, l, t)
               q == Refill(r.tokens, r.last, t + 1)
           IN /\ Refill(n, l, t + 1).tokens = q.tokens
              /\ Refill(n, l, t + 1).last = q.last
              /\ r.tokens = BucketSize => q.tokens = BucketSize
<1> USE Numbers
<1>0. n \in Nat /\ n <= BucketSize
  OBVIOUS
<1>1. PICK k \in Int : k = (t - l) \div Interval
  BY Division
<1>2. PICK g \in Int : g = Interval * k
  OBVIOUS
<1>3. g <= t - l /\ t - l < g + Interval
  BY <1>1, <1>2, Division
<1>4. PICK a, b : a = Refill(n, l, t).tokens /\ b = Refill(n, l, t).last
  OBVIOUS
<1>5. a \in 0..BucketSize /\ b \in Int /\ b <= t /\ t < b + Interval
  BY <1>4, BucketRefilled
<1>6. PICK i, h, p : Refilled(l, t, i, h, p)
  BY RefillIs
<1>6a. /\ i \in Nat /\ h \in Nat /\ p \in Nat
       /\ h = Interval * i /\ p = TokensPerInterval * i
       /\ l + h <= t /\ t < l + h + Interval
       /\ b = l + h /\ a = IF i = 0 THEN n ELSE Least(BucketSize, n + p)
  BY <1>0, <1>4, <1>6 DEF Refilled
<1>7. PICK j, f, q : Refilled(l, t + 1, j, f, q)
  <2>1. t + 1 \in Int /\ l <= t + 1
    OBVIOUS
  <2> QED BY <2>1, RefillIs
<1>7a. /\ j \in Nat /\ f \in Nat /\ q \in Nat
       /\ f = Interval * j /\ q = TokensPerInterval * j
       /\ l + f <= t + 1 /\ t + 1 < l + f + Interval
       /\ Refill(n, l, t + 1).last = l + f
       /\ Refill(n, l, t + 1).tokens = IF j = 0 THEN n ELSE Least(BucketSize, n + q)
  BY <1>0, <1>7 DEF Refilled
<1>8. CASE t + 1 < b + Interval
  <2>1. Refill(a, b, t + 1).tokens = a /\ Refill(a, b, t + 1).last = b
    BY <1>5, <1>8, RefillNothing
  <2>2. Interval * j < Interval * i + Interval /\ Interval * i < Interval * j + Interval
    BY <1>6a, <1>7a, <1>8
  <2>3. i <= j /\ j <= i
    BY <1>6a, <1>7a, <2>2, Multiples
  <2>4. i = j
    BY <1>6a, <1>7a, <2>3
  <2>5. h = f /\ p = q
    BY <1>6a, <1>7a, <2>4
  <2> QED BY <1>4, <1>6a, <1>7a, <2>1, <2>4, <2>5
<1>9. CASE ~ (t + 1 < b + Interval)
  <2>1. t + 1 = b + Interval
    BY <1>5, <1>9
  <2>2. Interval * (i + 1) = h + Interval /\ TokensPerInterval * (i + 1) = p + TokensPerInterval
    BY <1>6a
  <2>3. Interval * (i + 1) <= t + 1 - l /\ t + 1 - l < Interval * (i + 1) + Interval
    BY <1>6a, <2>1, <2>2
  <2>4. Interval * j < Interval * (i + 1) + Interval /\ Interval * (i + 1) < Interval * j + Interval
    BY <1>6a, <1>7a, <2>2, <2>3
  <2>5. i + 1 <= j /\ j <= i + 1
    <3>1. i + 1 \in Int /\ j \in Int
      BY <1>6a, <1>7a
    <3> QED BY <2>4, <3>1, Multiples
  <2>6. j = i + 1
    BY <1>6a, <1>7a, <2>5
  <2>7. f = h + Interval /\ q = p + TokensPerInterval
    BY <1>6a, <1>7a, <2>2, <2>6
  <2>8. PICK y, z : y = Refill(a, b, t + 1).tokens /\ z = Refill(a, b, t + 1).last
    OBVIOUS
  <2>9. y = Least(BucketSize, a + TokensPerInterval) /\ z = b + Interval
    <3>1. Interval * 1 <= (t + 1) - b /\ (t + 1) - b < Interval * 1 + Interval /\ (t + 1) - b \in Int
      BY <1>5, <2>1
    <3>2. ((t + 1) - b) \div Interval = 1
      BY <3>1, Quotient
    <3>3. Refill(a, b, t + 1) = [tokens |-> Least(BucketSize, a + 1 * TokensPerInterval),
                                 last |-> b + 1 * Interval]
      BY <3>2 DEF Refill
    <3> QED BY <1>5, <2>8, <3>3
  <2>10. y = Least(BucketSize, n + q)
    <3>1. CASE i = 0
      BY <1>6a, <2>7, <2>9, <3>1
    <3>2. CASE i # 0
      <4>1. a = Least(BucketSize, n + p)
        BY <1>6a, <3>2
      <4>2. Least(BucketSize, a + TokensPerInterval) = Least(BucketSize, n + p + TokensPerInterval)
        BY <1>0, <1>6a, <4>1 DEF Least
      <4>3. n + q = n + p + TokensPerInterval
        BY <1>0, <1>6a, <2>7
      <4> QED BY <2>9, <4>2, <4>3
    <3> QED BY <3>1, <3>2
  <2>11. z = l + f
    BY <1>6a, <2>7, <2>9
  <2>12. a = BucketSize => y = BucketSize
    <3>1. ASSUME a = BucketSize PROVE y = BucketSize
      <4>1. PICK m \in Nat, v \in Nat : m = BucketSize /\ v = BucketSize + TokensPerInterval
        OBVIOUS
      <4>2. m <= v
        BY <4>1
      <4>3. y = Least(m, v)
        BY <2>9, <3>1, <4>1
      <4> QED BY <4>1, <4>2, <4>3 DEF Least
    <3> QED BY <3>1
  <2>13. Refill(n, l, t + 1).tokens = y /\ Refill(n, l, t + 1).last = z
    BY <1>6a, <1>7a, <2>6, <2>10, <2>11
  <2> QED BY <1>4, <2>8, <2>12, <2>13
<1> QED BY <1>8, <1>9

-----------------------------------------------------------------------------
(* What the contract allows, in the terms of the store                     *)

LEMMA TakesSliding ==
    ASSUME NEW k \in Keys, NEW c, Sliding, last' = <<"increment", k>>,
           NEW hits, hits = View(k).hits \o Copies(c, now),
           answer' = Verdict(Len(hits) > Limit),
           Contract!Becomes(k, Used(hits, 0, -1))
    PROVE  Contract!Take(k, c)
<1>1. /\ Contract!Sliding /\ Contract!Copies(c, now) = Copies(c, now)
      /\ Contract!Verdict(Len(hits) > Limit) = Verdict(Len(hits) > Limit)
      /\ Contract!Quota(hits, 0, -1) = Used(hits, 0, -1)
  BY ContractOps
<1>2. [x \in Keys |-> View(x)][k].hits = View(k).hits
  OBVIOUS
<1> QED BY <1>1, <1>2 DEF Contract!Take

LEMMA TakesFixed ==
    ASSUME NEW k \in Keys, NEW c, Fixed, last' = <<"increment", k>>,
           NEW n, n = View(k).used + c, answer' = Verdict(n > Limit),
           NEW end, IF View(k) = Unused THEN end \in (now + 1)..(now + Window) ELSE end = View(k).at,
           Contract!Becomes(k, Used(<< >>, n, end))
    PROVE  Contract!Take(k, c)
<1>1. /\ Contract!Fixed /\ Contract!Free = Unused
      /\ Contract!Verdict(n > Limit) = Verdict(n > Limit)
      /\ Contract!Quota(<< >>, n, end) = Used(<< >>, n, end)
  BY ContractOps
<1>2. [x \in Keys |-> View(x)][k] = View(k)
  OBVIOUS
<1>3. end \in IF View(k) = Unused THEN (now + 1)..(now + Window) ELSE {View(k).at}
  OBVIOUS
<1> QED BY <1>1, <1>2, <1>3 DEF Contract!Take

LEMMA TakesBucket ==
    ASSUME NEW k \in Keys, NEW c, Bucket, last' = <<"increment", k>>,
           NEW begin, IF View(k) = Unused THEN begin \in (now - Interval + 1)..now
                      ELSE begin = View(k).at,
           NEW taken, taken = TakeTokens([tokens |-> BucketSize - View(k).used, last |-> begin], c),
           answer' = Verdict(taken.blocked),
           Contract!Becomes(k, Used(<< >>, BucketSize - taken.tokens, begin))
    PROVE  Contract!Take(k, c)
<1>1. /\ Contract!Bucket /\ Contract!Free = Unused
      /\ Contract!Verdict(taken.blocked) = Verdict(taken.blocked)
      /\ Contract!Quota(<< >>, BucketSize - taken.tokens, begin)
           = Used(<< >>, BucketSize - taken.tokens, begin)
  BY ContractOps
<1>2. Contract!TakeTokens([tokens |-> BucketSize - View(k).used, last |-> begin], c) = taken
  BY ContractRefill
<1>3. [x \in Keys |-> View(x)][k] = View(k)
  OBVIOUS
<1>4. begin \in IF View(k) = Unused THEN (now - Interval + 1)..now ELSE {View(k).at}
  OBVIOUS
<1> QED BY <1>1, <1>2, <1>3, <1>4 DEF Contract!Take

LEMMA GivesBack ==
    ASSUME NEW k \in Keys, NEW c, last' = <<"decrement", k>>, UNCHANGED answer,
           NEW n \in 0..c, NEW newest \in BOOLEAN,
           View(k)' = Used(DropHits(View(k).hits, n, newest),
                           Greatest(0, View(k).used - n), View(k).at),
           \A x \in Keys \ {k} : View(x)' = View(x)
    PROVE  Contract!GiveBack(k, c)
<1>1. PICK q : q = Used(DropHits(View(k).hits, n, newest),
                        Greatest(0, View(k).used - n), View(k).at)
  OBVIOUS
<1>2. Contract!Quota(Contract!DropHits(View(k).hits, n, newest),
                     Contract!Greatest(0, View(k).used - n), View(k).at) = q
  BY <1>1, ContractOps, ContractRefill
<1>3. \A x \in Keys : View(x)' = IF x = k THEN q ELSE View(x)
  BY <1>1
<1>4. [x \in Keys |-> View(x)]' = [[x \in Keys |-> View(x)] EXCEPT ![k] = q]
  BY <1>3
<1>5. [x \in Keys |-> View(x)][k] = View(k)
  OBVIOUS
<1> QED BY <1>2, <1>4, <1>5 DEF Contract!GiveBack

LEMMA Clears ==
    ASSUME NEW keys, last' = <<"clear", keys>>, UNCHANGED answer,
           \A x \in Keys : View(x)' = IF x \in keys THEN Unused ELSE View(x)
    PROVE  Contract!Clear(keys)
<1>1. Contract!Free = Unused
  BY ContractOps
<1>2. [x \in Keys |-> View(x)]' = [x \in Keys |-> IF x \in keys THEN Unused
                                                  ELSE [y \in Keys |-> View(y)][x]]
  OBVIOUS
<1> QED BY <1>1, <1>2 DEF Contract!Clear

LEMMA Assigns ==
    ASSUME NEW k \in Keys, NEW n, last' = <<"set", k>>, UNCHANGED answer,
           NEW end \in {-1} \union (now + 1)..(now + Window), NEW q,
           \/ Sliding /\ q = Used(Copies(n, now), 0, end)
           \/ Fixed /\ q = Used(<< >>, n, end)
           \/ Bucket /\ q = Used(<< >>, Least(n, BucketSize), now),
           Contract!Becomes(k, q)
    PROVE  Contract!Assign(k, n)
<1>1. /\ Contract!Sliding = Sliding /\ Contract!Fixed = Fixed /\ Contract!Bucket = Bucket
      /\ Contract!Quota(Contract!Copies(n, now), 0, end) = Used(Copies(n, now), 0, end)
      /\ Contract!Quota(<< >>, n, end) = Used(<< >>, n, end)
      /\ Contract!Quota(<< >>, Contract!Least(n, BucketSize), now)
           = Used(<< >>, Least(n, BucketSize), now)
  BY ContractOps
<1>2. q = CASE Contract!Sliding -> Contract!Quota(Contract!Copies(n, now), 0, end)
            [] Contract!Fixed -> Contract!Quota(<< >>, n, end)
            [] Contract!Bucket -> Contract!Quota(<< >>, Contract!Least(n, BucketSize), now)
  BY <1>1 DEF Sliding, Fixed, Bucket
<1> QED BY <1>2 DEF Contract!Assign

\* A quota as the contract ages it.
LEMMA AtIs ==
    ASSUME NEW q, NEW t
    PROVE  /\ q = Unused => Contract!At(q, t) = Unused
           /\ q # Unused /\ Sliding =>
                Contract!At(q, t) = IF q.at >= 0 /\ t >= q.at THEN Unused
                                    ELSE Used(Prune(q.hits, t - Window), 0, q.at)
           /\ q # Unused /\ Fixed => Contract!At(q, t) = IF t >= q.at THEN Unused ELSE q
           /\ q # Unused /\ Bucket =>
                Contract!At(q, t) = LET r == Refill(BucketSize - q.used, q.at, t)
                                    IN Used(<< >>, BucketSize - r.tokens, r.last)
<1>1. /\ Contract!Sliding = Sliding /\ Contract!Fixed = Fixed /\ Contract!Bucket = Bucket
      /\ Contract!Free = Unused
      /\ Contract!Prune(q.hits, t - Window) = Prune(q.hits, t - Window)
      /\ \A h, u, a : Contract!Quota(h, u, a) = Used(h, u, a)
  BY ContractOps
<1>2. Contract!Refill(BucketSize - q.used, q.at, t) = Refill(BucketSize - q.used, q.at, t)
  BY ContractRefill
<1>3. q = Unused => Contract!At(q, t) = Unused
  BY <1>1 DEF Contract!At
<1>4. (q # Unused /\ Sliding) =>
        Contract!At(q, t) = IF q.at >= 0 /\ t >= q.at THEN Unused
                            ELSE Used(Prune(q.hits, t - Window), 0, q.at)
  BY <1>1 DEF Contract!At, Sliding, Fixed, Bucket
<1>5. (q # Unused /\ Fixed) => Contract!At(q, t) = IF t >= q.at THEN Unused ELSE q
  BY <1>1 DEF Contract!At, Sliding, Fixed, Bucket
<1>6. (q # Unused /\ Bucket) =>
        Contract!At(q, t) = LET r == Refill(BucketSize - q.used, q.at, t)
                            IN Used(<< >>, BucketSize - r.tokens, r.last)
  BY <1>1, <1>2 DEF Contract!At, Sliding, Fixed, Bucket
<1> QED BY <1>3, <1>4, <1>5, <1>6

-----------------------------------------------------------------------------
(* Increments                                                              *)

LEMMA EntryOf ==
    ASSUME StoreInv, NEW k \in Keys
    PROVE  /\ now \in Nat /\ entry[k] \in Entries /\ Sound(entry[k], now)
           /\ strategy \in {"SLIDING_WINDOW", "FIXED_WINDOW", "TOKEN_BUCKET"}
BY DEF StoreInv, EntryInv

\* The hits of a sliding window, as a client sees them, are its stamps without the old
\* ones, unless its wall is over.
LEMMA HitsShown ==
    ASSUME StoreInv, Sliding, NEW k \in Keys,
           NEW old, old = IF Has(k) /\ ~ WallOver(k) THEN entry[k].stamps ELSE << >>
    PROVE  /\ old \in Seq(Nat) /\ Ascending(old) /\ \A i \in DOMAIN old : old[i] <= now
           /\ View(k).hits = Prune(old, now - Window)
           /\ View(k) = IF Has(k) /\ ~ WallOver(k)
                        THEN Used(Prune(entry[k].stamps, now - Window), 0, entry[k].wall)
                        ELSE Unused
<1>1. /\ now \in Nat /\ now - Window \in Int /\ entry[k].stamps \in Seq(Nat)
      /\ Ascending(entry[k].stamps)
      /\ \A i \in DOMAIN entry[k].stamps : entry[k].stamps[i] <= now
  BY EntryOf, EntryIs, Numbers DEF Sound
<1>2. old \in Seq(Nat) /\ Ascending(old) /\ \A i \in DOMAIN old : old[i] <= now
  BY <1>1, EmptyStamps
<1>3. View(k) = IF Has(k) /\ ~ WallOver(k)
                THEN Used(Prune(entry[k].stamps, now - Window), 0, entry[k].wall)
                ELSE Unused
  <2>1. QuotaOf(entry[k], now) = SlidingQuota(entry[k], now)
    BY QuotaIs
  <2> QED BY <2>1, ViewIs DEF SlidingQuota, WallOver
<1>4. View(k).hits = Prune(old, now - Window)
  <2>1. CASE Has(k) /\ ~ WallOver(k)
    BY <1>3, <2>1, UsedFields
  <2>2. CASE ~ (Has(k) /\ ~ WallOver(k))
    BY <1>1, <1>3, <2>2, UsedFields, PruneEmpty
  <2> QED BY <2>1, <2>2
<1> QED BY <1>2, <1>3, <1>4

LEMMA IncrementSlidingTakes ==
    ASSUME StoreInv, NEW k \in Keys, NEW c \in Costs, Sliding, IncrementSliding(k, c),
           last' = <<"increment", k>>, UNCHANGED <<strategy, now>>
    PROVE  Contract!Take(k, c) /\ EntryInv'
<1>1. PICK old : old = IF Has(k) /\ ~ WallOver(k) THEN entry[k].stamps ELSE << >>
  OBVIOUS
<1>2. /\ old \in Seq(Nat) /\ Ascending(old) /\ \A i \in DOMAIN old : old[i] <= now
      /\ View(k).hits = Prune(old, now - Window)
  BY <1>1, HitsShown
<1>3. now \in Nat /\ now - Window \in Int /\ now - Window < now /\ c \in Nat
  BY EntryOf, Numbers
<1>4. PICK p : p = Prune(old, now - Window)
  OBVIOUS
<1>5. /\ p \in Seq(Nat) /\ Ascending(p)
      /\ \A i \in DOMAIN p : p[i] > now - Window /\ p[i] <= now
  <2>1. PICK cut \in Int : cut = now - Window
    BY <1>3
  <2>2. cut <= cut
    OBVIOUS
  <2>3. /\ p \in Seq(Nat) /\ Ascending(p) /\ \A i \in DOMAIN p : p[i] > cut
        /\ \A n \in Nat : (\A i \in DOMAIN old : old[i] <= n) => \A i \in DOMAIN p : p[i] <= n
    BY <1>2, <1>4, <2>1, <2>2, PruneTwice
  <2> QED BY <1>2, <1>3, <2>1, <2>3
<1>6. PICK hits : hits = p \o Copies(c, now)
  OBVIOUS
<1>7. /\ hits \in Seq(Nat) /\ Ascending(hits) /\ \A i \in DOMAIN hits : hits[i] <= now
      /\ Prune(hits, now - Window) = hits
  BY <1>3, <1>5, <1>6, HitsAre
<1>8. PICK e : e = Stamps(hits, -1)
  OBVIOUS
<1>9. e \in Entries /\ e.stamps = hits /\ e.wall = -1
  <2>1. -1 \in Int
    OBVIOUS
  <2> QED BY <1>7, <1>8, <2>1, StampsFields
<1>10. Sound(e, now)
  BY <1>7, <1>9 DEF Sound, Sliding, Fixed, Bucket
<1>11. PICK kept : kept = IF WallOver(k) THEN Without(order, {k}) ELSE EnsureRoom(k)
  OBVIOUS
<1>12. Put(kept, k, e, TRUE) /\ answer' = Verdict(Len(hits) > Limit)
  BY <1>1, <1>4, <1>6, <1>8, <1>11 DEF IncrementSliding
<1>13. kept = EnsureRoom(k) \/ (Has(k) /\ TRUE /\ kept = Without(order, {k}))
  BY <1>11 DEF WallOver
<1>14. /\ View(k)' = QuotaOf(e, now)
       /\ \A x \in Keys \ {k} : \/ View(x)' = View(x)
                                \/ View(x)' = Unused /\ View(k) = Unused
       /\ EntryInv'
  BY <1>10, <1>12, <1>13, PutShows
<1>15. QuotaOf(e, now) = Used(hits, 0, -1)
  <2>1. QuotaOf(e, now) = SlidingQuota(e, now)
    BY QuotaIs
  <2> QED BY <1>7, <1>9, <2>1 DEF SlidingQuota
<1>16. Contract!Becomes(k, Used(hits, 0, -1))
  BY <1>14, <1>15, BecomesIs
<1>17. hits = View(k).hits \o Copies(c, now)
  BY <1>2, <1>4, <1>6
<1> QED BY <1>12, <1>14, <1>16, <1>17, TakesSliding

\* A fixed window as a client sees it.
LEMMA CountShown ==
    ASSUME StoreInv, Fixed, NEW k \in Keys
    PROVE  /\ entry[k].count \in Nat /\ entry[k].at \in Int /\ entry[k].at <= now + Window
           /\ View(k) = IF Has(k) /\ ~ (now >= entry[k].at)
                        THEN Used(<< >>, entry[k].count, entry[k].at) ELSE Unused
<1>1. entry[k].count \in Nat /\ entry[k].at \in Int /\ entry[k].at <= now + Window
  BY EntryOf, EntryIs DEF Sound
<1>2. QuotaOf(entry[k], now) = FixedQuota(entry[k], now)
  BY QuotaIs
<1> QED BY <1>1, <1>2, ViewIs DEF FixedQuota

LEMMA IncrementFixedTakes ==
    ASSUME StoreInv, NEW k \in Keys, NEW c \in Costs, Fixed, IncrementFixed(k, c),
           last' = <<"increment", k>>, UNCHANGED <<strategy, now>>
    PROVE  Contract!Take(k, c) /\ EntryInv'
<1>1. now \in Nat /\ c \in Nat /\ Window \in Nat /\ Window > 0 /\ now + Window \in Int
  BY EntryOf, Numbers
<1>2. /\ entry[k].count \in Nat /\ entry[k].at \in Int /\ entry[k].at <= now + Window
      /\ View(k) = IF Has(k) /\ ~ (now >= entry[k].at)
                   THEN Used(<< >>, entry[k].count, entry[k].at) ELSE Unused
  BY CountShown
<1>3. PICK n, end : /\ n = IF ~ Has(k) \/ now >= entry[k].at THEN c ELSE entry[k].count + c
                    /\ end = IF ~ Has(k) \/ now >= entry[k].at THEN now + Window ELSE entry[k].at
  OBVIOUS
<1>3a. /\ n \in Nat /\ end \in Int /\ end > now /\ end <= now + Window
       /\ n = View(k).used + c
       /\ IF View(k) = Unused THEN end \in (now + 1)..(now + Window) ELSE end = View(k).at
  <2>1. CASE ~ Has(k) \/ now >= entry[k].at
    <3>1. View(k) = Unused /\ View(k).used = 0
      BY <1>2, <2>1, UsedFields
    <3>2. n = c /\ end = now + Window
      BY <1>3, <2>1
    <3>3. 0 + c = c /\ now + Window \in (now + 1)..(now + Window) /\ now + Window > now
      BY <1>1
    <3> QED BY <1>1, <3>1, <3>2, <3>3
  <2>2. CASE ~ (~ Has(k) \/ now >= entry[k].at)
    <3>1. View(k) = Used(<< >>, entry[k].count, entry[k].at)
      BY <1>2, <2>2
    <3>2. View(k).used = entry[k].count /\ (View(k) # Unused => View(k).at = entry[k].at)
      BY <3>1, UsedFields
    <3>3. n = entry[k].count + c /\ end = entry[k].at
      BY <1>3, <2>2
    <3>4. entry[k].at > now /\ entry[k].at \in (now + 1)..(now + Window)
      BY <1>1, <1>2, <2>2
    <3> QED BY <1>1, <1>2, <3>2, <3>3, <3>4
  <2> QED BY <2>1, <2>2
<1>3b. Counter(n, end) = IF ~ Has(k) \/ now >= entry[k].at THEN Counter(c, now + Window)
                         ELSE Counter(entry[k].count + c, entry[k].at)
  BY <1>3
<1>4. PICK e : e = Counter(n, end)
  OBVIOUS
<1>5. e \in Entries /\ e.stamps = << >> /\ e.count = n /\ e.at = end
  BY <1>3a, <1>4, CounterFields
<1>6. Sound(e, now)
  BY <1>3a, <1>5 DEF Sound, Sliding, Fixed, Bucket
<1>7. PICK m \in BOOLEAN : m <=> maxKeys > 0
  OBVIOUS
<1>8. Put(EnsureRoom(k), k, e, m) /\ answer' = Verdict(n > Limit)
  BY <1>3b, <1>4, <1>5, <1>7 DEF IncrementFixed, Put
<1>9. /\ View(k)' = QuotaOf(e, now)
      /\ \A x \in Keys \ {k} : \/ View(x)' = View(x)
                               \/ View(x)' = Unused /\ View(k) = Unused
      /\ EntryInv'
  BY <1>6, <1>8, PutShows
<1>10. QuotaOf(e, now) = Used(<< >>, n, end)
  <2>1. QuotaOf(e, now) = FixedQuota(e, now)
    BY QuotaIs
  <2> QED BY <1>1, <1>3a, <1>5, <2>1 DEF FixedQuota
<1>11. Contract!Becomes(k, Used(<< >>, n, end))
  BY <1>9, <1>10, BecomesIs
<1> QED BY <1>3a, <1>8, <1>9, <1>11, TakesFixed

\* A bucket as a client sees it.
LEMMA TokensShown ==
    ASSUME StoreInv, Bucket, NEW k \in Keys
    PROVE  /\ entry[k].count \in 0..BucketSize /\ entry[k].at \in Int /\ entry[k].at <= now
           /\ View(k) = IF Has(k)
                        THEN Used(<< >>,
                                  BucketSize - Refill(entry[k].count, entry[k].at, now).tokens,
                                  Refill(entry[k].count, entry[k].at, now).last)
                        ELSE Unused
<1>1. entry[k].count \in 0..BucketSize /\ entry[k].at \in Int /\ entry[k].at <= now
  <2>1. /\ entry[k].count \in Nat /\ entry[k].at \in Int
        /\ entry[k].count <= BucketSize /\ entry[k].at <= now
    BY EntryOf, EntryIs DEF Sound
  <2> QED BY <2>1, Numbers
<1>2. QuotaOf(entry[k], now) = BucketQuota(entry[k], now)
  BY QuotaIs
<1> QED BY <1>1, <1>2, ViewIs DEF BucketQuota

LEMMA IncrementBucketTakes ==
    ASSUME StoreInv, NEW k \in Keys, NEW c \in Costs, Bucket, IncrementTokenBucket(k, c),
           last' = <<"increment", k>>, UNCHANGED <<strategy, now>>
    PROVE  Contract!Take(k, c) /\ EntryInv'
<1>1. now \in Nat /\ c \in Nat /\ BucketSize \in Nat /\ Interval \in Nat /\ Interval > 0
  BY EntryOf, Numbers
<1>2. PICK b, n, l : /\ b = IF Has(k) THEN Refill(entry[k].count, entry[k].at, now)
                            ELSE [tokens |-> BucketSize, last |-> now]
                     /\ n = b.tokens /\ l = b.last
  OBVIOUS
<1>3. /\ n \in 0..BucketSize /\ l \in Int /\ l <= now /\ now < l + Interval
      /\ n = BucketSize - View(k).used
      /\ View(k) # Unused => l = View(k).at
  <2>1. CASE Has(k)
    <3>1. /\ entry[k].count \in 0..BucketSize /\ entry[k].at \in Int /\ entry[k].at <= now
          /\ View(k) = Used(<< >>, BucketSize - n, l)
      BY <1>2, <2>1, TokensShown
    <3>2. n \in 0..BucketSize /\ l \in Int /\ l <= now /\ now < l + Interval
      <4>1. /\ n = Refill(entry[k].count, entry[k].at, now).tokens
            /\ l = Refill(entry[k].count, entry[k].at, now).last
        BY <1>2, <2>1
      <4>2. now \in Int
        BY <1>1
      <4> QED BY <3>1, <4>1, <4>2, BucketRefilled
    <3>3. View(k).used = BucketSize - n /\ (View(k) # Unused => View(k).at = l)
      BY <3>1, UsedFields
    <3>4. n = BucketSize - (BucketSize - n)
      BY <1>1, <3>2
    <3> QED BY <3>2, <3>3, <3>4
  <2>2. CASE ~ Has(k)
    <3>1. n = BucketSize /\ l = now /\ View(k) = Unused /\ View(k).used = 0
      BY <1>2, <2>2, TokensShown, UsedFields
    <3> QED BY <1>1, <3>1
  <2> QED BY <2>1, <2>2
<1>4. PICK taken : taken = TakeTokens(b, c)
  OBVIOUS
<1>5. /\ taken = TakeTokens([tokens |-> BucketSize - View(k).used, last |-> l], c)
      /\ taken.last = l /\ taken.tokens \in 0..BucketSize
  <2>1. taken = [tokens |-> IF n >= c THEN n - c ELSE n, last |-> l, blocked |-> n < c]
    BY <1>2, <1>4 DEF TakeTokens
  <2>2. PICK d : d = [tokens |-> BucketSize - View(k).used, last |-> l]
    OBVIOUS
  <2>3. d.tokens = n /\ d.last = l
    BY <1>3, <2>2
  <2>4. TakeTokens(d, c) = [tokens |-> IF n >= c THEN n - c ELSE n, last |-> l, blocked |-> n < c]
    BY <2>3 DEF TakeTokens
  <2>5. (IF n >= c THEN n - c ELSE n) \in 0..BucketSize
    BY <1>1, <1>3
  <2> QED BY <2>1, <2>2, <2>4, <2>5
<1>6. PICK m : m = taken.tokens
  OBVIOUS
<1>7. PICK e : e = Counter(m, l)
  OBVIOUS
<1>8. e \in Entries /\ e.stamps = << >> /\ e.count = m /\ e.at = l /\ m \in Nat /\ m <= BucketSize
  <2>1. m \in Nat /\ m <= BucketSize
    BY <1>1, <1>5, <1>6
  <2> QED BY <1>3, <1>7, <2>1, CounterFields
<1>9. Sound(e, now)
  BY <1>3, <1>8 DEF Sound, Sliding, Fixed, Bucket
<1>10. PICK v \in BOOLEAN : v <=> maxKeys > 0
  OBVIOUS
<1>11. Put(EnsureRoom(k), k, e, v) /\ answer' = Verdict(taken.blocked)
  BY <1>2, <1>4, <1>5, <1>6, <1>7, <1>10 DEF IncrementTokenBucket, Put
<1>12. /\ View(k)' = QuotaOf(e, now)
       /\ \A x \in Keys \ {k} : \/ View(x)' = View(x)
                                \/ View(x)' = Unused /\ View(k) = Unused
       /\ EntryInv'
  BY <1>9, <1>11, PutShows
<1>13. QuotaOf(e, now) = Used(<< >>, BucketSize - m, l)
  <2>1. QuotaOf(e, now) = BucketQuota(e, now)
    BY QuotaIs
  <2>2. Refill(m, l, now).tokens = m /\ Refill(m, l, now).last = l
    BY <1>1, <1>3, <1>8, RefillNothing
  <2> QED BY <1>8, <2>1, <2>2 DEF BucketQuota
<1>14. Contract!Becomes(k, Used(<< >>, BucketSize - taken.tokens, l))
  BY <1>6, <1>12, <1>13, BecomesIs
<1>15. IF View(k) = Unused THEN l \in (now - Interval + 1)..now ELSE l = View(k).at
  BY <1>1, <1>3
<1> QED BY <1>5, <1>11, <1>12, <1>14, <1>15, TakesBucket

LEMMA IncrementTakes ==
    ASSUME StoreInv, NEW k \in Keys, NEW c \in Costs, Increment(k, c)
    PROVE  Contract!Take(k, c) /\ EntryInv'
BY IncrementSlidingTakes, IncrementFixedTakes, IncrementBucketTakes DEF Increment

-----------------------------------------------------------------------------
(* Decrements                                                              *)

\* t is what s has after its first a elements, up to its b-th.
Slice(t, s, a, b) ==
    /\ a \in Nat /\ b \in Nat /\ a <= b /\ b <= Len(s)
    /\ t \in Seq(Nat) /\ Len(t) = b - a
    /\ \A i \in 1..(b - a) : t[i] = s[a + i]

LEMMA SliceSub ==
    ASSUME NEW s \in Seq(Nat), NEW a \in Nat, NEW b \in Nat, a <= b, b <= Len(s)
    PROVE  Slice(SubSeq(s, a + 1, b), s, a, b)
<1>1. PICK L \in Nat : L = Len(s)
  OBVIOUS
<1>2. DOMAIN s = 1..L /\ b <= L
  BY <1>1
<1>3. \A i \in (a + 1)..b : s[i] \in Nat
  <2>1. \A i \in 1..L : s[i] \in Nat
    BY <1>1
  <2>2. ASSUME NEW i \in (a + 1)..b PROVE i \in 1..L
    BY <1>2
  <2> QED BY <2>1, <2>2
<1>4. PICK t : t = SubSeq(s, a + 1, b)
  OBVIOUS
<1>5. /\ t \in Seq(Nat) /\ Len(t) = IF a + 1 <= b THEN b - (a + 1) + 1 ELSE 0
      /\ \A i \in 1..(b - (a + 1) + 1) : t[i] = s[(a + 1) + i - 1]
  <2>1. a + 1 \in Int /\ b \in Int
    OBVIOUS
  <2> QED BY <1>3, <1>4, <2>1, SubSeqProperties
<1>6. Len(t) = b - a
  <2>1. PICK l : l = Len(t)
    OBVIOUS
  <2>2. l = IF a + 1 <= b THEN b - (a + 1) + 1 ELSE 0
    BY <1>5, <2>1
  <2>3. l = b - a
    BY <2>2
  <2> QED BY <2>1, <2>3
<1>7. ASSUME NEW i \in 1..(b - a) PROVE t[i] = s[a + i]
  <2>1. i \in 1..(b - (a + 1) + 1) /\ (a + 1) + i - 1 = a + i
    OBVIOUS
  <2>2. t[i] = s[(a + 1) + i - 1]
    BY <1>5, <2>1
  <2> QED BY <2>1, <2>2
<1> QED BY <1>4, <1>5, <1>6, <1>7 DEF Slice

\* There is one such sequence; it is empty when there is nothing between a and b.
LEMMA SliceSame ==
    ASSUME NEW s, NEW a, NEW b, NEW t, NEW r, Slice(t, s, a, b), Slice(r, s, a, b)
    PROVE  t = r
<1>1. /\ t \in Seq(Nat) /\ r \in Seq(Nat) /\ Len(t) = b - a /\ Len(r) = b - a
      /\ \A i \in 1..(b - a) : t[i] = s[a + i] /\ r[i] = s[a + i]
  BY DEF Slice
<1>2. DOMAIN t = 1..(b - a) /\ DOMAIN r = 1..(b - a)
  <2>1. DOMAIN t = 1..Len(t) /\ DOMAIN r = 1..Len(r)
    BY <1>1
  <2> QED BY <1>1, <2>1
<1> QED BY <1>1, <1>2

LEMMA SliceNone ==
    ASSUME NEW s, NEW a, NEW t, Slice(t, s, a, a)
    PROVE  t = << >>
<1>1. t \in Seq(Nat) /\ Len(t) = a - a /\ a \in Nat
  BY DEF Slice
<1>2. Len(t) = 0
  BY <1>1
<1> QED BY <1>1, <1>2

LEMMA SliceOf ==
    ASSUME NEW s \in Seq(Nat), NEW a, NEW b, NEW t, Slice(t, s, a, b),
           NEW c, NEW d, NEW r, Slice(r, t, c, d)
    PROVE  Slice(r, s, a + c, a + d)
<1>1. PICK L \in Nat : L = Len(s)
  OBVIOUS
<1>2. /\ a \in Nat /\ b \in Nat /\ c \in Nat /\ d \in Nat /\ a <= b /\ b <= L
      /\ c <= d /\ d <= b - a
      /\ r \in Seq(Nat) /\ Len(r) = d - c
  BY <1>1 DEF Slice
<1>3. ASSUME NEW i \in 1..(d - c) PROVE r[i] = s[(a + c) + i]
  <2>1. r[i] = t[c + i]
    BY DEF Slice
  <2>2. c + i \in 1..(b - a) /\ a + (c + i) = (a + c) + i
    BY <1>2
  <2>3. t[c + i] = s[a + (c + i)]
    BY <2>2 DEF Slice
  <2> QED BY <2>1, <2>2, <2>3
<1>4. /\ a + c \in Nat /\ a + d \in Nat /\ a + c <= a + d /\ a + d <= L
      /\ (a + d) - (a + c) = d - c
  BY <1>2
<1> QED BY <1>1, <1>2, <1>3, <1>4 DEF Slice

\* A slice of ascending stamps is one, and what a cutoff leaves of it is a slice.
LEMMA SliceStamps ==
    ASSUME NEW s \in Seq(Nat), Ascending(s), NEW a, NEW b, NEW t, Slice(t, s, a, b)
    PROVE  /\ Ascending(t)
           /\ \A n \in Nat : (\A i \in DOMAIN s : s[i] <= n) => \A i \in DOMAIN t : t[i] <= n
<1>1. PICK L \in Nat : L = Len(s) /\ DOMAIN s = 1..L
  OBVIOUS
<1>2. /\ a \in Nat /\ b \in Nat /\ a <= b /\ b <= L /\ DOMAIN t = 1..(b - a)
      /\ \A i \in 1..(b - a) : t[i] = s[a + i]
  <2>1. /\ a \in Nat /\ b \in Nat /\ a <= b /\ b <= L /\ t \in Seq(Nat) /\ Len(t) = b - a
        /\ \A i \in 1..(b - a) : t[i] = s[a + i]
    BY <1>1 DEF Slice
  <2>2. DOMAIN t = 1..Len(t)
    BY <2>1
  <2> QED BY <2>1, <2>2
<1>3. ASSUME NEW i \in DOMAIN t PROVE i \in Nat /\ a + i \in DOMAIN s
  BY <1>1, <1>2
<1>4. ASSUME NEW i \in DOMAIN t, NEW j \in DOMAIN t, i <= j PROVE t[i] <= t[j]
  <2>1. a + i <= a + j
    BY <1>2, <1>3, <1>4
  <2>2. s[a + i] <= s[a + j]
    BY <1>3, <2>1 DEF Ascending
  <2> QED BY <1>2, <2>2
<1>5. ASSUME NEW n \in Nat, \A i \in DOMAIN s : s[i] <= n, NEW i \in DOMAIN t PROVE t[i] <= n
  BY <1>2, <1>3, <1>5
<1> QED BY <1>4, <1>5 DEF Ascending

LEMMA SlicePrune ==
    ASSUME NEW s \in Seq(Nat), NEW a, NEW b, NEW t, Slice(t, s, a, b), NEW cut \in Int,
           NEW j \in Nat, \A i \in DOMAIN s : s[i] > cut <=> i > j,
           NEW f \in Nat, f = IF j < a THEN a ELSE IF j > b THEN b ELSE j
    PROVE  Slice(Prune(t, cut), s, f, b)
<1>1. PICK L \in Nat : L = Len(s) /\ DOMAIN s = 1..L
  OBVIOUS
<1>2. /\ a \in Nat /\ b \in Nat /\ a <= b /\ b <= L /\ t \in Seq(Nat) /\ Len(t) = b - a
      /\ \A i \in 1..(b - a) : t[i] = s[a + i]
  BY <1>1 DEF Slice
<1>3. DOMAIN t = 1..(b - a)
  <2>1. DOMAIN t = 1..Len(t)
    BY <1>2
  <2> QED BY <1>2, <2>1
<1>4. PICK e \in Nat : e = f - a
  BY <1>2
<1>5. e <= b - a /\ e \in 0..(b - a) /\ a + e = f
  BY <1>2, <1>4
<1>6. ASSUME NEW i \in DOMAIN t PROVE t[i] > cut <=> i > e
  <2>1. i \in 1..(b - a) /\ a + i \in DOMAIN s /\ t[i] = s[a + i]
    BY <1>1, <1>2, <1>3
  <2>2. s[a + i] > cut <=> a + i > j
    BY <2>1
  <2>3. a + i > j <=> i > e
    <3>1. /\ a \in Nat /\ b \in Nat /\ a <= b /\ i \in Nat /\ 1 <= i /\ i <= b - a
          /\ j \in Nat /\ e = f - a
      BY <1>2, <1>4, <2>1
    <3>2. CASE j < a
      BY <3>1, <3>2
    <3>3. CASE ~ (j < a) /\ j > b
      BY <3>1, <3>3
    <3>4. CASE ~ (j < a) /\ ~ (j > b)
      BY <3>1, <3>4
    <3> QED BY <3>2, <3>3, <3>4
  <2> QED BY <2>1, <2>2, <2>3
<1>7. e \in 0..Len(t)
  BY <1>2, <1>5
<1>8. PICK r : r = Prune(t, cut)
  OBVIOUS
<1>9. /\ r \in Seq(Nat) /\ Len(r) = (b - a) - e
      /\ \A i \in 1..((b - a) - e) : r[i] = t[e + i]
  <2>1. PICK l \in Nat : l = Len(t) /\ l = b - a
    BY <1>2
  <2>2. /\ r \in Seq(Nat) /\ Len(r) = Len(t) - e
        /\ \A i \in 1..(Len(t) - e) : r[i] = t[e + i]
    BY <1>2, <1>6, <1>7, <1>8, PruneRun
  <2> QED BY <2>1, <2>2
<1>10. Slice(r, t, e, b - a)
  BY <1>2, <1>5, <1>9 DEF Slice
<1>11. Slice(r, s, a + e, a + (b - a))
  BY <1>10, SliceOf
<1>12. a + (b - a) = b
  BY <1>2
<1> QED BY <1>5, <1>8, <1>11, <1>12

LEMMA DropSlice ==
    ASSUME NEW s \in Seq(Nat), NEW c \in Nat, NEW L \in Nat, L = Len(s),
           NEW m \in Nat, m = Least(c, L)
    PROVE  /\ m <= L /\ m <= c /\ (m = c \/ m = L)
           /\ Slice(DropHits(s, c, TRUE), s, 0, L - m)
           /\ Slice(DropHits(s, c, FALSE), s, m, L)
<1>1. m <= L /\ m <= c /\ (m = c \/ m = L)
  BY DEF Least
<1>2. DropHits(s, c, TRUE) = SubSeq(s, 0 + 1, L - m) /\ DropHits(s, c, FALSE) = SubSeq(s, m + 1, L)
  <2>1. 0 + 1 = 1
    OBVIOUS
  <2> QED BY <2>1 DEF DropHits, DropLast, DropFirst
<1>3. Slice(SubSeq(s, 0 + 1, L - m), s, 0, L - m)
  <2>1. L - m \in Nat /\ 0 <= L - m /\ L - m <= Len(s) /\ 0 \in Nat
    BY <1>1
  <2> QED BY <2>1, SliceSub
<1>4. Slice(SubSeq(s, m + 1, L), s, m, L)
  <2>1. L <= Len(s)
    OBVIOUS
  <2> QED BY <1>1, <2>1, SliceSub
<1> QED BY <1>1, <1>2, <1>3, <1>4

\* Of the hits that a decrement drops, as many as a client sees.
LEMMA DropPruned ==
    ASSUME NEW s \in Seq(Nat), Ascending(s), NEW cut \in Int, NEW c \in Nat,
           NEW newest \in BOOLEAN
    PROVE  /\ DropHits(s, c, newest) \in Seq(Nat) /\ Ascending(DropHits(s, c, newest))
           /\ \A n \in Nat : (\A i \in DOMAIN s : s[i] <= n) =>
                 \A i \in DOMAIN DropHits(s, c, newest) : DropHits(s, c, newest)[i] <= n
           /\ \E n \in 0..c :
                 Prune(DropHits(s, c, newest), cut) = DropHits(Prune(s, cut), n, newest)
<1>1. PICK L \in Nat : L = Len(s)
  OBVIOUS
<1>2. PICK j \in 0..L : \A i \in DOMAIN s : s[i] > cut <=> i > j
  BY <1>1, CutAt
<1>3. j \in Nat /\ j <= L
  OBVIOUS
<1>4. PICK p : p = Prune(s, cut)
  OBVIOUS
<1>5. p \in Seq(Nat) /\ Len(p) = L - j /\ Slice(p, s, j, L)
  <2>1. /\ p \in Seq(Nat) /\ Len(p) = L - j
        /\ \A i \in 1..(L - j) : p[i] = s[j + i]
    BY <1>1, <1>2, <1>4, PruneRun
  <2>2. L <= Len(s)
    BY <1>1
  <2> QED BY <1>3, <2>1, <2>2 DEF Slice
<1>6. PICK m \in Nat : m = Least(c, L)
  BY DEF Least
<1>7. m <= L /\ m <= c /\ (m = c \/ m = L)
  BY <1>1, <1>6, DropSlice
<1>8. CASE newest = TRUE
  <2>1. PICK d : d = DropHits(s, c, TRUE)
    OBVIOUS
  <2>2. Slice(d, s, 0, L - m)
    BY <1>1, <1>6, <2>1, DropSlice
  <2>3. d \in Seq(Nat)
    BY <2>2 DEF Slice
  <2>4. /\ Ascending(d)
        /\ \A n \in Nat : (\A i \in DOMAIN s : s[i] <= n) => \A i \in DOMAIN d : d[i] <= n
    BY <2>2, SliceStamps
  <2>5. PICK b \in Nat : b = L - m
    BY <1>7
  <2>5a. PICK f \in Nat : f = IF j < 0 THEN 0 ELSE IF j > b THEN b ELSE j
    BY <1>3
  <2>6. Slice(Prune(d, cut), s, f, b)
    <3>1. Slice(d, s, 0, b)
      BY <2>2, <2>5
    <3> QED BY <1>2, <1>3, <2>5a, <3>1, SlicePrune
  <2>8. PICK l \in Nat : l = L - j
    BY <1>3
  <2>7. PICK k \in Nat : k = Least(c, l)
    BY DEF Least
  <2>9. /\ k <= l /\ k <= c /\ (k = c \/ k = l)
        /\ Slice(DropHits(p, c, TRUE), p, 0, l - k)
    <3>1. l = Len(p)
      BY <1>5, <2>8
    <3> QED BY <1>5, <2>7, <3>1, DropSlice
  <2>10. PICK q : q = DropHits(p, c, TRUE)
    OBVIOUS
  <2>11. Slice(q, s, j + 0, j + (l - k))
    BY <1>5, <2>9, <2>10, SliceOf
  <2>12. Prune(d, cut) = q
    <3>1. CASE j <= L - m
      <4>1. f = j /\ j + 0 = f /\ j + (l - k) = b
        BY <1>3, <1>7, <2>5, <2>5a, <2>8, <2>9, <3>1
      <4>2. Slice(q, s, f, b)
        BY <2>11, <4>1
      <4> QED BY <2>6, <4>2, SliceSame
    <3>2. CASE ~ (j <= L - m)
      <4>1. f = b /\ j + 0 = j /\ j + (l - k) = j
        BY <1>3, <1>7, <2>5, <2>5a, <2>8, <2>9, <3>2
      <4>2. Slice(q, s, j, j) /\ Slice(Prune(d, cut), s, f, f)
        BY <2>6, <2>11, <4>1
      <4> QED BY <4>2, SliceNone
    <3> QED BY <3>1, <3>2
  <2>13. c \in 0..c
    OBVIOUS
  <2> QED BY <1>4, <1>8, <2>1, <2>3, <2>4, <2>10, <2>12, <2>13
<1>9. CASE newest = FALSE
  <2>1. PICK d : d = DropHits(s, c, FALSE)
    OBVIOUS
  <2>2. Slice(d, s, m, L)
    BY <1>1, <1>6, <2>1, DropSlice
  <2>3. d \in Seq(Nat)
    BY <2>2 DEF Slice
  <2>4. /\ Ascending(d)
        /\ \A n \in Nat : (\A i \in DOMAIN s : s[i] <= n) => \A i \in DOMAIN d : d[i] <= n
    BY <2>2, SliceStamps
  <2>5. PICK f \in Nat : f = IF j < m THEN m ELSE IF j > L THEN L ELSE j
    BY <1>3, <1>7
  <2>6. Slice(Prune(d, cut), s, f, L)
    <3>1. \A i \in DOMAIN s : s[i] > cut <=> i > j
      BY <1>2
    <3> QED BY <1>3, <2>2, <2>5, <3>1, SlicePrune
  <2>7. PICK n \in Nat : n = IF j < m THEN m - j ELSE 0
    <3>1. m \in Nat /\ j \in Nat
      BY <1>3, <1>6
    <3>2. j < m => m - j \in Nat
      BY <3>1
    <3> QED BY <3>2
  <2>8. PICK l \in Nat : l = L - j
    BY <1>3
  <2>9. n <= l /\ n <= c /\ n \in 0..c /\ f = j + n /\ j + l = L
    <3>0. L \in Nat /\ j \in Nat /\ m \in Nat /\ c \in Nat /\ n \in Nat /\ f \in Nat /\ l \in Nat
      BY <1>3, <1>6, <2>5, <2>7, <2>8
    <3>1. ASSUME j < m PROVE n <= l /\ n <= c /\ f = j + n /\ j + l = L
      BY <1>3, <1>7, <2>5, <2>7, <2>8, <3>0, <3>1
    <3>2. ASSUME ~ (j < m) PROVE n <= l /\ n <= c /\ f = j + n /\ j + l = L
      <4>1. n = 0 /\ ~ (j > L)
        BY <1>3, <2>7, <3>0, <3>2
      <4>2. f = j
        BY <2>5, <3>2, <4>1
      <4> QED BY <1>3, <2>8, <3>0, <4>1, <4>2
    <3>3. n <= l /\ n <= c /\ f = j + n /\ j + l = L
      BY <3>1, <3>2
    <3> QED BY <3>0, <3>3
  <2>10. n = Least(n, l)
    BY <2>9 DEF Least
  <2>11. PICK q : q = DropHits(p, n, FALSE)
    OBVIOUS
  <2>12. Slice(q, p, n, l)
    BY <1>5, <2>8, <2>10, <2>11, DropSlice
  <2>13. Slice(q, s, j + n, j + l)
    BY <1>5, <2>12, SliceOf
  <2>14. Prune(d, cut) = q
    BY <2>6, <2>9, <2>13, SliceSame
  <2> QED BY <1>4, <1>9, <2>1, <2>3, <2>4, <2>9, <2>11, <2>14
<1> QED BY <1>8, <1>9

\* There is nothing to drop where there is nothing.
LEMMA DropNone == ASSUME NEW n \in Nat, NEW newest \in BOOLEAN PROVE DropHits(<< >>, n, newest) = << >>
<1>1. PICK m \in Nat : m = Least(n, 0)
  BY DEF Least
<1>2. << >> \in Seq(Nat) /\ 0 \in Nat /\ 0 = Len(<< >>)
  OBVIOUS
<1>3. m = 0
  BY <1>1 DEF Least
<1>4. /\ Slice(DropHits(<< >>, n, TRUE), << >>, 0, 0 - m)
      /\ Slice(DropHits(<< >>, n, FALSE), << >>, m, 0)
  BY <1>1, <1>2, DropSlice
<1>5. 0 - m = 0
  BY <1>3
<1>6. Slice(DropHits(<< >>, n, TRUE), << >>, 0, 0) /\ Slice(DropHits(<< >>, n, FALSE), << >>, 0, 0)
  BY <1>3, <1>4, <1>5
<1>7. newest = TRUE \/ newest = FALSE
  OBVIOUS
<1> QED BY <1>6, <1>7, SliceNone

LEMMA ViewForm ==
    ASSUME StoreInv, NEW k \in Keys
    PROVE  /\ \E h \in Seq(Nat), u \in Nat : \E a : View(k) = Used(h, u, a)
           /\ View(k).hits \in Seq(Nat) /\ View(k).used \in Nat
           /\ View(k) = Used(View(k).hits, View(k).used, View(k).at)
<1>1. << >> \in Seq(Nat) /\ 0 \in Nat
  OBVIOUS
<1>2. Unused = Used(<< >>, 0, -1)
  BY DEF Used
<1>3. now \in Nat /\ strategy \in {"SLIDING_WINDOW", "FIXED_WINDOW", "TOKEN_BUCKET"}
  BY EntryOf
<1>4. \E h \in Seq(Nat), u \in Nat : \E a : View(k) = Used(h, u, a)
  <2>1. ASSUME Sliding PROVE \E h \in Seq(Nat), u \in Nat : \E a : View(k) = Used(h, u, a)
    <3>1. PICK cut \in Int : cut = now - Window
      BY <1>3, Numbers
    <3>2. entry[k].stamps \in Seq(Nat) /\ Ascending(entry[k].stamps)
      BY <2>1, EntryOf, EntryIs DEF Sound
    <3>3. Prune(entry[k].stamps, cut) \in Seq(Nat)
      <4>1. cut <= cut
        OBVIOUS
      <4> QED BY <3>1, <3>2, <4>1, PruneTwice
    <3>4. View(k) = IF Has(k) /\ ~ WallOver(k)
                    THEN Used(Prune(entry[k].stamps, cut), 0, entry[k].wall) ELSE Unused
      BY <2>1, <3>1, HitsShown
    <3> QED BY <1>1, <1>2, <3>3, <3>4
  <2>2. ASSUME Fixed PROVE \E h \in Seq(Nat), u \in Nat : \E a : View(k) = Used(h, u, a)
    BY <1>1, <1>2, <2>2, CountShown
  <2>3. ASSUME Bucket PROVE \E h \in Seq(Nat), u \in Nat : \E a : View(k) = Used(h, u, a)
    <3>1. PICK n, l : /\ n = Refill(entry[k].count, entry[k].at, now).tokens
                      /\ l = Refill(entry[k].count, entry[k].at, now).last
      OBVIOUS
    <3>2. entry[k].count \in 0..BucketSize /\ entry[k].at \in Int /\ entry[k].at <= now
      BY <2>3, TokensShown
    <3>3. n \in 0..BucketSize
      <4>1. now \in Int
        BY <1>3
      <4> QED BY <3>1, <3>2, <4>1, BucketRefilled
    <3>4. BucketSize - n \in Nat
      BY <3>3, Numbers
    <3>5. View(k) = IF Has(k) THEN Used(<< >>, BucketSize - n, l) ELSE Unused
      BY <2>3, <3>1, TokensShown
    <3> QED BY <1>1, <1>2, <3>4, <3>5
  <2> QED BY <1>3, <2>1, <2>2, <2>3 DEF Sliding, Fixed, Bucket
<1>5. PICK h \in Seq(Nat), u \in Nat : \E a : View(k) = Used(h, u, a)
  BY <1>4
<1>5a. PICK a : View(k) = Used(h, u, a)
  BY <1>5
<1>6. View(k).hits = h /\ View(k).used = u
  BY <1>5a, UsedFields
<1>7. View(k) = Used(h, u, View(k).at)
  <2>1. CASE h = << >> /\ u = 0
    BY <1>5a, <2>1 DEF Used
  <2>2. CASE ~ (h = << >> /\ u = 0)
    BY <1>5a, <2>2 DEF Used
  <2> QED BY <2>1, <2>2
<1> QED BY <1>4, <1>5a, <1>6, <1>7

\* Nothing is given back.
LEMMA NoBack ==
    ASSUME StoreInv, NEW k \in Keys, NEW c \in Costs, last' = <<"decrement", k>>,
           UNCHANGED answer, \A x \in Keys : View(x)' = View(x)
    PROVE  Contract!GiveBack(k, c)
<1>1. PICK h, u, a : h = View(k).hits /\ u = View(k).used /\ a = View(k).at
  OBVIOUS
<1>2. h \in Seq(Nat) /\ u \in Nat /\ View(k) = Used(h, u, a)
  BY <1>1, ViewForm
<1>3. DropHits(h, 0, FALSE) = h
  <2>1. PICK L \in Nat : L = Len(h)
    BY <1>2
  <2>2. 0 \in Nat /\ L - 0 = L /\ 0 = Least(0, L)
    BY <2>1 DEF Least
  <2>3. Slice(DropHits(h, 0, FALSE), h, 0, L)
    BY <1>2, <2>1, <2>2, DropSlice
  <2>4. Slice(h, h, 0, L)
    BY <1>2, <2>1, <2>2 DEF Slice
  <2> QED BY <2>3, <2>4, SliceSame
<1>4. Greatest(0, u - 0) = u
  BY <1>2 DEF Greatest
<1>5. c \in Nat /\ 0 \in 0..c /\ FALSE \in BOOLEAN
  BY Numbers
<1>6. View(k)' = Used(DropHits(View(k).hits, 0, FALSE), Greatest(0, View(k).used - 0), View(k).at)
  BY <1>1, <1>2, <1>3, <1>4
<1> QED BY <1>5, <1>6, GivesBack

LEMMA StaysShows ==
    ASSUME StoreInv, UNCHANGED <<order, entry, strategy, now>>
    PROVE  (\A x \in Keys : View(x)' = View(x)) /\ EntryInv'
<1>1. \A x \in Keys : Has(x)' <=> Has(x)
  BY DEF Has, Contains
<1> QED BY <1>1, SameShows

LEMMA DecrementSlidingGivesBack ==
    ASSUME StoreInv, NEW k \in Keys, NEW c \in Costs, NEW newest \in BOOLEAN, Sliding,
           DecrementSliding(k, c, newest), last' = <<"decrement", k>>,
           UNCHANGED <<strategy, now, answer>>
    PROVE  Contract!GiveBack(k, c) /\ EntryInv'
<1>1. /\ now \in Nat /\ now - Window \in Int /\ entry[k] \in Entries
      /\ entry[k].stamps \in Seq(Nat) /\ entry[k].wall \in Int
      /\ Ascending(entry[k].stamps)
      /\ \A i \in DOMAIN entry[k].stamps : entry[k].stamps[i] <= now
  BY EntryOf, EntryIs, Numbers DEF Sound
<1>2. PICK s, cut, w : s = entry[k].stamps /\ cut = now - Window /\ w = entry[k].wall
  OBVIOUS
<1>3. PICK d : d = DropHits(s, c, newest)
  OBVIOUS
<1>4. c \in Nat /\ cut \in Int /\ s \in Seq(Nat) /\ Ascending(s)
  BY <1>1, <1>2, Numbers
<1>5. PICK n \in 0..c : Prune(d, cut) = DropHits(Prune(s, cut), n, newest)
  BY <1>3, <1>4, DropPruned
<1>6. d \in Seq(Nat) /\ Ascending(d) /\ \A i \in DOMAIN d : d[i] <= now
  <2>1. /\ d \in Seq(Nat) /\ Ascending(d)
        /\ \A m \in Nat : (\A i \in DOMAIN s : s[i] <= m) => \A i \in DOMAIN d : d[i] <= m
    BY <1>3, <1>4, DropPruned
  <2> QED BY <1>1, <1>2, <2>1
<1>7. /\ View(k) = IF Has(k) /\ ~ WallOver(k) THEN Used(Prune(s, cut), 0, w) ELSE Unused
  BY <1>2, HitsShown
<1>8. CASE ~ Has(k) \/ s = << >>
  <2>1. UNCHANGED <<order, entry>>
    BY <1>2, <1>8 DEF DecrementSliding
  <2> QED BY <2>1, StaysShows, NoBack
<1>9. CASE Has(k) /\ s # << >> /\ WallOver(k)
  <2>1. View(k) = Unused
    BY <1>7, <1>9
  <2>2. CASE d = << >>
    <3>1. Drop({k})
      BY <1>2, <1>3, <1>9, <2>2 DEF DecrementSliding
    <3>2. (\A x \in Keys : View(x)' = IF x \in {k} THEN Unused ELSE View(x)) /\ EntryInv'
      BY <3>1, DropShows
    <3>3. \A x \in Keys : View(x)' = View(x)
      BY <2>1, <3>2
    <3> QED BY <3>2, <3>3, NoBack
  <2>3. CASE d # << >>
    <3>1. PICK e : e = [entry[k] EXCEPT !.stamps = d]
      OBVIOUS
    <3>2. Replace(k, e)
      BY <1>2, <1>3, <1>9, <2>3, <3>1 DEF DecrementSliding
    <3>3. e \in Entries /\ e.stamps = d /\ e.wall = w
      BY <1>1, <1>2, <1>6, <3>1, RestampedFields
    <3>4. Sound(e, now)
      BY <1>6, <3>3 DEF Sound, Sliding, Fixed, Bucket
    <3>5. View(k)' = QuotaOf(e, now) /\ (\A x \in Keys \ {k} : View(x)' = View(x)) /\ EntryInv'
      BY <1>9, <3>2, <3>4, ReplaceShows
    <3>6. QuotaOf(e, now) = Unused
      <4>1. QuotaOf(e, now) = SlidingQuota(e, now)
        BY QuotaIs
      <4> QED BY <1>2, <1>9, <3>3, <4>1 DEF SlidingQuota, WallOver
    <3>7. \A x \in Keys : View(x)' = View(x)
      BY <2>1, <3>5, <3>6
    <3> QED BY <3>5, <3>7, NoBack
  <2> QED BY <2>2, <2>3
<1>10. CASE Has(k) /\ s # << >> /\ ~ WallOver(k)
  <2>1. View(k) = Used(Prune(s, cut), 0, w)
    BY <1>7, <1>10
  <2>2. PICK q : q = Used(DropHits(View(k).hits, n, newest), Greatest(0, View(k).used - n), View(k).at)
    OBVIOUS
  <2>3. q = Used(Prune(d, cut), 0, View(k).at)
    <3>1. View(k).hits = Prune(s, cut) /\ View(k).used = 0
      BY <2>1, UsedFields
    <3>2. Greatest(0, 0 - n) = 0
      BY <1>4, <1>5 DEF Greatest
    <3> QED BY <1>5, <2>2, <3>1, <3>2
  <2>4. q = Used(Prune(d, cut), 0, w)
    <3>1. CASE View(k) # Unused
      <4>1. View(k).at = w
        BY <2>1, <3>1, UsedFields
      <4> QED BY <2>3, <4>1
    <3>2. CASE View(k) = Unused
      <4>1. PICK p : p = Prune(s, cut)
        OBVIOUS
      <4>2. p = << >>
        <5>1. View(k).hits = p /\ Unused.hits = << >>
          BY <2>1, <4>1, UsedFields
        <5> QED BY <3>2, <5>1
      <4>3. Prune(d, cut) = << >>
        <5>1. n \in Nat
          BY <1>4, <1>5
        <5> QED BY <1>5, <4>1, <4>2, <5>1, DropNone
      <4> QED BY <2>3, <4>3 DEF Used
    <3> QED BY <3>1, <3>2
  <2>5. CASE d = << >>
    <3>1. Drop({k})
      BY <1>2, <1>3, <1>10, <2>5 DEF DecrementSliding
    <3>2. (\A x \in Keys : View(x)' = IF x \in {k} THEN Unused ELSE View(x)) /\ EntryInv'
      BY <3>1, DropShows
    <3>3. q = Unused
      <4>1. Prune(d, cut) = << >>
        BY <1>4, <2>5, PruneEmpty
      <4> QED BY <2>4, <4>1, UsedFields
    <3>4. View(k)' = q /\ \A x \in Keys \ {k} : View(x)' = View(x)
      BY <3>2, <3>3
    <3> QED BY <2>2, <3>2, <3>4, GivesBack
  <2>6. CASE d # << >>
    <3>1. PICK e : e = [entry[k] EXCEPT !.stamps = d]
      OBVIOUS
    <3>2. Replace(k, e)
      BY <1>2, <1>3, <1>10, <2>6, <3>1 DEF DecrementSliding
    <3>3. e \in Entries /\ e.stamps = d /\ e.wall = w
      BY <1>1, <1>2, <1>6, <3>1, RestampedFields
    <3>4. Sound(e, now)
      BY <1>6, <3>3 DEF Sound, Sliding, Fixed, Bucket
    <3>5. View(k)' = QuotaOf(e, now) /\ (\A x \in Keys \ {k} : View(x)' = View(x)) /\ EntryInv'
      BY <1>10, <3>2, <3>4, ReplaceShows
    <3>6. QuotaOf(e, now) = Used(Prune(d, cut), 0, w)
      <4>1. QuotaOf(e, now) = SlidingQuota(e, now)
        BY QuotaIs
      <4>2. ~ (w >= 0 /\ now >= w)
        BY <1>2, <1>10 DEF WallOver
      <4> QED BY <1>2, <3>3, <4>1, <4>2 DEF SlidingQuota
    <3>7. View(k)' = q
      BY <2>4, <3>5, <3>6
    <3> QED BY <2>2, <3>5, <3>7, GivesBack
  <2> QED BY <2>5, <2>6
<1> QED BY <1>8, <1>9, <1>10

\* All of the cost is given back.
LEMMA AllBack ==
    ASSUME NEW k \in Keys, NEW c \in Costs, last' = <<"decrement", k>>, UNCHANGED answer,
           NEW u \in Nat, NEW a, View(k) = Used(<< >>, u, a),
           View(k)' = Used(<< >>, Greatest(0, u - c), a),
           \A x \in Keys \ {k} : View(x)' = View(x)
    PROVE  Contract!GiveBack(k, c)
<1>1. c \in Nat /\ c \in 0..c /\ FALSE \in BOOLEAN
  BY Numbers
<1>2. View(k).hits = << >> /\ View(k).used = u
  BY UsedFields
<1>3. DropHits(<< >>, c, FALSE) = << >>
  BY <1>1, DropNone
<1>4. Used(<< >>, Greatest(0, u - c), View(k).at) = Used(<< >>, Greatest(0, u - c), a)
  <2>1. CASE u = 0
    <3>1. Greatest(0, u - c) = 0
      BY <1>1, <2>1 DEF Greatest
    <3> QED BY <3>1, UsedFields
  <2>2. CASE u # 0
    <3>1. View(k).at = a
      BY <2>2 DEF Used
    <3> QED BY <3>1
  <2> QED BY <2>1, <2>2
<1>5. View(k)' = Used(DropHits(View(k).hits, c, FALSE), Greatest(0, View(k).used - c), View(k).at)
  BY <1>2, <1>3, <1>4
<1> QED BY <1>1, <1>5, GivesBack

LEMMA DecrementFixedGivesBack ==
    ASSUME StoreInv, NEW k \in Keys, NEW c \in Costs, Fixed, DecrementFixed(k, c),
           last' = <<"decrement", k>>, UNCHANGED <<strategy, now, answer>>
    PROVE  Contract!GiveBack(k, c) /\ EntryInv'
<1>1. /\ now \in Nat /\ c \in Nat /\ entry[k] \in Entries /\ entry[k].stamps = << >>
      /\ entry[k].at \in Int /\ entry[k].at <= now + Window
  <2>1. ~ Sliding
    BY DEF Sliding, Fixed
  <2> QED BY <2>1, EntryOf, EntryIs, Numbers DEF Sound
<1>2. PICK n, a : n = entry[k].count /\ a = entry[k].at
  OBVIOUS
<1>3. n \in Nat /\ View(k) = IF Has(k) /\ ~ (now >= a) THEN Used(<< >>, n, a) ELSE Unused
  BY <1>2, CountShown
<1>4. CASE ~ Has(k) \/ n <= 0
  <2>1. UNCHANGED <<order, entry>>
    BY <1>2, <1>4 DEF DecrementFixed
  <2> QED BY <2>1, StaysShows, NoBack
<1>5. CASE Has(k) /\ ~ (n <= 0) /\ n <= c
  <2>1. Drop({k})
    BY <1>2, <1>5 DEF DecrementFixed
  <2>2. (\A x \in Keys : View(x)' = IF x \in {k} THEN Unused ELSE View(x)) /\ EntryInv'
    BY <2>1, DropShows
  <2>3. CASE now >= a
    <3>1. \A x \in Keys : View(x)' = View(x)
      BY <1>3, <2>2, <2>3
    <3> QED BY <2>2, <3>1, NoBack
  <2>4. CASE ~ (now >= a)
    <3>1. View(k) = Used(<< >>, n, a)
      BY <1>3, <1>5, <2>4
    <3>2. Greatest(0, n - c) = 0
      BY <1>1, <1>3, <1>5 DEF Greatest
    <3>3. View(k)' = Used(<< >>, Greatest(0, n - c), a) /\ \A x \in Keys \ {k} : View(x)' = View(x)
      BY <2>2, <3>2, UsedFields
    <3> QED BY <1>3, <2>2, <3>1, <3>3, AllBack
  <2> QED BY <2>3, <2>4
<1>6. CASE Has(k) /\ ~ (n <= 0) /\ ~ (n <= c)
  <2>1. PICK m \in Nat : m = n - c
    BY <1>1, <1>3, <1>6
  <2>2. PICK e : e = [entry[k] EXCEPT !.count = m]
    OBVIOUS
  <2>3. Replace(k, e)
    BY <1>2, <1>6, <2>1, <2>2 DEF DecrementFixed
  <2>4. e \in Entries /\ e.stamps = << >> /\ e.count = m /\ e.at = a
    BY <1>1, <1>2, <2>1, <2>2, RecountedFields
  <2>5. Sound(e, now)
    BY <1>1, <1>2, <2>4 DEF Sound, Sliding, Fixed, Bucket
  <2>6. View(k)' = QuotaOf(e, now) /\ (\A x \in Keys \ {k} : View(x)' = View(x)) /\ EntryInv'
    BY <1>6, <2>3, <2>5, ReplaceShows
  <2>7. QuotaOf(e, now) = IF now >= a THEN Unused ELSE Used(<< >>, m, a)
    <3>1. QuotaOf(e, now) = FixedQuota(e, now)
      BY QuotaIs
    <3> QED BY <2>4, <3>1 DEF FixedQuota
  <2>8. CASE now >= a
    <3>1. \A x \in Keys : View(x)' = View(x)
      BY <1>3, <2>6, <2>7, <2>8
    <3> QED BY <2>6, <3>1, NoBack
  <2>9. CASE ~ (now >= a)
    <3>1. View(k) = Used(<< >>, n, a)
      BY <1>3, <1>6, <2>9
    <3>2. Greatest(0, n - c) = m
      BY <1>1, <1>3, <1>6, <2>1 DEF Greatest
    <3>3. View(k)' = Used(<< >>, Greatest(0, n - c), a)
      BY <2>6, <2>7, <2>9, <3>2
    <3> QED BY <1>3, <2>6, <3>1, <3>3, AllBack
  <2> QED BY <2>8, <2>9
<1> QED BY <1>4, <1>5, <1>6

LEMMA DecrementBucketGivesBack ==
    ASSUME StoreInv, NEW k \in Keys, NEW c \in Costs, Bucket, DecrementTokenBucket(k, c),
           last' = <<"decrement", k>>, UNCHANGED <<strategy, now, answer>>
    PROVE  Contract!GiveBack(k, c) /\ EntryInv'
<1>1. /\ now \in Nat /\ c \in Nat /\ entry[k] \in Entries /\ entry[k].stamps = << >>
      /\ BucketSize \in Nat
  <2>1. ~ Sliding
    BY DEF Sliding, Bucket
  <2> QED BY <2>1, EntryOf, EntryIs, Numbers DEF Sound
<1>2. PICK n, a : n = entry[k].count /\ a = entry[k].at
  OBVIOUS
<1>3. PICK r, l : r = Refill(n, a, now).tokens /\ l = Refill(n, a, now).last
  OBVIOUS
<1>4. /\ n \in 0..BucketSize /\ a \in Int /\ a <= now
      /\ View(k) = IF Has(k) THEN Used(<< >>, BucketSize - r, l) ELSE Unused
  BY <1>2, <1>3, TokensShown
<1>5. r \in 0..BucketSize
  <2>1. now \in Int
    BY <1>1
  <2> QED BY <1>3, <1>4, <2>1, BucketRefilled
<1>6. CASE ~ Has(k)
  <2>1. UNCHANGED <<order, entry>>
    BY <1>6 DEF DecrementTokenBucket
  <2> QED BY <2>1, StaysShows, NoBack
<1>7. CASE Has(k)
  <2>1. PICK m \in 0..BucketSize : m = Least(BucketSize, n + c)
    BY <1>1, <1>4 DEF Least
  <2>1a. m \in Nat /\ m <= BucketSize
    BY <1>1, <2>1
  <2>2. PICK e : e = [entry[k] EXCEPT !.count = m]
    OBVIOUS
  <2>3. Replace(k, e)
    BY <1>2, <1>7, <2>1, <2>2 DEF DecrementTokenBucket
  <2>4. e \in Entries /\ e.stamps = << >> /\ e.count = m /\ e.at = a
    BY <1>1, <1>2, <2>1a, <2>2, RecountedFields
  <2>5. Sound(e, now)
    BY <1>4, <2>1a, <2>4 DEF Sound, Sliding, Fixed, Bucket
  <2>6. View(k)' = QuotaOf(e, now) /\ (\A x \in Keys \ {k} : View(x)' = View(x)) /\ EntryInv'
    BY <1>7, <2>3, <2>5, ReplaceShows
  <2>7. Refill(m, a, now).tokens = Least(BucketSize, r + c) /\ Refill(m, a, now).last = l
    <3>1. now \in Int
      BY <1>1
    <3> QED BY <1>1, <1>3, <1>4, <2>1, <3>1, RefillMore
  <2>8. QuotaOf(e, now) = Used(<< >>, BucketSize - Least(BucketSize, r + c), l)
    <3>1. QuotaOf(e, now) = BucketQuota(e, now)
      BY QuotaIs
    <3> QED BY <2>4, <2>7, <3>1 DEF BucketQuota
  <2>9. PICK u \in Nat : u = BucketSize - r
    BY <1>1, <1>5
  <2>10. BucketSize - Least(BucketSize, r + c) = Greatest(0, u - c)
    BY <1>1, <1>5, <2>9 DEF Least, Greatest
  <2>11. View(k) = Used(<< >>, u, l) /\ View(k)' = Used(<< >>, Greatest(0, u - c), l)
    BY <1>4, <1>7, <2>6, <2>8, <2>9, <2>10
  <2> QED BY <2>6, <2>11, AllBack
<1> QED BY <1>6, <1>7

LEMMA DecrementGivesBack ==
    ASSUME StoreInv, NEW k \in Keys, NEW c \in Costs, Decrement(k, c)
    PROVE  Contract!GiveBack(k, c) /\ EntryInv'
<1>1. last' = <<"decrement", k>> /\ UNCHANGED <<strategy, now, answer>>
  BY DEF Decrement
<1>2. \/ Sliding /\ \E newest \in BOOLEAN : DecrementSliding(k, c, newest)
      \/ Fixed /\ DecrementFixed(k, c)
      \/ Bucket /\ DecrementTokenBucket(k, c)
  BY DEF Decrement
<1> QED BY <1>1, <1>2, DecrementSlidingGivesBack, DecrementFixedGivesBack, DecrementBucketGivesBack

-----------------------------------------------------------------------------
(* Clearing and setting                                                    *)

LEMMA DropClears ==
    ASSUME StoreInv, NEW keys, Drop(keys), last' = <<"clear", keys>>,
           UNCHANGED <<strategy, now, answer>>
    PROVE  Contract!Clear(keys) /\ EntryInv'
<1>1. (\A x \in Keys : View(x)' = IF x \in keys THEN Unused ELSE View(x)) /\ EntryInv'
  BY DropShows
<1> QED BY <1>1, Clears

LEMMA ResetClears ==
    ASSUME StoreInv, NEW k \in Keys, Reset(k)
    PROVE  Contract!Clear({k}) /\ EntryInv'
<1>1. last' = <<"clear", {k}>> /\ UNCHANGED <<strategy, now, answer>>
  BY DEF Reset
<1>2. CASE Sliding /\ Drop({k})
  BY <1>1, <1>2, DropClears
<1>3. CASE /\ ~ Sliding
           /\ Put(order, k, IF Fixed THEN Counter(0, now + Window) ELSE Counter(BucketSize, now),
                  FALSE)
  <2>1. /\ now \in Nat /\ Window \in Nat /\ Window > 0 /\ BucketSize \in Nat /\ Interval > 0
        /\ Interval \in Nat /\ (Fixed \/ Bucket) /\ ~ (Fixed /\ Bucket)
    BY <1>3, EntryOf, Numbers DEF Sliding, Fixed, Bucket
  <2>2. PICK e : e = IF Fixed THEN Counter(0, now + Window) ELSE Counter(BucketSize, now)
    OBVIOUS
  <2>3. Sound(e, now) /\ QuotaOf(e, now) = Unused
    <3>1. CASE Fixed
      <4>1. e \in Entries /\ e.stamps = << >> /\ e.count = 0 /\ e.at = now + Window
        <5>1. 0 \in Nat /\ now + Window \in Int
          BY <2>1
        <5> QED BY <2>2, <3>1, <5>1, CounterFields
      <4>2. Sound(e, now)
        BY <1>3, <2>1, <3>1, <4>1 DEF Sound
      <4>3. QuotaOf(e, now) = FixedQuota(e, now)
        BY <3>1, QuotaIs
      <4>4. QuotaOf(e, now) = Unused
        BY <4>1, <4>3, UsedFields DEF FixedQuota
      <4> QED BY <4>2, <4>4
    <3>2. CASE Bucket
      <4>1. e \in Entries /\ e.stamps = << >> /\ e.count = BucketSize /\ e.at = now
        <5>1. now \in Int
          BY <2>1
        <5> QED BY <2>1, <2>2, <3>2, <5>1, CounterFields
      <4>2. Sound(e, now)
        BY <1>3, <2>1, <3>2, <4>1 DEF Sound
      <4>3. QuotaOf(e, now) = BucketQuota(e, now)
        BY <3>2, QuotaIs
      <4>4. Refill(BucketSize, now, now).tokens = BucketSize
        <5>1. BucketSize \in Int /\ now \in Int /\ now <= now /\ now < now + Interval
          BY <2>1
        <5> QED BY <5>1, RefillNothing
      <4>5. BucketSize - BucketSize = 0
        BY <2>1
      <4>6. QuotaOf(e, now) = Unused
        BY <4>1, <4>3, <4>4, <4>5, UsedFields DEF BucketQuota
      <4> QED BY <4>2, <4>6
    <3> QED BY <2>1, <3>1, <3>2
  <2>4. Put(order, k, e, FALSE) /\ FALSE \in BOOLEAN
    BY <1>3, <2>2
  <2>5. View(k)' = QuotaOf(e, now) /\ (\A x \in Keys \ {k} : View(x)' = View(x)) /\ EntryInv'
    BY <1>1, <2>3, <2>4, PutShows
  <2>6. \A x \in Keys : View(x)' = IF x \in {k} THEN Unused ELSE View(x)
    BY <2>3, <2>5
  <2> QED BY <1>1, <2>5, <2>6, Clears
<1> QED BY <1>2, <1>3 DEF Reset

LEMMA SetAssigns ==
    ASSUME StoreInv, NEW k \in Keys, NEW n \in 0..MaxSet, NEW expires \in {-1, now + 1},
           Set(k, n, expires)
    PROVE  Contract!Assign(k, n) /\ EntryInv'
<1>1. last' = <<"set", k>> /\ UNCHANGED <<strategy, now, answer>>
  BY DEF Set
<1>2. /\ now \in Nat /\ Window \in Nat /\ Window > 0 /\ BucketSize \in Nat /\ Interval > 0
      /\ Interval \in Nat /\ n \in Nat /\ expires \in Int /\ now - Window \in Int
  BY EntryOf, Numbers
<1>3. PICK e : e = CASE Sliding -> SetSliding(n, expires)
                     [] Fixed -> SetFixed(n, expires)
                     [] Bucket -> SetTokenBucket(n, expires)
  OBVIOUS
<1>4. PICK v \in BOOLEAN : v <=> maxKeys > 0
  OBVIOUS
<1>5. Put(EnsureRoom(k), k, e, v)
  BY <1>3, <1>4 DEF Set, Put
<1>6. PICK end : end = IF expires >= 0 THEN expires ELSE IF Sliding THEN -1 ELSE now + Window
  OBVIOUS
<1>7. end \in {-1} \union (now + 1)..(now + Window) /\ (Fixed => end > now /\ end <= now + Window)
  <2>1. CASE expires = -1
    <3>1. end = IF Sliding THEN -1 ELSE now + Window
      BY <1>6, <2>1
    <3>2. now + Window \in (now + 1)..(now + Window) /\ now + Window > now
      BY <1>2
    <3> QED BY <1>2, <3>1, <3>2 DEF Sliding, Fixed
  <2>2. CASE expires = now + 1
    <3>1. end = now + 1
      BY <1>2, <1>6, <2>2
    <3>2. now + 1 \in (now + 1)..(now + Window) /\ now + 1 > now /\ now + 1 <= now + Window
      BY <1>2
    <3> QED BY <3>1, <3>2
  <2> QED BY <2>1, <2>2
<1>8. PICK q : q = QuotaOf(e, now)
  OBVIOUS
<1>9. ASSUME Sliding PROVE Sound(e, now) /\ q = Used(Copies(n, now), 0, end)
  <2>1. e = Stamps(Copies(n, now), expires)
    BY <1>3, <1>9 DEF SetSliding, Sliding, Fixed, Bucket
  <2>2. /\ Copies(n, now) \in Seq(Nat) /\ Ascending(Copies(n, now))
        /\ \A i \in DOMAIN Copies(n, now) : Copies(n, now)[i] <= now
        /\ Prune(Copies(n, now), now - Window) = Copies(n, now)
    <3>1. now - Window < now
      BY <1>2
    <3> QED BY <1>2, <3>1, CopiesAre, OnlyHits
  <2>3. e \in Entries /\ e.stamps = Copies(n, now) /\ e.wall = expires
    BY <1>2, <2>1, <2>2, StampsFields
  <2>4. Sound(e, now)
    BY <1>9, <2>2, <2>3 DEF Sound, Sliding, Fixed, Bucket
  <2>5. expires = end /\ ~ (expires >= 0 /\ now >= expires)
    <3>1. CASE expires = -1
      BY <1>6, <1>9, <3>1
    <3>2. CASE expires = now + 1
      BY <1>2, <1>6, <3>2
    <3> QED BY <3>1, <3>2
  <2>6. QuotaOf(e, now) = SlidingQuota(e, now)
    BY <1>9, QuotaIs
  <2>7. q = Used(Copies(n, now), 0, end)
    BY <1>8, <2>2, <2>3, <2>5, <2>6 DEF SlidingQuota
  <2> QED BY <2>4, <2>7
<1>10. ASSUME Fixed PROVE Sound(e, now) /\ q = Used(<< >>, n, end)
  <2>1. e = Counter(n, end)
    BY <1>3, <1>6, <1>10 DEF SetFixed, Sliding, Fixed, Bucket
  <2>2. end \in Int /\ end > now /\ end <= now + Window
    BY <1>2, <1>7, <1>10
  <2>3. e \in Entries /\ e.stamps = << >> /\ e.count = n /\ e.at = end
    BY <1>2, <2>1, <2>2, CounterFields
  <2>4. Sound(e, now)
    BY <1>10, <2>2, <2>3 DEF Sound, Sliding, Fixed, Bucket
  <2>5. QuotaOf(e, now) = FixedQuota(e, now)
    BY <1>10, QuotaIs
  <2>6. q = Used(<< >>, n, end)
    BY <1>2, <1>8, <2>2, <2>3, <2>5 DEF FixedQuota
  <2> QED BY <2>4, <2>6
<1>11. ASSUME Bucket PROVE Sound(e, now) /\ q = Used(<< >>, Least(n, BucketSize), now)
  <2>1. PICK m \in 0..BucketSize : m = TokensAfterSet(n)
    BY <1>2 DEF TokensAfterSet
  <2>2. e = Counter(m, now)
    BY <1>3, <1>11, <2>1 DEF SetTokenBucket, Sliding, Fixed, Bucket
  <2>3. m \in Nat /\ m <= BucketSize /\ now \in Int
    BY <1>2, <2>1
  <2>4. e \in Entries /\ e.stamps = << >> /\ e.count = m /\ e.at = now
    BY <2>2, <2>3, CounterFields
  <2>5. Sound(e, now)
    BY <1>2, <1>11, <2>3, <2>4 DEF Sound, Sliding, Fixed, Bucket
  <2>6. QuotaOf(e, now) = BucketQuota(e, now)
    BY <1>11, QuotaIs
  <2>7. Refill(m, now, now).tokens = m /\ Refill(m, now, now).last = now
    <3>1. m \in Int /\ now <= now /\ now < now + Interval
      BY <1>2, <2>3
    <3> QED BY <2>3, <3>1, RefillNothing
  <2>8. BucketSize - m = Least(n, BucketSize)
    BY <1>2, <2>1 DEF TokensAfterSet, Least
  <2>9. q = Used(<< >>, Least(n, BucketSize), now)
    BY <1>8, <2>4, <2>6, <2>7, <2>8 DEF BucketQuota
  <2> QED BY <2>5, <2>9
<1>12. Sliding \/ Fixed \/ Bucket
  BY EntryOf DEF Sliding, Fixed, Bucket
<1>13. Sound(e, now)
  BY <1>9, <1>10, <1>11, <1>12
<1>14. /\ View(k)' = q
       /\ \A x \in Keys \ {k} : \/ View(x)' = View(x)
                                \/ View(x)' = Unused /\ View(k) = Unused
       /\ EntryInv'
  BY <1>1, <1>5, <1>8, <1>13, PutShows
<1>15. Contract!Becomes(k, q)
  BY <1>14, BecomesIs
<1>16. \/ Sliding /\ q = Used(Copies(n, now), 0, end)
       \/ Fixed /\ q = Used(<< >>, n, end)
       \/ Bucket /\ q = Used(<< >>, Least(n, BucketSize), now)
  BY <1>9, <1>10, <1>11, <1>12
<1> QED BY <1>1, <1>7, <1>14, <1>15, <1>16, Assigns

-----------------------------------------------------------------------------
(* What does not show                                                      *)

LEMMA OverShows == ASSUME StoreInv, NEW k \in Keys, WallOver(k) PROVE Has(k) /\ View(k) = Unused
BY HitsShown DEF WallOver

LEMMA TouchShows ==
    ASSUME StoreInv, NEW k \in Keys, Has(k), Touch(k), UNCHANGED <<strategy, now>>
    PROVE  (\A x \in Keys : View(x)' = View(x)) /\ EntryInv'
<1>1. PICK t : t = IF maxKeys = 0 THEN order ELSE Append(Without(order, {k}), k)
  OBVIOUS
<1>2. order' = t /\ UNCHANGED entry
  BY <1>1 DEF Touch
<1>3. Elems(t) = Elems(order)
  <2>1. CASE maxKeys = 0
    BY <1>1, <2>1
  <2>2. CASE maxKeys # 0
    <3>1. t = Append(Without(order, {k}), k)
      BY <1>1, <2>2
    <3>2. order \in Seq(Keys) /\ IsInjective(order)
      BY DEF StoreInv, MapInv
    <3>3. Elems(t) = Elems(order) \union {k}
      BY <3>1, <3>2, MoveToEnd
    <3>4. k \in Elems(order)
      BY HasIs
    <3> QED BY <3>3, <3>4
  <2> QED BY <2>1, <2>2
<1>4. \A x \in Keys : Has(x)' <=> Has(x)
  BY <1>2, <1>3, HasNext, HasIs
<1> QED BY <1>2, <1>4, SameShows

LEMMA GetShows ==
    ASSUME StoreInv, NEW k \in Keys, Get(k)
    PROVE  (\A x \in Keys : View(x)' = View(x)) /\ EntryInv'
<1>1. UNCHANGED <<strategy, now>>
  BY DEF Get
<1>2. \/ WallOver(k) /\ Drop({k})
      \/ Has(k) /\ Touch(k)
      \/ UNCHANGED <<order, entry>>
  BY DEF Get, GetSlidingReadOnly, GetFixedReadOnly, GetTokenBucketReadOnly
<1>3. CASE WallOver(k) /\ Drop({k})
  <2>1. (\A x \in Keys : View(x)' = IF x \in {k} THEN Unused ELSE View(x)) /\ EntryInv'
    BY <1>1, <1>3, DropShows
  <2>2. View(k) = Unused
    BY <1>3, OverShows
  <2> QED BY <2>1, <2>2
<1>4. CASE Has(k) /\ Touch(k)
  BY <1>1, <1>4, TouchShows
<1>5. CASE UNCHANGED <<order, entry>>
  BY <1>1, <1>5, StaysShows
<1> QED BY <1>2, <1>3, <1>4, <1>5

LEMMA GetActiveKeysShows ==
    ASSUME StoreInv, GetActiveKeys
    PROVE  (\A x \in Keys : View(x)' = View(x)) /\ EntryInv'
<1>1. PICK keys : keys = {k \in Keys : WallOver(k)}
  OBVIOUS
<1>2. Drop(keys) /\ UNCHANGED <<strategy, now>>
  BY <1>1 DEF GetActiveKeys
<1>3. (\A x \in Keys : View(x)' = IF x \in keys THEN Unused ELSE View(x)) /\ EntryInv'
  BY <1>2, DropShows
<1>4. \A x \in Keys : x \in keys => View(x) = Unused
  BY <1>1, OverShows
<1> QED BY <1>3, <1>4

\* What the cleanup timer removes has no hits that a client sees.
LEMMA ExpiredShows ==
    ASSUME StoreInv, NEW k \in Keys, IsEntryExpired(k)
    PROVE  View(k) = Unused
<1>1. now \in Nat /\ strategy \in {"SLIDING_WINDOW", "FIXED_WINDOW", "TOKEN_BUCKET"}
  BY EntryOf
<1>2. ASSUME Sliding PROVE View(k) = Unused
  <2>1. WallOver(k) \/ Prune(entry[k].stamps, now - Window) = << >>
    BY <1>2 DEF IsEntryExpired, Sliding, Fixed, Bucket
  <2> QED BY <1>2, <2>1, HitsShown, UsedFields
<1>3. ASSUME Fixed PROVE View(k) = Unused
  <2>1. now >= entry[k].at
    BY <1>3 DEF IsEntryExpired, Sliding, Fixed, Bucket
  <2> QED BY <1>3, <2>1, CountShown
<1>4. ASSUME Bucket PROVE View(k) = Unused
  <2>1. entry[k].count >= BucketSize
    BY <1>4 DEF IsEntryExpired, IsBucketIdleFullPurgeable, Sliding, Fixed, Bucket
  <2>2. PICK n, r, l : /\ n = entry[k].count /\ r = Refill(n, entry[k].at, now).tokens
                       /\ l = Refill(n, entry[k].at, now).last
    OBVIOUS
  <2>3. /\ n \in 0..BucketSize /\ entry[k].at \in Int /\ entry[k].at <= now
        /\ View(k) = IF Has(k) THEN Used(<< >>, BucketSize - r, l) ELSE Unused
    BY <1>4, <2>2, TokensShown
  <2>4. r \in 0..BucketSize /\ n <= r
    <3>1. now \in Int
      BY <1>1
    <3> QED BY <2>2, <2>3, <3>1, BucketRefilled
  <2>5. BucketSize - r = 0
    <3>1. BucketSize \in Nat
      BY Numbers
    <3> QED BY <2>1, <2>2, <2>3, <2>4, <3>1
  <2> QED BY <2>3, <2>5, UsedFields
<1> QED BY <1>1, <1>2, <1>3, <1>4 DEF Sliding, Fixed, Bucket

LEMMA PurgeShows ==
    ASSUME StoreInv, Purge
    PROVE  (\A x \in Keys : View(x)' = View(x)) /\ EntryInv'
<1>1. PICK gone : gone = {k \in ToSet(order) : IsEntryExpired(k)}
  OBVIOUS
<1>2. PICK t : t = Without(order, gone)
  OBVIOUS
<1>3. /\ order' = t /\ UNCHANGED <<strategy, now>>
      /\ entry' = [k \in Keys |-> IF k \in gone THEN NoEntry
                                  ELSE [entry[k] EXCEPT !.stamps = Prune(@, now - Window)]]
  BY <1>1, <1>2 DEF Purge
<1>4. Elems(t) = Elems(order) \ gone
  BY <1>2, WithoutIs DEF StoreInv, MapInv
<1>5. \A x \in Keys : Has(x)' <=> (Has(x) /\ x \notin gone)
  BY <1>3, <1>4, HasNext, HasIs
<1>6. PICK cut \in Int : cut = now - Window
  <2>1. now \in Nat
    BY DEF StoreInv, EntryInv
  <2> QED BY <2>1, Numbers
<1>7. ASSUME NEW x \in Keys, x \notin gone
      PROVE  Sound(entry'[x], now) /\ QuotaOf(entry'[x], now) = QuotaOf(entry[x], now)
  <2>1. PICK e, s, d : e = entry[x] /\ s = entry[x].stamps /\ d = Prune(entry[x].stamps, cut)
    OBVIOUS
  <2>2. PICK f : f = [e EXCEPT !.stamps = d]
    OBVIOUS
  <2>3. entry'[x] = f
    BY <1>3, <1>6, <1>7, <2>1, <2>2
  <2>4. e \in Entries /\ s \in Seq(Nat) /\ Sound(e, now) /\ now \in Nat
    BY <2>1, EntryOf, EntryIs
  <2>5. (Sliding => Ascending(s) /\ \A i \in DOMAIN s : s[i] <= now) /\ (~ Sliding => s = << >>)
    BY <2>1, <2>4 DEF Sound
  <2>6. d \in Seq(Nat) /\ (~ Sliding => d = << >>)
        /\ (Sliding => Ascending(d) /\ (\A i \in DOMAIN d : d[i] <= now) /\ Prune(d, cut) = d)
    <3>1. CASE Sliding
      <4>1. cut <= cut
        OBVIOUS
      <4>2. /\ d \in Seq(Nat) /\ Ascending(d) /\ Prune(d, cut) = d
            /\ \A n \in Nat : (\A i \in DOMAIN s : s[i] <= n) => \A i \in DOMAIN d : d[i] <= n
        BY <2>1, <2>4, <2>5, <3>1, <4>1, PruneTwice
      <4> QED BY <2>4, <2>5, <3>1, <4>2
    <3>2. CASE ~ Sliding
      BY <2>1, <2>5, <3>2, EmptyStamps, PruneEmpty
    <3> QED BY <3>1, <3>2
  <2>7. f \in Entries /\ f.stamps = d /\ f.wall = e.wall /\ f.count = e.count /\ f.at = e.at
    BY <2>2, <2>4, <2>6, RestampedFields
  <2>8. Sound(f, now)
    BY <2>4, <2>6, <2>7 DEF Sound
  <2>9. QuotaOf(f, now) = QuotaOf(e, now)
    <3>1. ASSUME Sliding PROVE QuotaOf(f, now) = QuotaOf(e, now)
      <4>1. QuotaOf(f, now) = SlidingQuota(f, now) /\ QuotaOf(e, now) = SlidingQuota(e, now)
        BY <3>1, QuotaIs
      <4> QED BY <1>6, <2>1, <2>6, <2>7, <3>1, <4>1 DEF SlidingQuota
    <3>2. ASSUME Fixed PROVE QuotaOf(f, now) = QuotaOf(e, now)
      <4>1. QuotaOf(f, now) = FixedQuota(f, now) /\ QuotaOf(e, now) = FixedQuota(e, now)
        BY <3>2, QuotaIs
      <4> QED BY <2>7, <4>1 DEF FixedQuota
    <3>3. ASSUME Bucket PROVE QuotaOf(f, now) = QuotaOf(e, now)
      <4>1. QuotaOf(f, now) = BucketQuota(f, now) /\ QuotaOf(e, now) = BucketQuota(e, now)
        BY <3>3, QuotaIs
      <4> QED BY <2>7, <4>1 DEF BucketQuota
    <3> QED BY <3>1, <3>2, <3>3, EntryOf DEF Sliding, Fixed, Bucket
  <2> QED BY <2>1, <2>3, <2>8, <2>9
<1>8. ASSUME NEW x \in Keys, x \in gone
      PROVE  Sound(entry'[x], now) /\ View(x) = Unused
  <2>1. entry'[x] = NoEntry /\ IsEntryExpired(x)
    BY <1>1, <1>3, <1>8
  <2>2. now \in Nat
    BY DEF StoreInv, EntryInv
  <2>3. Sound(NoEntry, now)
    BY <2>2, Numbers, NoEntryFields, EmptyStamps DEF Sound
  <2> QED BY <2>1, <2>3, ExpiredShows
<1>9. ASSUME NEW x \in Keys PROVE View(x)' = View(x)
  <2>1. CASE x \in gone
    BY <1>3, <1>5, <1>8, <2>1, ViewNext
  <2>2. CASE x \notin gone
    <3>1. View(x)' = IF Has(x) THEN QuotaOf(entry'[x], now) ELSE Unused
      BY <1>3, <1>5, <2>2, ViewNext
    <3> QED BY <1>7, <2>2, <3>1, ViewIs
  <2> QED BY <2>1, <2>2
<1>10. \A x \in Keys : Sound(entry'[x], now)
  BY <1>7, <1>8
<1>11. entry' \in [Keys -> Entries]
  <2>1. \A x \in Keys : entry'[x] \in Entries
    BY <1>10 DEF Sound
  <2>2. entry' = [x \in Keys |-> entry'[x]]
    BY <1>3
  <2> QED BY <2>1, <2>2
<1> QED BY <1>3, <1>9, <1>10, <1>11, EntryInvNext DEF StoreInv

-----------------------------------------------------------------------------
(* The clock                                                               *)

\* An entry shows the next tick what the contract makes of the quota it shows now.
LEMMA SlidingAges ==
    ASSUME StoreInv, Sliding, NEW k \in Keys
    PROVE  Contract!At(QuotaOf(entry[k], now), now + 1) = QuotaOf(entry[k], now + 1)
<1>1. /\ now \in Nat /\ entry[k].stamps \in Seq(Nat) /\ entry[k].wall \in Int
      /\ Ascending(entry[k].stamps)
  BY EntryOf, EntryIs DEF Sound
<1>2. PICK s, w : s = entry[k].stamps /\ w = entry[k].wall
  OBVIOUS
<1>3. PICK cut \in Int, next \in Int : cut = now - Window /\ next = (now + 1) - Window
  BY <1>1, Numbers
<1>4. cut <= next
  BY <1>1, <1>3, Numbers
<1>5. PICK p, n : p = Prune(s, cut) /\ n = Prune(s, next)
  OBVIOUS
<1>6. Prune(p, next) = n
  BY <1>1, <1>2, <1>3, <1>4, <1>5, PruneTwice
<1>7. PICK q, r : q = QuotaOf(entry[k], now) /\ r = QuotaOf(entry[k], now + 1)
  OBVIOUS
<1>8. /\ q = IF w >= 0 /\ now >= w THEN Unused ELSE Used(p, 0, w)
      /\ r = IF w >= 0 /\ now + 1 >= w THEN Unused ELSE Used(n, 0, w)
  <2>1. q = SlidingQuota(entry[k], now) /\ r = SlidingQuota(entry[k], now + 1)
    BY <1>7, QuotaIs
  <2>2. now - Window = cut /\ (now + 1) - Window = next
    BY <1>1, <1>3
  <2>3. q = IF w >= 0 /\ now >= w THEN Unused ELSE Used(p, 0, w)
    BY <1>2, <1>5, <2>1, <2>2 DEF SlidingQuota
  <2>4. r = IF w >= 0 /\ now + 1 >= w THEN Unused ELSE Used(n, 0, w)
    BY <1>2, <1>5, <2>1, <2>2 DEF SlidingQuota
  <2> QED BY <2>3, <2>4
<1>9. CASE q = Unused
  <2>1. Contract!At(q, now + 1) = Unused
    BY <1>9, AtIs
  <2>2. r = Unused
    <3>1. CASE w >= 0 /\ now + 1 >= w
      BY <1>8, <3>1
    <3>2. CASE ~ (w >= 0 /\ now + 1 >= w)
      <4>1. ~ (w >= 0 /\ now >= w)
        BY <1>1, <1>2, <3>2
      <4>2. Used(p, 0, w) = Unused
        BY <1>8, <1>9, <4>1
      <4>3. p = << >>
        BY <4>2, UsedFields
      <4>4. n = << >>
        BY <1>3, <1>6, <4>3, PruneEmpty
      <4> QED BY <1>8, <3>2, <4>4, UsedFields
    <3> QED BY <3>1, <3>2
  <2> QED BY <1>7, <2>1, <2>2
<1>10. CASE q # Unused
  <2>1. ~ (w >= 0 /\ now >= w) /\ q = Used(p, 0, w)
    BY <1>8, <1>10
  <2>2. q.hits = p /\ q.at = w
    BY <1>10, <2>1, UsedFields
  <2>3. Contract!At(q, now + 1) = IF q.at >= 0 /\ now + 1 >= q.at THEN Unused
                                  ELSE Used(Prune(q.hits, (now + 1) - Window), 0, q.at)
    BY <1>10, AtIs
  <2>4. Contract!At(q, now + 1) = r
    <3>1. (now + 1) - Window = next
      BY <1>1, <1>3
    <3> QED BY <1>6, <1>8, <2>2, <2>3, <3>1
  <2> QED BY <1>7, <2>4
<1> QED BY <1>9, <1>10

LEMMA FixedAges ==
    ASSUME StoreInv, Fixed, NEW k \in Keys
    PROVE  Contract!At(QuotaOf(entry[k], now), now + 1) = QuotaOf(entry[k], now + 1)
<1>1. now \in Nat /\ entry[k].at \in Int
  BY EntryOf, EntryIs
<1>2. PICK n, a : n = entry[k].count /\ a = entry[k].at
  OBVIOUS
<1>3. PICK q, r : q = QuotaOf(entry[k], now) /\ r = QuotaOf(entry[k], now + 1)
  OBVIOUS
<1>4. /\ q = IF now >= a THEN Unused ELSE Used(<< >>, n, a)
      /\ r = IF now + 1 >= a THEN Unused ELSE Used(<< >>, n, a)
  <2>1. q = FixedQuota(entry[k], now) /\ r = FixedQuota(entry[k], now + 1)
    BY <1>3, QuotaIs
  <2> QED BY <1>2, <2>1 DEF FixedQuota
<1>5. CASE q = Unused
  <2>1. Contract!At(q, now + 1) = Unused
    BY <1>5, AtIs
  <2>2. now >= a => now + 1 >= a
    <3>1. now \in Int /\ a \in Int
      BY <1>1, <1>2
    <3> QED BY <3>1
  <2>3. r = Unused
    BY <1>4, <1>5, <2>2
  <2> QED BY <1>3, <2>1, <2>3
<1>6. CASE q # Unused
  <2>1. q = Used(<< >>, n, a)
    BY <1>4, <1>6
  <2>2. q.at = a
    BY <1>6, <2>1, UsedFields
  <2>3. Contract!At(q, now + 1) = IF now + 1 >= q.at THEN Unused ELSE q
    BY <1>6, AtIs
  <2> QED BY <1>3, <1>4, <2>1, <2>2, <2>3
<1> QED BY <1>5, <1>6

LEMMA BucketAges ==
    ASSUME StoreInv, Bucket, NEW k \in Keys
    PROVE  Contract!At(QuotaOf(entry[k], now), now + 1) = QuotaOf(entry[k], now + 1)
<1>1. now \in Nat /\ BucketSize \in Nat
  BY EntryOf, Numbers
<1>2. PICK n, a : n = entry[k].count /\ a = entry[k].at
  OBVIOUS
<1>3. PICK r, l : r = Refill(n, a, now).tokens /\ l = Refill(n, a, now).last
  OBVIOUS
<1>4. PICK y, z : y = Refill(r, l, now + 1).tokens /\ z = Refill(r, l, now + 1).last
  OBVIOUS
<1>5. n \in 0..BucketSize /\ a \in Int /\ a <= now /\ now \in Int
  BY <1>1, <1>2, TokensShown
<1>6. r \in 0..BucketSize
  BY <1>3, <1>5, BucketRefilled
<1>7. /\ Refill(n, a, now + 1).tokens = y /\ Refill(n, a, now + 1).last = z
      /\ r = BucketSize => y = BucketSize
  BY <1>3, <1>4, <1>5, RefillNext
<1>8. PICK q, v : q = QuotaOf(entry[k], now) /\ v = QuotaOf(entry[k], now + 1)
  OBVIOUS
<1>9. q = Used(<< >>, BucketSize - r, l) /\ v = Used(<< >>, BucketSize - y, z)
  <2>1. q = BucketQuota(entry[k], now) /\ v = BucketQuota(entry[k], now + 1)
    BY <1>8, QuotaIs
  <2> QED BY <1>2, <1>3, <1>7, <2>1 DEF BucketQuota
<1>10. CASE q = Unused
  <2>1. Contract!At(q, now + 1) = Unused
    BY <1>10, AtIs
  <2>2. BucketSize - r = 0
    <3>1. q.used = BucketSize - r /\ Unused.used = 0
      BY <1>9, UsedFields
    <3> QED BY <1>10, <3>1
  <2>3. BucketSize - y = 0
    <3>1. r = BucketSize
      BY <1>1, <1>6, <2>2
    <3> QED BY <1>1, <1>7, <3>1
  <2>4. v = Unused
    BY <1>9, <2>3, UsedFields
  <2> QED BY <1>8, <2>1, <2>4
<1>11. CASE q # Unused
  <2>1. q.used = BucketSize - r /\ q.at = l
    BY <1>9, <1>11, UsedFields
  <2>2. BucketSize - q.used = r
    BY <1>1, <1>6, <2>1
  <2>3. Contract!At(q, now + 1)
          = Used(<< >>, BucketSize - Refill(BucketSize - q.used, q.at, now + 1).tokens,
                 Refill(BucketSize - q.used, q.at, now + 1).last)
    BY <1>11, AtIs
  <2> QED BY <1>4, <1>8, <1>9, <2>1, <2>2, <2>3
<1> QED BY <1>10, <1>11

LEMMA TickAges ==
    ASSUME StoreInv, Tick
    PROVE  Contract!Tick /\ EntryInv'
<1>1. now' = now + 1 /\ UNCHANGED <<strategy, order, entry, last, answer>>
  BY DEF Tick
<1>2. /\ strategy \in {"SLIDING_WINDOW", "FIXED_WINDOW", "TOKEN_BUCKET"} /\ now \in Nat
      /\ now + 1 \in Nat /\ entry \in [Keys -> Entries]
  BY DEF StoreInv, EntryInv
<1>3. ASSUME NEW x \in Keys PROVE View(x)' = Contract!At(View(x), now')
  <2>1. Has(x)' <=> Has(x)
    BY <1>1 DEF Has, Contains
  <2>2. View(x)' = IF Has(x) THEN QuotaOf(entry[x], now + 1) ELSE Unused
    BY <1>1, <2>1, ViewNext
  <2>3. Contract!At(QuotaOf(entry[x], now), now + 1) = QuotaOf(entry[x], now + 1)
    BY <1>2, SlidingAges, FixedAges, BucketAges DEF Sliding, Fixed, Bucket
  <2>4. Contract!At(Unused, now + 1) = Unused
    BY AtIs
  <2> QED BY <1>1, <2>2, <2>3, <2>4, ViewIs
<1>4. [x \in Keys |-> View(x)]' = [x \in Keys |-> Contract!At([y \in Keys |-> View(y)][x], now')]
  BY <1>3
<1>5. Contract!Tick
  BY <1>1, <1>4 DEF Contract!Tick
<1>6. ASSUME NEW x \in Keys PROVE Sound(entry[x], now)'
  <2>1. Sound(entry[x], now)
    BY EntryOf
  <2>2. entry[x].stamps \in Seq(Nat) /\ entry[x].at \in Int
    BY EntryOf, EntryIs
  <2>3. \A i \in DOMAIN entry[x].stamps : entry[x].stamps[i] \in Nat
    BY <2>2
  <2> QED BY <1>1, <1>2, <2>1, <2>2, <2>3, Numbers DEF Sound, Sliding, Fixed, Bucket
<1>7. EntryInv'
  BY <1>1, <1>2, <1>6 DEF EntryInv
<1> QED BY <1>5, <1>7

-----------------------------------------------------------------------------
(* MemoryStore implements the contract of a store                          *)

\* A call that changes no quota is a step in which nothing happens.
LEMMA NothingShows ==
    ASSUME \A x \in Keys : View(x)' = View(x), UNCHANGED <<strategy, last, answer, now>>
    PROVE  UNCHANGED Contract!vars
<1>1. [x \in Keys |-> View(x)]' = [x \in Keys |-> View(x)]
  OBVIOUS
<1> QED BY <1>1 DEF Contract!vars

LEMMA NextImplements ==
    ASSUME StoreInv, [Next]_vars
    PROVE  [Contract!Next]_(Contract!vars) /\ StoreInv'
<1>0. MapInv'
  BY NextKeeps DEF StoreInv
<1>1. CASE UNCHANGED vars
  <2>1. UNCHANGED <<order, entry, strategy, now, last, answer>>
    BY <1>1 DEF vars
  <2>2. (\A x \in Keys : View(x)' = View(x)) /\ EntryInv'
    BY <2>1, StaysShows
  <2> QED BY <1>0, <2>1, <2>2, NothingShows DEF StoreInv
<1>2. ASSUME NEW k \in Keys, NEW c \in Costs, Increment(k, c)
      PROVE  Contract!Next /\ EntryInv'
  <2>1. Contract!Take(k, c) /\ EntryInv'
    BY <1>2, IncrementTakes
  <2>2. UNCHANGED <<strategy, now>>
    BY <1>2 DEF Increment
  <2> QED BY <2>1, <2>2 DEF Contract!Next
<1>3. ASSUME NEW k \in Keys, NEW c \in Costs, Decrement(k, c)
      PROVE  Contract!Next /\ EntryInv'
  <2>1. Contract!GiveBack(k, c) /\ EntryInv'
    BY <1>3, DecrementGivesBack
  <2>2. UNCHANGED <<strategy, now>>
    BY <1>3 DEF Decrement
  <2> QED BY <2>1, <2>2 DEF Contract!Next
<1>4. ASSUME NEW k \in Keys, Reset(k) \/ Delete(k)
      PROVE  Contract!Next /\ EntryInv'
  <2>1. UNCHANGED <<strategy, now>>
    BY <1>4 DEF Reset, Delete
  <2>2. CASE Reset(k)
    <3>1. Contract!Clear({k}) /\ EntryInv'
      BY <2>2, ResetClears
    <3> QED BY <2>1, <3>1 DEF Contract!Next
  <2>3. CASE Delete(k)
    <3>1. Drop({k}) /\ last' = <<"clear", {k}>> /\ UNCHANGED answer
      BY <2>3 DEF Delete
    <3>2. Contract!Clear({k}) /\ EntryInv'
      BY <2>1, <3>1, DropClears
    <3> QED BY <2>1, <3>2 DEF Contract!Next
  <2> QED BY <1>4, <2>2, <2>3
<1>5. ASSUME NEW k \in Keys, NEW n \in 0..MaxSet, NEW e \in {-1, now + 1}, Set(k, n, e)
      PROVE  Contract!Next /\ EntryInv'
  <2>1. Contract!Assign(k, n) /\ EntryInv'
    BY <1>5, SetAssigns
  <2>2. UNCHANGED <<strategy, now>>
    BY <1>5 DEF Set
  <2> QED BY <2>1, <2>2 DEF Contract!Next
<1>6. ASSUME ResetAll \/ Shutdown
      PROVE  Contract!Next /\ EntryInv'
  <2>1. Drop(Keys) /\ last' = <<"clear", Keys>> /\ UNCHANGED <<strategy, now, answer>>
    BY <1>6 DEF ResetAll, Shutdown
  <2>2. Contract!Clear(Keys) /\ EntryInv'
    BY <2>1, DropClears
  <2> QED BY <2>1, <2>2 DEF Contract!Next
<1>7. ASSUME (\E k \in Keys : Get(k)) \/ GetActiveKeys \/ Purge
      PROVE  UNCHANGED Contract!vars /\ EntryInv'
  <2>1. UNCHANGED <<strategy, now, last, answer>>
    BY <1>7 DEF Get, GetActiveKeys, Purge
  <2>2. (\A x \in Keys : View(x)' = View(x)) /\ EntryInv'
    BY <1>7, GetShows, GetActiveKeysShows, PurgeShows
  <2> QED BY <2>1, <2>2, NothingShows
<1>8. ASSUME Tick
      PROVE  Contract!Next /\ EntryInv'
  <2>1. UNCHANGED strategy
    BY <1>8 DEF Tick
  <2> QED BY <1>8, <2>1, TickAges DEF Contract!Next
<1>9. CASE Next
  <2>1. (Contract!Next \/ UNCHANGED Contract!vars) /\ EntryInv'
    BY <1>2, <1>3, <1>4, <1>5, <1>6, <1>7, <1>8, <1>9 DEF Next
  <2> QED BY <1>0, <2>1 DEF StoreInv
<1> QED BY <1>1, <1>9

LEMMA InitImplements == Init => Contract!Init /\ StoreInv
<1> SUFFICES ASSUME Init PROVE Contract!Init /\ StoreInv
  OBVIOUS
<1>1. /\ strategy \in {"SLIDING_WINDOW", "FIXED_WINDOW", "TOKEN_BUCKET"}
      /\ order = << >> /\ entry = [k \in Keys |-> NoEntry]
      /\ last = <<"none">> /\ answer = "none" /\ now = 0
  BY DEF Init
<1>2. \A x : ~ Has(x)
  BY <1>1 DEF Has, Contains
<1>3. Contract!Free = Unused /\ \A x \in Keys : View(x) = Unused
  BY <1>2, ContractOps, ViewIs
<1>4. Contract!Init
  BY <1>1, <1>3 DEF Contract!Init
<1>5. 0 \in Nat /\ Sound(NoEntry, 0)
  BY Numbers, NoEntryFields, EmptyStamps DEF Sound
<1>6. EntryInv
  BY <1>1, <1>5, NoEntryFields DEF EntryInv
<1> QED BY <1>4, <1>6, InitHolds DEF StoreInv

\* Whatever the keys, the costs, the cap and the limits, and whatever the order of calls,
\* evictions, purges and ticks of the clock, a MemoryStore is a store in which every key
\* has a quota of its own: cleanup(), get() and the order of the Map never show.
THEOREM StoreImplements == Spec => ImplementsContract
<1>1. Init => Contract!Init /\ StoreInv
  BY InitImplements
<1>2. StoreInv /\ [Next]_vars => [Contract!Next]_(Contract!vars) /\ StoreInv'
  BY NextImplements
<1> QED BY <1>1, <1>2, PTL DEF Spec, ImplementsContract, Contract!Spec

=============================================================================
