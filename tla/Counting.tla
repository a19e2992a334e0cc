------------------------------ MODULE Counting ------------------------------
(***************************************************************************)
(* How many elements of a sequence lie in a set, as a queue takes elements *)
(* and gives them up: the counting that the proofs about queues and jobs   *)
(* rest on.                                                                *)
(***************************************************************************)
EXTENDS Integers, Sequences, FiniteSets, Jobs, FiniteSetTheorems, TLAPS

Places(s, E) == {i \in 1..Len(s) : s[i] \in E}
Count(s, E) == Cardinality(Places(s, E))

(* A count is a natural number.                                            *)
LEMMA CountType ==
    ASSUME NEW S, NEW s \in Seq(S), NEW E
    PROVE  IsFiniteSet(Places(s, E)) /\ Count(s, E) \in Nat
<1>1. IsFiniteSet(1..Len(s))
  BY FS_Interval
<1>2. IsFiniteSet(Places(s, E))
  BY <1>1, FS_Subset DEF Places
<1> QED  BY <1>2, FS_CardinalityType DEF Count

(* A count is zero exactly when no element lies in the set.                *)
LEMMA CountZero ==
    ASSUME NEW S, NEW s \in Seq(S), NEW E
    PROVE  Count(s, E) = 0 <=> \A i \in 1..Len(s) : s[i] \notin E
<1>1. Count(s, E) = 0 <=> Places(s, E) = {}
  BY CountType, FS_EmptySet DEF Count
<1> QED  BY <1>1 DEF Places

(* An empty sequence has nothing to count.                                 *)
LEMMA CountEmpty ==
    ASSUME NEW E
    PROVE  Count(<<>>, E) = 0
<1>1. Places(<<>>, E) = {}
  BY DEF Places
<1> QED  BY <1>1, FS_EmptySet DEF Count

(* A set of places, cut in two.                                            *)
LEMMA DisjointCardinality ==
    ASSUME NEW A, NEW B, IsFiniteSet(A), IsFiniteSet(B), A \cap B = {}
    PROVE  Cardinality(A \cup B) = Cardinality(A) + Cardinality(B)
<1>1. Cardinality(A \cup B)
        = Cardinality(A) + Cardinality(B) - Cardinality(A \cap B)
  BY FS_Union
<1>2. Cardinality(A \cap B) = 0
  BY FS_EmptySet
<1>3. Cardinality(A) \in Nat /\ Cardinality(B) \in Nat
  BY FS_CardinalityType
<1> QED  BY <1>1, <1>2, <1>3

(* A concatenation counts what its parts count: places move by the length  *)
(* of what stands before them.                                             *)
LEMMA CountConcat ==
    ASSUME NEW S, NEW s \in Seq(S), NEW t \in Seq(S), NEW E
    PROVE  Count(s \o t, E) = Count(s, E) + Count(t, E)
<1> DEFINE moved == {i \in (Len(s) + 1)..(Len(s) + Len(t)) :
                        t[i - Len(s)] \in E}
<1>0. Len(s) \in Nat /\ Len(t) \in Nat /\ Len(s \o t) = Len(s) + Len(t)
  OBVIOUS
<1>1. Places(s \o t, E) = Places(s, E) \cup moved
  <2>1. \A i \in 1..Len(s) : (s \o t)[i] = s[i]
    OBVIOUS
  <2>2. \A i \in (Len(s) + 1)..(Len(s) + Len(t)) :
            (s \o t)[i] = t[i - Len(s)]
    OBVIOUS
  <2>3. 1..Len(s \o t) = 1..Len(s) \cup (Len(s) + 1)..(Len(s) + Len(t))
    BY <1>0
  <2> QED  BY <2>1, <2>2, <2>3 DEF Places
<1>2. Places(s, E) \cap moved = {}
  BY <1>0 DEF Places
<1>3. IsFiniteSet(moved) /\ Cardinality(moved) = Count(t, E)
  <2> DEFINE f == [i \in Places(t, E) |-> i + Len(s)]
  <2>1. f \in Bijection(Places(t, E), moved)
    <3>1. f \in [Places(t, E) -> moved]
      BY <1>0 DEF Places
    <3>2. \A a, b \in Places(t, E) : f[a] = f[b] => a = b
      BY <1>0 DEF Places
    <3>3. \A b \in moved : \E a \in Places(t, E) : f[a] = b
      <4> TAKE b \in moved
      <4>1. b - Len(s) \in Places(t, E) /\ f[b - Len(s)] = b
        BY <1>0 DEF Places
      <4> QED  BY <4>1
    <3> HIDE DEF f, moved
    <3> QED  BY <3>1, <3>2, <3>3 DEF Bijection, Injection, Surjection,
             IsInjective
  <2>2. ExistsBijection(Places(t, E), moved)
    BY <2>1 DEF ExistsBijection
  <2>3. IsFiniteSet(Places(t, E))
    BY CountType
  <2> QED  BY <2>2, <2>3, FS_Bijection DEF Count
<1>4. IsFiniteSet(Places(s, E))
  BY CountType
<1> HIDE DEF moved
<1> QED  BY <1>1, <1>2, <1>3, <1>4, DisjointCardinality DEF Count

(* One element counts once, if it lies in the set.                         *)
LEMMA CountOne ==
    ASSUME NEW x, NEW E
    PROVE  Count(<<x>>, E) = IF x \in E THEN 1 ELSE 0
<1>1. Places(<<x>>, E) = IF x \in E THEN {1} ELSE {}
  BY DEF Places
<1> QED  BY <1>1, FS_EmptySet, FS_Singleton DEF Count

(* A queue that takes an element.                                          *)
LEMMA CountAppend ==
    ASSUME NEW S, NEW s \in Seq(S), NEW x \in S, NEW E
    PROVE  Count(Append(s, x), E)
             = Count(s, E) + IF x \in E THEN 1 ELSE 0
<1> DEFINE last == <<x>>
<1>1. Append(s, x) = s \o last /\ last \in Seq(S)
  OBVIOUS
<1>2. Count(last, E) = IF x \in E THEN 1 ELSE 0
  BY CountOne
<1> HIDE DEF last
<1>3. Count(s \o last, E) = Count(s, E) + Count(last, E)
  BY <1>1, CountConcat
<1> QED  BY <1>1, <1>2, <1>3

(* A queue that gives up its first element.                                *)
LEMMA CountTail ==
    ASSUME NEW S, NEW s \in Seq(S), s # <<>>, NEW E
    PROVE  Count(s, E)
             = Count(Tail(s), E) + IF Head(s) \in E THEN 1 ELSE 0
<1> DEFINE first == <<Head(s)>>
           rest == Tail(s)
<1>1. first \in Seq(S) /\ rest \in Seq(S) /\ s = first \o rest
  OBVIOUS
<1>2. Count(first, E) = IF Head(s) \in E THEN 1 ELSE 0
  BY CountOne
<1> HIDE DEF first, rest
<1>3. Count(first \o rest, E) = Count(first, E) + Count(rest, E)
  BY <1>1, CountConcat
<1>4. Count(rest, E) \in Nat
  BY <1>1, CountType
<1>5. Count(s, E) = Count(first, E) + Count(rest, E)
  BY <1>1, <1>3
<1>6. Count(s, E) = Count(rest, E) + IF Head(s) \in E THEN 1 ELSE 0
  BY <1>2, <1>4, <1>5
<1> QED  BY <1>6 DEF rest

(* A run of one value counts all or nothing.                               *)
LEMMA CountRun ==
    ASSUME NEW x, NEW n \in Nat, NEW E
    PROVE  /\ [i \in 1..n |-> x] \in Seq({x})
           /\ Count([i \in 1..n |-> x], E) = IF x \in E THEN n ELSE 0
<1> DEFINE s == [i \in 1..n |-> x]
<1>1. s \in Seq({x}) /\ Len(s) = n
  OBVIOUS
<1>2. Places(s, E) = IF x \in E THEN 1..n ELSE {}
  BY <1>1 DEF Places
<1>3. Cardinality(1..n) = n
  BY FS_Interval
<1> HIDE DEF s
<1>4. Count(s, E) = IF x \in E THEN n ELSE 0
  BY <1>2, <1>3, FS_EmptySet DEF Count
<1> QED  BY <1>1, <1>4 DEF s

(* What Without leaves: the elements behind the place move up by one.      *)
LEMMA Removed ==
    ASSUME NEW S, NEW s \in Seq(S), NEW i \in 1..Len(s)
    PROVE  /\ Without(s, i) \in Seq(S) /\ Len(Without(s, i)) = Len(s) - 1
           /\ \A k \in 1..(Len(s) - 1) : Without(s, i)[k]
                = IF k < i THEN s[k] ELSE s[k + 1]
           /\ \A k \in 1..Len(Without(s, i)) :
                 \E j \in 1..Len(s) : j # i /\ Without(s, i)[k] = s[j]
<1>1. PICK left : left = Without(s, i)
  BY Zenon
<1>2. /\ left \in Seq(S) /\ Len(left) = Len(s) - 1
      /\ \A k \in 1..(Len(s) - 1) : left[k] = IF k < i THEN s[k] ELSE s[k + 1]
  BY <1>1 DEF Without
<1>3. ASSUME NEW k \in 1..(Len(s) - 1)
      PROVE  \E j \in 1..Len(s) : j # i /\ left[k] = s[j]
  <2>1. CASE k < i
    BY <1>2, <2>1
  <2>2. CASE ~(k < i)
    <3>1. k + 1 \in 1..Len(s) /\ k + 1 # i /\ left[k] = s[k + 1]
      BY <1>2, <2>2
    <3> QED  BY <3>1
  <2> QED  BY <2>1, <2>2
<1> QED  BY <1>1, <1>2, <1>3

(* What is left was there.                                                 *)
LEMMA RemovedFrom ==
    ASSUME NEW S, NEW s \in Seq(S), NEW i \in 1..Len(s), NEW rest,
           rest = Without(s, i)
    PROVE  \A k \in 1..Len(rest) : \E j \in 1..Len(s) : rest[k] = s[j]
<1>1. \A k \in 1..Len(Without(s, i)) :
        \E j \in 1..Len(s) : j # i /\ Without(s, i)[k] = s[j]
  BY Removed
<1> QED  BY <1>1

(* A list of jobs that loses one.                                          *)
LEMMA CountRemoved ==
    ASSUME NEW S, NEW s \in Seq(S), NEW i \in 1..Len(s), NEW E
    PROVE  Count(s, E)
             = Count(Without(s, i), E) + IF s[i] \in E THEN 1 ELSE 0
<1> DEFINE left == Without(s, i)
           others == Places(s, E) \ {i}
           f == [k \in Places(left, E) |-> IF k < i THEN k ELSE k + 1]
<1>1. /\ left \in Seq(S) /\ Len(left) = Len(s) - 1
      /\ \A k \in 1..(Len(s) - 1) : left[k] = IF k < i THEN s[k] ELSE s[k + 1]
  BY Removed
<1> HIDE DEF left
<1>2. f \in Bijection(Places(left, E), others)
  <2>1. f \in [Places(left, E) -> others]
    BY <1>1 DEF Places
  <2>2. \A a, b \in Places(left, E) : f[a] = f[b] => a = b
    BY <1>1 DEF Places
  <2>3. ASSUME NEW b \in others PROVE \E a \in Places(left, E) : f[a] = b
    <3>0. b \in 1..Len(s) /\ s[b] \in E /\ b # i
      BY DEF Places
    <3>1. CASE b < i
      <4>1. b \in Places(left, E) /\ f[b] = b
        BY <1>1, <3>0, <3>1 DEF Places
      <4> QED  BY <4>1
    <3>2. CASE b > i
      <4>1. /\ b - 1 \in 1..(Len(s) - 1) /\ ~(b - 1 < i) /\ (b - 1) + 1 = b
        BY <3>0, <3>2
      <4>2. b - 1 \in Places(left, E)
        BY <1>1, <3>0, <4>1 DEF Places
      <4>3. f[b - 1] = b
        BY <4>1, <4>2
      <4> QED  BY <4>2, <4>3
    <3> QED  BY <3>0, <3>1, <3>2
  <2> HIDE DEF f, others
  <2> QED  BY <2>1, <2>2, <2>3 DEF Bijection, Injection, Surjection, IsInjective
<1>3. ExistsBijection(Places(left, E), others)
  BY <1>2 DEF ExistsBijection
<1>4. IsFiniteSet(Places(left, E)) /\ IsFiniteSet(Places(s, E))
  BY <1>1, CountType
<1>5. Cardinality(Places(left, E)) = Cardinality(others)
  BY <1>3, <1>4, FS_Bijection
<1>6. Cardinality(others) = IF i \in Places(s, E)
                            THEN Cardinality(Places(s, E)) - 1
                            ELSE Cardinality(Places(s, E))
  BY <1>4, FS_RemoveElement
<1>7. i \in Places(s, E) <=> s[i] \in E
  BY DEF Places
<1>8. Count(left, E) = IF s[i] \in E THEN Count(s, E) - 1 ELSE Count(s, E)
  BY <1>5, <1>6, <1>7 DEF Count
<1>9. Count(s, E) \in Nat
  BY CountType
<1>10. Count(s, E) = Count(left, E) + IF s[i] \in E THEN 1 ELSE 0
  BY <1>8, <1>9
<1> QED  BY <1>10 DEF left
=============================================================================
