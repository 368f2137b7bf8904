---------------------- MODULE IdentityCollection_proofs ----------------------
(***************************************************************************)
(* Proofs about IdentityCollection for every directory, every size of its  *)
(* pages and every limit of a request.                                     *)
(*                                                                         *)
(* What a directory holds is a set of facts.  Every fact is known to the   *)
(* collection, or an item still to be read will tell it, or the collection *)
(* says that it was cut short.                                             *)
(***************************************************************************)
EXTENDS IdentityCollection, Integers, WellFoundedInduction, SequenceTheorems, FiniteSetTheorems,
        TLAPS

-----------------------------------------------------------------------------
(***************************************************************************)
(* Induction and recursion, which the well-foundedness of the naturals     *)
(* gives (WellFoundedInduction), and what they say of a chain of steps.    *)
(***************************************************************************)
\* A set of numbers that holds 0 and the successor of each of its members holds them all.
LEMMA Induction ==
    ASSUME NEW T, 0 \in T, \A n \in Nat : n \in T => n + 1 \in T
    PROVE  Nat \subseteq T
<1> DEFINE R == Nat \ T
<1> SUFFICES ASSUME R # {} PROVE FALSE
  OBVIOUS
<1>1. PICK x \in R : \A y \in R : ~(<<y, x>> \in OpToRel(<, Nat))
  BY NatLessThanWellFounded, WFMin
<1>2. \A y \in R : ~(y < x)
  BY <1>1 DEF OpToRel
<1>3. x # 0 /\ x - 1 \in Nat /\ x - 1 < x /\ (x - 1) + 1 = x
  OBVIOUS
<1> QED
  BY <1>2, <1>3

\* f starts with base and goes on by G.
Follows(f, n, base, G) == f[0] = base /\ \A i \in 1 .. n : f[i] = G[i][f[i - 1]]

\* A function on 0 .. n may be defined by recursion.
LEMMA Recursion ==
    ASSUME NEW n \in Nat, NEW V, NEW base \in V, NEW G \in [1 .. n -> [V -> V]]
    PROVE  \E f \in [0 .. n -> V] : Follows(f, n, base, G)
<1> USE DEF Follows
<1> DEFINE Good(f, m) == Follows(f, m, base, G)
           T == {m \in Nat : m <= n => \E f \in [0 .. m -> V] : Good(f, m)}
<1>1. 0 \in T
  <2> DEFINE f == [i \in 0 .. 0 |-> base]
  <2>1. f \in [0 .. 0 -> V] /\ Good(f, 0)
    OBVIOUS
  <2> QED
    BY <2>1
<1>2. ASSUME NEW m \in Nat, m \in T PROVE m + 1 \in T
  <2> SUFFICES ASSUME m + 1 <= n PROVE \E f \in [0 .. (m + 1) -> V] : Good(f, m + 1)
    OBVIOUS
  <2>1. PICK f \in [0 .. m -> V] : Good(f, m)
    BY <1>2
  <2> DEFINE g == [i \in 0 .. (m + 1) |-> IF i = m + 1 THEN G[m + 1][f[m]] ELSE f[i]]
  <2>2. G[m + 1][f[m]] \in V
    BY <2>1
  <2>3. g \in [0 .. (m + 1) -> V] /\ g[0] = base
    BY <2>1, <2>2
  <2>4. ASSUME NEW i \in 1 .. (m + 1) PROVE g[i] = G[i][g[i - 1]]
    <3>1. CASE i = m + 1
      <4>1. g[i - 1] = f[m]
        BY <3>1
      <4> QED
        BY <3>1, <4>1
    <3>2. CASE i # m + 1
      <4>1. i \in 1 .. m /\ g[i] = f[i] /\ g[i - 1] = f[i - 1]
        BY <3>2
      <4> QED
        BY <2>1, <4>1
    <3> QED
      BY <3>1, <3>2
  <2> QED
    BY <2>3, <2>4
<1>3. n \in T
  <2> HIDE DEF T
  <2> QED BY <1>1, <1>2, Induction
<1> QED
  BY <1>3

\* The numbers of a recursion on 0 .. n.
LEMMA Stepwise == ASSUME NEW n \in Nat
    PROVE  0 \in 0 .. n /\ (\A k \in 1 .. n : k \in 0 .. n /\ k # 0 /\ k - 1 \in 0 .. n)
           /\ (\A k \in 0 .. n : k # 0 => k \in 1 .. n)
OBVIOUS

\* What holds at the start and passes from each step to the next holds all along.
LEMMA AllAlong == ASSUME NEW n \in Nat, NEW T, 0 \in T, \A k \in 1 .. n : k - 1 \in T => k \in T
    PROVE  \A k \in 0 .. n : k \in T
<1> DEFINE R == {k \in Nat : k <= n => k \in T}
<1>1. 0 \in R
  OBVIOUS
<1>2. ASSUME NEW k \in Nat, k \in R PROVE k + 1 \in R
  <2> SUFFICES ASSUME k + 1 <= n PROVE k + 1 \in T
    OBVIOUS
  <2>1. k \in T /\ k + 1 \in 1 .. n /\ (k + 1) - 1 = k
    BY <1>2
  <2> QED
    BY <2>1
<1>3. Nat \subseteq R
  <2> HIDE DEF R
  <2> QED BY <1>1, <1>2, Induction
<1> QED
  BY <1>3

\* The lesser of two numbers.
LEMMA MinOf == ASSUME NEW n \in Nat, NEW k \in Nat
               PROVE  Min({n, k}) = IF n <= k THEN n ELSE k
<1> DEFINE m == IF n <= k THEN n ELSE k
<1>1. m \in {n, k} /\ \A y \in {n, k} : m <= y
  OBVIOUS
<1>2. \A x \in {n, k} : (\A y \in {n, k} : x <= y) => x = m
  OBVIOUS
<1>3. Min({n, k}) \in {n, k} /\ \A y \in {n, k} : Min({n, k}) <= y
  BY <1>1 DEF Min
<1> QED
  BY <1>2, <1>3

\* The elements of a finite set, one after the other.
LEMMA Listed ==
    ASSUME NEW S, IsFiniteSet(S)
    PROVE  /\ Cardinality(S) \in Nat
           /\ SetToSeq(S) \in [1 .. Cardinality(S) -> S]
           /\ Len(SetToSeq(S)) = Cardinality(S)
           /\ \A x \in S : \E i \in 1 .. Cardinality(S) : SetToSeq(S)[i] = x
<1> DEFINE n == Cardinality(S)
           s == SetToSeq(S)
<1>1. n \in Nat /\ ExistsBijection(1 .. n, S)
  BY FS_CardinalityType
<1>2. PICK f \in Bijection(1 .. n, S) : TRUE
  BY <1>1 DEF ExistsBijection
<1>3. f \in [1 .. n -> S] /\ IsInjective(f)
  BY <1>2 DEF Bijection, Injection, IsInjective
<1>4. s \in [1 .. n -> S] /\ IsInjective(s)
  BY <1>3 DEF SetToSeq
<1> HIDE DEF s, n
<1>5. IsFiniteSet(1 .. n) /\ Cardinality(1 .. n) = n
  <2>1. 1 \in Int /\ n \in Int
    BY <1>1
  <2>2. IsFiniteSet(1 .. n) /\ Cardinality(1 .. n) = IF 1 > n THEN 0 ELSE n - 1 + 1
    BY <2>1, FS_Interval
  <2> QED
    BY <1>1, <2>2
<1>6. s \in Injection(1 .. n, S)
  BY <1>4 DEF Injection, IsInjective
<1>7. s \in Surjection(1 .. n, S)
  <2>1. Cardinality(1 .. n) = Cardinality(S)
    BY <1>5 DEF n
  <2> QED
    BY <1>6, <2>1, FS_Injection
<1>8. \A x \in S : \E i \in 1 .. n : s[i] = x
  BY <1>7 DEF Surjection
<1>9. Len(s) = n
  BY <1>1, <1>4
<1> QED
  BY <1>1, <1>4, <1>8, <1>9 DEF n, s

\* A set grows by no more than the sequence that is added to it.
LEMMA Grows ==
    ASSUME NEW S, IsFiniteSet(S), NEW n \in Nat, NEW T, NEW g \in Surjection(1 .. n, T)
    PROVE  IsFiniteSet(S \cup T) /\ Cardinality(S \cup T) <= Cardinality(S) + n
           /\ Cardinality(S) \in Nat /\ Cardinality(S \cup T) \in Nat
<1>2. IsFiniteSet(1 .. n) /\ Cardinality(1 .. n) = n
  <2>1. IsFiniteSet(1 .. n) /\ Cardinality(1 .. n) = IF 1 > n THEN 0 ELSE n - 1 + 1
    BY FS_Interval
  <2> QED
    BY <2>1
<1>3. IsFiniteSet(T) /\ Cardinality(T) <= n
  BY <1>2, FS_Surjection
<1>4. IsFiniteSet(S \cup T)
      /\ Cardinality(S \cup T) = Cardinality(S) + Cardinality(T) - Cardinality(S \cap T)
  BY <1>3, FS_Union
<1>5. IsFiniteSet(S \cap T)
  BY FS_Subset
<1>6. Cardinality(S) \in Nat /\ Cardinality(T) \in Nat /\ Cardinality(S \cap T) \in Nat
      /\ Cardinality(S \cup T) \in Nat
  BY <1>3, <1>4, <1>5, FS_CardinalityType
<1> QED
  BY <1>3, <1>4, <1>6

\* Two sequences, one after the other.
LEMMA Concatenated ==
    ASSUME NEW S, NEW s \in Seq(S), NEW t \in Seq(S)
    PROVE  /\ s \o t \in Seq(S) /\ Len(s \o t) = Len(s) + Len(t)
           /\ Range(s) \subseteq Range(s \o t) /\ Range(t) \subseteq Range(s \o t)
<1>1. /\ s \o t \in Seq(S) /\ Len(s \o t) = Len(s) + Len(t) /\ Len(s) \in Nat /\ Len(t) \in Nat
      /\ DOMAIN s = 1 .. Len(s) /\ DOMAIN t = 1 .. Len(t) /\ DOMAIN (s \o t) = 1 .. (Len(s) + Len(t))
      /\ \A i \in 1 .. Len(s) : (s \o t)[i] = s[i]
      /\ \A i \in 1 .. Len(t) : (s \o t)[Len(s) + i] = t[i]
  OBVIOUS
<1>2. /\ \A i \in 1 .. Len(s) : i \in 1 .. (Len(s) + Len(t))
      /\ \A i \in 1 .. Len(t) : Len(s) + i \in 1 .. (Len(s) + Len(t))
  BY <1>1
<1> QED
  BY <1>1, <1>2 DEF Range

-----------------------------------------------------------------------------
(***************************************************************************)
(* What a collection knows, and what a chain of steps learns.              *)
(***************************************************************************)
\* What a collection knows, as facts: the objects it has kept, the trusts and
\* roles it has read, the memberships and the relationships.
MemberFacts(s) == {<<"member", m>> : m \in s}
RelationFacts(s) == {<<"relation", r>> : r \in s}

Known(st) ==
    {<<"entry", id>> : id \in Ids(st)} \cup {<<"trust", t>> : t \in st.trusts}
    \cup {<<"role", r>> : r \in st.roles}
    \cup MemberFacts(st.memberships) \cup RelationFacts(st.relationships)

\* From s to t nothing is lost, and the facts are learned, or t is truncated.
Learned(s, t, facts) == ~t.truncated => ~s.truncated /\ Known(s) \cup facts \subseteq Known(t)

\* A fact is known exactly when the collection holds what it says.
LEMMA KnownIs ==
    ASSUME NEW st
    PROVE  /\ \A x : <<"entry", x>> \in Known(st) <=> x \in Ids(st)
           /\ \A x : <<"trust", x>> \in Known(st) <=> x \in st.trusts
           /\ \A x : <<"role", x>> \in Known(st) <=> x \in st.roles
           /\ \A x : <<"member", x>> \in Known(st) <=> x \in st.memberships
           /\ \A x : <<"relation", x>> \in Known(st) <=> x \in st.relationships
BY DEF Known, MemberFacts, RelationFacts

\* Who keeps more knows more.
LEMMA KnownGrows ==
    ASSUME NEW s, NEW t, Ids(s) \subseteq Ids(t), s.trusts \subseteq t.trusts, s.roles \subseteq t.roles,
           s.memberships \subseteq t.memberships, s.relationships \subseteq t.relationships
    PROVE  Known(s) \subseteq Known(t)
BY DEF Known, MemberFacts, RelationFacts

\* What is known depends on nothing but what was kept.
LEMMA KnownSame ==
    ASSUME NEW s, NEW t, s.entries = t.entries, s.trusts = t.trusts, s.roles = t.roles,
           s.memberships = t.memberships, s.relationships = t.relationships
    PROVE  Known(s) = Known(t)
BY DEF Known, Ids

\* The n steps of a chain that starts in V keep to V, and each learns what it is told.
Chain(V, n, f, told) ==
    /\ f[0] \in V
    /\ \A k \in 1 .. n : f[k - 1] \in V => f[k] \in V /\ Learned(f[k - 1], f[k], told[k])

\* What is learned at each step of a chain has been learned at its end.
LEMMA Gathers ==
    ASSUME NEW V, NEW n \in Nat, NEW f, NEW told, Chain(V, n, f, told)
    PROVE  f[n] \in V /\ Learned(f[0], f[n], {}) /\ \A k \in 1 .. n : Learned(f[0], f[n], told[k])
<1> DEFINE T == {k \in 0 .. n : f[k] \in V /\ Learned(f[0], f[k], {})
                                 /\ \A i \in 1 .. k : Learned(f[0], f[k], told[i])}
<1>1. 0 \in T
  BY DEF Learned, Chain
<1>2. ASSUME NEW k \in 1 .. n, k - 1 \in T PROVE k \in T
  <2>1. f[k] \in V /\ Learned(f[k - 1], f[k], told[k])
        /\ Learned(f[0], f[k - 1], {}) /\ \A i \in 1 .. (k - 1) : Learned(f[0], f[k - 1], told[i])
    BY <1>2 DEF Chain
  <2>2. SUFFICES ASSUME ~f[k].truncated, NEW i \in 1 .. k PROVE told[i] \subseteq Known(f[k])
    <3>1. Learned(f[0], f[k], {})
      BY <2>1 DEF Learned
    <3> QED
      BY <2>1, <3>1 DEF Learned
  <2>3. CASE i = k
    BY <2>1, <2>2, <2>3 DEF Learned
  <2>4. CASE i # k
    <3>1. i \in 1 .. (k - 1)
      BY <2>4
    <3> QED
      BY <2>1, <2>2, <3>1 DEF Learned
  <2> QED
    BY <2>3, <2>4
<1>3. \A k \in 0 .. n : k \in T
  <2> HIDE DEF T
  <2> QED BY <1>1, <1>2, AllAlong
<1>4. n \in T
  <2> HIDE DEF T
  <2> QED BY <1>3
<1> QED
  BY <1>4

\* The entries of a page.
AdItemSteps(V, items, told) ==
    \A v \in V, k \in 1 .. Len(items) :
        AdItem(v, items[k]) \in V /\ Learned(v, AdItem(v, items[k]), told[k])

\* Reading a page of a domain learns what each of its entries tells (AdItem).
LEMMA AdReadGathers ==
    ASSUME NEW V, NEW st \in V, NEW items, Len(items) \in Nat,
           NEW told, AdItemSteps(V, items, told)
    PROVE  /\ AdRead(st, items) \in V /\ Learned(st, AdRead(st, items), {})
           /\ \A k \in 1 .. Len(items) : Learned(st, AdRead(st, items), told[k])
<1> DEFINE list == items
           n == Len(list)
           P(f) == f = [i \in 0 .. n |-> IF i = 0 THEN st ELSE AdItem(f[i - 1], list[i])]
           G == [k \in 1 .. n |-> [v \in V |-> AdItem(v, list[k])]]
           h == CHOOSE g : P(g)
<1>1. /\ n \in Nat
      /\ \A v \in V, k \in 1 .. n :
            AdItem(v, list[k]) \in V /\ Learned(v, AdItem(v, list[k]), told[k])
  BY DEF AdItemSteps
<1>2. G \in [1 .. n -> [V -> V]] /\ \A k \in 1 .. n, v \in V : G[k][v] = AdItem(v, list[k])
  BY <1>1
<1> HIDE DEF G, n, h, list
<1>3. PICK f \in [0 .. n -> V] : Follows(f, n, st, G)
  BY <1>1, <1>2, Recursion
<1>4. P(f)
  <2>1. ASSUME NEW k \in 1 .. n PROVE f[k] = AdItem(f[k - 1], list[k])
    <3>1. f[k - 1] \in V
      BY <1>1, <1>3, Stepwise
    <3> QED
      BY <1>2, <1>3, <3>1 DEF Follows
  <2> QED
    BY <1>1, <1>3, <2>1, Stepwise DEF Follows
<1>5. P(h)
  <2> HIDE DEF P
  <2> QED BY <1>4 DEF h
<1>6. h[0] = st /\ \A k \in 1 .. n : h[k] = AdItem(h[k - 1], list[k])
  BY <1>1, <1>5, Stepwise
<1>7. AdRead(st, items) = h[n]
  BY DEF After, AdRead, h, n, list
<1> HIDE DEF P
<1>8. Chain(V, n, h, told)
  BY <1>1, <1>6 DEF Chain
<1>9. h[n] \in V /\ Learned(h[0], h[n], {}) /\ \A k \in 1 .. n : Learned(h[0], h[n], told[k])
  BY <1>1, <1>8, Gathers
<1> QED
  BY <1>6, <1>7, <1>9 DEF n, list

\* The references of an entry.
AdReferenceSteps(V, items, told) ==
    \A v \in V, k \in 1 .. Len(items) :
        AdReference(v, items[k]) \in V /\ Learned(v, AdReference(v, items[k]), told[k])

\* So does the derivation from one entry, of each of its references (AdReference),
LEMMA AdEntryGathers ==
    ASSUME NEW V, NEW st \in V, NEW pass, Len(References(pass)) \in Nat,
           NEW told, AdReferenceSteps(V, References(pass), told)
    PROVE  /\ AdEntry(st, pass) \in V /\ Learned(st, AdEntry(st, pass), {})
           /\ \A k \in 1 .. Len(References(pass)) : Learned(st, AdEntry(st, pass), told[k])
<1> DEFINE list == References(pass)
           n == Len(list)
           P(f) == f = [i \in 0 .. n |-> IF i = 0 THEN st ELSE AdReference(f[i - 1], list[i])]
           G == [k \in 1 .. n |-> [v \in V |-> AdReference(v, list[k])]]
           h == CHOOSE g : P(g)
<1>1. /\ n \in Nat
      /\ \A v \in V, k \in 1 .. n :
            AdReference(v, list[k]) \in V /\ Learned(v, AdReference(v, list[k]), told[k])
  BY DEF AdReferenceSteps
<1>2. G \in [1 .. n -> [V -> V]] /\ \A k \in 1 .. n, v \in V : G[k][v] = AdReference(v, list[k])
  BY <1>1
<1> HIDE DEF G, n, h, list
<1>3. PICK f \in [0 .. n -> V] : Follows(f, n, st, G)
  BY <1>1, <1>2, Recursion
<1>4. P(f)
  <2>1. ASSUME NEW k \in 1 .. n PROVE f[k] = AdReference(f[k - 1], list[k])
    <3>1. f[k - 1] \in V
      BY <1>1, <1>3, Stepwise
    <3> QED
      BY <1>2, <1>3, <3>1 DEF Follows
  <2> QED
    BY <1>1, <1>3, <2>1, Stepwise DEF Follows
<1>5. P(h)
  <2> HIDE DEF P
  <2> QED BY <1>4 DEF h
<1>6. h[0] = st /\ \A k \in 1 .. n : h[k] = AdReference(h[k - 1], list[k])
  BY <1>1, <1>5, Stepwise
<1>7. AdEntry(st, pass) = h[n]
  BY DEF After, AdEntry, h, n, list
<1> HIDE DEF P
<1>8. Chain(V, n, h, told)
  BY <1>1, <1>6 DEF Chain
<1>9. h[n] \in V /\ Learned(h[0], h[n], {}) /\ \A k \in 1 .. n : Learned(h[0], h[n], told[k])
  BY <1>1, <1>8, Gathers
<1> QED
  BY <1>6, <1>7, <1>9 DEF n, list

\* The trusts.
AdTrustSteps(V, items, told) ==
    \A v \in V, k \in 1 .. Len(items) :
        AdTrust(v, items[k]) \in V /\ Learned(v, AdTrust(v, items[k]), told[k])

\* the derivation from the trusts (AdTrust),
LEMMA AdTrustsGathers ==
    ASSUME NEW V, NEW st \in V, Len(SetToSeq(st.trusts)) \in Nat,
           NEW told, AdTrustSteps(V, SetToSeq(st.trusts), told)
    PROVE  /\ AdTrusts(st) \in V /\ Learned(st, AdTrusts(st), {})
           /\ \A k \in 1 .. Len(SetToSeq(st.trusts)) : Learned(st, AdTrusts(st), told[k])
<1> DEFINE list == SetToSeq(st.trusts)
           n == Len(list)
           P(f) == f = [i \in 0 .. n |-> IF i = 0 THEN st ELSE AdTrust(f[i - 1], list[i])]
           G == [k \in 1 .. n |-> [v \in V |-> AdTrust(v, list[k])]]
           h == CHOOSE g : P(g)
<1>1. /\ n \in Nat
      /\ \A v \in V, k \in 1 .. n :
            AdTrust(v, list[k]) \in V /\ Learned(v, AdTrust(v, list[k]), told[k])
  BY DEF AdTrustSteps
<1>2. G \in [1 .. n -> [V -> V]] /\ \A k \in 1 .. n, v \in V : G[k][v] = AdTrust(v, list[k])
  BY <1>1
<1> HIDE DEF G, n, h, list
<1>3. PICK f \in [0 .. n -> V] : Follows(f, n, st, G)
  BY <1>1, <1>2, Recursion
<1>4. P(f)
  <2>1. ASSUME NEW k \in 1 .. n PROVE f[k] = AdTrust(f[k - 1], list[k])
    <3>1. f[k - 1] \in V
      BY <1>1, <1>3, Stepwise
    <3> QED
      BY <1>2, <1>3, <3>1 DEF Follows
  <2> QED
    BY <1>1, <1>3, <2>1, Stepwise DEF Follows
<1>5. P(h)
  <2> HIDE DEF P
  <2> QED BY <1>4 DEF h
<1>6. h[0] = st /\ \A k \in 1 .. n : h[k] = AdTrust(h[k - 1], list[k])
  BY <1>1, <1>5, Stepwise
<1>7. AdTrusts(st) = h[n]
  BY DEF After, AdTrusts, h, n, list
<1> HIDE DEF P
<1>8. Chain(V, n, h, told)
  BY <1>1, <1>6 DEF Chain
<1>9. h[n] \in V /\ Learned(h[0], h[n], {}) /\ \A k \in 1 .. n : Learned(h[0], h[n], told[k])
  BY <1>1, <1>8, Gathers
<1> QED
  BY <1>6, <1>7, <1>9 DEF n, list

\* The entries that were kept.
AdEntrySteps(V, items, told) ==
    \A v \in V, k \in 1 .. Len(items) :
        AdEntry(v, items[k]) \in V /\ Learned(v, AdEntry(v, items[k]), told[k])

\* the derivation from one entry after the other (AdEntry),
LEMMA AdEntriesGathers ==
    ASSUME NEW V, NEW st \in V, Len(Passes(st.entries)) \in Nat,
           NEW told, AdEntrySteps(V, Passes(st.entries), told)
    PROVE  /\ AdEntries(st) \in V /\ Learned(st, AdEntries(st), {})
           /\ \A k \in 1 .. Len(Passes(st.entries)) : Learned(st, AdEntries(st), told[k])
<1> DEFINE list == Passes(st.entries)
           n == Len(list)
           P(f) == f = [i \in 0 .. n |-> IF i = 0 THEN st ELSE AdEntry(f[i - 1], list[i])]
           G == [k \in 1 .. n |-> [v \in V |-> AdEntry(v, list[k])]]
           h == CHOOSE g : P(g)
<1>1. /\ n \in Nat
      /\ \A v \in V, k \in 1 .. n :
            AdEntry(v, list[k]) \in V /\ Learned(v, AdEntry(v, list[k]), told[k])
  BY DEF AdEntrySteps
<1>2. G \in [1 .. n -> [V -> V]] /\ \A k \in 1 .. n, v \in V : G[k][v] = AdEntry(v, list[k])
  BY <1>1
<1> HIDE DEF G, n, h, list
<1>3. PICK f \in [0 .. n -> V] : Follows(f, n, st, G)
  BY <1>1, <1>2, Recursion
<1>4. P(f)
  <2>1. ASSUME NEW k \in 1 .. n PROVE f[k] = AdEntry(f[k - 1], list[k])
    <3>1. f[k - 1] \in V
      BY <1>1, <1>3, Stepwise
    <3> QED
      BY <1>2, <1>3, <3>1 DEF Follows
  <2> QED
    BY <1>1, <1>3, <2>1, Stepwise DEF Follows
<1>5. P(h)
  <2> HIDE DEF P
  <2> QED BY <1>4 DEF h
<1>6. h[0] = st /\ \A k \in 1 .. n : h[k] = AdEntry(h[k - 1], list[k])
  BY <1>1, <1>5, Stepwise
<1>7. AdEntries(st) = h[n]
  BY DEF After, AdEntries, h, n, list
<1> HIDE DEF P
<1>8. Chain(V, n, h, told)
  BY <1>1, <1>6 DEF Chain
<1>9. h[n] \in V /\ Learned(h[0], h[n], {}) /\ \A k \in 1 .. n : Learned(h[0], h[n], told[k])
  BY <1>1, <1>8, Gathers
<1> QED
  BY <1>6, <1>7, <1>9 DEF n, list

\* The items of a page.
EntraHandledSteps(V, items, told) ==
    \A v \in V, k \in 1 .. Len(items) :
        EntraHandled(v, items[k]) \in V /\ Learned(v, EntraHandled(v, items[k]), told[k])

\* and the reading of a page of a tenant (EntraHandled).
LEMMA EntraReadGathers ==
    ASSUME NEW V, NEW st \in V, NEW items, Len(items) \in Nat,
           NEW told, EntraHandledSteps(V, items, told)
    PROVE  /\ EntraRead(st, items) \in V /\ Learned(st, EntraRead(st, items), {})
           /\ \A k \in 1 .. Len(items) : Learned(st, EntraRead(st, items), told[k])
<1> DEFINE list == items
           n == Len(list)
           P(f) == f = [i \in 0 .. n |-> IF i = 0 THEN st ELSE EntraHandled(f[i - 1], list[i])]
           G == [k \in 1 .. n |-> [v \in V |-> EntraHandled(v, list[k])]]
           h == CHOOSE g : P(g)
<1>1. /\ n \in Nat
      /\ \A v \in V, k \in 1 .. n :
            EntraHandled(v, list[k]) \in V /\ Learned(v, EntraHandled(v, list[k]), told[k])
  BY DEF EntraHandledSteps
<1>2. G \in [1 .. n -> [V -> V]] /\ \A k \in 1 .. n, v \in V : G[k][v] = EntraHandled(v, list[k])
  BY <1>1
<1> HIDE DEF G, n, h, list
<1>3. PICK f \in [0 .. n -> V] : Follows(f, n, st, G)
  BY <1>1, <1>2, Recursion
<1>4. P(f)
  <2>1. ASSUME NEW k \in 1 .. n PROVE f[k] = EntraHandled(f[k - 1], list[k])
    <3>1. f[k - 1] \in V
      BY <1>1, <1>3, Stepwise
    <3> QED
      BY <1>2, <1>3, <3>1 DEF Follows
  <2> QED
    BY <1>1, <1>3, <2>1, Stepwise DEF Follows
<1>5. P(h)
  <2> HIDE DEF P
  <2> QED BY <1>4 DEF h
<1>6. h[0] = st /\ \A k \in 1 .. n : h[k] = EntraHandled(h[k - 1], list[k])
  BY <1>1, <1>5, Stepwise
<1>7. EntraRead(st, items) = h[n]
  BY DEF After, EntraRead, h, n, list
<1> HIDE DEF P
<1>8. Chain(V, n, h, told)
  BY <1>1, <1>6 DEF Chain
<1>9. h[n] \in V /\ Learned(h[0], h[n], {}) /\ \A k \in 1 .. n : Learned(h[0], h[n], told[k])
  BY <1>1, <1>8, Gathers
<1> QED
  BY <1>6, <1>7, <1>9 DEF n, list

-----------------------------------------------------------------------------
(***************************************************************************)
(* What may have been gathered, within the limits of the request.          *)
(***************************************************************************)
\* The directory of a collection is one of those the constants give.
SourceOK(st) ==
    \/ st.provider = "ad" /\ st.source = <<Search(AdUsers), Search(AdGroups)>>
    \/ st.provider = "entra" /\ \E tenant \in EntraTenants :
            st.source = [i \in DOMAIN tenant |-> Search(tenant[i])]

\* Equal but for the members, of which an object may have been kept with fewer.
SameObject(x, y) == x.id = y.id /\ x.kind = y.kind /\ x.refs = y.refs

\* Whatever may be a relationship.
Relations ==
    (ObjectIds \cup {"domain"}) \X {"trust", "delegates", "manages", "owns", "role"}
    \X (ObjectIds \cup Range(EntraRoles))

\* What has been gathered is from the directory and within the limits; what an
\* object that was kept says of its members is known.
Gathering(st) ==
    /\ Len(st.entries) <= MaxEntries
    /\ st.provider = "entra" /\ ~st.full => Len(st.entries) < MaxEntries
    /\ IsFiniteSet(st.memberships) /\ Cardinality(st.memberships) <= MaxMemberships
    /\ IsFiniteSet(st.relationships) /\ Cardinality(st.relationships) <= MaxRelationships
    /\ IsFiniteSet(st.trusts)
    /\ st.full => st.truncated
    /\ \A i \in DOMAIN st.entries : \E x \in Items(st) : SameObject(st.entries[i], x)
    /\ st.trusts \subseteq {x.id : x \in Everything(st) \ Items(st)}
    /\ st.memberships \subseteq AllMemberships(st)
    /\ st.relationships \subseteq AllRelationships(st)
    /\ st.provider = "ad" /\ ~st.truncated =>
        \A x \in Items(st) : x.id \in Ids(st) => MembershipsOf(x) \subseteq st.memberships

\* Where the items of a page may lead from d.
Shape(d) ==
    [provider : {d.provider}, source : {d.source}, at : {d.at}, phases : {d.phases},
     left : {d.left}, pages : {d.pages}, requests : {d.requests}, late : {d.late},
     entries : Seq(DirectoryItems), memberships : SUBSET (ObjectIds \X ObjectIds),
     relationships : SUBSET Relations, roles : SUBSET Range(EntraRoles),
     trusts : SUBSET ObjectIds, full : BOOLEAN, truncated : BOOLEAN]

Within(d) == {st \in Shape(d) : Gathering(st)}

\* What the assumption on the constants says of one directory.
LEMMA SourceFacts ==
    ASSUME NEW d, SourceOK(d)
    PROVE  /\ Directory(Everything(d)) /\ Items(d) \subseteq Everything(d)
           /\ d.provider = "entra" => \A x \in Everything(d) :
                /\ x.kind # "trust"
                /\ x.kind = "group" => EntraMembers[x.id] \in Seq(ObjectIds)
                /\ x.kind \in {"application", "service"} => EntraOwners[x.id] \in Seq(ObjectIds)
<1>1. CASE d.provider = "ad" /\ d.source = <<Search(AdUsers), Search(AdGroups)>>
  <2>1. DOMAIN d.source = 1 .. 2 /\ d.source[1].items = AdUsers /\ d.source[2].items = AdGroups
    BY <1>1 DEF Search
  <2>2. Everything(d) = Range(AdUsers) \cup Range(AdGroups)
    BY <2>1 DEF Everything
  <2> QED
    BY <1>1, <2>2, IdentityAssumption DEF Items
<1>2. CASE d.provider = "entra" /\ \E tenant \in EntraTenants :
               d.source = [i \in DOMAIN tenant |-> Search(tenant[i])]
  <2>1. PICK tenant \in EntraTenants : d.source = [i \in DOMAIN tenant |-> Search(tenant[i])]
    BY <1>2
  <2>2. \A i \in DOMAIN tenant : d.source[i].items = tenant[i]
    BY <2>1 DEF Search
  <2>3. Everything(d) = UNION {Range(tenant[i]) : i \in DOMAIN tenant}
    BY <2>1, <2>2 DEF Everything
  <2> QED
    BY <2>3, IdentityAssumption DEF Items
<1> QED
  BY <1>1, <1>2 DEF SourceOK

\* The facts an item of a read establishes.
Told(provider, reads, of, x) ==
    CASE reads = "entries" /\ provider = "ad" ->
            IF x.kind = "trust" THEN {<<"trust", x.id>>}
            ELSE {<<"entry", x.id>>} \cup MemberFacts(MembershipsOf(x))
      [] reads = "entries" /\ provider = "entra" -> {<<"entry", x.id>>}
      [] reads = "members"     -> {<<"member", <<x, of>>>>}
      [] reads = "owners"      -> {<<"relation", <<x, "owns", of>>>>}
      [] reads = "roles"       -> {<<"role", x>>}
      [] reads = "assignments" -> {<<"relation", <<x.principal, "role", x.role>>>>}

\* What there is to collect depends on the directory and not on the reading.
LEMMA SameDirectory ==
    ASSUME NEW d, NEW v, v.source = d.source, v.provider = d.provider
    PROVE  /\ Everything(v) = Everything(d) /\ Items(v) = Items(d)
           /\ AllMemberships(v) = AllMemberships(d) /\ AllRelationships(v) = AllRelationships(d)
BY DEF Everything, Items, AllMemberships, AllRelationships, NamedRelationships,
   TrustRelationships, OwnerRelationships

\* The group that is kept has the first of its members, as many as fit.
LEMMA CutFacts ==
    ASSUME NEW x \in DirectoryItems, NEW room \in Nat
    PROVE  /\ Cut(x, room) \in DirectoryItems /\ SameObject(Cut(x, room), x)
           /\ Len(Cut(x, room).members) <= room
           /\ MembershipsOf(Cut(x, room)) \subseteq MembershipsOf(x)
           /\ Len(x.members) <= room => MembershipsOf(Cut(x, room)) = MembershipsOf(x)
<1> DEFINE n == IF Len(x.members) <= room THEN Len(x.members) ELSE room
<1>1. Min({Len(x.members), room}) = n /\ n \in 0 .. Len(x.members) /\ x.members \in Seq(ObjectIds)
  BY MinOf DEF DirectoryItems
<1>2. Cut(x, room) = [x EXCEPT !.members = SubSeq(x.members, 1, n)]
  BY <1>1 DEF Cut
<1> DEFINE s == SubSeq(x.members, 1, n)
<1>3. s \in Seq(ObjectIds) /\ Len(s) = n /\ \A i \in 1 .. n : s[i] = x.members[i]
  BY <1>1
<1> HIDE DEF s
<1>4. Cut(x, room) \in DirectoryItems /\ SameObject(Cut(x, room), x) /\ Cut(x, room).members = s
      /\ Cut(x, room).id = x.id
  <2>1. x.id \in ObjectIds /\ x.kind \in {"user", "group", "trust", "application", "service"}
        /\ x.refs \in SUBSET [rel : ReferenceKinds, to : ObjectIds]
    BY DEF DirectoryItems
  <2>2. [x EXCEPT !.members = s] = [id |-> x.id, kind |-> x.kind, members |-> s, refs |-> x.refs]
    BY DEF DirectoryItems
  <2>3. Cut(x, room) = [id |-> x.id, kind |-> x.kind, members |-> s, refs |-> x.refs]
    BY <1>2, <2>2 DEF s
  <2> QED
    BY <1>3, <2>1, <2>3 DEF DirectoryItems, SameObject
<1>5. MembershipsOf(Cut(x, room)) = {<<x.members[i], x.id>> : i \in 1 .. n}
  BY <1>3, <1>4 DEF MembershipsOf
<1>6. MembershipsOf(x) = {<<x.members[i], x.id>> : i \in 1 .. Len(x.members)}
  BY <1>1 DEF MembershipsOf
<1> QED
  BY <1>1, <1>3, <1>4, <1>5, <1>6

\* An object that is kept.
LEMMA KeptFacts ==
    ASSUME NEW d, NEW v \in Within(d), NEW e \in DirectoryItems,
           NEW w, w = Kept(v, e)
    PROVE  /\ w.entries = Append(v.entries, e) /\ Len(w.entries) = Len(v.entries) + 1
           /\ Ids(w) = Ids(v) \cup {e.id}
           /\ w.memberships = v.memberships \cup MembershipsOf(e)
           /\ IsFiniteSet(w.memberships) /\ Cardinality(v.memberships) \in Nat
           /\ Cardinality(w.memberships) \in Nat
           /\ Cardinality(w.memberships) <= Cardinality(v.memberships) + Len(e.members)
           /\ w.entries \in Seq(DirectoryItems) /\ w.memberships \in SUBSET (ObjectIds \X ObjectIds)
           /\ \A i \in DOMAIN w.entries :
                (i \in DOMAIN v.entries /\ w.entries[i] = v.entries[i]) \/ w.entries[i] = e
           /\ w.truncated = v.truncated /\ w.full = v.full
<1>1. /\ v.entries \in Seq(DirectoryItems) /\ v.memberships \in SUBSET (ObjectIds \X ObjectIds)
      /\ IsFiniteSet(v.memberships)
  BY DEF Within, Shape, Gathering
<1>2. w.entries = Append(v.entries, e) /\ w.memberships = v.memberships \cup MembershipsOf(e)
      /\ w.truncated = v.truncated /\ w.full = v.full
  BY DEF Kept, Within, Shape
<1>3. /\ w.entries \in Seq(DirectoryItems) /\ Len(w.entries) = Len(v.entries) + 1
      /\ DOMAIN w.entries = 1 .. (Len(v.entries) + 1) /\ DOMAIN v.entries = 1 .. Len(v.entries)
      /\ w.entries[Len(v.entries) + 1] = e /\ \A i \in DOMAIN v.entries : w.entries[i] = v.entries[i]
      /\ Len(v.entries) \in Nat
  BY <1>1, <1>2
<1>4. Ids(w) = Ids(v) \cup {e.id}
  <2>1. \A i \in DOMAIN w.entries : i \in DOMAIN v.entries \/ i = Len(v.entries) + 1
    BY <1>3
  <2>2. \A i \in DOMAIN v.entries : i \in DOMAIN w.entries
    BY <1>3
  <2>3. Len(v.entries) + 1 \in DOMAIN w.entries
    BY <1>3
  <2> QED
    BY <1>3, <2>1, <2>2, <2>3 DEF Ids
<1>5. e.members \in Seq(ObjectIds) /\ e.id \in ObjectIds
  BY DEF DirectoryItems
<1>6. MembershipsOf(e) \in SUBSET (ObjectIds \X ObjectIds)
  BY <1>5 DEF MembershipsOf
<1>7. /\ IsFiniteSet(w.memberships) /\ Cardinality(v.memberships) \in Nat
      /\ Cardinality(w.memberships) \in Nat
      /\ Cardinality(w.memberships) <= Cardinality(v.memberships) + Len(e.members)
  <2> DEFINE g == [i \in 1 .. Len(e.members) |-> <<e.members[i], e.id>>]
  <2>1. DOMAIN e.members = 1 .. Len(e.members) /\ Len(e.members) \in Nat
    BY <1>5
  <2>2. g \in Surjection(1 .. Len(e.members), MembershipsOf(e))
    BY <2>1 DEF MembershipsOf, Surjection
  <2> HIDE DEF g
  <2>3. LET S == v.memberships T == MembershipsOf(e)
        IN  IsFiniteSet(S \cup T) /\ Cardinality(S \cup T) <= Cardinality(S) + Len(e.members)
            /\ Cardinality(S) \in Nat /\ Cardinality(S \cup T) \in Nat
    BY <1>1, <2>1, <2>2, Grows
  <2> QED
    BY <1>2, <2>3
<1>8. \A i \in DOMAIN w.entries :
                (i \in DOMAIN v.entries /\ w.entries[i] = v.entries[i]) \/ w.entries[i] = e
  BY <1>3
<1>9. w.memberships \in SUBSET (ObjectIds \X ObjectIds)
  BY <1>1, <1>2, <1>6
<1> QED
  BY <1>2, <1>3, <1>4, <1>7, <1>8, <1>9

\* A collection that is cut short stays where it was.
LEMMA Stopped ==
    ASSUME NEW d, NEW v \in Within(d)
    PROVE  /\ Truncated(v) \in Within(d) /\ Truncated(v).truncated
           /\ [Truncated(v) EXCEPT !.full = TRUE] \in Within(d)
           /\ [Truncated(v) EXCEPT !.full = TRUE].truncated
<1> DEFINE w == Truncated(v)
           u == [Truncated(v) EXCEPT !.full = TRUE]
<1>1. /\ w = [v EXCEPT !.truncated = TRUE]
      /\ u = [v EXCEPT !.truncated = TRUE, !.full = TRUE]
  BY DEF Truncated
<1> HIDE DEF w, u
<1>2. /\ w.truncated = TRUE /\ w.full = v.full /\ u.truncated = TRUE /\ u.full = TRUE
      /\ \A s \in {w, u} :
            /\ s.provider = v.provider /\ s.source = v.source /\ s.entries = v.entries
            /\ s.memberships = v.memberships /\ s.relationships = v.relationships
            /\ s.trusts = v.trusts /\ s.roles = v.roles
  BY <1>1 DEF Within, Shape
<1>3. \A s \in {w, u} : Everything(s) = Everything(v) /\ Items(s) = Items(v)
           /\ AllMemberships(s) = AllMemberships(v) /\ AllRelationships(s) = AllRelationships(v)
  BY <1>2, SameDirectory
<1>4. Gathering(w) /\ Gathering(u)
  BY <1>2, <1>3 DEF Within, Shape, Gathering
<1>5. w \in Within(d) /\ u \in Within(d)
  BY <1>1, <1>4 DEF Within, Shape
<1> QED
  BY <1>2, <1>5 DEF w, u

\* So does one that keeps an object, or as much of it as fits.
LEMMA KeptWithin ==
    ASSUME NEW d, NEW v \in Within(d), NEW e \in DirectoryItems, NEW x \in Items(d), SameObject(e, x),
           MembershipsOf(e) \subseteq AllMemberships(d), Directory(Everything(d)),
           Len(v.entries) < MaxEntries, Cardinality(v.memberships) + Len(e.members) <= MaxMemberships,
           NEW w \in Shape(d), w.entries = Append(v.entries, e),
           w.memberships = v.memberships \cup MembershipsOf(e),
           w.relationships = v.relationships, w.trusts = v.trusts, w.roles = v.roles,
           w.full => w.truncated, v.truncated => w.truncated,
           d.provider = "ad" /\ ~w.truncated => MembershipsOf(x) \subseteq MembershipsOf(e),
           d.provider = "entra" /\ ~w.full => Len(v.entries) + 1 < MaxEntries
    PROVE  w \in Within(d) /\ Ids(w) = Ids(v) \cup {e.id} /\ Known(v) \subseteq Known(w)
<1> DEFINE k == Kept(v, e)
<1>1. /\ k.entries = Append(v.entries, e) /\ Len(k.entries) = Len(v.entries) + 1
      /\ Ids(k) = Ids(v) \cup {e.id}
      /\ k.memberships = v.memberships \cup MembershipsOf(e)
      /\ IsFiniteSet(k.memberships) /\ Cardinality(v.memberships) \in Nat
      /\ Cardinality(k.memberships) \in Nat
      /\ Cardinality(k.memberships) <= Cardinality(v.memberships) + Len(e.members)
      /\ \A i \in DOMAIN k.entries :
                (i \in DOMAIN v.entries /\ k.entries[i] = v.entries[i]) \/ k.entries[i] = e
  <2> HIDE DEF k
  <2>1. k = Kept(v, e)
    BY DEF k
  <2> QED
    BY <2>1, KeptFacts
<1> HIDE DEF k
<1>3. /\ w.provider = v.provider /\ w.source = v.source /\ w.entries = k.entries
      /\ w.memberships = k.memberships
      /\ v.provider = d.provider /\ v.source = d.source
  BY <1>1 DEF Within, Shape
<1>4. Everything(w) = Everything(d) /\ Items(w) = Items(d) /\ Everything(v) = Everything(d)
      /\ Items(v) = Items(d)
      /\ AllMemberships(w) = AllMemberships(d) /\ AllRelationships(w) = AllRelationships(d)
      /\ AllMemberships(v) = AllMemberships(d) /\ AllRelationships(v) = AllRelationships(d)
  BY <1>3, SameDirectory
<1>5. Ids(w) = Ids(v) \cup {e.id}
  BY <1>1, <1>3 DEF Ids
<1>6. Gathering(v)
  BY DEF Within, Shape
<1>7. e.id = x.id /\ Items(d) \subseteq Everything(d)
  BY DEF SameObject, Items
<1>8. ASSUME d.provider = "ad", ~w.truncated, NEW y \in Items(d), y.id \in Ids(w)
      PROVE  MembershipsOf(y) \subseteq w.memberships
  <2>1. CASE y.id \in Ids(v)
    BY <1>1, <1>3, <1>4, <1>6, <1>8, <2>1 DEF Gathering
  <2>2. CASE y.id = e.id
    <3>1. y = x
      BY <1>7, <2>2 DEF Directory
    <3> QED
      BY <1>1, <1>3, <1>8, <3>1
  <2> QED
    BY <1>5, <1>8, <2>1, <2>2
<1>9. Len(w.entries) <= MaxEntries /\ (w.provider = "entra" /\ ~w.full => Len(w.entries) < MaxEntries)
  <2>1. MaxEntries \in Nat /\ v.entries \in Seq(DirectoryItems)
    BY IdentityAssumption DEF Within, Shape
  <2>2. Len(v.entries) \in Nat
    BY <2>1
  <2> QED
    BY <1>1, <1>3, <2>1, <2>2
<1>10. IsFiniteSet(w.memberships) /\ Cardinality(w.memberships) <= MaxMemberships
  <2>1. MaxMemberships \in Nat /\ e.members \in Seq(ObjectIds)
    BY IdentityAssumption DEF DirectoryItems
  <2>2. Len(e.members) \in Nat
    BY <2>1
  <2> QED
    BY <1>1, <1>3, <2>1, <2>2
<1>11. \A i \in DOMAIN w.entries : \E y \in Items(w) : SameObject(w.entries[i], y)
  BY <1>1, <1>3, <1>4, <1>6 DEF Gathering
<1>12. Gathering(w)
  BY <1>1, <1>3, <1>4, <1>6, <1>8, <1>9, <1>10, <1>11 DEF Gathering
<1>13. w \in Within(d)
  BY <1>12 DEF Within
<1>14. Known(v) \subseteq Known(w)
  BY <1>1, <1>3, <1>5, KnownGrows
<1> QED
  BY <1>5, <1>13, <1>14

-----------------------------------------------------------------------------
(***************************************************************************)
(* Active Directory: the entries of a page and what is derived of them.    *)
(***************************************************************************)
\* One raw entry of a domain: what it tells is learned, or the omission is marked.
LEMMA AdItemStep ==
    ASSUME NEW d, SourceOK(d), d.provider = "ad", NEW v \in Within(d), NEW x \in Everything(d)
    PROVE  /\ AdItem(v, x) \in Within(d)
           /\ Learned(v, AdItem(v, x), Told("ad", "entries", Nothing, x))
<1> DEFINE w == AdItem(v, x)
           told == Told("ad", "entries", Nothing, x)
           room == MaxMemberships - Cardinality(v.memberships)
           kept == Kept(v, Cut(x, room))
           marked == IF Len(x.members) > room THEN Truncated(kept) ELSE kept
           stopped == [Truncated(v) EXCEPT !.full = TRUE]
           trusted == [v EXCEPT !.trusts = v.trusts \cup {x.id}]
           last == [marked EXCEPT !.full = marked.truncated /\ AdFull(marked)]
<1> SUFFICES w \in Within(d) /\ Learned(v, w, told)
  OBVIOUS
<1>1. /\ Directory(Everything(d)) /\ Items(d) \subseteq Everything(d)
      /\ x \in DirectoryItems /\ x.members \in Seq(ObjectIds) /\ x.id \in ObjectIds
      /\ x.kind # "trust" => x \in Items(d)
      /\ x.kind = "trust" => x \in Everything(d) \ Items(d)
  BY SourceFacts DEF Directory, DirectoryItems, Items
<1>2. /\ Gathering(v) /\ v.source = d.source /\ v.provider = "ad" /\ v.full \in BOOLEAN
      /\ v.truncated \in BOOLEAN /\ v.entries \in Seq(DirectoryItems)
      /\ v.trusts \in SUBSET ObjectIds
  BY DEF Within, Shape
<1>3. /\ Everything(v) = Everything(d) /\ Items(v) = Items(d)
      /\ AllMemberships(v) = AllMemberships(d) /\ AllRelationships(v) = AllRelationships(d)
  BY <1>2, SameDirectory
<1>4. told = IF x.kind = "trust" THEN {<<"trust", x.id>>}
             ELSE {<<"entry", x.id>>} \cup MemberFacts(MembershipsOf(x))
  BY DEF Told
<1>5. room \in Nat /\ Len(x.members) \in Nat /\ Len(v.entries) \in Nat /\ MaxEntries \in Nat
      /\ Cardinality(v.memberships) \in Nat /\ MaxMemberships \in Nat
  <2>1. Cardinality(v.memberships) \in Nat /\ Cardinality(v.memberships) <= MaxMemberships
    BY <1>2, FS_CardinalityType DEF Gathering
  <2>2. MaxEntries \in Nat /\ MaxMemberships \in Nat
    BY IdentityAssumption
  <2>3. Len(v.entries) \in Nat /\ Len(x.members) \in Nat
    BY <1>1, <1>2
  <2>4. room \in Nat
    BY <2>1, <2>2
  <2> QED
    BY <2>1, <2>2, <2>3, <2>4
<1>6. /\ v.full => w = v
      /\ ~v.full /\ x.kind = "trust" => w = Truncated(v) \/ w = trusted
      /\ ~v.full /\ x.kind # "trust" /\ x.id \in Ids(v) => w = v
      /\ ~v.full /\ x.kind # "trust" /\ x.id \notin Ids(v) /\ Len(v.entries) >= MaxEntries => w = stopped
      /\ ~v.full /\ x.kind # "trust" /\ x.id \notin Ids(v) /\ ~(Len(v.entries) >= MaxEntries)
            /\ x.members # <<>> /\ room <= 0 => w = stopped
      /\ ~v.full /\ x.kind # "trust" /\ x.id \notin Ids(v) /\ ~(Len(v.entries) >= MaxEntries)
            /\ ~(x.members # <<>> /\ room <= 0) => w = last
  BY DEF AdItem
<1>7. /\ Truncated(v) \in Within(d) /\ Truncated(v).truncated
      /\ stopped \in Within(d) /\ stopped.truncated
  BY Stopped
<1>8. x.kind = "trust" =>
        /\ trusted \in Within(d) /\ Known(v) \cup {<<"trust", x.id>>} \subseteq Known(trusted)
        /\ trusted.truncated = v.truncated
  <2> SUFFICES ASSUME x.kind = "trust"
               PROVE  trusted \in Within(d) /\ Known(v) \cup {<<"trust", x.id>>} \subseteq Known(trusted)
                      /\ trusted.truncated = v.truncated
    OBVIOUS
  <2>1. /\ trusted.trusts = v.trusts \cup {x.id} /\ trusted.source = v.source
        /\ trusted.provider = v.provider /\ trusted.entries = v.entries
        /\ trusted.memberships = v.memberships /\ trusted.relationships = v.relationships
        /\ trusted.roles = v.roles /\ trusted.full = v.full /\ trusted.truncated = v.truncated
    BY DEF Within, Shape
  <2>2. /\ Everything(trusted) = Everything(v) /\ Items(trusted) = Items(v)
        /\ AllMemberships(trusted) = AllMemberships(v)
        /\ AllRelationships(trusted) = AllRelationships(v)
    BY <2>1, SameDirectory
  <2>3. IsFiniteSet(trusted.trusts)
    <3>1. IsFiniteSet(v.trusts)
      BY <1>2 DEF Gathering
    <3>2. IsFiniteSet(v.trusts \cup {x.id})
      BY <3>1, FS_AddElement
    <3> QED
      BY <2>1, <3>2
  <2>4. trusted.trusts \subseteq {y.id : y \in Everything(v) \ Items(v)}
    BY <1>1, <1>2, <1>3, <2>1 DEF Gathering
  <2>5. Ids(trusted) = Ids(v)
    BY <2>1 DEF Ids
  <2> HIDE DEF trusted
  <2>6. Gathering(trusted)
    BY <1>2, <2>1, <2>2, <2>3, <2>4, <2>5 DEF Gathering
  <2>7. trusted \in Within(d)
    BY <1>1, <1>2, <2>6 DEF Within, Shape, trusted
  <2>8. Known(v) \subseteq Known(trusted)
    BY <2>1, <2>5, KnownGrows
  <2> QED
    BY <2>1, <2>7, <2>8, KnownIs
<1>9. ASSUME x.kind # "trust", x.id \in Ids(v), ~v.truncated PROVE told \subseteq Known(v)
  <2>1. MembershipsOf(x) \subseteq v.memberships
    BY <1>1, <1>2, <1>3, <1>9 DEF Gathering
  <2> QED
    BY <1>4, <1>9, <2>1, KnownIs DEF MemberFacts
<1>10. ASSUME x.kind # "trust", Len(v.entries) < MaxEntries, ~(x.members # <<>> /\ room <= 0)
       PROVE  last \in Within(d) /\ Learned(v, last, told)
  <2> DEFINE e == Cut(x, room)
  <2>1. /\ e \in DirectoryItems /\ SameObject(e, x) /\ Len(e.members) <= room
        /\ MembershipsOf(e) \subseteq MembershipsOf(x)
        /\ Len(x.members) <= room => MembershipsOf(e) = MembershipsOf(x)
    BY <1>1, <1>5, CutFacts
  <2>2. MembershipsOf(x) \subseteq AllMemberships(d) /\ x \in Items(d)
    BY <1>1, <1>10 DEF AllMemberships
  <2>3. /\ kept \in Shape(d) /\ kept.entries = Append(v.entries, e)
        /\ kept.memberships = v.memberships \cup MembershipsOf(e)
        /\ kept.relationships = v.relationships /\ kept.trusts = v.trusts /\ kept.roles = v.roles
        /\ kept.truncated = v.truncated
    <3>1. v \in Shape(d) /\ kept = [v EXCEPT !.entries = Append(v.entries, e),
                                             !.memberships = v.memberships \cup MembershipsOf(e)]
      BY DEF Within, Kept, Shape
    <3>2. Append(v.entries, e) \in Seq(DirectoryItems)
          /\ v.memberships \cup MembershipsOf(e) \in SUBSET (ObjectIds \X ObjectIds)
      <4>1. e.members \in Seq(ObjectIds) /\ e.id \in ObjectIds
        BY <2>1 DEF DirectoryItems
      <4> HIDE DEF e
      <4> QED
        BY <1>2, <2>1, <4>1 DEF MembershipsOf, Within, Shape
    <3> HIDE DEF e, kept
    <3> QED
      BY <3>1, <3>2 DEF Shape
  <2> HIDE DEF e, kept
  <2>4. /\ last \in Shape(d) /\ last.entries = kept.entries /\ last.memberships = kept.memberships
        /\ last.relationships = v.relationships /\ last.trusts = v.trusts /\ last.roles = v.roles
        /\ (last.truncated <=> v.truncated \/ Len(x.members) > room) /\ (last.full => last.truncated)
    <3>1. /\ marked \in Shape(d) /\ marked.entries = kept.entries
          /\ marked.memberships = kept.memberships /\ marked.relationships = v.relationships
          /\ marked.trusts = v.trusts /\ marked.roles = v.roles
          /\ (marked.truncated <=> v.truncated \/ Len(x.members) > room)
      BY <2>3 DEF Truncated, Shape
    <3>2. AdFull(marked) \in BOOLEAN
      BY DEF AdFull
    <3> HIDE DEF marked
    <3> QED
      BY <3>1, <3>2 DEF Shape
  <2> HIDE DEF last
  <2>5. Cardinality(v.memberships) + Len(e.members) <= MaxMemberships
    <3>1. Len(e.members) \in Nat
      BY <2>1 DEF DirectoryItems
    <3> QED
      BY <1>5, <2>1, <3>1
  <2>7. ~last.truncated => MembershipsOf(x) \subseteq MembershipsOf(e)
    BY <1>5, <2>1, <2>4
  <2>8. last \in Within(d) /\ Ids(last) = Ids(v) \cup {e.id} /\ Known(v) \subseteq Known(last)
    <3>1. MembershipsOf(e) \subseteq AllMemberships(d) /\ d.provider # "entra"
      BY <2>1, <2>2
    <3> QED
      BY <1>1, <1>10, <2>1, <2>2, <2>3, <2>4, <2>5, <2>7, <3>1, KeptWithin
  <2>9. Learned(v, last, told)
    <3> SUFFICES ASSUME ~last.truncated PROVE told \subseteq Known(last) /\ ~v.truncated
      BY <2>8 DEF Learned
    <3>1. x.id \in Ids(last) /\ MembershipsOf(x) \subseteq last.memberships
      BY <2>1, <2>3, <2>4, <2>7, <2>8 DEF SameObject
    <3> QED
      BY <1>4, <1>10, <2>4, <3>1, KnownIs DEF MemberFacts
  <2> QED
    BY <2>8, <2>9
<1> HIDE DEF w, told, stopped, trusted, last
<1>11. CASE v.full
  <2>1. w = v /\ v.truncated
    BY <1>2, <1>6, <1>11 DEF Gathering
  <2> QED
    BY <2>1 DEF Learned
<1>12. CASE ~v.full /\ x.kind = "trust"
  <2>1. w = Truncated(v) \/ w = trusted
    BY <1>6, <1>12
  <2> QED
    BY <1>4, <1>7, <1>8, <1>12, <2>1 DEF Learned
<1>13. CASE ~v.full /\ x.kind # "trust"
  <2>1. CASE x.id \in Ids(v)
    <3>1. w = v
      BY <1>6, <1>13, <2>1
    <3> QED
      BY <1>9, <1>13, <2>1, <3>1 DEF Learned
  <2>2. CASE x.id \notin Ids(v) /\ (Len(v.entries) >= MaxEntries \/ (x.members # <<>> /\ room <= 0))
    <3>1. w = stopped
      BY <1>6, <1>13, <2>2
    <3> QED
      BY <1>7, <3>1 DEF Learned
  <2>3. CASE x.id \notin Ids(v) /\ ~(Len(v.entries) >= MaxEntries) /\ ~(x.members # <<>> /\ room <= 0)
    <3>1. w = last
      BY <1>6, <1>13, <2>3
    <3>2. Len(v.entries) < MaxEntries
      BY <1>5, <2>3
    <3> QED
      BY <1>10, <1>13, <2>3, <3>1, <3>2
  <2> QED
    BY <2>1, <2>2, <2>3
<1> QED
  BY <1>2, <1>11, <1>12, <1>13

\* A page, or what is left of it.
LEMMA AdPageRead ==
    ASSUME NEW d, SourceOK(d), d.provider = "ad", NEW v \in Within(d), NEW page \in Seq(Everything(d))
    PROVE  LET w == AdRead(v, page)
           IN  /\ w \in Within(d) /\ Learned(v, w, {})
               /\ \A k \in 1 .. Len(page) : Learned(v, w, Told("ad", "entries", Nothing, page[k]))
<1> DEFINE told == [k \in 1 .. Len(page) |-> Told("ad", "entries", Nothing, page[k])]
           w == AdRead(v, page)
<1>1. \A u \in Within(d), x \in Everything(d) :
        AdItem(u, x) \in Within(d) /\ Learned(u, AdItem(u, x), Told("ad", "entries", Nothing, x))
  BY AdItemStep
<1>2. Len(page) \in Nat /\ \A k \in 1 .. Len(page) : page[k] \in Everything(d)
  OBVIOUS
<1>3. AdItemSteps(Within(d), page, told)
  BY <1>1, <1>2 DEF AdItemSteps
<1> HIDE DEF told, w
<1>5. w \in Within(d) /\ Learned(v, w, {}) /\ \A k \in 1 .. Len(page) : Learned(v, w, told[k])
  BY <1>2, <1>3, AdReadGathers DEF w
<1> QED
  BY <1>5 DEF told, w

\* One more relationship, or one more membership, that the directory names.
LEMMA RelatedStep ==
    ASSUME NEW d, NEW v \in Within(d), NEW r \in Relations, r \in AllRelationships(d)
    PROVE  /\ Related(v, r) \in Within(d) /\ Learned(v, Related(v, r), {<<"relation", r>>})
           /\ Ids(Related(v, r)) = Ids(v)
<1> DEFINE w == [v EXCEPT !.relationships = v.relationships \cup {r}]
<1>1. /\ Gathering(v) /\ v \in Shape(d) /\ v.source = d.source /\ v.provider = d.provider
      /\ v.relationships \in SUBSET Relations
  BY DEF Within, Shape
<1>2. /\ w \in Shape(d) /\ w.relationships = v.relationships \cup {r} /\ w.entries = v.entries
      /\ w.memberships = v.memberships /\ w.trusts = v.trusts /\ w.roles = v.roles
      /\ w.full = v.full /\ w.truncated = v.truncated /\ w.source = d.source /\ w.provider = d.provider
  BY <1>1 DEF Shape
<1>3. /\ Everything(w) = Everything(d) /\ Items(w) = Items(d) /\ Everything(v) = Everything(d)
      /\ Items(v) = Items(d)
      /\ AllMemberships(w) = AllMemberships(d) /\ AllRelationships(w) = AllRelationships(d)
      /\ AllMemberships(v) = AllMemberships(d) /\ AllRelationships(v) = AllRelationships(d)
  BY <1>1, <1>2, SameDirectory
<1>4. Truncated(v) \in Within(d) /\ Truncated(v).truncated
  BY Stopped
<1>5. Ids(w) = Ids(v) /\ Ids(Truncated(v)) = Ids(v)
  BY <1>1, <1>2 DEF Ids, Truncated, Shape
<1>6. Related(v, r) = IF r \in v.relationships THEN v
                      ELSE IF Cardinality(v.relationships) >= MaxRelationships THEN Truncated(v) ELSE w
  BY DEF Related
<1> HIDE DEF w
<1>7. ASSUME r \notin v.relationships, ~(Cardinality(v.relationships) >= MaxRelationships)
      PROVE  w \in Within(d) /\ Learned(v, w, {<<"relation", r>>})
  <2>1. IsFiniteSet(w.relationships) /\ Cardinality(w.relationships) <= MaxRelationships
    <3>1. /\ IsFiniteSet(v.relationships) /\ MaxRelationships \in Nat
      BY <1>1, IdentityAssumption DEF Gathering
    <3>2. Cardinality(v.relationships) \in Nat
      BY <3>1, FS_CardinalityType
    <3>3. /\ IsFiniteSet(v.relationships \cup {r})
          /\ Cardinality(v.relationships \cup {r}) = Cardinality(v.relationships) + 1
      BY <1>7, <3>1, FS_AddElement
    <3> QED
      BY <1>2, <1>7, <3>1, <3>2, <3>3
  <2>2. Gathering(w)
    BY <1>1, <1>2, <1>3, <1>5, <2>1 DEF Gathering
  <2>3. Known(v) \subseteq Known(w) /\ <<"relation", r>> \in Known(w)
    BY <1>2, <1>5, KnownGrows, KnownIs
  <2> QED
    BY <1>2, <2>2, <2>3 DEF Within, Learned
<1>8. r \in v.relationships => <<"relation", r>> \in Known(v)
  BY KnownIs
<1> QED
  BY <1>4, <1>5, <1>6, <1>7, <1>8 DEF Learned

\* One more membership: it is there afterwards, or the collection is truncated.
LEMMA JoinedStep ==
    ASSUME NEW d, NEW v \in Within(d), NEW m \in ObjectIds \X ObjectIds, m \in AllMemberships(d)
    PROVE  /\ Joined(v, m) \in Within(d) /\ Learned(v, Joined(v, m), {<<"member", m>>})
           /\ Ids(Joined(v, m)) = Ids(v)
<1> DEFINE w == [v EXCEPT !.memberships = v.memberships \cup {m}]
<1>1. /\ Gathering(v) /\ v \in Shape(d) /\ v.source = d.source /\ v.provider = d.provider
      /\ v.memberships \in SUBSET (ObjectIds \X ObjectIds)
  BY DEF Within, Shape
<1>2. /\ w \in Shape(d) /\ w.memberships = v.memberships \cup {m} /\ w.entries = v.entries
      /\ w.relationships = v.relationships /\ w.trusts = v.trusts /\ w.roles = v.roles
      /\ w.full = v.full /\ w.truncated = v.truncated /\ w.source = d.source /\ w.provider = d.provider
  BY <1>1 DEF Shape
<1>3. /\ Everything(w) = Everything(d) /\ Items(w) = Items(d) /\ Everything(v) = Everything(d)
      /\ Items(v) = Items(d)
      /\ AllMemberships(w) = AllMemberships(d) /\ AllRelationships(w) = AllRelationships(d)
      /\ AllMemberships(v) = AllMemberships(d) /\ AllRelationships(v) = AllRelationships(d)
  BY <1>1, <1>2, SameDirectory
<1>4. Truncated(v) \in Within(d) /\ Truncated(v).truncated
  BY Stopped
<1>5. Ids(w) = Ids(v) /\ Ids(Truncated(v)) = Ids(v)
  BY <1>1, <1>2 DEF Ids, Truncated, Shape
<1>6. Joined(v, m) = IF m \in v.memberships THEN v
                     ELSE IF Cardinality(v.memberships) >= MaxMemberships THEN Truncated(v) ELSE w
  BY DEF Joined
<1> HIDE DEF w
<1>7. ASSUME m \notin v.memberships, ~(Cardinality(v.memberships) >= MaxMemberships)
      PROVE  w \in Within(d) /\ Learned(v, w, {<<"member", m>>})
  <2>1. IsFiniteSet(w.memberships) /\ Cardinality(w.memberships) <= MaxMemberships
    <3>1. /\ IsFiniteSet(v.memberships) /\ MaxMemberships \in Nat
      BY <1>1, IdentityAssumption DEF Gathering
    <3>2. Cardinality(v.memberships) \in Nat
      BY <3>1, FS_CardinalityType
    <3>3. /\ IsFiniteSet(v.memberships \cup {m})
          /\ Cardinality(v.memberships \cup {m}) = Cardinality(v.memberships) + 1
      BY <1>7, <3>1, FS_AddElement
    <3> QED
      BY <1>2, <1>7, <3>1, <3>2, <3>3
  <2>2. Gathering(w)
    BY <1>1, <1>2, <1>3, <1>5, <2>1 DEF Gathering
  <2>3. Known(v) \subseteq Known(w) /\ <<"member", m>> \in Known(w)
    BY <1>2, <1>5, KnownGrows, KnownIs
  <2> QED
    BY <1>2, <2>2, <2>3 DEF Within, Learned
<1>8. m \in v.memberships => <<"member", m>> \in Known(v)
  BY KnownIs
<1> QED
  BY <1>4, <1>5, <1>6, <1>7, <1>8 DEF Learned

\* The facts that make the reading whole, and the report.
BaseFacts(d) == UNION {Told(d.provider, "entries", Nothing, x) : x \in Everything(d)}
WantedFacts(d) == MemberFacts(AllMemberships(d)) \cup RelationFacts(AllRelationships(d))

\* The references of an object, each with the fact it establishes.
ReferencesOf(x) == {[of |-> x.id, rel |-> r.rel, to |-> r.to] : r \in x.refs}
ReferenceFact(ref) ==
    IF ref.rel = "primary" THEN <<"member", <<ref.of, ref.to>>>>
    ELSE <<"relation", <<ref.of, ref.rel, ref.to>>>>

PassReferences(pass) == {ref \in ReferencesOf(pass.item) : ref.rel = pass.rel}

\* The references of a pass over an object are listed, each of them and nothing else.
LEMMA ReferencesListed ==
    ASSUME NEW pass, IsFiniteSet(pass.item.refs)
    PROVE  /\ Len(References(pass)) \in Nat
           /\ \A k \in 1 .. Len(References(pass)) : References(pass)[k] \in PassReferences(pass)
           /\ \A ref \in PassReferences(pass) :
                \E k \in 1 .. Len(References(pass)) : References(pass)[k] = ref
<1> DEFINE x == pass.item
           f == [r \in x.refs |-> [of |-> x.id, rel |-> r.rel, to |-> r.to]]
<1>1. f \in Surjection(x.refs, ReferencesOf(x))
  BY DEF Surjection, ReferencesOf
<1> HIDE DEF f
<1>2. IsFiniteSet(PassReferences(pass))
  <2>1. IsFiniteSet(ReferencesOf(x))
    BY <1>1, FS_Surjection
  <2> QED
    BY <2>1, FS_Subset DEF PassReferences
<1>3. References(pass) = SetToSeq(PassReferences(pass))
  <2>1. {[of |-> x.id, rel |-> r.rel, to |-> r.to] : r \in {q \in x.refs : q.rel = pass.rel}}
        = PassReferences(pass)
    BY DEF PassReferences, ReferencesOf
  <2> QED
    BY <2>1 DEF References
<1> QED
  BY <1>2, <1>3, Listed

\* One reference: a dangling one or one to itself is marked, any other is learned.
LEMMA AdReferenceStep ==
    ASSUME NEW d, SourceOK(d), d.provider = "ad", NEW v \in Within(d), NEW x \in Items(d),
           NEW ref \in ReferencesOf(x)
    PROVE  AdReference(v, ref) \in Within(d) /\ Learned(v, AdReference(v, ref), {ReferenceFact(ref)})
<1>1. PICK r \in x.refs : ref = [of |-> x.id, rel |-> r.rel, to |-> r.to]
  BY DEF ReferencesOf
<1>2. /\ x \in DirectoryItems /\ x.id \in ObjectIds /\ r.to \in ObjectIds
      /\ r.rel \in ReferenceKinds
      /\ ref.of = x.id /\ ref.rel = r.rel /\ ref.to = r.to
  BY <1>1, SourceFacts DEF Directory, DirectoryItems
<1>3. Truncated(v) \in Within(d) /\ Truncated(v).truncated
  BY Stopped
<1>4. CASE ref.to \notin Ids(v) /\ ref.rel # "role"
  <2>1. AdReference(v, ref) = Truncated(v)
    BY <1>4 DEF AdReference
  <2> QED
    BY <1>3, <2>1 DEF Learned
<1>5. CASE ref.to \in Ids(v) /\ ref.rel = "primary"
  <2>1. AdReference(v, ref) = Joined(v, <<ref.of, ref.to>>)
    BY <1>5 DEF AdReference
  <2>2. <<ref.of, ref.to>> \in ObjectIds \X ObjectIds /\ <<ref.of, ref.to>> \in AllMemberships(d)
    <3>1. <<x.id, r.to>> \in MembershipsOf(x) \cup {<<x.id, s.to>> : s \in {q \in x.refs : q.rel = "primary"}}
      BY <1>2, <1>5
    <3> QED
      BY <1>2, <3>1 DEF AllMemberships
  <2>3. ReferenceFact(ref) = <<"member", <<ref.of, ref.to>>>>
    BY <1>5 DEF ReferenceFact
  <2> QED
    BY <2>1, <2>2, <2>3, JoinedStep
<1>6. CASE ref.rel # "primary" /\ (ref.rel = "role" \/ ref.to \in Ids(v))
  <2>1. AdReference(v, ref) = IF ref.rel # "role" /\ ref.to = ref.of THEN Truncated(v)
                              ELSE Related(v, <<ref.of, ref.rel, ref.to>>)
    BY <1>6 DEF AdReference
  <2>2. <<ref.of, ref.rel, ref.to>> \in Relations /\ <<ref.of, ref.rel, ref.to>> \in AllRelationships(d)
    <3>1. <<x.id, r.rel, r.to>> \in {<<x.id, s.rel, s.to>> : s \in {q \in x.refs : q.rel # "primary"}}
      BY <1>2, <1>6
    <3> QED
      BY <1>2, <1>6, <3>1 DEF AllRelationships, NamedRelationships, Relations, ReferenceKinds
  <2>3. ReferenceFact(ref) = <<"relation", <<ref.of, ref.rel, ref.to>>>>
    BY <1>6 DEF ReferenceFact
  <2>4. CASE ref.rel # "role" /\ ref.to = ref.of
    BY <1>3, <2>1, <2>4 DEF Learned
  <2>5. CASE ~(ref.rel # "role" /\ ref.to = ref.of)
    BY <2>1, <2>2, <2>3, <2>5, RelatedStep
  <2> QED
    BY <2>4, <2>5
<1> QED
  BY <1>4, <1>5, <1>6

\* A pass over an entry that was kept, perhaps with fewer members.
LEMMA AdEntryStep ==
    ASSUME NEW d, SourceOK(d), d.provider = "ad", NEW v \in Within(d), NEW p, NEW x \in Items(d),
           SameObject(p.item, x)
    PROVE  /\ AdEntry(v, p) \in Within(d) /\ Learned(v, AdEntry(v, p), {})
           /\ \A ref \in PassReferences(p) : Learned(v, AdEntry(v, p), {ReferenceFact(ref)})
<1> DEFINE refs == References(p)
           told == [k \in 1 .. Len(refs) |-> {ReferenceFact(refs[k])}]
<1>1. PassReferences(p) \subseteq ReferencesOf(x) /\ IsFiniteSet(p.item.refs)
  BY SourceFacts DEF SameObject, PassReferences, ReferencesOf, Directory
<1>2. /\ Len(refs) \in Nat
      /\ \A k \in 1 .. Len(refs) : refs[k] \in ReferencesOf(x)
      /\ \A ref \in PassReferences(p) : \E k \in 1 .. Len(refs) : refs[k] = ref
  BY <1>1, ReferencesListed
<1>3. AdReferenceSteps(Within(d), refs, told)
  <2> SUFFICES ASSUME NEW u \in Within(d), NEW k \in 1 .. Len(refs)
               PROVE  /\ AdReference(u, refs[k]) \in Within(d)
                      /\ Learned(u, AdReference(u, refs[k]), told[k])
    BY DEF AdReferenceSteps
  <2>1. refs[k] \in ReferencesOf(x) /\ told[k] = {ReferenceFact(refs[k])}
    BY <1>2
  <2> HIDE DEF refs, told
  <2>2. /\ AdReference(u, refs[k]) \in Within(d)
        /\ Learned(u, AdReference(u, refs[k]), {ReferenceFact(refs[k])})
    BY <2>1, AdReferenceStep
  <2> QED
    BY <2>1, <2>2
<1>4. \A k \in 1 .. Len(refs) : told[k] = {ReferenceFact(refs[k])}
  OBVIOUS
<1> HIDE DEF told
<1>5. /\ AdEntry(v, p) \in Within(d) /\ Learned(v, AdEntry(v, p), {})
      /\ \A k \in 1 .. Len(refs) : Learned(v, AdEntry(v, p), told[k])
  BY <1>2, <1>3, AdEntryGathers
<1> HIDE DEF refs
<1> QED
  BY <1>2, <1>4, <1>5

LEMMA Doubled == \A i \in Nat : (2 * i) % 2 = 0 /\ (2 * i + 1) \div 2 = i
<1> TAKE i \in Nat
<1>1. (2 * i) \div 2 = i /\ (2 * i + 1) \div 2 = i
  OBVIOUS
<1>2. \A k \in Nat : k = 2 * (k \div 2) + (k % 2)
  OBVIOUS
<1> QED
  BY <1>1, <1>2

\* The passes: one over each of the entries that were kept, for each kind.
LEMMA PassesAre ==
    ASSUME NEW s \in Seq(DirectoryItems)
    PROVE  /\ Len(Passes(s)) \in Nat
           /\ \A k \in 1 .. Len(Passes(s)) : \E i \in DOMAIN s : Passes(s)[k].item = s[i]
           /\ \A i \in DOMAIN s, rel \in ReferenceKinds :
                \E k \in 1 .. Len(Passes(s)) : Passes(s)[k] = [rel |-> rel, item |-> s[i]]
<1> DEFINE S == [rel : ReferenceKinds, item : Range(s)]
           For(rel) == [i \in DOMAIN s |-> [rel |-> rel, item |-> s[i]]]
           m == [i \in 1 .. 2 * Len(s) |-> [rel |-> IF i % 2 = 1 THEN "role" ELSE "manages",
                                            item |-> s[(i + 1) \div 2]]]
           p == For("primary")
           g == For("delegates")
<1>0. Len(s) \in Nat /\ DOMAIN s = 1 .. Len(s) /\ \A i \in 1 .. Len(s) : s[i] \in Range(s)
  BY DEF Range
<1>1. ASSUME NEW rel \in ReferenceKinds
      PROVE  /\ For(rel) \in Seq(S)
             /\ \A i \in DOMAIN s : [rel |-> rel, item |-> s[i]] \in Range(For(rel))
  <2>1. /\ Len(s) \in Nat /\ DOMAIN s = 1 .. Len(s)
        /\ \A i \in DOMAIN s : For(rel)[i] = [rel |-> rel, item |-> s[i]] /\ For(rel)[i] \in S
    BY DEF Range
  <2> QED
    BY <2>1 DEF Range
<1>2. Passes(s) = (m \o p) \o g
  BY DEF Passes
<1>3. m \in Seq(S) /\ p \in Seq(S) /\ g \in Seq(S)
  <2>1. m \in Seq(S)
    <3>1. \A i \in 1 .. 2 * Len(s) : (i + 1) \div 2 \in 1 .. Len(s)
      BY <1>0
    <3>2. \A i \in 1 .. 2 * Len(s) : m[i] \in S
      BY <1>0, <3>1 DEF ReferenceKinds
    <3>3. 2 * Len(s) \in Nat /\ DOMAIN m = 1 .. 2 * Len(s)
      BY <1>0
    <3> HIDE DEF S
    <3> QED
      BY <3>2, <3>3
  <2> QED
    BY <1>1, <2>1 DEF ReferenceKinds
<1>4. \A i \in DOMAIN s : /\ [rel |-> "role", item |-> s[i]] \in Range(m)
                          /\ [rel |-> "manages", item |-> s[i]] \in Range(m)
                          /\ [rel |-> "primary", item |-> s[i]] \in Range(p)
                          /\ [rel |-> "delegates", item |-> s[i]] \in Range(g)
  <2> TAKE i \in DOMAIN s
  <2>1. [rel |-> "role", item |-> s[i]] \in Range(m)
    <3> DEFINE k == 2 * i - 1
    <3>1. k \in 1 .. 2 * Len(s) /\ k % 2 = 1 /\ (k + 1) \div 2 = i
      BY <1>0
    <3>2. m[k] = [rel |-> "role", item |-> s[i]] /\ k \in DOMAIN m
      BY <3>1
    <3> HIDE DEF m, k
    <3> QED
      BY <3>2 DEF Range
  <2>2. [rel |-> "manages", item |-> s[i]] \in Range(m)
    <3> DEFINE k == 2 * i
    <3>1. k \in 1 .. 2 * Len(s) /\ k % 2 # 1 /\ (k + 1) \div 2 = i
      <4>1. i \in Nat /\ k \in 1 .. 2 * Len(s)
        BY <1>0
      <4>2. k % 2 = 0 /\ (k + 1) \div 2 = i
        BY <4>1, Doubled, Zenon
      <4> HIDE DEF k
      <4> QED
        BY <4>1, <4>2
    <3>2. m[k] = [rel |-> "manages", item |-> s[i]] /\ k \in DOMAIN m
      BY <3>1
    <3> HIDE DEF m, k
    <3> QED
      BY <3>2 DEF Range
  <2> HIDE DEF m
  <2> QED
    BY <1>1, <2>1, <2>2 DEF ReferenceKinds
<1> HIDE DEF m, p, g, S
<1>5. /\ Passes(s) \in Seq(S)
      /\ Range(m) \cup Range(p) \cup Range(g) \subseteq Range(Passes(s))
  <2>1. m \o p \in Seq(S) /\ Range(m) \cup Range(p) \subseteq Range(m \o p)
    BY <1>3, Concatenated
  <2>2. /\ (m \o p) \o g \in Seq(S)
        /\ Range(m \o p) \cup Range(g) \subseteq Range((m \o p) \o g)
    BY <1>3, <2>1, Concatenated
  <2> QED
    BY <1>2, <2>1, <2>2
<1>6. Len(Passes(s)) \in Nat /\ DOMAIN Passes(s) = 1 .. Len(Passes(s))
      /\ \A k \in 1 .. Len(Passes(s)) : Passes(s)[k].item \in Range(s)
  <2>1. \A q \in S : q.item \in Range(s)
    BY DEF S
  <2>2. /\ Len(Passes(s)) \in Nat /\ DOMAIN Passes(s) = 1 .. Len(Passes(s))
        /\ \A k \in 1 .. Len(Passes(s)) : Passes(s)[k] \in S
    BY <1>5
  <2> QED
    BY <2>1, <2>2
<1>7. ASSUME NEW i \in DOMAIN s, NEW rel \in ReferenceKinds
      PROVE  \E k \in 1 .. Len(Passes(s)) : Passes(s)[k] = [rel |-> rel, item |-> s[i]]
  <2>1. [rel |-> rel, item |-> s[i]] \in Range(Passes(s))
    BY <1>4, <1>5 DEF ReferenceKinds
  <2> QED
    BY <1>6, <2>1 DEF Range
<1> QED
  BY <1>6, <1>7 DEF Range

\* One trust.
LEMMA AdTrustStep ==
    ASSUME NEW d, SourceOK(d), d.provider = "ad", NEW v \in Within(d),
           NEW x \in Everything(d) \ Items(d)
    PROVE  /\ AdTrust(v, x.id) \in Within(d)
           /\ Learned(v, AdTrust(v, x.id), {<<"relation", <<"domain", "trust", x.id>>>>})
<1> DEFINE r == <<"domain", "trust", x.id>>
<1>1. x.id \in ObjectIds
  BY SourceFacts DEF Directory, DirectoryItems
<1>2. r \in Relations /\ r \in AllRelationships(d)
  <2>1. r \in TrustRelationships(d)
    BY DEF TrustRelationships
  <2>2. r \in Relations
    BY <1>1 DEF Relations
  <2> QED
    BY <2>1, <2>2 DEF AllRelationships
<1>3. AdTrust(v, x.id) = IF x.id = OwnDomain THEN Truncated(v) ELSE Related(v, r)
  BY DEF AdTrust
<1> HIDE DEF r
<1>4. Related(v, r) \in Within(d) /\ Learned(v, Related(v, r), {<<"relation", r>>})
  BY <1>2, RelatedStep
<1>5. Truncated(v) \in Within(d) /\ Learned(v, Truncated(v), {<<"relation", r>>})
  BY Stopped DEF Learned
<1> QED
  BY <1>3, <1>4, <1>5 DEF r

\* All trusts that were read.
LEMMA AdTrustsStep ==
    ASSUME NEW d, SourceOK(d), d.provider = "ad", NEW v \in Within(d)
    PROVE  /\ AdTrusts(v) \in Within(d) /\ Learned(v, AdTrusts(v), {})
           /\ \A t \in v.trusts : Learned(v, AdTrusts(v), {<<"relation", <<"domain", "trust", t>>>>})
<1> DEFINE list == SetToSeq(v.trusts)
           told == [k \in 1 .. Len(list) |-> {<<"relation", <<"domain", "trust", list[k]>>>>}]
<1>1. IsFiniteSet(v.trusts) /\ \A t \in v.trusts : \E x \in Everything(d) \ Items(d) : t = x.id
  <2>1. Everything(v) = Everything(d) /\ Items(v) = Items(d)
    BY SameDirectory DEF Within, Shape
  <2> QED
    BY <2>1 DEF Within, Gathering
<1>2. /\ Len(list) \in Nat /\ \A k \in 1 .. Len(list) : list[k] \in v.trusts
      /\ \A t \in v.trusts : \E k \in 1 .. Len(list) : list[k] = t
  BY <1>1, Listed
<1>3. AdTrustSteps(Within(d), list, told)
  <2> SUFFICES ASSUME NEW u \in Within(d), NEW k \in 1 .. Len(list)
               PROVE  AdTrust(u, list[k]) \in Within(d) /\ Learned(u, AdTrust(u, list[k]), told[k])
    BY DEF AdTrustSteps
  <2>1. PICK x \in Everything(d) \ Items(d) : list[k] = x.id
    BY <1>1, <1>2
  <2>2. told[k] = {<<"relation", <<"domain", "trust", x.id>>>>}
    BY <2>1
  <2> HIDE DEF list, told
  <2>3. /\ AdTrust(u, x.id) \in Within(d)
        /\ Learned(u, AdTrust(u, x.id), {<<"relation", <<"domain", "trust", x.id>>>>})
    BY AdTrustStep
  <2> QED
    BY <2>1, <2>2, <2>3
<1>4. \A k \in 1 .. Len(list) : told[k] = {<<"relation", <<"domain", "trust", list[k]>>>>}
  OBVIOUS
<1> HIDE DEF told
<1>5. /\ AdTrusts(v) \in Within(d) /\ Learned(v, AdTrusts(v), {})
      /\ \A k \in 1 .. Len(list) : Learned(v, AdTrusts(v), told[k])
  BY <1>2, <1>3, AdTrustsGathers
<1> HIDE DEF list
<1> QED
  BY <1>2, <1>4, <1>5

\* All passes over the entries that were kept.
LEMMA AdEntriesStep ==
    ASSUME NEW d, SourceOK(d), d.provider = "ad", NEW v \in Within(d)
    PROVE  /\ AdEntries(v) \in Within(d) /\ Learned(v, AdEntries(v), {})
           /\ \A x \in Items(d) : \A ref \in ReferencesOf(x) :
                x.id \in Ids(v) => Learned(v, AdEntries(v), {ReferenceFact(ref)})
<1> DEFINE list == Passes(v.entries)
           told == [k \in 1 .. Len(list) |-> {ReferenceFact(ref) : ref \in PassReferences(list[k])}]
<1>1. Everything(v) = Everything(d) /\ Items(v) = Items(d) /\ v.entries \in Seq(DirectoryItems)
  BY SameDirectory DEF Within, Shape
<1>2. \A i \in DOMAIN v.entries : \E x \in Items(d) : SameObject(v.entries[i], x)
  BY <1>1 DEF Within, Gathering
<1>3. /\ Len(list) \in Nat
      /\ \A k \in 1 .. Len(list) : \E i \in DOMAIN v.entries : list[k].item = v.entries[i]
      /\ \A i \in DOMAIN v.entries, rel \in ReferenceKinds :
            \E k \in 1 .. Len(list) : list[k] = [rel |-> rel, item |-> v.entries[i]]
  BY <1>1, PassesAre
<1>4. AdEntrySteps(Within(d), list, told)
  <2> SUFFICES ASSUME NEW u \in Within(d), NEW k \in 1 .. Len(list)
               PROVE  AdEntry(u, list[k]) \in Within(d) /\ Learned(u, AdEntry(u, list[k]), told[k])
    BY DEF AdEntrySteps
  <2>1. PICK x \in Items(d) : SameObject(list[k].item, x)
    BY <1>2, <1>3
  <2>2. told[k] = {ReferenceFact(ref) : ref \in PassReferences(list[k])}
    OBVIOUS
  <2> HIDE DEF list, told
  <2>3. /\ AdEntry(u, list[k]) \in Within(d) /\ Learned(u, AdEntry(u, list[k]), {})
        /\ \A ref \in PassReferences(list[k]) : Learned(u, AdEntry(u, list[k]), {ReferenceFact(ref)})
    BY <2>1, AdEntryStep
  <2> QED
    BY <2>2, <2>3 DEF Learned
<1>5. \A k \in 1 .. Len(list) : \A ref \in PassReferences(list[k]) : ReferenceFact(ref) \in told[k]
  OBVIOUS
<1> HIDE DEF told
<1>6. /\ AdEntries(v) \in Within(d) /\ Learned(v, AdEntries(v), {})
      /\ \A k \in 1 .. Len(list) : Learned(v, AdEntries(v), told[k])
  BY <1>3, <1>4, AdEntriesGathers
<1> HIDE DEF list
<1>7. ASSUME NEW x \in Items(d), NEW ref \in ReferencesOf(x), x.id \in Ids(v)
      PROVE  Learned(v, AdEntries(v), {ReferenceFact(ref)})
  <2>1. PICK i \in DOMAIN v.entries : v.entries[i].id = x.id
    BY <1>7 DEF Ids
  <2>2. PICK y \in Items(d) : SameObject(v.entries[i], y)
    BY <1>2
  <2>3. y = x
    BY <2>1, <2>2, SourceFacts DEF Directory, SameObject
  <2>4. ReferencesOf(v.entries[i]) = ReferencesOf(x)
    BY <2>2, <2>3 DEF SameObject, ReferencesOf
  <2>5. ref.rel \in ReferenceKinds
    BY SourceFacts DEF ReferencesOf, Directory, DirectoryItems
  <2>6. PICK k \in 1 .. Len(list) : list[k] = [rel |-> ref.rel, item |-> v.entries[i]]
    BY <1>3, <2>5
  <2>7. ref \in PassReferences(list[k])
    BY <2>4, <2>6 DEF PassReferences
  <2> QED
    BY <1>5, <1>6, <2>7 DEF Learned
<1> QED
  BY <1>6, <1>7

\* What the searches of a directory tell when they come to their end.
LEMMA BaseFactsAre ==
    ASSUME NEW d, SourceOK(d)
    PROVE  /\ \A x \in Items(d) : <<"entry", x.id>> \in BaseFacts(d)
           /\ d.provider = "ad" =>
                /\ \A x \in Items(d) : \A m \in MembershipsOf(x) : <<"member", m>> \in BaseFacts(d)
                /\ \A x \in Everything(d) \ Items(d) : <<"trust", x.id>> \in BaseFacts(d)
<1>1. Items(d) \subseteq Everything(d) /\ d.provider \in {"ad", "entra"}
      /\ \A x \in Everything(d) : x \in Items(d) <=> x.kind # "trust"
  BY DEF SourceOK, Items
<1>2. \A x \in Everything(d) : Told(d.provider, "entries", Nothing, x) \subseteq BaseFacts(d)
  BY DEF BaseFacts
<1>3. ASSUME NEW x \in Items(d)
      PROVE  /\ <<"entry", x.id>> \in Told(d.provider, "entries", Nothing, x)
             /\ d.provider = "ad" =>
                \A m \in MembershipsOf(x) : <<"member", m>> \in Told(d.provider, "entries", Nothing, x)
  BY <1>1 DEF Told, MemberFacts
<1>4. ASSUME NEW x \in Everything(d) \ Items(d), d.provider = "ad"
      PROVE  <<"trust", x.id>> \in Told(d.provider, "entries", Nothing, x)
  BY <1>1, <1>4 DEF Told
<1> QED
  BY <1>1, <1>2, <1>3, <1>4

\* Once the reading is whole, what is derived without being cut short is too.
LEMMA AdDerivedStep ==
    ASSUME NEW d, SourceOK(d), d.provider = "ad", NEW v \in Within(d)
    PROVE  LET w == AdDerived(v)
           IN  /\ w \in Within(d) /\ Learned(v, w, {})
               /\ BaseFacts(d) \subseteq Known(v) /\ ~w.truncated => WantedFacts(d) \subseteq Known(w)
<1> DEFINE u == AdEntries(v)
           w == AdTrusts(u)
<1>1. /\ u \in Within(d) /\ Learned(v, u, {})
      /\ \A x \in Items(d) : \A ref \in ReferencesOf(x) :
            x.id \in Ids(v) => Learned(v, u, {ReferenceFact(ref)})
  BY AdEntriesStep
<1> HIDE DEF u
<1>2. /\ w \in Within(d) /\ Learned(u, w, {})
      /\ \A t \in u.trusts : Learned(u, w, {<<"relation", <<"domain", "trust", t>>>>})
  BY <1>1, AdTrustsStep
<1>3. AdDerived(v) = w
  BY DEF AdDerived, u
<1> HIDE DEF w
<1>4. Learned(v, w, {})
  BY <1>1, <1>2 DEF Learned
<1>5. ASSUME BaseFacts(d) \subseteq Known(v), ~w.truncated PROVE WantedFacts(d) \subseteq Known(w)
  <2>1. ~u.truncated /\ Known(v) \subseteq Known(u) /\ Known(u) \subseteq Known(w)
    BY <1>1, <1>2, <1>5 DEF Learned
  <2>2. \A x \in Items(d) : x.id \in Ids(v)
    BY <1>5, BaseFactsAre, KnownIs
  <2>3. \A x \in Items(d) : \A ref \in ReferencesOf(x) : ReferenceFact(ref) \in Known(w)
    BY <1>1, <2>1, <2>2 DEF Learned
  <2>4. ASSUME NEW m \in AllMemberships(d) PROVE <<"member", m>> \in Known(w)
    <3>1. PICK x \in Items(d) : m \in MembershipsOf(x)
                                \/ \E r \in x.refs : r.rel = "primary" /\ m = <<x.id, r.to>>
      BY <2>4 DEF AllMemberships
    <3>2. CASE m \in MembershipsOf(x)
      BY <1>5, <2>1, <3>2, BaseFactsAre
    <3>3. CASE \E r \in x.refs : r.rel = "primary" /\ m = <<x.id, r.to>>
      <4>1. PICK r \in x.refs : r.rel = "primary" /\ m = <<x.id, r.to>>
        BY <3>3
      <4> DEFINE ref == [of |-> x.id, rel |-> r.rel, to |-> r.to]
      <4>2. ref \in ReferencesOf(x)
        BY DEF ReferencesOf
      <4>3. ReferenceFact(ref) = <<"member", m>>
        BY <4>1 DEF ReferenceFact
      <4> HIDE DEF ref
      <4> QED
        BY <2>3, <4>2, <4>3
    <3> QED
      BY <3>1, <3>2, <3>3
  <2>5. ASSUME NEW r \in AllRelationships(d) PROVE <<"relation", r>> \in Known(w)
    <3>1. r \in NamedRelationships(d) \/ r \in TrustRelationships(d)
      BY <2>5 DEF AllRelationships
    <3>2. CASE r \in NamedRelationships(d)
      <4>0. PICK x \in Items(d) : \E q \in x.refs : q.rel # "primary" /\ r = <<x.id, q.rel, q.to>>
        BY <3>2 DEF NamedRelationships
      <4>1. PICK q \in x.refs : q.rel # "primary" /\ r = <<x.id, q.rel, q.to>>
        BY <4>0
      <4> DEFINE ref == [of |-> x.id, rel |-> q.rel, to |-> q.to]
      <4>2. ref \in ReferencesOf(x)
        BY DEF ReferencesOf
      <4>3. ReferenceFact(ref) = <<"relation", r>>
        BY <4>1 DEF ReferenceFact
      <4> HIDE DEF ref
      <4> QED
        BY <2>3, <4>2, <4>3
    <3>3. CASE r \in TrustRelationships(d)
      <4>1. PICK x \in Everything(d) \ Items(d) : r = <<"domain", "trust", x.id>>
        BY <3>3 DEF TrustRelationships
      <4>2. x.id \in u.trusts
        BY <1>5, <2>1, BaseFactsAre, KnownIs
      <4>3. Learned(u, w, {<<"relation", r>>})
        BY <1>2, <4>1, <4>2
      <4> QED
        BY <1>5, <4>3 DEF Learned
    <3> QED
      BY <3>1, <3>2, <3>3
  <2> QED
    BY <2>4, <2>5 DEF WantedFacts, MemberFacts, RelationFacts
<1> QED
  BY <1>2, <1>3, <1>4, <1>5

-----------------------------------------------------------------------------
(***************************************************************************)
(* What is still unread, and the whole invariant.                          *)
(***************************************************************************)
\* The reads a collection can be at: the searches of its directory, and those that follow.
FollowingReads(d) ==
    {[reads |-> "members", of |-> x.id, items |-> EntraMembers[x.id]]
        : x \in {y \in Items(d) : y.kind = "group"}}
    \cup {[reads |-> "owners", of |-> x.id, items |-> EntraOwners[x.id]]
        : x \in {y \in Items(d) : y.kind \in {"application", "service"}}}
    \cup {[reads |-> "roles", of |-> Nothing, items |-> EntraRoles],
          [reads |-> "assignments", of |-> Nothing, items |-> EntraAssignments]}

IsRead(d, phase) ==
    \/ phase \in Range(d.source)
    \/ d.provider = "entra" /\ phase \in FollowingReads(d)

\* A fact that an item not yet read will tell.
IsUnread(d, fact) ==
    \/ \E x \in Range(d.left) : fact \in Told(d.provider, Head(d.phases).reads, Head(d.phases).of, x)
    \/ \E k \in 2 .. Len(d.phases) : \E x \in Range(d.phases[k].items) :
            fact \in Told(d.provider, d.phases[k].reads, d.phases[k].of, x)

\* In a search every fact of the directory is known or will be told, and so is,
\* once the base collections are read, every fact that is wanted of it.
SearchOK(d) ==
    /\ d.phases \in Seq(Range(d.phases)) /\ Len(d.phases) >= 1
    /\ \A k \in 1 .. Len(d.phases) : IsRead(d, d.phases[k])
    /\ d.left \in Seq(Range(Head(d.phases).items))
    /\ \/ \A k \in 1 .. Len(d.phases) : d.phases[k].reads = "entries"
       \/ \A k \in 1 .. Len(d.phases) : d.phases[k].reads # "entries"
    /\ ~d.truncated => \A fact \in BaseFacts(d) : fact \in Known(d) \/ IsUnread(d, fact)
    /\ ~d.truncated /\ Head(d.phases).reads # "entries" =>
            \A fact \in WantedFacts(d) : fact \in Known(d) \/ IsUnread(d, fact)

\* The same, of everything that is asked of a directory.
LEMMA SameFacts ==
    ASSUME NEW d, NEW c, c.provider = d.provider, c.source = d.source
    PROVE  /\ SourceOK(d) => SourceOK(c)
           /\ Everything(c) = Everything(d) /\ Items(c) = Items(d)
           /\ BaseFacts(c) = BaseFacts(d) /\ WantedFacts(c) = WantedFacts(d)
           /\ \A phase : IsRead(c, phase) <=> IsRead(d, phase)
<1>1. /\ Everything(c) = Everything(d) /\ Items(c) = Items(d)
      /\ AllMemberships(c) = AllMemberships(d) /\ AllRelationships(c) = AllRelationships(d)
  BY SameDirectory
<1>2. SourceOK(d) => SourceOK(c)
  BY DEF SourceOK
<1>3. BaseFacts(c) = BaseFacts(d) /\ WantedFacts(c) = WantedFacts(d)
  BY <1>1 DEF BaseFacts, WantedFacts
<1>4. FollowingReads(c) = FollowingReads(d)
  BY <1>1 DEF FollowingReads
<1> QED
  BY <1>1, <1>2, <1>3, <1>4 DEF IsRead

\* What was gathered stays so when the collection goes on to another place.
LEMMA Carried ==
    ASSUME NEW d, NEW v \in Within(d), NEW c, c \in Shape(c), c.provider = v.provider,
           c.source = v.source, c.entries = v.entries, c.memberships = v.memberships,
           c.relationships = v.relationships, c.trusts = v.trusts, c.roles = v.roles,
           v.truncated => c.truncated, c.full => c.truncated,
           c.provider = "entra" => c.full = v.full
    PROVE  c \in Within(c) /\ Known(c) = Known(v)
<1>1. /\ Everything(c) = Everything(v) /\ Items(c) = Items(v)
      /\ AllMemberships(c) = AllMemberships(v) /\ AllRelationships(c) = AllRelationships(v)
  BY SameDirectory
<1>2. Ids(c) = Ids(v)
  BY DEF Ids
<1>3. Gathering(v) /\ v.full \in BOOLEAN /\ v.truncated \in BOOLEAN
      /\ c.full \in BOOLEAN /\ c.truncated \in BOOLEAN
  BY DEF Within, Shape
<1>4. Gathering(c)
  BY <1>1, <1>2, <1>3 DEF Gathering
<1>5. Known(c) = Known(v)
  BY KnownSame
<1> QED
  BY <1>4, <1>5 DEF Within

\* A page and what it leaves.
LEMMA Paged ==
    ASSUME NEW S, NEW s \in Seq(S), NEW n \in Nat, n <= Len(s)
    PROVE  LET page == SubSeq(s, 1, n)
               rest == SubSeq(s, n + 1, Len(s))
           IN  /\ page \in Seq(S) /\ Len(page) = n /\ rest \in Seq(S)
               /\ Range(rest) \subseteq S
               /\ \A x \in Range(s) : (\E k \in 1 .. n : x = page[k]) \/ x \in Range(rest)
<1> DEFINE page == SubSeq(s, 1, n)
           rest == SubSeq(s, n + 1, Len(s))
           m == Len(s) - n
<1>1. Len(s) \in Nat /\ m \in Nat /\ DOMAIN s = 1 .. Len(s)
  OBVIOUS
<1>2. page \in Seq(S) /\ Len(page) = n /\ \A k \in 1 .. n : page[k] = s[k]
  BY <1>1
<1>3. rest \in Seq(S) /\ Len(rest) = m /\ \A k \in 1 .. m : rest[k] = s[n + k]
  <2>1. n + 1 \in Int /\ Len(s) \in Int /\ \A i \in (n + 1) .. Len(s) : s[i] \in S
    BY <1>1
  <2>2. /\ rest \in Seq(S) /\ Len(rest) = (IF n + 1 <= Len(s) THEN Len(s) - (n + 1) + 1 ELSE 0)
        /\ \A i \in 1 .. (Len(s) - (n + 1) + 1) : rest[i] = s[(n + 1) + i - 1]
    BY <2>1, SubSeqProperties
  <2> HIDE DEF rest
  <2>3. (IF n + 1 <= Len(s) THEN Len(s) - (n + 1) + 1 ELSE 0) = m /\ Len(s) - (n + 1) + 1 = m
        /\ \A k \in 1 .. m : (n + 1) + k - 1 = n + k
    <3> DEFINE l == Len(s)
    <3>1. n \in Nat /\ l \in Nat /\ n <= l
      BY <1>1
    <3> HIDE DEF l
    <3>2. (IF n + 1 <= l THEN l - (n + 1) + 1 ELSE 0) = l - n /\ l - (n + 1) + 1 = l - n
          /\ \A k \in 1 .. (l - n) : (n + 1) + k - 1 = n + k
      BY <3>1
    <3> QED
      BY <3>2 DEF l
  <2> QED
    BY <2>2, <2>3
<1>4. DOMAIN rest = 1 .. m
  BY <1>3
<1> HIDE DEF page, rest
<1>5. Range(rest) \subseteq S
  BY <1>3, <1>4 DEF Range
<1>6. ASSUME NEW x \in Range(s) PROVE (\E k \in 1 .. n : x = page[k]) \/ x \in Range(rest)
  <2>1. PICK i \in 1 .. Len(s) : x = s[i]
    BY <1>1 DEF Range
  <2>2. CASE i <= n
    <3>1. i \in 1 .. n
      BY <1>1, <2>2
    <3> QED
      BY <1>2, <2>1, <3>1
  <2>3. CASE i > n
    <3>1. i - n \in 1 .. m /\ n + (i - n) = i
      BY <1>1, <2>3
    <3> QED
      BY <1>3, <1>4, <2>1, <3>1 DEF Range
  <2> QED
    BY <1>1, <2>2, <2>3
<1> QED
  BY <1>2, <1>3, <1>5, <1>6 DEF page, rest

\* Items that were read are known now; the others are still to come.
LEMMA PageTaken ==
    ASSUME NEW d, SearchOK(d), NEW n \in Nat, n <= Len(d.left),
           NEW w, w.provider = d.provider, w.source = d.source, w.phases = d.phases,
           w.left = SubSeq(d.left, n + 1, Len(d.left)),
           ~w.truncated => ~d.truncated /\ Known(d) \subseteq Known(w),
           ~w.truncated => \A k \in 1 .. n :
                Told(d.provider, Head(d.phases).reads, Head(d.phases).of, SubSeq(d.left, 1, n)[k])
                \subseteq Known(w)
    PROVE  SearchOK(w)
<1> DEFINE S == Range(Head(d.phases).items)
           page == SubSeq(d.left, 1, n)
<1>1. /\ w.left \in Seq(S) /\ Range(w.left) \subseteq S
      /\ \A x \in Range(d.left) : (\E k \in 1 .. n : x = page[k]) \/ x \in Range(w.left)
  <2>1. d.left \in Seq(S)
    BY DEF SearchOK
  <2> HIDE DEF S
  <2> QED
    BY <2>1, Paged
<1> HIDE DEF S, page
<1>2. /\ BaseFacts(w) = BaseFacts(d) /\ WantedFacts(w) = WantedFacts(d)
      /\ \A phase : IsRead(w, phase) <=> IsRead(d, phase)
  BY SameFacts
<1>3. ASSUME ~w.truncated, NEW fact, IsUnread(d, fact) PROVE fact \in Known(w) \/ IsUnread(w, fact)
  <2>1. CASE \E x \in Range(d.left) :
               fact \in Told(d.provider, Head(d.phases).reads, Head(d.phases).of, x)
    <3>1. PICK x \in Range(d.left) :
               fact \in Told(d.provider, Head(d.phases).reads, Head(d.phases).of, x)
      BY <2>1
    <3>2. CASE x \in Range(w.left)
      BY <3>1, <3>2 DEF IsUnread
    <3>3. CASE \E k \in 1 .. n : x = page[k]
      BY <1>3, <3>1, <3>3 DEF page
    <3> QED
      BY <1>1, <3>2, <3>3
  <2>2. CASE \E k \in 2 .. Len(d.phases) : \E x \in Range(d.phases[k].items) :
               fact \in Told(d.provider, d.phases[k].reads, d.phases[k].of, x)
    BY <2>2 DEF IsUnread
  <2> QED
    BY <1>3, <2>1, <2>2 DEF IsUnread
<1> QED
  BY <1>1, <1>2, <1>3 DEF SearchOK, S

\* A sequence is one over its own elements.
LEMMA RangeTyped ==
    ASSUME NEW S, NEW s \in Seq(S)
    PROVE  s \in Seq(Range(s))
BY DEF Range

\* The elements of a tail.
LEMMA TailOf ==
    ASSUME NEW S, NEW s \in Seq(S), Len(s) >= 1
    PROVE  /\ Tail(s) \in Seq(S) /\ Len(Tail(s)) = Len(s) - 1
           /\ \A k \in 1 .. (Len(s) - 1) : Tail(s)[k] = s[k + 1]
OBVIOUS

\* The next read starts with all of its items to come.
LEMMA NextStarts ==
    ASSUME NEW d, SearchOK(d), Len(d.phases) >= 2, d.truncated \/ d.left = <<>>,
           NEW c, c.provider = d.provider, c.source = d.source, c.phases = Tail(d.phases),
           c.left = Head(Tail(d.phases)).items, d.truncated => c.truncated, Known(c) = Known(d),
           c.left \in Seq(Range(c.left))
    PROVE  SearchOK(c)
<1> DEFINE q == Tail(d.phases)
           n == Len(d.phases)
<1>1. /\ d.phases \in Seq(Range(d.phases)) /\ n \in Nat /\ n >= 2
      /\ q \in Seq(Range(d.phases)) /\ Len(q) = n - 1 /\ \A k \in 1 .. (n - 1) : q[k] = d.phases[k + 1]
  <2>1. d.phases \in Seq(Range(d.phases)) /\ n \in Nat /\ n >= 2
    BY DEF SearchOK
  <2> DEFINE s == d.phases
             R == Range(d.phases)
  <2>3. s \in Seq(R) /\ Len(s) >= 1
    BY <2>1
  <2> HIDE DEF s, R
  <2>4. Tail(s) \in Seq(R) /\ Len(Tail(s)) = Len(s) - 1
        /\ \A k \in 1 .. (Len(s) - 1) : Tail(s)[k] = s[k + 1]
    BY <2>3, TailOf
  <2>2. /\ q \in Seq(Range(d.phases)) /\ Len(q) = n - 1
        /\ \A k \in 1 .. (n - 1) : q[k] = d.phases[k + 1]
    BY <2>4 DEF s, R
  <2> QED
    BY <2>1, <2>2
<1>2. /\ Head(q) = d.phases[2] /\ Head(d.phases) = d.phases[1] /\ DOMAIN q = 1 .. (n - 1)
      /\ \A k \in 1 .. (n - 1) : k + 1 \in 1 .. n
  BY <1>1
<1> HIDE DEF q, n
<1>3. c.phases = q /\ c.left = Head(q).items /\ q \in Seq(Range(q))
  <2>1. \A k \in 1 .. (n - 1) : q[k] \in Range(q)
    BY <1>2 DEF Range
  <2>2. q \in Seq(Range(q))
    BY <1>1, <1>2, <2>1, RangeTyped
  <2> QED
    BY <2>2 DEF q
<1>4. /\ BaseFacts(c) = BaseFacts(d) /\ WantedFacts(c) = WantedFacts(d)
      /\ \A phase : IsRead(c, phase) <=> IsRead(d, phase)
  BY SameFacts
<1>5. ASSUME ~c.truncated, NEW fact, IsUnread(d, fact) PROVE IsUnread(c, fact)
  <2>1. d.left = <<>> /\ Range(d.left) = {}
    BY <1>5 DEF Range
  <2>2. PICK k \in 2 .. n : \E x \in Range(d.phases[k].items) :
               fact \in Told(d.provider, d.phases[k].reads, d.phases[k].of, x)
    BY <1>5, <2>1 DEF IsUnread, n
  <2>3. k - 1 \in 1 .. (n - 1) /\ q[k - 1] = d.phases[k]
    <3>1. k - 1 \in 1 .. (n - 1) /\ (k - 1) + 1 = k
      <4>1. n \in Nat
        BY <1>1
      <4> QED
        BY <4>1
    <3>2. q[k - 1] = d.phases[(k - 1) + 1]
      BY <1>1, <3>1
    <3> QED
      BY <3>1, <3>2
  <2>4. CASE k = 2
    <3>1. Head(q) = d.phases[k] /\ c.left = d.phases[k].items /\ c.provider = d.provider
      BY <1>2, <1>3, <2>4
    <3> QED
      BY <1>3, <2>2, <3>1 DEF IsUnread
  <2>5. CASE k # 2
    <3>1. k - 1 \in 2 .. Len(q)
      BY <1>1, <2>5
    <3> QED
      BY <1>3, <2>2, <2>3, <3>1 DEF IsUnread
  <2> QED
    BY <2>4, <2>5
<1>6. \A k \in 1 .. Len(c.phases) : \E i \in 1 .. n : c.phases[k] = d.phases[i]
  BY <1>1, <1>2, <1>3
<1>7. c.phases \in Seq(Range(c.phases)) /\ Len(c.phases) >= 1 /\ Head(c.phases) = d.phases[2]
      /\ 2 \in 1 .. n /\ 1 \in 1 .. n
  BY <1>1, <1>2, <1>3
<1>8. \A k \in 1 .. Len(c.phases) : IsRead(c, c.phases[k])
  BY <1>4, <1>6 DEF SearchOK, n
<1>9. \/ \A k \in 1 .. Len(c.phases) : c.phases[k].reads = "entries"
      \/ \A k \in 1 .. Len(c.phases) : c.phases[k].reads # "entries"
  BY <1>6 DEF SearchOK, n
<1>10. Head(c.phases).reads # "entries" => Head(d.phases).reads # "entries"
  BY <1>2, <1>7 DEF SearchOK, n
<1>11. c.left \in Seq(Range(Head(c.phases).items))
  BY <1>3
<1>12. ~c.truncated => \A fact \in BaseFacts(c) : fact \in Known(c) \/ IsUnread(c, fact)
  BY <1>4, <1>5 DEF SearchOK
<1>13. ~c.truncated /\ Head(c.phases).reads # "entries" =>
            \A fact \in WantedFacts(c) : fact \in Known(c) \/ IsUnread(c, fact)
  BY <1>4, <1>5, <1>10 DEF SearchOK
<1> QED
  BY <1>7, <1>8, <1>9, <1>11, <1>12, <1>13 DEF SearchOK

\* Where a collection is, and what has been read by then.
PlaceOK(d) ==
    /\ d.requests \in 0 .. MaxDirectoryPages
    /\ d.at \in {"search", "derive", "collected", "stored", "failed"}
    /\ d.at = "search" => SearchOK(d)
    /\ d.at = "derive" => d.provider = "ad" /\ (~d.truncated => BaseFacts(d) \subseteq Known(d))
    /\ d.at \in {"collected", "stored"} /\ ~d.truncated => BaseFacts(d) \cup WantedFacts(d) \subseteq Known(d)

\* A reading of the directory, within its limits and true to what has been read.
CollectionOK(d) == SourceOK(d) /\ d \in Within(d) /\ PlaceOK(d)

\* The inductive invariant: and the report is none, or that of the stored collection.
IdentityOK ==
    /\ CollectionOK(collection)
    /\ \/ identityReport = NoSummary
       \/ collection.at = "stored" /\ identityReport = Summary(collection)

\* What the items of a read are, by the kind of the read.
LEMMA ReadFacts ==
    ASSUME NEW d, SourceOK(d), NEW q, IsRead(d, q)
    PROVE  /\ q.items \in Seq(Range(q.items))
           /\ q.reads = "entries" => Range(q.items) \subseteq Everything(d)
           /\ d.provider = "ad" => q.reads = "entries"
           /\ q.reads \in {"entries", "members", "owners", "roles", "assignments"}
           /\ q.reads = "members" =>
                \E x \in Items(d) : x.kind = "group" /\ q.of = x.id /\ q.items = EntraMembers[x.id]
           /\ q.reads = "owners" =>
                \E x \in Items(d) : /\ x.kind \in {"application", "service"}
                                    /\ q.of = x.id /\ q.items = EntraOwners[x.id]
           /\ q.reads = "roles" => q.items = EntraRoles
           /\ q.reads = "assignments" => q.items = EntraAssignments
<1>1. CASE q \in Range(d.source)
  <2>1. PICK i \in DOMAIN d.source : q = d.source[i]
    BY <1>1 DEF Range
  <2>2. Range(q.items) \subseteq Everything(d)
    BY <2>1 DEF Everything
  <2>3. q.reads = "entries" /\ q.items \in Seq(DirectoryItems)
    <3>1. CASE d.source = <<Search(AdUsers), Search(AdGroups)>>
      <4>1. q = Search(AdUsers) \/ q = Search(AdGroups)
        BY <2>1, <3>1
      <4>2. AdUsers \in Seq(DirectoryItems) /\ AdGroups \in Seq(DirectoryItems)
        BY IdentityAssumption
      <4> QED
        BY <4>1, <4>2 DEF Search
    <3>2. CASE \E tenant \in EntraTenants : d.source = [j \in DOMAIN tenant |-> Search(tenant[j])]
      <4>1. PICK tenant \in EntraTenants : d.source = [j \in DOMAIN tenant |-> Search(tenant[j])]
        BY <3>2
      <4>2. tenant \in Seq(Seq(DirectoryItems)) /\ i \in DOMAIN tenant /\ q = Search(tenant[i])
        BY <2>1, <4>1, IdentityAssumption
      <4>3. tenant[i] \in Seq(DirectoryItems)
        BY <4>2
      <4> QED
        BY <4>2, <4>3 DEF Search
    <3> QED
      BY <3>1, <3>2 DEF SourceOK
  <2>4. q.items \in Seq(Range(q.items))
    BY <2>3, RangeTyped
  <2> QED
    BY <2>2, <2>3, <2>4
<1>2. CASE d.provider = "entra" /\ q \in FollowingReads(d)
  <2>1. ASSUME NEW x \in Items(d)
        PROVE  /\ x.kind = "group" => EntraMembers[x.id] \in Seq(ObjectIds)
               /\ x.kind \in {"application", "service"} => EntraOwners[x.id] \in Seq(ObjectIds)
    BY <1>2, SourceFacts DEF Items
  <2>2. CASE \E x \in Items(d) : x.kind = "group"
                  /\ q = [reads |-> "members", of |-> x.id, items |-> EntraMembers[x.id]]
    <3>1. PICK x \in Items(d) : x.kind = "group"
                  /\ q = [reads |-> "members", of |-> x.id, items |-> EntraMembers[x.id]]
      BY <2>2
    <3>2. q.items \in Seq(ObjectIds) /\ q.reads = "members" /\ q.of = x.id
          /\ q.items = EntraMembers[x.id]
      BY <2>1, <3>1
    <3>3. q.items \in Seq(Range(q.items))
      BY <3>2, RangeTyped
    <3> QED
      BY <1>2, <3>1, <3>2, <3>3
  <2>3. CASE \E x \in Items(d) : x.kind \in {"application", "service"}
                  /\ q = [reads |-> "owners", of |-> x.id, items |-> EntraOwners[x.id]]
    <3>1. PICK x \in Items(d) : x.kind \in {"application", "service"}
                  /\ q = [reads |-> "owners", of |-> x.id, items |-> EntraOwners[x.id]]
      BY <2>3
    <3>2. q.items \in Seq(ObjectIds) /\ q.reads = "owners" /\ q.of = x.id
          /\ q.items = EntraOwners[x.id]
      BY <2>1, <3>1
    <3>3. q.items \in Seq(Range(q.items))
      BY <3>2, RangeTyped
    <3> QED
      BY <1>2, <3>1, <3>2, <3>3
  <2>4. CASE q = [reads |-> "roles", of |-> Nothing, items |-> EntraRoles]
    BY <1>2, <2>4, IdentityAssumption
  <2>5. CASE q = [reads |-> "assignments", of |-> Nothing, items |-> EntraAssignments]
    BY <1>2, <2>5, IdentityAssumption
  <2> QED
    BY <1>2, <2>2, <2>3, <2>4, <2>5 DEF FollowingReads
<1> QED
  BY <1>1, <1>2 DEF IsRead

\* Nothing is unread when the last read has come to its end.
LEMMA AllRead ==
    ASSUME NEW d, SearchOK(d), Len(d.phases) = 1, d.left = <<>>, ~d.truncated
    PROVE  /\ BaseFacts(d) \subseteq Known(d)
           /\ Head(d.phases).reads # "entries" => WantedFacts(d) \subseteq Known(d)
<1>1. \A fact : ~IsUnread(d, fact)
  <2>1. Range(d.left) = {} /\ 2 .. Len(d.phases) = {}
    BY DEF Range
  <2> QED
    BY <2>1 DEF IsUnread
<1> QED
  BY <1>1 DEF SearchOK

\* A page leads from where it ends, too.
LEMMA ShapeOwn == ASSUME NEW d, NEW v \in Shape(d) PROVE v \in Shape(v)
BY DEF Shape

-----------------------------------------------------------------------------
(***************************************************************************)
(* The steps of Active Directory.                                          *)
(***************************************************************************)
\* The next search of a domain, or the end of the reading (the break of the outer loop).
LEMMA AdNextSearchStep ==
    ASSUME NEW w, SourceOK(w), w.provider = "ad", w \in Within(w), w.at = "search", SearchOK(w),
           w.requests \in 0 .. MaxDirectoryPages, w.truncated \/ w.left = <<>>
    PROVE  CollectionOK(AdNextSearch(w))
<1> DEFINE over == \/ Len(w.phases) = 1
                   \/ w.truncated /\ (AdFull(w) \/ w.requests >= MaxDirectoryPages \/ w.late)
           e == [w EXCEPT !.at = "derive", !.phases = <<>>, !.left = <<>>]
           c == [w EXCEPT !.phases = Tail(w.phases), !.left = Head(Tail(w.phases)).items]
<1>1. AdNextSearch(w) = IF over THEN e ELSE c
  BY DEF AdNextSearch
<1>2. w \in Shape(w) /\ Gathering(w)
  BY DEF Within
<1> HIDE DEF over
<1>3. CASE over
  <2>1. /\ e \in Shape(e) /\ e.provider = w.provider /\ e.source = w.source /\ e.entries = w.entries
        /\ e.memberships = w.memberships /\ e.relationships = w.relationships /\ e.trusts = w.trusts
        /\ e.roles = w.roles /\ e.truncated = w.truncated /\ e.full = w.full
        /\ e.at = "derive" /\ e.requests = w.requests
    BY <1>2 DEF Shape
  <2> HIDE DEF e
  <2>2. e \in Within(e) /\ Known(e) = Known(w) /\ SourceOK(e) /\ BaseFacts(e) = BaseFacts(w)
    <3>1. e.full => e.truncated
      BY <1>2, <2>1 DEF Gathering
    <3> QED
      BY <2>1, <3>1, Carried, SameFacts
  <2>3. ~e.truncated => BaseFacts(e) \subseteq Known(e)
    BY <1>3, <2>1, <2>2, AllRead DEF over
  <2> QED
    BY <1>1, <1>3, <2>1, <2>2, <2>3 DEF CollectionOK, PlaceOK
<1>4. CASE ~over
  <2>1. Len(w.phases) >= 2 /\ w.phases \in Seq(Range(w.phases))
    <3>1. w.phases \in Seq(Range(w.phases)) /\ Len(w.phases) >= 1 /\ Len(w.phases) # 1
      BY <1>4 DEF SearchOK, over
    <3> DEFINE n == Len(w.phases)
    <3>2. n \in Nat /\ n >= 1 /\ n # 1
      BY <3>1
    <3> HIDE DEF n
    <3>3. n >= 2
      BY <3>2
    <3> QED
      BY <3>1, <3>3 DEF n
  <2>2. /\ c \in Shape(c) /\ c.provider = w.provider /\ c.source = w.source /\ c.entries = w.entries
        /\ c.memberships = w.memberships /\ c.relationships = w.relationships /\ c.trusts = w.trusts
        /\ c.roles = w.roles /\ c.truncated = w.truncated /\ c.full = w.full
        /\ c.at = "search" /\ c.requests = w.requests
        /\ c.phases = Tail(w.phases) /\ c.left = Head(Tail(w.phases)).items
    BY <1>2 DEF Shape
  <2>3. Head(Tail(w.phases)) = w.phases[2] /\ IsRead(w, w.phases[2])
    <3>1. 2 \in 1 .. Len(w.phases) /\ Head(Tail(w.phases)) = w.phases[2]
      BY <2>1
    <3> QED
      BY <3>1 DEF SearchOK
  <2> HIDE DEF c
  <2>4. c \in Within(c) /\ Known(c) = Known(w) /\ SourceOK(c)
    <3>1. c.full => c.truncated
      BY <1>2, <2>2 DEF Gathering
    <3> QED
      BY <2>2, <3>1, Carried, SameFacts
  <2>5. c.left \in Seq(Range(c.left))
    <3>1. w.phases[2].items \in Seq(Range(w.phases[2].items))
      BY <2>3, ReadFacts
    <3>2. c.left = w.phases[2].items
      BY <2>2, <2>3
    <3> QED
      BY <3>1, <3>2
  <2>6. SearchOK(c)
    BY <2>1, <2>2, <2>4, <2>5, NextStarts
  <2> QED
    BY <1>1, <1>4, <2>2, <2>4, <2>6 DEF CollectionOK, PlaceOK
<1> QED
  BY <1>3, <1>4

\* A collection whose reading is where it was is still in its search.
LEMMA SearchSame ==
    ASSUME NEW d, SearchOK(d), NEW c, c.provider = d.provider, c.source = d.source,
           c.phases = d.phases, c.left = d.left, Known(c) = Known(d), d.truncated => c.truncated
    PROVE  SearchOK(c)
<1>1. /\ BaseFacts(c) = BaseFacts(d) /\ WantedFacts(c) = WantedFacts(d)
      /\ \A phase : IsRead(c, phase) <=> IsRead(d, phase)
  BY SameFacts
<1>2. \A fact : IsUnread(c, fact) <=> IsUnread(d, fact)
  BY DEF IsUnread
<1> QED
  BY <1>1, <1>2 DEF SearchOK

\* What a reading was before its page, with the page taken off.
LEMMA WithinOwn ==
    ASSUME NEW d, NEW v \in Within(d)
    PROVE  /\ v \in Within(v) /\ v.provider = d.provider /\ v.source = d.source /\ v.at = d.at
           /\ v.phases = d.phases /\ v.left = d.left /\ v.pages = d.pages
           /\ v.requests = d.requests /\ v.late = d.late
           /\ v.full => v.truncated
<1>1. v \in Shape(d) /\ Gathering(v)
  BY DEF Within
<1>2. v \in Shape(v)
  BY <1>1, ShapeOwn
<1> QED
  BY <1>1, <1>2 DEF Within, Shape, Gathering

\* The time ceiling passes.
LEMMA LateStep ==
    ASSUME NEW d, CollectionOK(d), d.at = "search"
    PROVE  CollectionOK([d EXCEPT !.late = TRUE])
<1> DEFINE c == [d EXCEPT !.late = TRUE]
<1>1. d \in Shape(d) /\ Gathering(d)
  BY DEF CollectionOK, Within
<1>2. /\ c \in Shape(c) /\ c.provider = d.provider /\ c.source = d.source /\ c.entries = d.entries
      /\ c.memberships = d.memberships /\ c.relationships = d.relationships /\ c.trusts = d.trusts
      /\ c.roles = d.roles /\ c.truncated = d.truncated /\ c.full = d.full
      /\ c.at = d.at /\ c.requests = d.requests /\ c.phases = d.phases /\ c.left = d.left
  BY <1>1 DEF Shape
<1> HIDE DEF c
<1>3. c \in Within(c) /\ Known(c) = Known(d) /\ SourceOK(c)
  <2>1. c.full => c.truncated
    BY <1>1, <1>2 DEF Gathering
  <2> QED
    BY <1>2, <2>1, Carried, SameFacts DEF CollectionOK
<1>4. SearchOK(c)
  BY <1>2, <1>3, SearchSame DEF CollectionOK, PlaceOK
<1>5. PlaceOK(c)
  BY <1>2, <1>4 DEF CollectionOK, PlaceOK
<1> QED
  BY <1>3, <1>5 DEF CollectionOK, c

\* A search that is cut short is still one.
LEMMA CutShort ==
    ASSUME NEW d, CollectionOK(d), d.at = "search"
    PROVE  LET c == Truncated(d)
           IN  /\ SourceOK(c) /\ c \in Within(c) /\ SearchOK(c) /\ c.truncated
               /\ c.provider = d.provider /\ c.at = "search"
               /\ c.requests \in 0 .. MaxDirectoryPages
<1> DEFINE c == Truncated(d)
<1>1. c \in Within(d) /\ c.truncated
  BY Stopped DEF CollectionOK
<1> HIDE DEF c
<1>2. /\ c \in Within(c) /\ c.provider = d.provider /\ c.source = d.source /\ c.at = d.at
      /\ c.phases = d.phases /\ c.left = d.left /\ c.requests = d.requests
  BY <1>1, WithinOwn DEF CollectionOK
<1>3. d \in Shape(d)
  BY DEF CollectionOK, Within
<1>4. Known(c) = Known(d)
  <2>1. c.entries = d.entries /\ c.memberships = d.memberships /\ c.roles = d.roles
        /\ c.relationships = d.relationships /\ c.trusts = d.trusts
    BY <1>3 DEF c, Truncated, Shape
  <2> QED
    BY <2>1, KnownSame
<1>5. SearchOK(c) /\ SourceOK(c)
  BY <1>1, <1>2, <1>4, SearchSame, SameFacts DEF CollectionOK, PlaceOK
<1> QED
  BY <1>1, <1>2, <1>5 DEF CollectionOK, PlaceOK, c

\* A ceiling before a page of a domain.
LEMMA AdCeilingStep ==
    ASSUME NEW d, CollectionOK(d), d.at = "search", d.provider = "ad"
    PROVE  CollectionOK(AdNextSearch(Truncated(d)))
<1> DEFINE c == Truncated(d)
<1>1. /\ SourceOK(c) /\ c \in Within(c) /\ SearchOK(c) /\ c.truncated
      /\ c.provider = "ad" /\ c.at = "search" /\ c.requests \in 0 .. MaxDirectoryPages
  BY CutShort
<1> HIDE DEF c
<1>2. CollectionOK(AdNextSearch(c))
  BY <1>1, AdNextSearchStep
<1> QED
  BY <1>2 DEF c

\* A page of a domain, and what follows where the search ends with it.
LEMMA AdPageStep ==
    ASSUME NEW d, CollectionOK(d), d.at = "search", d.provider = "ad",
           d.requests < MaxDirectoryPages, NEW n \in Nat, n <= Len(d.left), NEW referral \in BOOLEAN
    PROVE  LET rest == SubSeq(d.left, n + 1, Len(d.left))
               read == AdRead([d EXCEPT !.requests = @ + 1, !.left = rest, !.full = FALSE,
                                        !.truncated = @ \/ referral], SubSeq(d.left, 1, n))
           IN  /\ CollectionOK(read) /\ read.left = rest
               /\ read.truncated \/ rest = <<>> => CollectionOK(AdNextSearch(read))
<1> DEFINE rest == SubSeq(d.left, n + 1, Len(d.left))
           page == SubSeq(d.left, 1, n)
           b == [d EXCEPT !.requests = @ + 1, !.left = rest, !.full = FALSE,
                          !.truncated = @ \/ referral]
           read == AdRead(b, page)
           S == Range(Head(d.phases).items)
<1>1. /\ d \in Shape(d) /\ Gathering(d) /\ SourceOK(d) /\ SearchOK(d) /\ d \in Within(d)
      /\ d.requests \in 0 .. MaxDirectoryPages /\ d.truncated \in BOOLEAN
  BY DEF CollectionOK, Within, PlaceOK, Shape
<1>2. /\ b \in Shape(b) /\ b.provider = d.provider /\ b.source = d.source /\ b.entries = d.entries
      /\ b.memberships = d.memberships /\ b.relationships = d.relationships /\ b.trusts = d.trusts
      /\ b.roles = d.roles /\ b.truncated = (d.truncated \/ referral) /\ b.full = FALSE
      /\ b.at = d.at /\ b.requests = d.requests + 1 /\ b.phases = d.phases /\ b.left = rest
  BY <1>1 DEF Shape
<1> HIDE DEF b
<1>3. b \in Within(b) /\ Known(b) = Known(d) /\ SourceOK(b) /\ Everything(b) = Everything(d)
  BY <1>1, <1>2, Carried, SameFacts
<1>4. Head(d.phases).reads = "entries" /\ S \subseteq Everything(d)
  <2>1. 1 \in 1 .. Len(d.phases) /\ Head(d.phases) = d.phases[1]
    BY <1>1 DEF SearchOK
  <2>2. IsRead(d, d.phases[1])
    BY <1>1, <2>1 DEF SearchOK
  <2>3. d.phases[1].reads = "entries" /\ Range(d.phases[1].items) \subseteq Everything(d)
    BY <1>1, <2>2, ReadFacts
  <2> QED
    BY <2>1, <2>3
<1>5. page \in Seq(S) /\ Len(page) = n
  <2>1. d.left \in Seq(S)
    BY <1>1 DEF SearchOK
  <2> HIDE DEF S
  <2> QED
    BY <2>1, Paged
<1>6. page \in Seq(Everything(b))
  BY <1>3, <1>4, <1>5
<1> HIDE DEF rest, page, S, read
<1>7. /\ read \in Within(b) /\ Learned(b, read, {})
      /\ \A k \in 1 .. n : Learned(b, read, Told("ad", "entries", Nothing, page[k]))
  BY <1>2, <1>3, <1>5, <1>6, AdPageRead DEF read
<1>8. /\ read \in Within(read) /\ read.provider = d.provider /\ read.source = d.source
      /\ read.at = d.at /\ read.phases = d.phases /\ read.left = rest
      /\ read.requests = d.requests + 1
  BY <1>2, <1>7, WithinOwn
<1>9. SearchOK(read)
  <2>1. ~read.truncated => ~d.truncated /\ Known(d) \subseteq Known(read)
    BY <1>2, <1>3, <1>7 DEF Learned
  <2>2. \A x : Told("ad", "entries", Head(d.phases).of, x) = Told("ad", "entries", Nothing, x)
    BY DEF Told
  <2>3. ~read.truncated => \A k \in 1 .. n :
                Told(d.provider, Head(d.phases).reads, Head(d.phases).of, page[k]) \subseteq Known(read)
    BY <1>4, <1>7, <2>2 DEF Learned
  <2> QED
    BY <1>1, <1>8, <2>1, <2>3, PageTaken DEF page, rest
<1>10. SourceOK(read) /\ read.requests \in 0 .. MaxDirectoryPages
  <2>1. MaxDirectoryPages \in Nat
    BY IdentityAssumption
  <2> QED
    BY <1>1, <1>8, <2>1, SameFacts
<1>11. CollectionOK(read)
  BY <1>8, <1>9, <1>10 DEF CollectionOK, PlaceOK
<1>12. read.truncated \/ rest = <<>> => CollectionOK(AdNextSearch(read))
  BY <1>8, <1>9, <1>10, AdNextSearchStep
<1> QED
  BY <1>8, <1>11, <1>12 DEF read, rest, page, b

\* The derivation after the searches of a domain.
LEMMA DeriveStep ==
    ASSUME NEW d, CollectionOK(d), d.at = "derive"
    PROVE  CollectionOK([AdDerived(d) EXCEPT !.at = "collected"])
<1> DEFINE w == AdDerived(d)
           c == [w EXCEPT !.at = "collected"]
<1>1. /\ SourceOK(d) /\ d \in Within(d) /\ d.provider = "ad" /\ d.requests \in 0 .. MaxDirectoryPages
      /\ ~d.truncated => BaseFacts(d) \subseteq Known(d)
  BY DEF CollectionOK, PlaceOK
<1>2. /\ w \in Within(d) /\ Learned(d, w, {})
      /\ BaseFacts(d) \subseteq Known(d) /\ ~w.truncated => WantedFacts(d) \subseteq Known(w)
  BY <1>1, AdDerivedStep
<1> HIDE DEF w
<1>3. /\ w \in Within(w) /\ w.provider = d.provider /\ w.source = d.source
      /\ w.requests = d.requests
      /\ w.full => w.truncated
  BY <1>2, WithinOwn
<1>4. w \in Shape(w)
  BY <1>3 DEF Within
<1>5. /\ c \in Shape(c) /\ c.provider = w.provider /\ c.source = w.source /\ c.entries = w.entries
      /\ c.memberships = w.memberships /\ c.relationships = w.relationships /\ c.trusts = w.trusts
      /\ c.roles = w.roles /\ c.truncated = w.truncated /\ c.full = w.full
      /\ c.at = "collected" /\ c.requests = w.requests
  BY <1>4 DEF Shape
<1> HIDE DEF c
<1>6. c \in Within(c) /\ Known(c) = Known(w)
  BY <1>3, <1>5, Carried
<1>7. SourceOK(c) /\ BaseFacts(c) = BaseFacts(d) /\ WantedFacts(c) = WantedFacts(d)
  BY <1>1, <1>3, <1>5, SameFacts
<1>8. ~c.truncated => BaseFacts(c) \cup WantedFacts(c) \subseteq Known(c)
  BY <1>1, <1>2, <1>5, <1>6, <1>7 DEF Learned
<1> QED
  BY <1>1, <1>3, <1>5, <1>6, <1>7, <1>8 DEF CollectionOK, PlaceOK, c, w

-----------------------------------------------------------------------------
(***************************************************************************)
(* Entra: the items of its collections.                                    *)
(***************************************************************************)
\* An object of a base collection of Entra: its members are not taken from it.
LEMMA EntraItemStep ==
    ASSUME NEW d, SourceOK(d), d.provider = "entra", NEW v \in Within(d), NEW x \in Everything(d)
    PROVE  /\ EntraItem(v, x) \in Within(d)
           /\ Learned(v, EntraItem(v, x), {<<"entry", x.id>>})
<1> DEFINE e == [x EXCEPT !.members = <<>>]
           k == Kept(v, e)
           f == [Truncated(k) EXCEPT !.full = TRUE]
           told == {<<"entry", x.id>>}
<1>1. /\ Directory(Everything(d)) /\ x \in DirectoryItems /\ x \in Items(d)
  BY SourceFacts DEF Directory, Items
<1>2. /\ Gathering(v) /\ v \in Shape(d) /\ v.provider = "entra" /\ v.full \in BOOLEAN
      /\ v.truncated \in BOOLEAN /\ v.entries \in Seq(DirectoryItems)
  BY DEF Within, Shape
<1>3. e \in DirectoryItems /\ SameObject(e, x) /\ e.members = <<>> /\ e.id = x.id
  <2>1. <<>> \in Seq(ObjectIds)
    OBVIOUS
  <2>2. e = [id |-> x.id, kind |-> x.kind, members |-> <<>>, refs |-> x.refs]
    BY <1>1 DEF DirectoryItems
  <2>3. x.id \in ObjectIds /\ x.kind \in {"user", "group", "trust", "application", "service"}
        /\ x.refs \in SUBSET [rel : ReferenceKinds, to : ObjectIds]
    BY <1>1 DEF DirectoryItems
  <2> HIDE DEF e
  <2> QED
    BY <2>1, <2>2, <2>3 DEF DirectoryItems, SameObject
<1>4. MembershipsOf(e) = {} /\ Len(e.members) = 0
  BY <1>3 DEF MembershipsOf
<1> HIDE DEF e
<1>5. /\ k.entries = Append(v.entries, e) /\ Len(k.entries) = Len(v.entries) + 1
      /\ k.entries \in Seq(DirectoryItems) /\ k.memberships \in SUBSET (ObjectIds \X ObjectIds)
      /\ k.memberships = v.memberships \cup MembershipsOf(e)
      /\ k.truncated = v.truncated /\ k.full = v.full
  <2> HIDE DEF k
  <2>1. k = Kept(v, e)
    BY DEF k
  <2> QED
    BY <1>3, <2>1, KeptFacts
<1>6. /\ k \in Shape(d) /\ k.relationships = v.relationships /\ k.trusts = v.trusts /\ k.roles = v.roles
  BY <1>2, <1>5 DEF Kept, Shape
<1> HIDE DEF k
<1>7. /\ f \in Shape(d) /\ f.relationships = v.relationships /\ f.trusts = v.trusts /\ f.roles = v.roles
      /\ f.entries = k.entries /\ f.memberships = k.memberships /\ f.full = TRUE /\ f.truncated = TRUE
  BY <1>6 DEF Truncated, Shape
<1> HIDE DEF f
<1>8. /\ v.full => EntraItem(v, x) = v
      /\ ~v.full /\ x.id \in Ids(v) /\ ~(Len(v.entries) >= MaxEntries) => EntraItem(v, x) = v
      /\ ~v.full /\ x.id \notin Ids(v) /\ Len(k.entries) >= MaxEntries => EntraItem(v, x) = f
      /\ ~v.full /\ x.id \notin Ids(v) /\ ~(Len(k.entries) >= MaxEntries) => EntraItem(v, x) = k
  BY DEF EntraItem, k, f, e
<1>9. Len(v.entries) \in Nat /\ MaxEntries \in Nat /\ MaxMemberships \in Nat
      /\ IsFiniteSet(v.memberships) /\ Cardinality(v.memberships) <= MaxMemberships
  BY <1>2, IdentityAssumption DEF Gathering
<1>10. Cardinality(v.memberships) \in Nat
  BY <1>9, FS_CardinalityType
<1>11. CASE v.full
  <2>1. v.truncated
    BY <1>2, <1>11 DEF Gathering
  <2> QED
    BY <1>8, <1>11, <2>1 DEF Learned
<1>12. CASE ~v.full
  <2>1. Len(v.entries) < MaxEntries /\ ~(Len(v.entries) >= MaxEntries)
    BY <1>2, <1>9, <1>12 DEF Gathering
  <2>2. Cardinality(v.memberships) + Len(e.members) <= MaxMemberships
    BY <1>4, <1>9, <1>10
  <2>3. CASE x.id \in Ids(v)
    <3>1. <<"entry", x.id>> \in Known(v)
      BY <2>3, KnownIs
    <3> QED
      BY <1>8, <1>12, <2>1, <2>3, <3>1 DEF Learned
  <2>4. CASE x.id \notin Ids(v) /\ Len(k.entries) >= MaxEntries
    <3>1. f \in Within(d)
      BY <1>1, <1>2, <1>3, <1>4, <1>5, <1>7, <2>1, <2>2, KeptWithin
    <3> QED
      BY <1>7, <1>8, <1>12, <2>4, <3>1 DEF Learned
  <2>5. CASE x.id \notin Ids(v) /\ ~(Len(k.entries) >= MaxEntries)
    <3>1. k.full = FALSE /\ Len(v.entries) + 1 < MaxEntries
      BY <1>5, <1>9, <1>12, <2>5
    <3>2. k \in Within(d) /\ Ids(k) = Ids(v) \cup {e.id} /\ Known(v) \subseteq Known(k)
      BY <1>1, <1>2, <1>3, <1>4, <1>5, <1>6, <2>1, <2>2, <3>1, KeptWithin
    <3>3. <<"entry", x.id>> \in Known(k)
      BY <1>3, <3>2, KnownIs
    <3> QED
      BY <1>5, <1>8, <1>12, <2>5, <3>2, <3>3 DEF Learned
  <2> QED
    BY <2>3, <2>4, <2>5
<1> QED
  BY <1>2, <1>11, <1>12

\* One more role definition.
LEMMA EntraRoleStep ==
    ASSUME NEW d, NEW v \in Within(d), NEW x \in Range(EntraRoles)
    PROVE  EntraRole(v, x) \in Within(d) /\ Learned(v, EntraRole(v, x), {<<"role", x>>})
<1> DEFINE w == [v EXCEPT !.roles = v.roles \cup {x}]
<1>1. /\ Gathering(v) /\ v \in Shape(d) /\ v.source = d.source /\ v.provider = d.provider
      /\ v.roles \in SUBSET Range(EntraRoles)
  BY DEF Within, Shape
<1>2. /\ w \in Shape(d) /\ w.roles = v.roles \cup {x} /\ w.relationships = v.relationships
      /\ w.entries = v.entries /\ w.memberships = v.memberships /\ w.trusts = v.trusts
      /\ w.full = v.full /\ w.truncated = v.truncated /\ w.source = d.source /\ w.provider = d.provider
  BY <1>1 DEF Shape
<1>3. /\ Everything(w) = Everything(v) /\ Items(w) = Items(v)
      /\ AllMemberships(w) = AllMemberships(v) /\ AllRelationships(w) = AllRelationships(v)
  BY <1>1, <1>2, SameDirectory
<1>4. Truncated(v) \in Within(d) /\ Truncated(v).truncated
  BY Stopped
<1>5. Ids(w) = Ids(v)
  BY <1>2 DEF Ids
<1>6. EntraRole(v, x) = Truncated(v) \/ EntraRole(v, x) = w
  BY DEF EntraRole
<1> HIDE DEF w
<1>7. Gathering(w)
  BY <1>1, <1>2, <1>3, <1>5 DEF Gathering
<1>8. Known(v) \subseteq Known(w) /\ <<"role", x>> \in Known(w)
  BY <1>2, <1>5, KnownGrows, KnownIs
<1> QED
  BY <1>2, <1>4, <1>6, <1>7, <1>8 DEF Within, Learned

\* The objects that were kept are objects of the directory, by name.
LEMMA IdsAreItems ==
    ASSUME NEW d, NEW v \in Within(d)
    PROVE  /\ Ids(v) \subseteq ObjectIds
           /\ \A id \in Ids(v) : \E i \in DOMAIN v.entries : \E x \in Items(d) :
                v.entries[i].id = id /\ SameObject(v.entries[i], x)
<1>1. Gathering(v) /\ v.source = d.source /\ v.provider = d.provider
      /\ v.entries \in Seq(DirectoryItems)
  BY DEF Within, Shape
<1>2. Items(v) = Items(d)
  BY <1>1, SameDirectory
<1>3. \A i \in DOMAIN v.entries : v.entries[i] \in DirectoryItems /\ v.entries[i].id \in ObjectIds
  <2>1. \A i \in DOMAIN v.entries : v.entries[i] \in DirectoryItems
    BY <1>1
  <2>2. \A e \in DirectoryItems : e.id \in ObjectIds
    BY DEF DirectoryItems
  <2> QED
    BY <2>1, <2>2
<1> QED
  BY <1>1, <1>2, <1>3 DEF Ids, Gathering

\* One member of a group: a dangling one is marked (add_member).
LEMMA EntraMemberStep ==
    ASSUME NEW d, d.provider = "entra", NEW v \in Within(d), NEW x \in Items(d), x.id \in ObjectIds,
           x.kind = "group",
           NEW m \in Range(EntraMembers[x.id])
    PROVE  /\ EntraMember(v, x.id, m) \in Within(d)
           /\ Learned(v, EntraMember(v, x.id, m), {<<"member", <<m, x.id>>>>})
<1>1. Truncated(v) \in Within(d) /\ Truncated(v).truncated
  BY Stopped
<1>2. CASE m \notin Ids(v)
  BY <1>1, <1>2 DEF EntraMember, Learned
<1>3. CASE m \in Ids(v)
  <2>1. m \in ObjectIds
    BY <1>3, IdsAreItems
  <2>2. <<m, x.id>> \in AllMemberships(d)
    BY DEF AllMemberships
  <2>3. <<m, x.id>> \in ObjectIds \X ObjectIds
    BY <1>3, <2>1
  <2>4. Joined(v, <<m, x.id>>) \in Within(d)
        /\ Learned(v, Joined(v, <<m, x.id>>), {<<"member", <<m, x.id>>>>})
    BY <2>2, <2>3, JoinedStep
  <2> QED
    BY <1>3, <2>4 DEF EntraMember
<1> QED
  BY <1>2, <1>3

\* One owner of an application or service (add_owner).
LEMMA EntraOwnerStep ==
    ASSUME NEW d, d.provider = "entra", NEW v \in Within(d), NEW x \in Items(d), x.id \in ObjectIds,
           x.kind \in {"application", "service"}, NEW o \in Range(EntraOwners[x.id])
    PROVE  /\ EntraOwner(v, x.id, o) \in Within(d)
           /\ Learned(v, EntraOwner(v, x.id, o), {<<"relation", <<o, "owns", x.id>>>>})
<1>1. Truncated(v) \in Within(d) /\ Truncated(v).truncated
  BY Stopped
<1>2. CASE o \notin Ids(v)
  BY <1>1, <1>2 DEF EntraOwner, Learned
<1>3. CASE o \in Ids(v)
  <2>1. o \in ObjectIds
    BY <1>3, IdsAreItems
  <2>2. <<o, "owns", x.id>> \in AllRelationships(d)
    <3>1. <<o, "owns", x.id>> \in OwnerRelationships(d)
      BY DEF OwnerRelationships
    <3> QED
      BY <3>1 DEF AllRelationships
  <2>3. <<o, "owns", x.id>> \in Relations
    BY <2>1 DEF Relations
  <2>4. Related(v, <<o, "owns", x.id>>) \in Within(d)
        /\ Learned(v, Related(v, <<o, "owns", x.id>>), {<<"relation", <<o, "owns", x.id>>>>})
    BY <2>2, <2>3, RelatedStep
  <2> QED
    BY <1>3, <2>4 DEF EntraOwner
<1> QED
  BY <1>2, <1>3

\* One role assignment (add_role_assignment).
LEMMA EntraAssignmentStep ==
    ASSUME NEW d, d.provider = "entra", NEW v \in Within(d), NEW a \in Range(EntraAssignments)
    PROVE  /\ EntraAssignment(v, a) \in Within(d)
           /\ Learned(v, EntraAssignment(v, a), {<<"relation", <<a.principal, "role", a.role>>>>})
<1>1. Truncated(v) \in Within(d) /\ Truncated(v).truncated
  BY Stopped
<1>2. CASE a.principal \notin Ids(v) \/ a.role \notin v.roles
  BY <1>1, <1>2 DEF EntraAssignment, Learned
<1>3. CASE a.principal \in Ids(v) /\ a.role \in v.roles
  <2>1. a.principal \in ObjectIds /\ a.role \in Range(EntraRoles)
    BY <1>3, IdsAreItems DEF Within, Shape
  <2>2. <<a.principal, "role", a.role>> \in AllRelationships(d)
    BY DEF AllRelationships, RoleRelationships
  <2>3. <<a.principal, "role", a.role>> \in Relations
    BY <2>1 DEF Relations
  <2>4. Related(v, <<a.principal, "role", a.role>>) \in Within(d)
        /\ Learned(v, Related(v, <<a.principal, "role", a.role>>),
                   {<<"relation", <<a.principal, "role", a.role>>>>})
    BY <2>2, <2>3, RelatedStep
  <2> QED
    BY <1>3, <2>4 DEF EntraAssignment
<1> QED
  BY <1>2, <1>3

\* The item of a page, whatever its collection.
LEMMA EntraHandledStep ==
    ASSUME NEW d, SourceOK(d), d.provider = "entra", IsRead(d, Head(d.phases)), NEW v \in Within(d),
           NEW x \in Range(Head(d.phases).items)
    PROVE  /\ EntraHandled(v, x) \in Within(d)
           /\ Learned(v, EntraHandled(v, x), Told("entra", Head(d.phases).reads, Head(d.phases).of, x))
<1> DEFINE q == Head(d.phases)
<1>1. v.phases = d.phases
  BY DEF Within, Shape
<1> HIDE DEF q
<1>2. IsRead(d, q) /\ x \in Range(q.items) /\ Head(v.phases) = q
  BY <1>1 DEF q
<1>3. /\ q.reads = "entries" => Range(q.items) \subseteq Everything(d)
      /\ q.reads \in {"entries", "members", "owners", "roles", "assignments"}
      /\ q.reads = "members" =>
           \E y \in Items(d) : y.kind = "group" /\ q.of = y.id /\ q.items = EntraMembers[y.id]
      /\ q.reads = "owners" =>
           \E y \in Items(d) : /\ y.kind \in {"application", "service"}
                               /\ q.of = y.id /\ q.items = EntraOwners[y.id]
      /\ q.reads = "roles" => q.items = EntraRoles
      /\ q.reads = "assignments" => q.items = EntraAssignments
  BY <1>2, ReadFacts
<1>4. \A y \in Items(d) : y.id \in ObjectIds
  BY SourceFacts DEF Directory, DirectoryItems
<1>5. CASE q.reads = "entries"
  <2>1. EntraHandled(v, x) = EntraItem(v, x)
        /\ Told("entra", q.reads, q.of, x) = {<<"entry", x.id>>}
    BY <1>2, <1>5 DEF EntraHandled, Told
  <2>2. x \in Everything(d)
    BY <1>2, <1>3, <1>5
  <2> QED
    BY <2>1, <2>2, EntraItemStep DEF q
<1>6. CASE q.reads = "members"
  <2>1. PICK y \in Items(d) : y.kind = "group" /\ q.of = y.id /\ q.items = EntraMembers[y.id]
    BY <1>3, <1>6
  <2>2. EntraHandled(v, x) = EntraMember(v, y.id, x)
        /\ Told("entra", q.reads, q.of, x) = {<<"member", <<x, y.id>>>>}
    BY <1>2, <1>6, <2>1 DEF EntraHandled, Told
  <2>3. x \in Range(EntraMembers[y.id])
    BY <1>2, <2>1
  <2> QED
    BY <1>4, <2>1, <2>2, <2>3, EntraMemberStep DEF q
<1>7. CASE q.reads = "owners"
  <2>1. PICK y \in Items(d) : /\ y.kind \in {"application", "service"}
                              /\ q.of = y.id /\ q.items = EntraOwners[y.id]
    BY <1>3, <1>7
  <2>2. EntraHandled(v, x) = EntraOwner(v, y.id, x)
        /\ Told("entra", q.reads, q.of, x) = {<<"relation", <<x, "owns", y.id>>>>}
    BY <1>2, <1>7, <2>1 DEF EntraHandled, Told
  <2>3. x \in Range(EntraOwners[y.id])
    BY <1>2, <2>1
  <2> QED
    BY <1>4, <2>1, <2>2, <2>3, EntraOwnerStep DEF q
<1>8. CASE q.reads = "roles"
  <2>1. EntraHandled(v, x) = EntraRole(v, x)
        /\ Told("entra", q.reads, q.of, x) = {<<"role", x>>}
    BY <1>2, <1>8 DEF EntraHandled, Told
  <2>2. x \in Range(EntraRoles)
    BY <1>2, <1>3, <1>8
  <2> QED
    BY <2>1, <2>2, EntraRoleStep DEF q
<1>9. CASE q.reads = "assignments"
  <2>1. EntraHandled(v, x) = EntraAssignment(v, x)
        /\ Told("entra", q.reads, q.of, x) = {<<"relation", <<x.principal, "role", x.role>>>>}
    BY <1>2, <1>9 DEF EntraHandled, Told
  <2>2. x \in Range(EntraAssignments)
    BY <1>2, <1>3, <1>9
  <2> QED
    BY <2>1, <2>2, EntraAssignmentStep DEF q
<1> QED
  BY <1>3, <1>5, <1>6, <1>7, <1>8, <1>9

\* The items of a page.
LEMMA EntraPageRead ==
    ASSUME NEW d, SourceOK(d), d.provider = "entra", IsRead(d, Head(d.phases)), NEW v \in Within(d),
           NEW page \in Seq(Range(Head(d.phases).items))
    PROVE  LET w == EntraRead(v, page)
           IN  /\ w \in Within(d) /\ Learned(v, w, {})
               /\ \A k \in 1 .. Len(page) :
                    Learned(v, w, Told("entra", Head(d.phases).reads, Head(d.phases).of, page[k]))
<1> DEFINE told == [k \in 1 .. Len(page) |->
                        Told("entra", Head(d.phases).reads, Head(d.phases).of, page[k])]
           w == EntraRead(v, page)
<1>1. \A u \in Within(d), x \in Range(Head(d.phases).items) :
        /\ EntraHandled(u, x) \in Within(d)
        /\ Learned(u, EntraHandled(u, x), Told("entra", Head(d.phases).reads, Head(d.phases).of, x))
  BY EntraHandledStep
<1>2. Len(page) \in Nat /\ \A k \in 1 .. Len(page) : page[k] \in Range(Head(d.phases).items)
  OBVIOUS
<1>3. EntraHandledSteps(Within(d), page, told)
  BY <1>1, <1>2 DEF EntraHandledSteps
<1> HIDE DEF told, w
<1>4. w \in Within(d) /\ Learned(v, w, {}) /\ \A k \in 1 .. Len(page) : Learned(v, w, told[k])
  BY <1>2, <1>3, EntraReadGathers DEF w
<1> QED
  BY <1>4 DEF told, w

-----------------------------------------------------------------------------
(***************************************************************************)
(* Entra: the reads that follow the base collections.                      *)
(***************************************************************************)
\* The objects kept that are of some kinds.
LEMMA OfKindIs ==
    ASSUME NEW st, st.entries \in Seq(DirectoryItems), NEW kinds
    PROVE  /\ OfKind(st, kinds) \in Seq(DirectoryItems)
           /\ \A x \in Range(OfKind(st, kinds)) : x.kind \in kinds /\ x \in Range(st.entries)
           /\ \A i \in DOMAIN st.entries :
                st.entries[i].kind \in kinds => st.entries[i] \in Range(OfKind(st, kinds))
<1> DEFINE s == st.entries
           n == Len(s)
           R == {x \in DirectoryItems : x.kind \in kinds /\ x \in Range(s)}
           V == Seq(R)
           next(v, k) == IF s[k].kind \in kinds THEN Append(v, s[k]) ELSE v
           P(f) == f = [i \in 0 .. n |-> IF i = 0 THEN <<>>
                                         ELSE IF s[i].kind \in kinds THEN Append(f[i - 1], s[i])
                                         ELSE f[i - 1]]
           G == [k \in 1 .. n |-> [v \in V |-> next(v, k)]]
           h == CHOOSE g : P(g)
<1>1. s \in Seq(DirectoryItems) /\ n \in Nat /\ DOMAIN s = 1 .. n
      /\ \A k \in 1 .. n : s[k] \in DirectoryItems /\ s[k] \in Range(s)
  BY DEF Range
<1>2. \A k \in 1 .. n : s[k].kind \in kinds => s[k] \in R
  BY <1>1
<1>3. /\ <<>> \in V
      /\ \A v \in V, k \in 1 .. n : next(v, k) \in V
      /\ \A v \in V : v \in Seq(DirectoryItems) /\ \A x \in Range(v) : x \in R
  <2> HIDE DEF s, n
  <2>1. \A v \in V : \A x \in R : Append(v, x) \in V
    <3> HIDE DEF R
    <3> QED OBVIOUS
  <2>2. \A v \in V : v \in Seq(DirectoryItems) /\ \A x \in Range(v) : x \in R
    <3>1. \A r \in R : r \in DirectoryItems
      OBVIOUS
    <3> HIDE DEF R
    <3> QED BY <3>1 DEF Range
  <2>3. <<>> \in V
    OBVIOUS
  <2> HIDE DEF V, R
  <2> QED BY <1>2, <2>1, <2>2, <2>3
<1>4. G \in [1 .. n -> [V -> V]] /\ \A k \in 1 .. n, v \in V : G[k][v] = next(v, k)
  <2> HIDE DEF V, R, n, s, next
  <2> QED BY <1>3
<1>5. OfKind(st, kinds) = h[n]
  BY DEF OfKind
<1>6. \A v \in V, k \in 1 .. n :
        next(v, k) = IF s[k].kind \in kinds THEN Append(v, s[k]) ELSE v
  OBVIOUS
<1>7. \A x \in R : x.kind \in kinds /\ x \in Range(s)
  OBVIOUS
<1> HIDE DEF G, n, h, s, V, R, next
<1>8. PICK f \in [0 .. n -> V] : Follows(f, n, <<>>, G)
  BY <1>1, <1>3, <1>4, Recursion
<1>9. P(f)
  <2>1. ASSUME NEW k \in 1 .. n
        PROVE  f[k] = IF s[k].kind \in kinds THEN Append(f[k - 1], s[k]) ELSE f[k - 1]
    <3>1. f[k - 1] \in V
      BY <1>1, <1>8, Stepwise
    <3> QED
      BY <1>4, <1>6, <1>8, <3>1 DEF Follows
  <2> QED
    BY <1>1, <1>8, <2>1, Stepwise DEF Follows
<1>10. P(h)
  <2> HIDE DEF P
  <2> QED BY <1>9 DEF h
<1>11. h[0] = <<>> /\ \A k \in 1 .. n :
          h[k] = IF s[k].kind \in kinds THEN Append(h[k - 1], s[k]) ELSE h[k - 1]
  BY <1>1, <1>10, Stepwise
<1> HIDE DEF P
<1> DEFINE T == {k \in 0 .. n : h[k] \in V
                                /\ \A i \in 1 .. k : s[i].kind \in kinds => s[i] \in Range(h[k])}
<1>12. 0 \in T
  BY <1>1, <1>3, <1>11
<1>13. ASSUME NEW k \in 1 .. n, k - 1 \in T PROVE k \in T
  <2>1. h[k - 1] \in V /\ h[k] \in V /\ k \in 0 .. n
    <3>1. h[k - 1] \in V
      BY <1>13
    <3> HIDE DEF T
    <3>2. h[k] = next(h[k - 1], k)
      BY <1>6, <1>11, <3>1
    <3>3. next(h[k - 1], k) \in V
      BY <1>3, <3>1
    <3> QED
      BY <1>1, <3>1, <3>2, <3>3, Stepwise
  <2>2. Range(h[k - 1]) \subseteq Range(h[k]) /\ (s[k].kind \in kinds => s[k] \in Range(h[k]))
    <3>1. CASE s[k].kind \in kinds
      <4> DEFINE v == h[k - 1]
                 x == s[k]
      <4>1. v \in Seq(DirectoryItems) /\ x \in DirectoryItems /\ h[k] = Append(v, x)
        BY <1>1, <1>3, <1>11, <2>1, <3>1
      <4> HIDE DEF v, x
      <4>2. /\ DOMAIN Append(v, x) = 1 .. (Len(v) + 1) /\ DOMAIN v = 1 .. Len(v) /\ Len(v) \in Nat
            /\ Append(v, x)[Len(v) + 1] = x /\ \A i \in 1 .. Len(v) : Append(v, x)[i] = v[i]
        BY <4>1
      <4>3. Range(v) \subseteq Range(h[k]) /\ x \in Range(h[k])
        BY <4>1, <4>2 DEF Range
      <4> QED
        BY <4>3 DEF v, x
    <3>2. CASE s[k].kind \notin kinds
      BY <1>11, <3>2
    <3> QED
      BY <3>1, <3>2
  <2>3. ASSUME NEW i \in 1 .. k, s[i].kind \in kinds PROVE s[i] \in Range(h[k])
    <3>1. CASE i = k
      BY <2>2, <2>3, <3>1
    <3>2. CASE i # k
      <4>1. i \in 1 .. (k - 1)
        BY <3>2
      <4> QED
        BY <1>13, <2>2, <2>3, <4>1
    <3> QED
      BY <3>1, <3>2
  <2> QED
    BY <2>1, <2>3
<1>14. \A k \in 0 .. n : k \in T
  <2> HIDE DEF T
  <2> QED BY <1>1, <1>12, <1>13, AllAlong
<1>15. n \in T
  <2> HIDE DEF T
  <2> QED BY <1>1, <1>14, Stepwise
<1>16. h[n] \in V /\ \A i \in 1 .. n : s[i].kind \in kinds => s[i] \in Range(h[n])
  BY <1>15
<1> HIDE DEF T
<1>17. h[n] \in Seq(DirectoryItems) /\ \A x \in Range(h[n]) : x.kind \in kinds /\ x \in Range(s)
  BY <1>3, <1>7, <1>16
<1> QED
  BY <1>1, <1>5, <1>16, <1>17 DEF s

\* At most n of a sequence's elements; all of them when there are no more.
LEMMA AtMostIs ==
    ASSUME NEW S, NEW s \in Seq(S), NEW n \in Nat
    PROVE  AtMost(n, s) \in Seq(S) /\ (Len(s) <= n => AtMost(n, s) = s)
<1>1. Len(s) \in Nat /\ Min({n, Len(s)}) = IF n <= Len(s) THEN n ELSE Len(s)
  BY MinOf
<1> DEFINE m == IF n <= Len(s) THEN n ELSE Len(s)
<1>2. m \in 0 .. Len(s) /\ AtMost(n, s) = SubSeq(s, 1, m)
  <2>1. Min({n, Len(s)}) = m
    BY <1>1
  <2>2. m \in 0 .. Len(s)
    BY <1>1
  <2> HIDE DEF m
  <2> QED
    BY <2>1, <2>2 DEF AtMost
<1>3. Len(s) <= n => m = Len(s)
  BY <1>1
<1> HIDE DEF m
<1>4. SubSeq(s, 1, m) \in Seq(S) /\ SubSeq(s, 1, Len(s)) = s
  BY <1>2
<1> QED
  BY <1>2, <1>3, <1>4

\* The reads that follow, one for each object they are made of.
LEMMA ReadsAre ==
    ASSUME NEW what, NEW s \in Seq(DirectoryItems), NEW items, NEW S,
           \A x \in Range(s) : [reads |-> what, of |-> x.id, items |-> items[x.id]] \in S
    PROVE  /\ Reads(what, s, items) \in Seq(S)
           /\ \A x \in Range(s) :
                [reads |-> what, of |-> x.id, items |-> items[x.id]] \in Range(Reads(what, s, items))
<1> DEFINE r == Reads(what, s, items)
<1>1. /\ DOMAIN s = 1 .. Len(s) /\ Len(s) \in Nat
      /\ r = [i \in 1 .. Len(s) |-> [reads |-> what, of |-> s[i].id, items |-> items[s[i].id]]]
  BY DEF Reads
<1>2. \A i \in 1 .. Len(s) : s[i] \in Range(s) /\ r[i] \in S
                             /\ r[i] = [reads |-> what, of |-> s[i].id, items |-> items[s[i].id]]
  BY <1>1 DEF Range
<1>3. \A x \in Range(s) : \E i \in 1 .. Len(s) : x = s[i]
  BY <1>1 DEF Range
<1>4. DOMAIN r = 1 .. Len(s)
  BY <1>1
<1>5. r \in Seq(S)
  <2>1. r = [i \in 1 .. Len(s) |-> r[i]]
    BY <1>1
  <2> HIDE DEF r
  <2>2. r \in [1 .. Len(s) -> S]
    BY <1>2, <2>1
  <2> QED
    BY <1>1, <2>2
<1> HIDE DEF r
<1>6. \A x \in Range(s) : [reads |-> what, of |-> x.id, items |-> items[x.id]] \in Range(r)
  <2> SUFFICES ASSUME NEW x \in Range(s)
               PROVE  [reads |-> what, of |-> x.id, items |-> items[x.id]] \in Range(r)
    OBVIOUS
  <2>1. PICK i \in 1 .. Len(s) : x = s[i]
    BY <1>3
  <2>2. r[i] = [reads |-> what, of |-> x.id, items |-> items[x.id]] /\ r[i] \in Range(r)
    BY <1>2, <1>4, <2>1 DEF Range
  <2> QED
    BY <2>2
<1> QED
  BY <1>5, <1>6 DEF r

\* The reads that follow: those of objects of the directory, and every one of
\* them when nothing is left out.
LEMMA FollowingFacts ==
    ASSUME NEW d, SourceOK(d), d.provider = "entra", d \in Within(d), ~d.full
    PROVE  /\ EntraFollowing(d) \in Seq(FollowingReads(d)) /\ Len(EntraFollowing(d)) >= 1
           /\ [reads |-> "assignments", of |-> Nothing, items |-> EntraAssignments]
                \in Range(EntraFollowing(d))
           /\ ~EntraOmits(d) => \A i \in DOMAIN d.entries :
                /\ d.entries[i].kind # "group"
                /\ d.entries[i].kind \in {"application", "service"} =>
                    [reads |-> "owners", of |-> d.entries[i].id, items |-> EntraOwners[d.entries[i].id]]
                        \in Range(EntraFollowing(d))
<1> DEFINE groups == OfKind(d, {"group"})
           owned == OfKind(d, {"application", "service"})
           F == FollowingReads(d)
           A == Reads("members", AtMost(MaxMemberReads, groups), EntraMembers)
           B == Reads("owners", AtMost(MaxOwnerReads, owned), EntraOwners)
           C == <<[reads |-> "roles", of |-> Nothing, items |-> EntraRoles],
                  [reads |-> "assignments", of |-> Nothing, items |-> EntraAssignments]>>
<1>1. d.entries \in Seq(DirectoryItems) /\ Gathering(d)
  BY DEF Within, Shape
<1>2. /\ groups \in Seq(DirectoryItems)
      /\ \A x \in Range(groups) : x.kind = "group" /\ x \in Range(d.entries)
      /\ \A i \in DOMAIN d.entries : d.entries[i].kind = "group" => d.entries[i] \in Range(groups)
  <2>1. /\ OfKind(d, {"group"}) \in Seq(DirectoryItems)
        /\ \A x \in Range(OfKind(d, {"group"})) : x.kind \in {"group"} /\ x \in Range(d.entries)
        /\ \A i \in DOMAIN d.entries :
             d.entries[i].kind \in {"group"} => d.entries[i] \in Range(OfKind(d, {"group"}))
    BY <1>1, OfKindIs
  <2> QED
    BY <2>1
<1>3. /\ owned \in Seq(DirectoryItems)
      /\ \A x \in Range(owned) : x.kind \in {"application", "service"} /\ x \in Range(d.entries)
      /\ \A i \in DOMAIN d.entries :
           d.entries[i].kind \in {"application", "service"} => d.entries[i] \in Range(owned)
  BY <1>1, OfKindIs
<1>4. EntraFollowing(d) = (A \o B) \o C
  BY DEF EntraFollowing
<1>5. EntraOmits(d) <=> groups # <<>> \/ Len(owned) > MaxOwnerReads
  BY DEF EntraOmits
<1> HIDE DEF groups, owned
<1>6. \A x \in Range(d.entries) : \E y \in Items(d) : y.id = x.id /\ y.kind = x.kind
  BY <1>1 DEF Gathering, SameObject, Range
<1>7. MaxMemberReads \in Nat /\ MaxOwnerReads \in Nat
  BY IdentityAssumption
<1>8. /\ AtMost(MaxMemberReads, groups) \in Seq(Range(groups))
      /\ AtMost(MaxOwnerReads, owned) \in Seq(Range(owned))
      /\ AtMost(MaxMemberReads, groups) \in Seq(DirectoryItems)
      /\ AtMost(MaxOwnerReads, owned) \in Seq(DirectoryItems)
      /\ Len(owned) <= MaxOwnerReads => AtMost(MaxOwnerReads, owned) = owned
  <2>1. groups \in Seq(Range(groups)) /\ owned \in Seq(Range(owned))
    BY <1>2, <1>3, RangeTyped
  <2> QED
    BY <1>2, <1>3, <1>7, <2>1, AtMostIs
<1>9. /\ \A x \in Range(AtMost(MaxMemberReads, groups)) : x \in Range(groups)
      /\ \A x \in Range(AtMost(MaxOwnerReads, owned)) : x \in Range(owned)
  BY <1>8 DEF Range
<1>10. /\ \A x \in Range(groups) :
            [reads |-> "members", of |-> x.id, items |-> EntraMembers[x.id]] \in F
       /\ \A x \in Range(owned) :
            [reads |-> "owners", of |-> x.id, items |-> EntraOwners[x.id]] \in F
  <2>1. ASSUME NEW x \in Range(groups)
        PROVE  [reads |-> "members", of |-> x.id, items |-> EntraMembers[x.id]] \in F
    <3>1. PICK y \in Items(d) : y.id = x.id /\ y.kind = "group"
      BY <1>2, <1>6
    <3>2. [reads |-> "members", of |-> y.id, items |-> EntraMembers[y.id]] \in F
      BY <3>1 DEF FollowingReads
    <3> QED
      BY <3>1, <3>2
  <2>2. ASSUME NEW x \in Range(owned)
        PROVE  [reads |-> "owners", of |-> x.id, items |-> EntraOwners[x.id]] \in F
    <3>1. PICK y \in Items(d) : y.id = x.id /\ y.kind \in {"application", "service"}
      BY <1>3, <1>6
    <3>2. [reads |-> "owners", of |-> y.id, items |-> EntraOwners[y.id]] \in F
      BY <3>1 DEF FollowingReads
    <3> QED
      BY <3>1, <3>2
  <2> QED
    BY <2>1, <2>2
<1>11. /\ [reads |-> "roles", of |-> Nothing, items |-> EntraRoles] \in F
       /\ [reads |-> "assignments", of |-> Nothing, items |-> EntraAssignments] \in F
  BY DEF FollowingReads
<1> HIDE DEF F
<1>12. C \in Seq(F) /\ Len(C) = 2
       /\ [reads |-> "assignments", of |-> Nothing, items |-> EntraAssignments] \in Range(C)
  <2>1. C \in Seq(F) /\ Len(C) = 2
    BY <1>11
  <2>2. C[2] = [reads |-> "assignments", of |-> Nothing, items |-> EntraAssignments]
        /\ 2 \in DOMAIN C
    OBVIOUS
  <2> HIDE DEF C
  <2>3. C[2] \in Range(C)
    BY <2>2 DEF Range
  <2> QED
    BY <2>1, <2>2, <2>3
<1>13. A \in Seq(F)
  BY <1>8, <1>9, <1>10, ReadsAre
<1>14. B \in Seq(F) /\ \A x \in Range(AtMost(MaxOwnerReads, owned)) :
          [reads |-> "owners", of |-> x.id, items |-> EntraOwners[x.id]] \in Range(B)
  BY <1>8, <1>9, <1>10, ReadsAre
<1> HIDE DEF A, B, C
<1>15. A \o B \in Seq(F) /\ Range(B) \subseteq Range(A \o B) /\ Len(A \o B) \in Nat
  <2>1. A \o B \in Seq(F) /\ Range(B) \subseteq Range(A \o B)
    BY <1>13, <1>14, Concatenated
  <2> QED
    BY <2>1
<1>16. /\ (A \o B) \o C \in Seq(F) /\ Len((A \o B) \o C) = Len(A \o B) + 2
       /\ Range(A \o B) \subseteq Range((A \o B) \o C) /\ Range(C) \subseteq Range((A \o B) \o C)
  BY <1>12, <1>15, Concatenated
<1>17. ASSUME ~EntraOmits(d), NEW i \in DOMAIN d.entries
       PROVE  /\ d.entries[i].kind # "group"
              /\ d.entries[i].kind \in {"application", "service"} =>
                    [reads |-> "owners", of |-> d.entries[i].id, items |-> EntraOwners[d.entries[i].id]]
                        \in Range(EntraFollowing(d))
  <2>1. groups = <<>> /\ ~(Len(owned) > MaxOwnerReads)
    BY <1>5, <1>17
  <2>2. Range(groups) = {}
    BY <2>1 DEF Range
  <2>3. Len(owned) <= MaxOwnerReads
    <3>1. Len(owned) \in Nat
      BY <1>3
    <3> QED
      BY <1>7, <2>1, <3>1
  <2>4. AtMost(MaxOwnerReads, owned) = owned
    BY <1>8, <2>3
  <2>5. \A x \in Range(owned) :
          [reads |-> "owners", of |-> x.id, items |-> EntraOwners[x.id]] \in Range(EntraFollowing(d))
    BY <1>4, <1>14, <1>15, <1>16, <2>4
  <2> QED
    BY <1>2, <1>3, <2>2, <2>5
<1>18. Len(EntraFollowing(d)) >= 1
  BY <1>4, <1>15, <1>16
<1> QED
  BY <1>4, <1>12, <1>16, <1>17, <1>18 DEF F

\* Whatever a waiting read will tell is unread.
LEMMA UnreadAt ==
    ASSUME NEW c, c.phases \in Seq(Range(c.phases)), Len(c.phases) >= 1,
           c.left = Head(c.phases).items, NEW q \in Range(c.phases), NEW x \in Range(q.items),
           NEW fact \in Told(c.provider, q.reads, q.of, x)
    PROVE  IsUnread(c, fact)
<1> DEFINE n == Len(c.phases)
<1>1. n \in Nat /\ DOMAIN c.phases = 1 .. n /\ Head(c.phases) = c.phases[1]
  OBVIOUS
<1>2. PICK k \in 1 .. n : q = c.phases[k]
  BY <1>1 DEF Range
<1> HIDE DEF n
<1>3. CASE k = 1
  BY <1>1, <1>2, <1>3 DEF IsUnread
<1>4. CASE k # 1
  <2>1. k \in 2 .. n
    BY <1>1, <1>4
  <2> QED
    BY <1>2, <2>1 DEF IsUnread, n
<1> QED
  BY <1>3, <1>4

\* When the base collections are read and nothing is left out of what follows,
\* what follows tells every fact that is wanted.
LEMMA FollowingStarts ==
    ASSUME NEW d, SourceOK(d), d.provider = "entra", d \in Within(d), SearchOK(d), ~d.full,
           Len(d.phases) = 1, d.truncated \/ d.left = <<>>,
           NEW c, c.provider = d.provider, c.source = d.source, c.phases = EntraFollowing(d),
           c.left = Head(EntraFollowing(d)).items, d.truncated \/ EntraOmits(d) => c.truncated,
           Known(c) = Known(d)
    PROVE  SearchOK(c)
<1> DEFINE F == FollowingReads(d)
<1>1. /\ c.phases \in Seq(F) /\ Len(c.phases) >= 1
      /\ [reads |-> "assignments", of |-> Nothing, items |-> EntraAssignments] \in Range(c.phases)
      /\ ~EntraOmits(d) => \A i \in DOMAIN d.entries :
            /\ d.entries[i].kind # "group"
            /\ d.entries[i].kind \in {"application", "service"} =>
                [reads |-> "owners", of |-> d.entries[i].id, items |-> EntraOwners[d.entries[i].id]]
                    \in Range(c.phases)
  BY FollowingFacts
<1>2. \A q \in F : q.reads # "entries" /\ IsRead(d, q)
  <2>1. \A q \in F : q.reads \in {"members", "owners", "roles", "assignments"}
    BY DEF FollowingReads
  <2> QED
    BY <2>1 DEF IsRead
<1> HIDE DEF F
<1>3. /\ BaseFacts(c) = BaseFacts(d) /\ WantedFacts(c) = WantedFacts(d)
      /\ \A phase : IsRead(c, phase) <=> IsRead(d, phase)
  BY SameFacts
<1>4. /\ c.phases \in Seq(Range(c.phases)) /\ Len(c.phases) \in Nat
      /\ \A k \in 1 .. Len(c.phases) : c.phases[k] \in F
      /\ Head(c.phases) \in F
  <2> DEFINE s == c.phases
  <2>1. s \in Seq(F) /\ Len(s) >= 1
    BY <1>1
  <2> HIDE DEF s
  <2>2. s \in Seq(Range(s))
    BY <2>1, RangeTyped
  <2>3. Len(s) \in Nat /\ \A k \in 1 .. Len(s) : s[k] \in F
    BY <2>1
  <2>4. Head(s) \in F
    BY <2>1
  <2> QED
    BY <2>2, <2>3, <2>4 DEF s
<1>5. c.left \in Seq(Range(Head(c.phases).items))
  <2>1. IsRead(d, Head(c.phases))
    BY <1>2, <1>4
  <2>2. Head(c.phases).items \in Seq(Range(Head(c.phases).items))
    BY <2>1, ReadFacts
  <2> QED
    BY <2>2
<1>6. ASSUME ~c.truncated PROVE BaseFacts(d) \subseteq Known(d) /\ ~EntraOmits(d) /\ ~d.truncated
  BY <1>6, AllRead
<1>7. ASSUME ~c.truncated, NEW x \in Items(d)
      PROVE  \E i \in DOMAIN d.entries : d.entries[i].id = x.id /\ d.entries[i].kind = x.kind
  <2>1. x.id \in Ids(d)
    BY <1>6, <1>7, BaseFactsAre, KnownIs
  <2>2. PICK i \in DOMAIN d.entries : \E y \in Items(d) :
            d.entries[i].id = x.id /\ SameObject(d.entries[i], y)
    BY <2>1, IdsAreItems
  <2>3. PICK y \in Items(d) : d.entries[i].id = x.id /\ SameObject(d.entries[i], y)
    BY <2>2
  <2>4. y = x
    BY <2>3, SourceFacts DEF SameObject, Directory
  <2> QED
    BY <2>3, <2>4 DEF SameObject
<1>8. c.left = Head(c.phases).items /\ c.provider = "entra"
  OBVIOUS
<1>9. ASSUME ~c.truncated, NEW fact \in WantedFacts(d) PROVE IsUnread(c, fact)
  <2>1. AllMemberships(d) = {}
    <3>1. ASSUME NEW x \in Items(d), x.kind = "group" PROVE FALSE
      BY <1>1, <1>6, <1>7, <1>9, <3>1
    <3> QED
      BY <3>1 DEF AllMemberships
  <2>2. PICK r \in AllRelationships(d) : fact = <<"relation", r>>
    BY <1>9, <2>1 DEF WantedFacts, MemberFacts, RelationFacts
  <2>3. CASE r \in OwnerRelationships(d)
    <3>1. PICK x \in Items(d) : /\ x.kind \in {"application", "service"}
                                /\ \E o \in Range(EntraOwners[x.id]) : r = <<o, "owns", x.id>>
      BY <2>3 DEF OwnerRelationships
    <3>2. PICK o \in Range(EntraOwners[x.id]) : r = <<o, "owns", x.id>>
      BY <3>1
    <3> DEFINE q == [reads |-> "owners", of |-> x.id, items |-> EntraOwners[x.id]]
    <3>3. q \in Range(c.phases)
      <4>1. PICK i \in DOMAIN d.entries : d.entries[i].id = x.id /\ d.entries[i].kind = x.kind
        BY <1>7, <1>9
      <4> QED
        BY <1>1, <1>6, <1>9, <3>1, <4>1
    <3>4. q.reads = "owners" /\ q.of = x.id /\ q.items = EntraOwners[x.id]
      OBVIOUS
    <3> HIDE DEF q
    <3>5. Told("entra", q.reads, q.of, o) = {<<"relation", <<o, "owns", x.id>>>>}
      BY <3>4 DEF Told
    <3>6. fact \in Told(c.provider, q.reads, q.of, o) /\ o \in Range(q.items)
      BY <1>8, <2>2, <3>2, <3>4, <3>5
    <3> QED
      BY <1>1, <1>4, <1>8, <3>3, <3>6, UnreadAt
  <2>4. CASE r \in RoleRelationships
    <3>1. PICK a \in Range(EntraAssignments) : r = <<a.principal, "role", a.role>>
      BY <2>4 DEF RoleRelationships
    <3> DEFINE q == [reads |-> "assignments", of |-> Nothing, items |-> EntraAssignments]
    <3>2. q \in Range(c.phases) /\ q.reads = "assignments" /\ q.items = EntraAssignments
      BY <1>1
    <3> HIDE DEF q
    <3>3. Told("entra", q.reads, q.of, a) = {<<"relation", <<a.principal, "role", a.role>>>>}
      BY <3>2 DEF Told
    <3>4. fact \in Told(c.provider, q.reads, q.of, a) /\ a \in Range(q.items)
      BY <1>8, <2>2, <3>1, <3>2, <3>3
    <3> QED
      BY <1>1, <1>4, <1>8, <3>2, <3>4, UnreadAt
  <2> QED
    BY <2>2, <2>3, <2>4 DEF AllRelationships
<1>10. \A k \in 1 .. Len(c.phases) : IsRead(c, c.phases[k]) /\ c.phases[k].reads # "entries"
  BY <1>2, <1>3, <1>4
<1> QED
  BY <1>1, <1>3, <1>4, <1>5, <1>6, <1>9, <1>10 DEF SearchOK

-----------------------------------------------------------------------------
(***************************************************************************)
(* The steps of Entra.                                                     *)
(***************************************************************************)
\* The next collection of Entra.
LEMMA EntraNextReadStep ==
    ASSUME NEW w, SourceOK(w), w.provider = "entra", w \in Within(w), w.at = "search", SearchOK(w),
           w.requests \in 0 .. MaxDirectoryPages, w.truncated \/ w.left = <<>>
    PROVE  CollectionOK(EntraNextRead(w))
<1> DEFINE base == Head(w.phases).reads = "entries"
           rest == IF base /\ w.full THEN <<>> ELSE Tail(w.phases)
           lastBase == base /\ rest = <<>>
           reads == IF lastBase THEN EntraFollowing(w) ELSE rest
           late == w.truncated \/ (lastBase /\ EntraOmits(w))
           e == [w EXCEPT !.phases = reads, !.pages = 0, !.truncated = late,
                          !.at = "collected", !.left = <<>>]
           c == [w EXCEPT !.phases = reads, !.pages = 0, !.truncated = late,
                          !.left = Head(reads).items]
<1>1. EntraNextRead(w) = IF reads = <<>> THEN e ELSE c
  BY DEF EntraNextRead
<1>2. w \in Shape(w) /\ Gathering(w) /\ w.truncated \in BOOLEAN /\ w.full \in BOOLEAN
  BY DEF Within, Shape
<1>3. EntraOmits(w) \in BOOLEAN /\ base \in BOOLEAN /\ lastBase \in BOOLEAN
  BY DEF EntraOmits
<1>4. late \in BOOLEAN /\ (w.truncated => late)
  BY <1>2
<1>5. w.full => w.truncated
  BY <1>2 DEF Gathering
<1>6. /\ w.phases \in Seq(Range(w.phases)) /\ Len(w.phases) \in Nat /\ Len(w.phases) >= 1
      /\ Tail(w.phases) = <<>> => Len(w.phases) = 1
  <2> DEFINE s == w.phases
             R == Range(w.phases)
  <2>1. s \in Seq(R) /\ Len(s) >= 1
    BY DEF SearchOK
  <2> HIDE DEF s, R
  <2>2. Len(s) \in Nat /\ Len(Tail(s)) = Len(s) - 1 /\ (Tail(s) = <<>> => Len(Tail(s)) = 0)
    <3>1. Len(s) \in Nat /\ Len(Tail(s)) = Len(s) - 1
      BY <2>1, TailOf
    <3>2. Len(<<>>) = 0
      OBVIOUS
    <3> QED
      BY <3>1, <3>2
  <2>3. Tail(s) = <<>> => Len(s) = 1
    BY <2>2
  <2> QED
    BY <2>1, <2>2, <2>3 DEF s, R
<1>7. w.full => EntraFollowing(w) = <<>>
  BY DEF EntraFollowing
<1>8. ~w.full => EntraFollowing(w) # <<>> /\ Len(EntraFollowing(w)) >= 1
  <2>1. ~w.full => Len(EntraFollowing(w)) >= 1
    BY FollowingFacts
  <2> QED
    BY <2>1
<1>9. CASE reads = <<>>
  <2>1. /\ e \in Shape(e) /\ e.provider = w.provider /\ e.source = w.source /\ e.entries = w.entries
        /\ e.memberships = w.memberships /\ e.relationships = w.relationships /\ e.trusts = w.trusts
        /\ e.roles = w.roles /\ e.truncated = late /\ e.full = w.full
        /\ e.at = "collected" /\ e.requests = w.requests
    <3> HIDE DEF late, reads
    <3> QED BY <1>2, <1>4 DEF Shape
  <2> HIDE DEF e
  <2>2. e \in Within(e) /\ Known(e) = Known(w) /\ SourceOK(e)
        /\ BaseFacts(e) = BaseFacts(w) /\ WantedFacts(e) = WantedFacts(w)
    <3> HIDE DEF late, reads
    <3>1. (e.full => e.truncated) /\ (w.truncated => e.truncated)
      BY <1>4, <1>5, <2>1
    <3> QED
      BY <2>1, <3>1, Carried, SameFacts
  <2>3. ~e.truncated => BaseFacts(e) \cup WantedFacts(e) \subseteq Known(e)
    <3>1. SUFFICES ASSUME ~late PROVE BaseFacts(w) \cup WantedFacts(w) \subseteq Known(w)
      BY <2>1, <2>2
    <3>2. ~w.truncated /\ ~w.full /\ w.left = <<>>
      BY <1>5, <3>1
    <3>3. ~base /\ Len(w.phases) = 1
      BY <1>6, <1>8, <1>9, <3>2
    <3> QED
      BY <3>2, <3>3, AllRead
  <2>4. CollectionOK(e)
    BY <2>1, <2>2, <2>3 DEF CollectionOK, PlaceOK
  <2> QED
    BY <1>1, <1>9, <2>4
<1>10. CASE reads # <<>>
  <2>1. /\ c \in Shape(c) /\ c.provider = w.provider /\ c.source = w.source /\ c.entries = w.entries
        /\ c.memberships = w.memberships /\ c.relationships = w.relationships /\ c.trusts = w.trusts
        /\ c.roles = w.roles /\ c.truncated = late /\ c.full = w.full
        /\ c.at = "search" /\ c.requests = w.requests
        /\ c.phases = reads /\ c.left = Head(reads).items
    <3> HIDE DEF late, reads
    <3> QED BY <1>2, <1>4 DEF Shape
  <2> HIDE DEF c
  <2>2. c \in Within(c) /\ Known(c) = Known(w) /\ SourceOK(c)
    <3> HIDE DEF late, reads
    <3>1. (c.full => c.truncated) /\ (w.truncated => c.truncated)
      BY <1>4, <1>5, <2>1
    <3> QED
      BY <2>1, <3>1, Carried, SameFacts
  <2>3. CASE lastBase
    <3>1. reads = EntraFollowing(w) /\ ~w.full
      BY <1>7, <1>10, <2>3
    <3>2. Len(w.phases) = 1
      BY <1>6, <2>3, <3>1
    <3>3. w.truncated \/ EntraOmits(w) => c.truncated
      BY <2>1, <2>3
    <3>4. c.phases = EntraFollowing(w) /\ c.left = Head(EntraFollowing(w)).items
      BY <2>1, <3>1
    <3>5. SearchOK(c)
      BY <2>1, <2>2, <3>1, <3>2, <3>3, <3>4, FollowingStarts
    <3> QED
      BY <1>1, <1>10, <2>1, <2>2, <3>5 DEF CollectionOK, PlaceOK
  <2>4. CASE ~lastBase
    <3>1. reads = Tail(w.phases) /\ Tail(w.phases) # <<>>
      BY <1>10, <2>4
    <3>2. Len(w.phases) >= 2 /\ Head(Tail(w.phases)) = w.phases[2] /\ 2 \in 1 .. Len(w.phases)
      <4> DEFINE s == w.phases
                 R == Range(w.phases)
      <4>1. s \in Seq(R) /\ Len(s) \in Nat /\ Len(s) >= 1 /\ Tail(s) # <<>>
        BY <1>6, <3>1
      <4> HIDE DEF s, R
      <4>2. Len(s) # 1
        <5>1. Tail(s) \in Seq(R) /\ Len(Tail(s)) = Len(s) - 1
          BY <4>1, TailOf
        <5>2. Len(Tail(s)) # 0
          BY <4>1, <5>1, EmptySeq
        <5> QED
          BY <4>1, <5>1, <5>2
      <4>3. Len(s) >= 2
        BY <4>1, <4>2
      <4>4. Head(Tail(s)) = s[2] /\ 2 \in 1 .. Len(s)
        BY <4>1, <4>3
      <4> QED
        BY <4>3, <4>4 DEF s
    <3>3. c.phases = Tail(w.phases) /\ c.left = Head(Tail(w.phases)).items
      BY <2>1, <3>1
    <3>4. c.left \in Seq(Range(c.left))
      <4>1. IsRead(w, w.phases[2])
        BY <3>2 DEF SearchOK
      <4>2. w.phases[2].items \in Seq(Range(w.phases[2].items))
        BY <4>1, ReadFacts
      <4>3. c.left = w.phases[2].items
        BY <3>2, <3>3
      <4> QED
        BY <4>2, <4>3
    <3>5. w.truncated => c.truncated
      BY <1>4, <2>1
    <3>6. SearchOK(c)
      BY <2>1, <2>2, <3>2, <3>3, <3>4, <3>5, NextStarts
    <3> QED
      BY <1>1, <1>10, <2>1, <2>2, <3>6 DEF CollectionOK, PlaceOK
  <2> QED
    BY <2>3, <2>4
<1> QED
  BY <1>9, <1>10

\* A collection of Entra that is not read, or not to its end.
LEMMA EntraCeilingStep ==
    ASSUME NEW d, CollectionOK(d), d.at = "search", d.provider = "entra"
    PROVE  CollectionOK(EntraNextRead(Truncated(d)))
<1> DEFINE c == Truncated(d)
<1>1. /\ SourceOK(c) /\ c \in Within(c) /\ SearchOK(c) /\ c.truncated
      /\ c.provider = "entra" /\ c.at = "search" /\ c.requests \in 0 .. MaxDirectoryPages
  BY CutShort
<1> HIDE DEF c
<1>2. CollectionOK(EntraNextRead(c))
  BY <1>1, EntraNextReadStep
<1> QED
  BY <1>2 DEF c

\* A page of Entra, and what follows where its collection ends with it.
LEMMA EntraPageStep ==
    ASSUME NEW d, CollectionOK(d), d.at = "search", d.provider = "entra",
           d.requests < MaxDirectoryPages, NEW n \in Nat, n <= Len(d.left)
    PROVE  LET rest == SubSeq(d.left, n + 1, Len(d.left))
               read == EntraRead([d EXCEPT !.requests = @ + 1, !.pages = @ + 1, !.left = rest],
                                 SubSeq(d.left, 1, n))
           IN  /\ CollectionOK(read)
               /\ read.full \/ rest = <<>> => CollectionOK(EntraNextRead(read))
<1> DEFINE rest == SubSeq(d.left, n + 1, Len(d.left))
           page == SubSeq(d.left, 1, n)
           b == [d EXCEPT !.requests = @ + 1, !.pages = @ + 1, !.left = rest]
           read == EntraRead(b, page)
           S == Range(Head(d.phases).items)
<1>1. /\ d \in Shape(d) /\ Gathering(d) /\ SourceOK(d) /\ SearchOK(d) /\ d \in Within(d)
      /\ d.requests \in 0 .. MaxDirectoryPages
  BY DEF CollectionOK, Within, PlaceOK
<1>2. /\ b \in Shape(b) /\ b.provider = d.provider /\ b.source = d.source /\ b.entries = d.entries
      /\ b.memberships = d.memberships /\ b.relationships = d.relationships /\ b.trusts = d.trusts
      /\ b.roles = d.roles /\ b.truncated = d.truncated /\ b.full = d.full
      /\ b.at = d.at /\ b.requests = d.requests + 1 /\ b.phases = d.phases /\ b.left = rest
  <2> HIDE DEF rest
  <2> QED BY <1>1 DEF Shape
<1> HIDE DEF b
<1>3. b \in Within(b) /\ Known(b) = Known(d) /\ SourceOK(b)
      /\ \A phase : IsRead(b, phase) <=> IsRead(d, phase)
  <2>1. b.full => b.truncated
    BY <1>1, <1>2 DEF Gathering
  <2> QED
    BY <1>1, <1>2, <2>1, Carried, SameFacts
<1>4. IsRead(b, Head(b.phases)) /\ Head(b.phases) = Head(d.phases)
  <2>1. 1 \in 1 .. Len(d.phases) /\ Head(d.phases) = d.phases[1]
    BY <1>1 DEF SearchOK
  <2> QED
    BY <1>1, <1>2, <1>3, <2>1 DEF SearchOK
<1>5. page \in Seq(S) /\ Len(page) = n
  <2>1. d.left \in Seq(S)
    BY <1>1 DEF SearchOK
  <2> HIDE DEF S
  <2> QED
    BY <2>1, Paged
<1>6. page \in Seq(Range(Head(b.phases).items))
  BY <1>4, <1>5
<1> HIDE DEF rest, page, S, read
<1>7. /\ read \in Within(b) /\ Learned(b, read, {})
      /\ \A k \in 1 .. n :
            Learned(b, read, Told("entra", Head(d.phases).reads, Head(d.phases).of, page[k]))
  BY <1>2, <1>3, <1>4, <1>5, <1>6, EntraPageRead DEF read
<1>8. /\ read \in Within(read) /\ read.provider = d.provider /\ read.source = d.source
      /\ read.at = d.at /\ read.phases = d.phases /\ read.left = rest
      /\ read.requests = d.requests + 1
      /\ read.full => read.truncated
  BY <1>2, <1>7, WithinOwn
<1>9. SearchOK(read)
  <2>1. ~read.truncated => ~d.truncated /\ Known(d) \subseteq Known(read)
    BY <1>2, <1>3, <1>7 DEF Learned
  <2>2. ~read.truncated => \A k \in 1 .. n :
                Told(d.provider, Head(d.phases).reads, Head(d.phases).of, page[k]) \subseteq Known(read)
    BY <1>7 DEF Learned
  <2> QED
    BY <1>1, <1>8, <2>1, <2>2, PageTaken DEF page, rest
<1>10. SourceOK(read) /\ read.requests \in 0 .. MaxDirectoryPages
  <2>1. MaxDirectoryPages \in Nat
    BY IdentityAssumption
  <2> QED
    BY <1>1, <1>8, <2>1, SameFacts
<1>11. CollectionOK(read)
  BY <1>8, <1>9, <1>10 DEF CollectionOK, PlaceOK
<1>12. read.full \/ rest = <<>> => CollectionOK(EntraNextRead(read))
  BY <1>8, <1>9, <1>10, EntraNextReadStep
<1> QED
  BY <1>11, <1>12 DEF read, rest, page, b

-----------------------------------------------------------------------------
(***************************************************************************)
(* The theorem.                                                            *)
(***************************************************************************)
\* Where a reading starts everything is still to come.
LEMMA StartedOK ==
    ASSUME NEW p, NEW s, s \in Seq(Range(s)), Len(s) >= 1,
           \A k \in 1 .. Len(s) : s[k].reads = "entries" /\ s[k].of = Nothing,
           NEW d, d = Started(p, s), SourceOK(d)
    PROVE  CollectionOK(d)
<1>1. /\ d.provider = p /\ d.source = s /\ d.at = "search" /\ d.phases = s /\ d.left = Head(s).items
      /\ d.requests = 0 /\ d.entries = <<>> /\ d.memberships = {} /\ d.relationships = {}
      /\ d.roles = {} /\ d.trusts = {} /\ d.full = FALSE /\ d.truncated = FALSE
  BY DEF Started
<1>2. d \in Shape(d)
  <2>1. <<>> \in Seq(DirectoryItems)
    OBVIOUS
  <2> QED
    BY <2>1 DEF Started, Shape
<1>3. Gathering(d)
  <2>1. IsFiniteSet({}) /\ Cardinality({}) = 0
    BY FS_EmptySet
  <2>2. 0 < MaxEntries /\ 0 <= MaxEntries /\ 0 <= MaxMemberships /\ 0 <= MaxRelationships
    BY IdentityAssumption
  <2>3. Len(d.entries) = 0 /\ DOMAIN d.entries = {} /\ Ids(d) = {}
    BY <1>1 DEF Ids
  <2> QED
    BY <1>1, <2>1, <2>2, <2>3 DEF Gathering
<1>4. Len(s) \in Nat /\ DOMAIN s = 1 .. Len(s) /\ Head(s) = s[1] /\ 1 \in 1 .. Len(s)
      /\ \A k \in 1 .. Len(s) : s[k] \in Range(s)
  BY DEF Range
<1>5. \A k \in 1 .. Len(s) : IsRead(d, s[k])
  BY <1>1, <1>4 DEF IsRead
<1>6. d.left \in Seq(Range(Head(s).items))
  <2>1. s[1].items \in Seq(Range(s[1].items))
    BY <1>4, <1>5, ReadFacts
  <2> QED
    BY <1>1, <1>4, <2>1
<1>7. ASSUME NEW fact \in BaseFacts(d) PROVE IsUnread(d, fact)
  <2>1. PICK x \in Everything(d) : fact \in Told(d.provider, "entries", Nothing, x)
    BY <1>7 DEF BaseFacts
  <2>2. PICK k \in 1 .. Len(s) : x \in Range(s[k].items)
    BY <1>1, <1>4 DEF Everything
  <2>3. fact \in Told(d.provider, s[k].reads, s[k].of, x)
    BY <2>1, <2>2
  <2>4. s[k] \in Range(d.phases) /\ d.phases \in Seq(Range(d.phases)) /\ Len(d.phases) >= 1
        /\ d.left = Head(d.phases).items
    BY <1>1, <1>4
  <2> QED
    BY <2>2, <2>3, <2>4, UnreadAt
<1>8. SearchOK(d)
  BY <1>1, <1>4, <1>5, <1>6, <1>7 DEF SearchOK
<1>9. d.requests \in 0 .. MaxDirectoryPages
  BY <1>1, IdentityAssumption
<1> QED
  BY <1>1, <1>2, <1>3, <1>8, <1>9 DEF CollectionOK, PlaceOK, Within

\* The first state of every run.
LEMMA IdentityStarts == IdentityInit => IdentityOK
<1> SUFFICES ASSUME IdentityInit PROVE CollectionOK(collection)
  BY DEF IdentityInit, IdentityOK
<1>1. CASE collection = Started("ad", <<Search(AdUsers), Search(AdGroups)>>)
  <2> DEFINE s == <<Search(AdUsers), Search(AdGroups)>>
  <2>1. s \in Seq({Search(AdUsers), Search(AdGroups)}) /\ Len(s) = 2
        /\ \A k \in 1 .. Len(s) : s[k].reads = "entries" /\ s[k].of = Nothing
    BY DEF Search
  <2>2. SourceOK(Started("ad", s))
    BY DEF SourceOK, Started
  <2> HIDE DEF s
  <2>3. s \in Seq(Range(s))
    BY <2>1, RangeTyped
  <2>4. Len(s) >= 1 /\ \A k \in 1 .. Len(s) : s[k].reads = "entries" /\ s[k].of = Nothing
    BY <2>1
  <2> DEFINE d == Started("ad", s)
  <2>5. d = Started("ad", s) /\ SourceOK(d)
    BY <2>2
  <2> HIDE DEF d
  <2>6. CollectionOK(d)
    BY <2>3, <2>4, <2>5, StartedOK
  <2> QED
    BY <1>1, <2>6 DEF s, d
<1>2. CASE \E tenant \in EntraTenants :
               collection = Started("entra", [i \in DOMAIN tenant |-> Search(tenant[i])])
  <2>1. PICK tenant \in EntraTenants :
               collection = Started("entra", [i \in DOMAIN tenant |-> Search(tenant[i])])
    BY <1>2
  <2> DEFINE s == [i \in DOMAIN tenant |-> Search(tenant[i])]
  <2>2. tenant \in Seq(Seq(DirectoryItems)) /\ tenant # <<>>
    BY IdentityAssumption
  <2>3. Len(tenant) \in Nat \ {0} /\ DOMAIN tenant = 1 .. Len(tenant)
    BY <2>2, EmptySeq
  <2>4. /\ DOMAIN s = 1 .. Len(tenant)
        /\ \A k \in 1 .. Len(tenant) : s[k].reads = "entries" /\ s[k].of = Nothing
    BY <2>3 DEF Search
  <2>5. SourceOK(Started("entra", s))
    BY DEF SourceOK, Started
  <2>6. s = [i \in 1 .. Len(tenant) |-> s[i]]
    BY <2>3
  <2> HIDE DEF s
  <2>7. s \in Seq(Range(s)) /\ Len(s) = Len(tenant)
    <3>1. \A i \in 1 .. Len(tenant) : s[i] \in Range(s)
      BY <2>4 DEF Range
    <3>2. s \in [1 .. Len(tenant) -> Range(s)]
      BY <2>6, <3>1
    <3> QED
      BY <2>3, <3>2
  <2>8. CollectionOK(Started("entra", s))
    BY <2>3, <2>4, <2>5, <2>7, StartedOK
  <2> QED
    BY <2>1, <2>8 DEF s
<1> QED
  BY <1>1, <1>2 DEF IdentityInit

\* The end of a run, stored or failed.
LEMMA EndedOK ==
    ASSUME NEW d, CollectionOK(d), NEW at \in {"failed", "stored"}, at = "stored" => d.at = "collected"
    PROVE  CollectionOK([d EXCEPT !.at = at])
<1> DEFINE c == [d EXCEPT !.at = at]
<1>1. d \in Shape(d) /\ Gathering(d)
  BY DEF CollectionOK, Within
<1>2. /\ c \in Shape(c) /\ c.provider = d.provider /\ c.source = d.source /\ c.entries = d.entries
      /\ c.memberships = d.memberships /\ c.relationships = d.relationships /\ c.trusts = d.trusts
      /\ c.roles = d.roles /\ c.truncated = d.truncated /\ c.full = d.full
      /\ c.at = at /\ c.requests = d.requests
  BY <1>1 DEF Shape
<1> HIDE DEF c
<1>3. c \in Within(c) /\ Known(c) = Known(d) /\ SourceOK(c)
      /\ BaseFacts(c) = BaseFacts(d) /\ WantedFacts(c) = WantedFacts(d)
  <2>1. c.full => c.truncated
    BY <1>1, <1>2 DEF Gathering
  <2> QED
    BY <1>2, <2>1, Carried, SameFacts DEF CollectionOK
<1> QED
  BY <1>2, <1>3 DEF CollectionOK, PlaceOK, c

\* Every step of the command and of its providers, and every stutter, keeps the invariant.
LEMMA IdentityStep == IdentityOK /\ [IdentityNext]_identityVars => IdentityOK'
<1> SUFFICES ASSUME IdentityOK, [IdentityNext]_identityVars PROVE IdentityOK'
  OBVIOUS
<1> DEFINE d == collection
<1>1. CollectionOK(d) /\ (d.at # "stored" => identityReport = NoSummary)
  BY DEF IdentityOK
<1>2. SUFFICES ASSUME IdentityNext PROVE IdentityOK'
  BY DEF IdentityOK, identityVars, CollectionOK, PlaceOK, SourceOK
<1>3. ASSUME CollectionOK(d'), d.at # "stored", UNCHANGED identityReport PROVE IdentityOK'
  BY <1>1, <1>3 DEF IdentityOK, CollectionOK
<1>4. CASE ProviderIsLate
  BY <1>1, <1>3, <1>4, LateStep DEF ProviderIsLate
<1>5. CASE AdCeiling
  BY <1>1, <1>3, <1>5, AdCeilingStep DEF AdCeiling
<1>6. ASSUME NEW n \in 0 .. PageSize, NEW referral \in BOOLEAN, AdPage(n, referral)
      PROVE  IdentityOK'
  <2> DEFINE rest == SubSeq(d.left, n + 1, Len(d.left))
             read == AdRead([d EXCEPT !.requests = @ + 1, !.left = rest, !.full = FALSE,
                                      !.truncated = @ \/ referral], SubSeq(d.left, 1, n))
             stops == read.truncated /\ (AdFull(read) \/ read.requests >= MaxDirectoryPages)
  <2>1. /\ d.provider = "ad" /\ d.at = "search" /\ d.requests < MaxDirectoryPages
        /\ n <= Len(d.left) /\ UNCHANGED identityReport
        /\ d' = IF stops \/ rest = <<>> THEN AdNextSearch(read) ELSE read
    BY <1>6 DEF AdPage
  <2>2. n \in Nat
    OBVIOUS
  <2>3. /\ CollectionOK(read) /\ read.left = rest
        /\ read.truncated \/ rest = <<>> => CollectionOK(AdNextSearch(read))
    BY <1>1, <2>1, <2>2, AdPageStep
  <2>4. stops => read.truncated
    OBVIOUS
  <2> HIDE DEF read, rest, stops
  <2>5. CollectionOK(d')
    BY <2>1, <2>3, <2>4
  <2> QED
    BY <1>3, <2>1, <2>5
<1>7. CASE DeriveAd
  BY <1>1, <1>3, <1>7, DeriveStep DEF DeriveAd
<1>8. CASE EntraCeiling
  BY <1>1, <1>3, <1>8, EntraCeilingStep DEF EntraCeiling
<1>9. ASSUME NEW n \in 0 .. PageSize, EntraPage(n) PROVE IdentityOK'
  <2> DEFINE rest == SubSeq(d.left, n + 1, Len(d.left))
             read == EntraRead([d EXCEPT !.requests = @ + 1, !.pages = @ + 1, !.left = rest],
                               SubSeq(d.left, 1, n))
             stops == rest = <<>> \/ (Head(d.phases).reads = "entries" /\ read.full)
  <2>1. /\ d.provider = "entra" /\ d.at = "search" /\ d.requests < MaxDirectoryPages
        /\ n <= Len(d.left) /\ UNCHANGED identityReport
        /\ d' = IF stops THEN EntraNextRead(read) ELSE read
    BY <1>9 DEF EntraPage, EntraBudget
  <2>2. n \in Nat
    OBVIOUS
  <2>3. /\ CollectionOK(read)
        /\ read.full \/ rest = <<>> => CollectionOK(EntraNextRead(read))
    BY <1>1, <2>1, <2>2, EntraPageStep
  <2>4. stops => read.full \/ rest = <<>>
    OBVIOUS
  <2> HIDE DEF read, rest, stops
  <2>5. CollectionOK(d')
    BY <2>1, <2>3, <2>4
  <2> QED
    BY <1>3, <2>1, <2>5
<1>10. CASE ProviderFails
  BY <1>1, <1>3, <1>10, EndedOK DEF ProviderFails
<1>11. CASE StoreCollection
  <2>1. CASE d' = [d EXCEPT !.at = "failed"] /\ UNCHANGED identityReport
    BY <1>1, <1>3, <1>11, <2>1, EndedOK DEF StoreCollection
  <2>2. CASE d' = [d EXCEPT !.at = "stored"] /\ identityReport' = Summary(d)
    <3>1. CollectionOK(d')
      BY <1>1, <1>11, <2>2, EndedOK DEF StoreCollection
    <3>2. d'.at = "stored" /\ Summary(d') = Summary(d)
      <4>1. d \in Shape(d)
        BY <1>1 DEF CollectionOK, Within
      <4> QED
        BY <2>2, <4>1 DEF Shape, Summary
    <3> QED
      BY <2>2, <3>1, <3>2 DEF IdentityOK, CollectionOK, Summary
  <2> QED
    BY <1>11, <2>1, <2>2 DEF StoreCollection
<1> QED
  BY <1>2, <1>4, <1>5, <1>6, <1>7, <1>8, <1>9, <1>10, <1>11 DEF IdentityNext

\* Nothing is unread when a collection is stored: one that does not say truncated knows all.
LEMMA IdentityShows == IdentityOK => CompleteMeansComplete
<1> SUFFICES ASSUME IdentityOK PROVE CompleteMeansComplete
  OBVIOUS
<1> DEFINE d == collection
<1>1. CollectionOK(d) /\ d \in Within(d) /\ Gathering(d) /\ d.entries \in Seq(DirectoryItems)
      /\ d.requests \in 0 .. MaxDirectoryPages
  BY DEF IdentityOK, CollectionOK, PlaceOK, Within, Shape
<1>2. d.requests <= MaxDirectoryPages
  BY <1>1
<1>3. MaxEntries \in Nat /\ MaxMemberships \in Nat /\ MaxRelationships \in Nat
  BY IdentityAssumption
<1>4. CASE identityReport = NoSummary
  <2>1. Cardinality({}) = 0
    BY FS_EmptySet
  <2> QED
    BY <1>2, <1>3, <1>4, <2>1 DEF CompleteMeansComplete, NoSummary
<1>5. CASE d.at = "stored" /\ identityReport = Summary(d)
  <2>1. /\ identityReport.truncated = d.truncated /\ identityReport.entries = Ids(d)
        /\ identityReport.memberships = d.memberships
        /\ identityReport.relationships = d.relationships
    BY <1>5 DEF Summary, Ids
  <2>2. Cardinality(Ids(d)) <= MaxEntries
    <3> DEFINE n == Len(d.entries)
               g == [i \in 1 .. n |-> d.entries[i].id]
    <3>1. n \in Nat /\ DOMAIN d.entries = 1 .. n /\ n <= MaxEntries
      BY <1>1 DEF Gathering
    <3>2. g \in Surjection(1 .. n, Ids(d))
      BY <3>1 DEF Ids, Surjection
    <3>3. IsFiniteSet({}) /\ Cardinality({}) = 0 /\ {} \cup Ids(d) = Ids(d)
      BY FS_EmptySet
    <3> HIDE DEF g, n
    <3>4. Cardinality({} \cup Ids(d)) <= Cardinality({}) + n /\ Cardinality({} \cup Ids(d)) \in Nat
      BY <3>1, <3>2, <3>3, Grows
    <3> QED
      BY <1>3, <3>1, <3>3, <3>4
  <2>3. /\ Cardinality(d.memberships) <= MaxMemberships
        /\ Cardinality(d.relationships) <= MaxRelationships
        /\ d.memberships \subseteq AllMemberships(d) /\ d.relationships \subseteq AllRelationships(d)
    BY <1>1 DEF Gathering
  <2>4. ASSUME ~d.truncated
        PROVE  /\ Ids(d) = {item.id : item \in Items(d)}
               /\ d.memberships = AllMemberships(d) /\ d.relationships = AllRelationships(d)
    <3>1. BaseFacts(d) \subseteq Known(d) /\ WantedFacts(d) \subseteq Known(d) /\ SourceOK(d)
      BY <1>1, <1>5, <2>4 DEF CollectionOK, PlaceOK
    <3>2. \A item \in Items(d) : item.id \in Ids(d)
      BY <3>1, BaseFactsAre, KnownIs
    <3>3. \A id \in Ids(d) : \E item \in Items(d) : item.id = id
      BY <1>1, IdsAreItems DEF SameObject
    <3>4. \A m \in AllMemberships(d) : <<"member", m>> \in WantedFacts(d)
      BY DEF WantedFacts, MemberFacts
    <3>5. \A r \in AllRelationships(d) : <<"relation", r>> \in WantedFacts(d)
      BY DEF WantedFacts, RelationFacts
    <3>6. AllMemberships(d) \subseteq d.memberships /\ AllRelationships(d) \subseteq d.relationships
      BY <3>1, <3>4, <3>5, KnownIs
    <3> QED
      BY <2>3, <3>2, <3>3, <3>6
  <2> HIDE DEF d
  <2> QED
    BY <1>2, <2>1, <2>2, <2>3, <2>4 DEF CompleteMeansComplete, d
<1> QED
  BY <1>4, <1>5 DEF IdentityOK

\* A stored summary that does not say truncated names every object, every
\* membership and every relationship of the directory, and nothing else; no
\* ceiling of requests, entries, memberships or relationships is overrun.  So it
\* is for every directory, page size and limit, wherever a ceiling, a referral
\* or the time limit cuts the reading short (mark_truncated and the breaks of
\* the collect loops of both providers).
THEOREM CollectionComplete == IdentitySpec => []CompleteMeansComplete
<1>1. IdentityInit => IdentityOK
  BY IdentityStarts
<1>2. IdentityOK /\ [IdentityNext]_identityVars => IdentityOK'
  BY IdentityStep
<1>3. IdentityOK => CompleteMeansComplete
  BY IdentityShows
<1> QED
  BY <1>1, <1>2, <1>3, PTL DEF IdentitySpec

==============================================================================
