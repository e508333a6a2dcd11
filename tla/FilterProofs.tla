----------------------------- MODULE FilterProofs -----------------------------
(***************************************************************************)
(* What Filter!Only returns, for every sequence and every set: an          *)
(* increasing map of its places to those of s, and from that its range,    *)
(* its order, and how often it holds a member.                             *)
(***************************************************************************)
EXTENDS Filter, FiniteSets, Functions, FiniteSetTheorems, WellFoundedInduction, TLAPS

-----------------------------------------------------------------------------
(* A set of naturals has a least member: the induction of the proofs below. *)
LEMMA LeastNatural ==
  ASSUME NEW M, M \subseteq Nat, M # {}
  PROVE  \E m \in M : \A n \in M : m <= n
<1>1. PICK m \in M : \A n \in M : ~ (<<n, m>> \in OpToRel(<, Nat))
  BY NatLessThanWellFounded, WFMin
<1>2. \A n \in M : ~(n < m)
  BY <1>1 DEF OpToRel
<1>3. \A n \in M : m <= n
  BY <1>2
<1> QED  BY <1>3

(* One step of Only, and the function its definition chooses.              *)
OneMore(s, S, f, n) == IF s[n] \in S THEN Append(f[n - 1], s[n]) ELSE f[n - 1]

IsUpTo(s, S, m, f) ==
    f = [n \in 0..m |-> IF n = 0 THEN <<>> ELSE OneMore(s, S, f, n)]

LEMMA UpToExists ==
  ASSUME NEW s, NEW S, NEW m \in Nat
  PROVE  \E f : IsUpTo(s, S, m, f)
<1> DEFINE Bad == {n \in Nat : ~ \E f : IsUpTo(s, S, n, f)}
<1> SUFFICES ASSUME Bad # {} PROVE FALSE
  OBVIOUS
<1>1. PICK n \in Bad : \A k \in Bad : n <= k
  BY LeastNatural
<1>2. n # 0
  <2>1. IsUpTo(s, S, 0, [k \in 0..0 |-> <<>>])
    BY DEF IsUpTo
  <2> QED  BY <2>1
<1>3. PICK f : IsUpTo(s, S, n - 1, f)
  BY <1>1, <1>2
<1> DEFINE g == [k \in 0..n |-> IF k = n THEN OneMore(s, S, f, n) ELSE f[k]]
<1>4. IsUpTo(s, S, n, g)
  <2>1. \A k \in 0..n : g[k] = IF k = 0 THEN <<>> ELSE OneMore(s, S, g, k)
    <3> SUFFICES ASSUME NEW k \in 0..n
                 PROVE  g[k] = IF k = 0 THEN <<>> ELSE OneMore(s, S, g, k)
      OBVIOUS
    <3>1. CASE k = n
      <4>1. g[n] = OneMore(s, S, f, n) /\ g[n - 1] = f[n - 1]
        BY <1>2
      <4> QED  BY <1>2, <3>1, <4>1 DEF OneMore
    <3>2. CASE k # n
      <4>1. g[k] = f[k] /\ k \in 0..(n - 1)
        BY <3>2
      <4>2. k # 0 => g[k - 1] = f[k - 1]
        BY <3>2
      <4>3. f[k] = IF k = 0 THEN <<>> ELSE OneMore(s, S, f, k)
        BY <1>3, <4>1 DEF IsUpTo
      <4> QED  BY <4>1, <4>2, <4>3 DEF OneMore
    <3> QED  BY <3>1, <3>2
  <2> HIDE DEF g
  <2>2. g = [k \in 0..n |-> g[k]]
    BY DEF g
  <2> QED  BY <2>1, <2>2 DEF IsUpTo
<1> QED  BY <1>1, <1>4

LEMMA OnlyUpTo ==
  ASSUME NEW T, NEW s \in Seq(T), NEW S
  PROVE  \E f : IsUpTo(s, S, Len(s), f) /\ Only(s, S) = f[Len(s)]
<1>1. Len(s) \in Nat
  OBVIOUS
<1>2. PICK g : IsUpTo(s, S, Len(s), g)
  BY <1>1, UpToExists
<1>3. g = [n \in 0..Len(s) |-> IF n = 0 THEN <<>>
               ELSE IF s[n] \in S THEN Append(g[n - 1], s[n]) ELSE g[n - 1]]
  BY <1>2 DEF IsUpTo, OneMore
<1> DEFINE u == CHOOSE f : f = [n \in 0..Len(s) |-> IF n = 0 THEN <<>>
                   ELSE IF s[n] \in S THEN Append(f[n - 1], s[n]) ELSE f[n - 1]]
<1>4. Only(s, S) = u[Len(s)]
  BY DEF Only
<1>5. u = [n \in 0..Len(s) |-> IF n = 0 THEN <<>>
                   ELSE IF s[n] \in S THEN Append(u[n - 1], s[n]) ELSE u[n - 1]]
  BY <1>3, Zenon
<1> HIDE DEF u
<1>6. IsUpTo(s, S, Len(s), u)
  BY <1>5 DEF IsUpTo, OneMore
<1> QED  BY <1>4, <1>6

-----------------------------------------------------------------------------
(* The places of f among those of s: g maps each to its own, in order, and *)
(* misses no member of S.                                                  *)
Embeds(g, f, n, s, S) ==
    /\ g \in [1..Len(f) -> 1..n]
    /\ \A i, j \in 1..Len(f) : i < j => g[i] < g[j]
    /\ \A i \in 1..Len(f) : f[i] = s[g[i]] /\ s[g[i]] \in S
    /\ \A k \in 1..n : s[k] \in S => \E i \in 1..Len(f) : g[i] = k

(* One more member of s.                                                   *)
LEMMA EmbedsNext ==
  ASSUME NEW T, NEW s \in Seq(T), NEW S, NEW n \in 1..Len(s),
         NEW f \in Seq(T), NEW g, Embeds(g, f, n - 1, s, S)
  PROVE  LET e == IF s[n] \in S THEN Append(f, s[n]) ELSE f IN
         e \in Seq(T) /\ \E h : Embeds(h, e, n, s, S)
<1>1. CASE s[n] \notin S
  <2>1. Embeds(g, f, n, s, S)
    BY <1>1 DEF Embeds
  <2> QED  BY <1>1, <2>1
<1>2. CASE s[n] \in S
  <2> DEFINE e == Append(f, s[n])
             h == [i \in 1..Len(e) |-> IF i = Len(e) THEN n ELSE g[i]]
  <2>1. /\ e \in Seq(T) /\ Len(e) = Len(f) + 1 /\ Len(f) \in Nat
        /\ e[Len(e)] = s[n]
        /\ \A i \in 1..Len(f) : e[i] = f[i]
    OBVIOUS
  <2>2. \A i \in 1..Len(e) : i # Len(e) => i \in 1..Len(f)
    BY <2>1
  <2> HIDE DEF e
  <2>3. h \in [1..Len(e) -> 1..n]
    BY <2>1, <2>2 DEF Embeds
  <2>4. \A i, j \in 1..Len(e) : i < j => h[i] < h[j]
    <3> SUFFICES ASSUME NEW i \in 1..Len(e), NEW j \in 1..Len(e), i < j
                 PROVE  h[i] < h[j]
      OBVIOUS
    <3>1. i \in 1..Len(f) /\ i # Len(e)
      BY <2>1
    <3>2. h[i] = g[i] /\ g[i] \in Nat /\ g[i] < n
      <4>1. g \in [1..Len(f) -> 1..(n - 1)]
        BY DEF Embeds
      <4> QED  BY <3>1, <4>1
    <3>3. CASE j = Len(e)
      BY <3>2, <3>3
    <3>4. CASE j # Len(e)
      <4>1. j \in 1..Len(f) /\ h[j] = g[j]
        BY <2>2, <3>4
      <4> QED  BY <3>1, <3>2, <4>1 DEF Embeds
    <3> QED  BY <3>3, <3>4
  <2>5. \A i \in 1..Len(e) : e[i] = s[h[i]] /\ s[h[i]] \in S
    BY <1>2, <2>1, <2>2 DEF Embeds
  <2>6. \A k \in 1..n : s[k] \in S => \E i \in 1..Len(e) : h[i] = k
    <3> SUFFICES ASSUME NEW k \in 1..n, s[k] \in S
                 PROVE  \E i \in 1..Len(e) : h[i] = k
      OBVIOUS
    <3>1. CASE k = n
      <4>1. Len(e) \in 1..Len(e) /\ h[Len(e)] = n
        BY <2>1
      <4> QED  BY <3>1, <4>1
    <3>2. CASE k # n
      <4>1. PICK i \in 1..Len(f) : g[i] = k
        BY <3>2 DEF Embeds
      <4>2. i \in 1..Len(e) /\ h[i] = g[i]
        BY <2>1
      <4> QED  BY <4>1, <4>2
    <3> QED  BY <3>1, <3>2
  <2>7. Embeds(h, e, n, s, S)
    BY <2>3, <2>4, <2>5, <2>6 DEF Embeds
  <2> QED  BY <1>2, <2>1, <2>7 DEF e
<1> QED  BY <1>1, <1>2

(* What Only returns is a list of the same members, embedded in s.         *)
THEOREM OnlyEmbeds ==
  ASSUME NEW T, NEW s \in Seq(T), NEW S
  PROVE  /\ Only(s, S) \in Seq(T)
         /\ \E g : Embeds(g, Only(s, S), Len(s), s, S)
<1>1. PICK u : IsUpTo(s, S, Len(s), u) /\ Only(s, S) = u[Len(s)]
  BY OnlyUpTo
<1> DEFINE Good(n) == u[n] \in Seq(T) /\ \E g : Embeds(g, u[n], n, s, S)
           Bad == {n \in 0..Len(s) : ~Good(n)}
<1>2. Good(0)
  <2>1. u[0] = <<>>
    BY <1>1 DEF IsUpTo
  <2>2. Embeds(<<>>, <<>>, 0, s, S)
    BY DEF Embeds
  <2> QED  BY <2>1, <2>2
<1>3. ASSUME NEW n \in 1..Len(s), Good(n - 1) PROVE Good(n)
  <2>1. u[n] = IF s[n] \in S THEN Append(u[n - 1], s[n]) ELSE u[n - 1]
    <3>1. n \in 0..Len(s) /\ n # 0
      OBVIOUS
    <3>2. u[n] = IF n = 0 THEN <<>> ELSE OneMore(s, S, u, n)
      BY <1>1, <3>1 DEF IsUpTo
    <3> QED  BY <3>1, <3>2 DEF OneMore
  <2>2. PICK g : Embeds(g, u[n - 1], n - 1, s, S)
    BY <1>3
  <2>3. u[n - 1] \in Seq(T)
    BY <1>3
  <2> HIDE DEF Good
  <2>4. u[n] \in Seq(T) /\ \E h : Embeds(h, u[n], n, s, S)
    BY <2>1, <2>2, <2>3, EmbedsNext
  <2> QED  BY <2>4 DEF Good
<1>4. Bad = {}
  <2> SUFFICES ASSUME Bad # {} PROVE FALSE
    OBVIOUS
  <2> HIDE DEF Good
  <2>1. Bad \subseteq Nat
    OBVIOUS
  <2> HIDE DEF Bad
  <2>2. PICK n \in Bad : \A k \in Bad : n <= k
    BY <2>1, LeastNatural
  <2> USE DEF Bad
  <2>3. n \in 1..Len(s) /\ n - 1 \in 0..Len(s) /\ n - 1 \notin Bad
    BY <1>2, <2>2
  <2> QED  BY <1>3, <2>2, <2>3
<1>5. Good(Len(s))
  <2> HIDE DEF Good
  <2> QED  BY <1>4
<1> QED  BY <1>1, <1>5

(* Its members are those of s that are in S,                               *)
THEOREM OnlyMembers ==
  ASSUME NEW T, NEW s \in Seq(T), NEW S
  PROVE  \A x : (\E i \in 1..Len(Only(s, S)) : Only(s, S)[i] = x)
                  <=> x \in S /\ \E k \in 1..Len(s) : s[k] = x
<1> DEFINE f == Only(s, S)
<1>1. PICK g : Embeds(g, f, Len(s), s, S)
  BY OnlyEmbeds
<1> HIDE DEF f
<1>2. ASSUME NEW i \in 1..Len(f)
      PROVE  f[i] \in S /\ \E k \in 1..Len(s) : s[k] = f[i]
  <2>1. g[i] \in 1..Len(s) /\ f[i] = s[g[i]] /\ s[g[i]] \in S
    BY <1>1 DEF Embeds
  <2> QED  BY <2>1
<1>3. ASSUME NEW k \in 1..Len(s), s[k] \in S
      PROVE  \E i \in 1..Len(f) : f[i] = s[k]
  <2>1. PICK i \in 1..Len(f) : g[i] = k
    BY <1>1, <1>3 DEF Embeds
  <2>2. f[i] = s[g[i]]
    BY <1>1 DEF Embeds
  <2> QED  BY <2>1, <2>2
<1> QED  BY <1>2, <1>3 DEF f

(* and they stay in order, so that one that s holds once it holds once.    *)
THEOREM OnlyKeepsOrder ==
  ASSUME NEW T, NEW s \in Seq(T), NEW S,
         NEW i \in 1..Len(Only(s, S)), NEW j \in 1..Len(Only(s, S)), i < j
  PROVE  \E k, l \in 1..Len(s) :
            k < l /\ Only(s, S)[i] = s[k] /\ Only(s, S)[j] = s[l]
<1>1. PICK g : Embeds(g, Only(s, S), Len(s), s, S)
  BY OnlyEmbeds
<1>2. g[i] \in 1..Len(s) /\ g[j] \in 1..Len(s) /\ g[i] < g[j]
  BY <1>1 DEF Embeds
<1>3. Only(s, S)[i] = s[g[i]] /\ Only(s, S)[j] = s[g[j]]
  BY <1>1 DEF Embeds
<1> QED  BY <1>2, <1>3

-----------------------------------------------------------------------------
(* How often s holds a member of S.                                        *)
Places(s, S) == {k \in 1..Len(s) : s[k] \in S}
Times(s, S)  == Cardinality(Places(s, S))

LEMMA PlacesFinite ==
  ASSUME NEW T, NEW s \in Seq(T), NEW S
  PROVE  IsFiniteSet(Places(s, S)) /\ Times(s, S) \in Nat
<1>1. Len(s) \in Nat
  OBVIOUS
<1>2. IsFiniteSet(1..Len(s))
  BY <1>1, FS_Interval
<1>3. IsFiniteSet(Places(s, S))
  BY <1>2, FS_Subset DEF Places
<1> QED  BY <1>3, FS_CardinalityType DEF Times

(* As often as Only's list is long;                                        *)
THEOREM OnlyLen ==
  ASSUME NEW T, NEW s \in Seq(T), NEW S
  PROVE  Len(Only(s, S)) = Times(s, S)
<1> DEFINE f == Only(s, S)
<1>1. PICK g : Embeds(g, f, Len(s), s, S)
  BY OnlyEmbeds
<1>2. f \in Seq(T) /\ Len(f) \in Nat
  BY OnlyEmbeds
<1> HIDE DEF f
<1>3. g \in Bijection(1..Len(f), Places(s, S))
  <2>1. g \in [1..Len(f) -> Places(s, S)]
    BY <1>1 DEF Embeds, Places
  <2>2. \A i, j \in 1..Len(f) : g[i] = g[j] => i = j
    <3> SUFFICES ASSUME NEW i \in 1..Len(f), NEW j \in 1..Len(f), g[i] = g[j], i # j
                 PROVE  FALSE
      OBVIOUS
    <3>1. i \in Nat /\ j \in Nat /\ g[i] \in Nat /\ g[j] \in Nat
      BY <1>1 DEF Embeds
    <3>2. i < j \/ j < i
      BY <3>1
    <3>3. g[i] < g[j] \/ g[j] < g[i]
      BY <1>1, <3>2 DEF Embeds
    <3> QED  BY <3>1, <3>3
  <2>3. \A k \in Places(s, S) : \E i \in 1..Len(f) : g[i] = k
    BY <1>1 DEF Embeds, Places
  <2> QED  BY <2>1, <2>2, <2>3 DEF Bijection, Injection, Surjection, IsInjective
<1>4. ExistsBijection(1..Len(f), Places(s, S))
  BY <1>3 DEF ExistsBijection
<1>5. IsFiniteSet(1..Len(f)) /\ Cardinality(1..Len(f)) = Len(f)
  <2>1. Len(f) \in Int /\ 1 \in Int
    BY <1>2
  <2>2. /\ IsFiniteSet(1..Len(f))
        /\ Cardinality(1..Len(f)) = IF 1 > Len(f) THEN 0 ELSE Len(f) - 1 + 1
    BY <2>1, FS_Interval, Zenon
  <2> QED  BY <1>2, <2>2
<1>6. Times(s, S) = Len(f)
  BY <1>4, <1>5, FS_Bijection DEF Times
<1> QED  BY <1>6 DEF f

(* and in that list as often as s holds a member of both sets.             *)
THEOREM TimesOnly ==
  ASSUME NEW T, NEW s \in Seq(T), NEW P, NEW S
  PROVE  Times(Only(s, P), S) = Times(s, P \cap S)
<1> DEFINE f == Only(s, P)
<1>1. PICK g : Embeds(g, f, Len(s), s, P)
  BY OnlyEmbeds
<1>2. f \in Seq(T) /\ Len(f) \in Nat
  BY OnlyEmbeds
<1> HIDE DEF f
<1> DEFINE h == [i \in Places(f, S) |-> g[i]]
<1>3. h \in Bijection(Places(f, S), Places(s, P \cap S))
  <2>1. h \in [Places(f, S) -> Places(s, P \cap S)]
    BY <1>1 DEF Embeds, Places
  <2>2. \A i, j \in Places(f, S) : h[i] = h[j] => i = j
    <3> SUFFICES ASSUME NEW i \in Places(f, S), NEW j \in Places(f, S), h[i] = h[j], i # j
                 PROVE  FALSE
      OBVIOUS
    <3>1. i \in 1..Len(f) /\ j \in 1..Len(f) /\ g[i] = g[j]
      BY DEF Places
    <3>2. i \in Nat /\ j \in Nat /\ g[i] \in Nat /\ g[j] \in Nat
      BY <1>1, <3>1 DEF Embeds
    <3>3. i < j \/ j < i
      BY <3>2
    <3>4. g[i] < g[j] \/ g[j] < g[i]
      BY <1>1, <3>1, <3>3 DEF Embeds
    <3> QED  BY <3>1, <3>2, <3>4
  <2>3. \A k \in Places(s, P \cap S) : \E i \in Places(f, S) : h[i] = k
    BY <1>1 DEF Embeds, Places
  <2> HIDE DEF h
  <2> QED  BY <2>1, <2>2, <2>3 DEF Bijection, Injection, Surjection, IsInjective
<1>4. ExistsBijection(Places(f, S), Places(s, P \cap S))
  BY <1>3 DEF ExistsBijection
<1>5. IsFiniteSet(Places(f, S))
  BY <1>2, PlacesFinite
<1>6. Times(f, S) = Times(s, P \cap S)
  BY <1>4, <1>5, FS_Bijection DEF Times
<1> QED  BY <1>6 DEF f

LEMMA TimesEmpty ==
  ASSUME NEW S
  PROVE  Times(<<>>, S) = 0
<1>1. Places(<<>>, S) = {}
  BY DEF Places
<1> QED  BY <1>1, FS_EmptySet DEF Times

LEMMA TimesNone ==
  ASSUME NEW T, NEW s \in Seq(T), NEW S
  PROVE  Times(s, S) = 0 <=> \A k \in 1..Len(s) : s[k] \notin S
<1>1. Times(s, S) = 0 <=> Places(s, S) = {}
  BY PlacesFinite, FS_EmptySet DEF Times
<1> QED  BY <1>1 DEF Places

LEMMA TimesUnion ==
  ASSUME NEW T, NEW s \in Seq(T), NEW R, NEW S, R \cap S = {}
  PROVE  Times(s, R \cup S) = Times(s, R) + Times(s, S)
<1>1. /\ Places(s, R \cup S) = Places(s, R) \cup Places(s, S)
      /\ Places(s, R) \cap Places(s, S) = {}
  BY DEF Places
<1>2. IsFiniteSet(Places(s, R)) /\ IsFiniteSet(Places(s, S))
  BY PlacesFinite
<1>3. Cardinality(Places(s, R)) \in Nat /\ Cardinality(Places(s, S)) \in Nat
  BY <1>2, FS_CardinalityType
<1>4. Cardinality(Places(s, R) \cup Places(s, S)) =
        Cardinality(Places(s, R)) + Cardinality(Places(s, S))
        - Cardinality(Places(s, R) \cap Places(s, S))
  BY <1>2, FS_Union
<1>5. Cardinality(Places(s, R) \cap Places(s, S)) = 0
  BY <1>1, FS_EmptySet
<1>6. Cardinality(Places(s, R \cup S)) =
        Cardinality(Places(s, R)) + Cardinality(Places(s, S))
  <2>1. Places(s, R \cup S) = Places(s, R) \cup Places(s, S)
    BY <1>1
  <2> HIDE <1>1
  <2>2. ASSUME NEW u, NEW v, NEW x \in Nat, NEW y \in Nat, NEW z,
               u = x + y - z, z = 0
        PROVE  u = x + y
    BY <2>2
  <2> QED  BY <2>1, <2>2, <1>3, <1>4, <1>5
<1> QED  BY <1>6 DEF Times

LEMMA TimesAppend ==
  ASSUME NEW T, NEW s \in Seq(T), NEW S, NEW x \in T
  PROVE  Times(Append(s, x), S) = Times(s, S) + (IF x \in S THEN 1 ELSE 0)
<1> DEFINE e == Append(s, x)
           n == Len(s) + 1
<1>1. /\ e \in Seq(T) /\ Len(e) = n /\ Len(s) \in Nat
      /\ e[n] = x /\ \A k \in 1..Len(s) : e[k] = s[k]
  OBVIOUS
<1>2. 1..n = 1..Len(s) \cup {n}
  BY <1>1
<1> HIDE DEF e
<1>3. Places(e, S) = IF x \in S THEN Places(s, S) \cup {n} ELSE Places(s, S)
  BY <1>1, <1>2 DEF Places
<1>4. n \notin Places(s, S)
  BY <1>1 DEF Places
<1>5. Cardinality(Places(s, S) \cup {n}) = Cardinality(Places(s, S)) + 1
  <2>1. IsFiniteSet(Places(s, S))
    BY PlacesFinite
  <2> HIDE DEF n
  <2> QED  BY <1>4, <2>1, FS_AddElement
<1>6. Times(s, S) \in Nat
  BY PlacesFinite
<1>7. Times(e, S) = Times(s, S) + (IF x \in S THEN 1 ELSE 0)
  <2>1. CASE x \in S
    BY <1>3, <1>5, <2>1 DEF Times
  <2>2. CASE x \notin S
    BY <1>3, <1>6, <2>2 DEF Times
  <2> QED  BY <2>1, <2>2
<1> QED  BY <1>7 DEF e

LEMMA TimesTail ==
  ASSUME NEW T, NEW s \in Seq(T), NEW S, s # <<>>
  PROVE  Times(s, S) = Times(Tail(s), S) + (IF Head(s) \in S THEN 1 ELSE 0)
<1> DEFINE r == Tail(s)
           b == [k \in Places(r, S) |-> k + 1]
<1>1. /\ r \in Seq(T) /\ Len(r) \in Nat /\ Len(s) = Len(r) + 1
      /\ s[1] = Head(s) /\ \A k \in 1..Len(r) : r[k] = s[k + 1]
  OBVIOUS
<1> HIDE DEF r
<1>2. \A k \in 1..Len(s) : k = 1 \/ k - 1 \in 1..Len(r)
  BY <1>1
<1>3. b \in Bijection(Places(r, S), Places(s, S) \ {1})
  <2>1. b \in [Places(r, S) -> Places(s, S) \ {1}]
    BY <1>1 DEF Places
  <2>2. \A i, j \in Places(r, S) : b[i] = b[j] => i = j
    BY DEF Places
  <2>3. \A k \in Places(s, S) \ {1} : \E i \in Places(r, S) : b[i] = k
    <3> SUFFICES ASSUME NEW k \in Places(s, S) \ {1}
                 PROVE  \E i \in Places(r, S) : b[i] = k
      OBVIOUS
    <3>1. k - 1 \in 1..Len(r) /\ r[k - 1] = s[k] /\ s[k] \in S /\ k \in Nat
      BY <1>1, <1>2 DEF Places
    <3>2. k - 1 \in Places(r, S)
      BY <3>1 DEF Places
    <3> QED  BY <3>1, <3>2
  <2> HIDE DEF b
  <2> QED  BY <2>1, <2>2, <2>3 DEF Bijection, Injection, Surjection, IsInjective
<1>4. ExistsBijection(Places(r, S), Places(s, S) \ {1})
  BY <1>3 DEF ExistsBijection
<1>5. IsFiniteSet(Places(r, S)) /\ IsFiniteSet(Places(s, S)) /\ Times(s, S) \in Nat
  BY <1>1, PlacesFinite
<1>6. Times(r, S) = Cardinality(Places(s, S) \ {1})
  BY <1>4, <1>5, FS_Bijection DEF Times
<1>7. 1 \in Places(s, S) <=> Head(s) \in S
  BY <1>1 DEF Places
<1>8. Times(s, S) = Times(r, S) + (IF Head(s) \in S THEN 1 ELSE 0)
  <2>1. CASE 1 \in Places(s, S)
    <3>1. Cardinality(Places(s, S) \ {1}) = Cardinality(Places(s, S)) - 1
      BY <1>5, <2>1, FS_RemoveElement
    <3> QED  BY <1>5, <1>6, <1>7, <2>1, <3>1 DEF Times
  <2>2. CASE 1 \notin Places(s, S)
    <3>1. Places(s, S) \ {1} = Places(s, S)
      BY <2>2
    <3>2. Times(s, S) = Times(r, S)
      BY <1>6, <3>1 DEF Times
    <3> QED  BY <1>5, <1>7, <2>2, <3>2
  <2> QED  BY <2>1, <2>2
<1> QED  BY <1>8 DEF r

-----------------------------------------------------------------------------
(* The same facts about the set of members.                                *)

LEMMA RangeSeq ==
  ASSUME NEW T, NEW s \in Seq(T)
  PROVE  Range(s) = {s[k] : k \in 1..Len(s)} /\ Range(s) \subseteq T
<1>1. DOMAIN s = 1..Len(s)
  OBVIOUS
<1> QED  BY <1>1 DEF Range

LEMMA OnlyRange ==
  ASSUME NEW T, NEW s \in Seq(T), NEW S
  PROVE  Only(s, S) \in Seq(T) /\ Range(Only(s, S)) = Range(s) \cap S
<1>1. Only(s, S) \in Seq(T)
  BY OnlyEmbeds
<1>2. \A x : x \in Range(Only(s, S)) <=> x \in S /\ x \in Range(s)
  <2>1. /\ Range(s) = {s[k] : k \in 1..Len(s)}
        /\ Range(Only(s, S)) = {Only(s, S)[k] : k \in 1..Len(Only(s, S))}
    BY <1>1, RangeSeq
  <2>2. \A x : x \in Range(s) <=> \E k \in 1..Len(s) : s[k] = x
    BY <2>1
  <2>3. \A x : x \in Range(Only(s, S))
                 <=> \E i \in 1..Len(Only(s, S)) : Only(s, S)[i] = x
    BY <2>1
  <2> QED  BY <2>2, <2>3, OnlyMembers
<1> QED  BY <1>1, <1>2

LEMMA HeadAndTail ==
  ASSUME NEW T, NEW s \in Seq(T), s # <<>>
  PROVE  /\ Head(s) \in T /\ Tail(s) \in Seq(T)
         /\ Range(s) = {Head(s)} \cup Range(Tail(s))
<1> DEFINE r == Tail(s)
<1>1. /\ r \in Seq(T) /\ Len(r) \in Nat /\ Len(s) = Len(r) + 1
      /\ s[1] = Head(s) /\ Head(s) \in T /\ \A k \in 1..Len(r) : r[k] = s[k + 1]
  OBVIOUS
<1> HIDE DEF r
<1>2. \A x : x \in Range(s) <=> \E k \in 1..Len(s) : s[k] = x
  BY RangeSeq
<1>3. \A x : x \in Range(r) <=> \E k \in 1..Len(r) : r[k] = x
  BY <1>1, RangeSeq
<1>4. Head(s) \in Range(s)
  BY <1>1, <1>2
<1>5. Range(r) \subseteq Range(s)
  <2> SUFFICES ASSUME NEW k \in 1..Len(r) PROVE r[k] \in Range(s)
    BY <1>3
  <2>1. k + 1 \in 1..Len(s) /\ s[k + 1] = r[k]
    BY <1>1
  <2> QED  BY <1>2, <2>1
<1>6. Range(s) \subseteq {Head(s)} \cup Range(r)
  <2> SUFFICES ASSUME NEW k \in 1..Len(s), k # 1 PROVE s[k] \in Range(r)
    BY <1>1, <1>2
  <2>1. k - 1 \in 1..Len(r) /\ s[k] = r[k - 1]
    BY <1>1
  <2> QED  BY <1>3, <2>1
<1> QED  BY <1>1, <1>4, <1>5, <1>6 DEF r

LEMMA RangeAppend ==
  ASSUME NEW T, NEW s \in Seq(T), NEW x \in T
  PROVE  Append(s, x) \in Seq(T) /\ Range(Append(s, x)) = Range(s) \cup {x}
<1> DEFINE e == Append(s, x)
           n == Len(s) + 1
<1>1. /\ e \in Seq(T) /\ Len(e) = n /\ Len(s) \in Nat
      /\ e[n] = x /\ \A k \in 1..Len(s) : e[k] = s[k]
  OBVIOUS
<1> HIDE DEF e
<1>2. 1..n = 1..Len(s) \cup {n}
  BY <1>1
<1>3. Range(s) = {s[k] : k \in 1..Len(s)} /\ Range(e) = {e[k] : k \in 1..n}
  BY <1>1, RangeSeq
<1>4. Range(e) = Range(s) \cup {x}
  BY <1>1, <1>2, <1>3
<1> QED  BY <1>1, <1>4 DEF e

LEMMA TimesRange ==
  ASSUME NEW T, NEW s \in Seq(T), NEW S
  PROVE  Times(s, S) \in Nat /\ (Times(s, S) = 0 <=> Range(s) \cap S = {})
<1>1. Range(s) = {s[k] : k \in 1..Len(s)}
  BY RangeSeq
<1>2. Range(s) \cap S = {} <=> \A k \in 1..Len(s) : s[k] \notin S
  BY <1>1
<1> QED  BY <1>2, TimesNone, PlacesFinite

=============================================================================
