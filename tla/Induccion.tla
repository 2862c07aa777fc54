------------------------------- MODULE Induccion -------------------------------
(***************************************************************************)
(* Facts about sequences and definitions by recursion that the proofs of   *)
(* this directory share. Induction is over a set of naturals, from the     *)
(* well-foundedness of < : a set is a term, so SMT and Zenon instantiate   *)
(* it, as they cannot a theorem whose parameter is an operator.            *)
(***************************************************************************)
EXTENDS Integers, Sequences, SequencesExt, TLAPS, WellFoundedInduction, SequenceTheorems

\* A set of naturals that is not empty has a least element: the library's
\* induction stated for sets, which the provers instantiate.
LEMMA Minimo == \A T \in SUBSET Nat : T # {} => \E n \in T : \A m \in T : n <= m
<1> SUFFICES ASSUME NEW T \in SUBSET Nat, T # {} PROVE \E n \in T : \A m \in T : n <= m
  OBVIOUS
<1>1. \E x \in T : \A y \in T : ~ (<<y, x>> \in OpToRel(<,Nat))
  BY WFMin, NatLessThanWellFounded
<1>2. PICK x \in T : \A y \in T : ~ (<<y, x>> \in OpToRel(<,Nat))
  BY <1>1
<1>3. \A y \in T : ~(y < x)
  BY <1>2 DEF OpToRel
<1> QED BY <1>3

\* Induction as a fact about sets: T has 0 and, with each natural, the next one.
LEMMA InduccionNat == \A T : 0 \in T /\ (\A n \in Nat : n \in T => n + 1 \in T) => Nat \subseteq T
<1> SUFFICES ASSUME NEW T, 0 \in T, \A n \in Nat : n \in T => n + 1 \in T, Nat \ T # {} PROVE FALSE
  OBVIOUS
<1>1. PICK n \in Nat \ T : \A m \in Nat \ T : n <= m
  BY Minimo
<1>2. n # 0 /\ n - 1 \in Nat /\ n-1 \in T
  BY <1>1
<1> QED BY <1>1, <1>2

\* paso is a sequence of n functions on S.
EsPaso(paso, n, S) == paso \in [1..n -> [S -> S]]

\* g[k] is what the first k steps make of a.
EsRecursion(g, n, S, a, paso) ==
    g \in [0..n -> S] /\ g[0] = a /\ \A k \in 1..n : g[k] = paso[k][g[k - 1]]

\* A definition by recursion has a value: from a, n steps paso[1] ... paso[n] on
\* S.
LEMMA Recursion ==
    \A n \in Nat : \A S, a, paso :
        a \in S /\ EsPaso(paso, n, S) => \E g : EsRecursion(g, n, S, a, paso)
<1> SUFFICES ASSUME NEW n \in Nat, NEW S, NEW a, NEW paso, a \in S, EsPaso(paso, n, S)
             PROVE  \E g : EsRecursion(g, n, S, a, paso)
  OBVIOUS
<1>0. paso \in [1..n -> [S -> S]]
  BY DEF EsPaso
<1> DEFINE Hasta(g, m) == g[0] = a /\ \A k \in 1..m : g[k] = paso[k][g[k-1]]
<1> DEFINE T == {m \in Nat : m <= n => \E g \in [0..m -> S] : Hasta(g, m)}
<1>1. 0 \in T
  <2>1. [k \in 0..0 |-> a] \in [0..0 -> S] /\ Hasta([k \in 0..0 |-> a], 0)
    OBVIOUS
  <2> QED BY <2>1
<1>2. ASSUME NEW m \in Nat, m \in T PROVE m + 1 \in T
  <2> SUFFICES ASSUME m + 1 <= n PROVE \E g \in [0..(m+1) -> S] : Hasta(g, m + 1)
    OBVIOUS
  <2>1. PICK g \in [0..m -> S] : Hasta(g, m)
    BY <1>2
  <2> DEFINE h == [k \in 0..(m + 1) |-> IF k = m + 1 THEN paso[m + 1][g[m]] ELSE g[k]]
  <2>2. h \in [0..(m + 1) -> S]
    <3>1. paso[m+1] \in [S -> S] /\ g[m] \in S
      BY <1>0, <2>1
    <3>2. paso[m+1][g[m]] \in S
      BY <3>1
    <3>3. \A k \in 0..(m+1) : k # m + 1 => g[k] \in S
       BY <2>1
    <3> QED BY <3>2, <3>3
  <2>3. \A k \in 0..m : h[k] = g[k]
    OBVIOUS
  <2>4. h[m + 1] = paso[m + 1][h[m]]
    BY <2>3
  <2>5. Hasta(h, m + 1)
    <3> HIDE DEF h
    <3>1. h[0] = a
      BY <2>1, <2>3
    <3>2. ASSUME NEW k \in 1..(m+1) PROVE h[k] = paso[k][h[k-1]]
      <4>1. CASE k = m + 1
        BY <4>1, <2>4
      <4>2. CASE k # m + 1
        BY <4>2, <2>1, <2>3
      <4> QED BY <4>1, <4>2
    <3> QED BY <3>1, <3>2
  <2> HIDE DEF h
  <2> QED BY <2>2, <2>5
<1>3. n \in T
  <2> HIDE DEF T
  <2> QED BY <1>1, <1>2, InduccionNat
<1> QED BY <1>3 DEF EsRecursion

\* The partial concatenations of a sequence of sequences.
Parciales(s, g) ==
    /\ g[0] = <<>>
    /\ \A k \in 1..Len(s) : g[k] = g[k - 1] \o s[k]

\* The partial concatenations of any sequence of sequences exist.
LEMMA ParcialesExisten ==
    ASSUME NEW X, NEW s \in Seq(Seq(X))
    PROVE  \E g \in [0..Len(s) -> Seq(X)] : Parciales(s, g)
<1> DEFINE paso == [k \in 1..Len(s) |-> [v \in Seq(X) |-> v \o s[k]]]
<1>1. EsPaso(paso, Len(s), Seq(X))
  <2>1. \A k \in 1..Len(s) : s[k] \in Seq(X)
    OBVIOUS
  <2> QED BY <2>1 DEF EsPaso
<1>2. <<>> \in Seq(X) /\ Len(s) \in Nat
  OBVIOUS
<1>3. PICK g : EsRecursion(g, Len(s), Seq(X), <<>>, paso)
  <2> HIDE DEF paso
  <2> QED BY <1>1, <1>2, Recursion, Zenon
<1>4. g \in [0..Len(s) -> Seq(X)] /\ \A k \in 1..Len(s) : g[k - 1] \in Seq(X)
  <2> HIDE DEF paso
  <2>1. g \in [0..Len(s) -> Seq(X)]
    BY <1>3, Zenon DEF EsRecursion
  <2>2. \A j \in 0..Len(s) : g[j] \in Seq(X)
    BY <2>1, Zenon
  <2>3. \A k \in 1..Len(s) : k - 1 \in 0..Len(s)
    OBVIOUS
  <2> QED BY <2>1, <2>2, <2>3, Zenon
<1> QED BY <1>3, <1>4 DEF Parciales, EsRecursion

\* f is the function FlattenSeq defines by recursion.
Acumuladas(s, f) ==
    \A i \in 1..Len(s) : f[i] = IF i = 1 THEN s[i] ELSE f[i - 1] \o s[i]

\* Two lists of partial concatenations are one.
LEMMA ParcialesUnicas ==
    ASSUME NEW X, NEW s \in Seq(Seq(X)), NEW g, NEW f,
           Parciales(s, g),
           Acumuladas(s, f)
    PROVE  \A i \in 1..Len(s) : f[i] = g[i]
<1> DEFINE T == {i \in Nat : i + 1 <= Len(s) => f[i + 1] = g[i + 1]}
<1>0. PICK n \in Nat : n = Len(s)
  OBVIOUS
<1>1. \A i \in Nat \ {0} : i + 1 <= n => f[i + 1] = f[i] \o s[i + 1]
  <2> SUFFICES ASSUME NEW i \in Nat \ {0}, i + 1 <= n PROVE f[i + 1] = f[i] \o s[i + 1]
    OBVIOUS
  <2>1. i + 1 \in 1..Len(s) /\ i + 1 # 1 /\ (i + 1) - 1 = i
    BY <1>0
  <2> QED BY <2>1, Zenon DEF Acumuladas
<1>2. \A i \in Nat : i + 1 <= n => g[i + 1] = g[i] \o s[i + 1]
  <2> SUFFICES ASSUME NEW i \in Nat, i + 1 <= n PROVE g[i + 1] = g[i] \o s[i + 1]
    OBVIOUS
  <2>1. i + 1 \in 1..Len(s) /\ (i + 1) - 1 = i
    BY <1>0
  <2> QED BY <2>1, Zenon DEF Parciales
<1>3. 0 \in T
  <2> SUFFICES ASSUME 1 <= n PROVE f[1] = g[1]
    BY <1>0
  <2>1. 1 \in 1..Len(s) /\ 1 - 1 = 0 /\ 0 + 1 = 1
    BY <1>0
  <2>2. f[1] = s[1]
    BY <2>1, Zenon DEF Acumuladas
  <2>3. g[1] = <<>> \o s[1]
    BY <2>1, Zenon DEF Parciales
  <2>4. s[1] \in Seq(X)
    BY <2>1
  <2>5. <<>> \o s[1] = s[1]
    BY <2>4
  <2> QED BY <2>2, <2>3, <2>5, Zenon
<1>4. ASSUME NEW i \in Nat, i \in T PROVE i + 1 \in T
  <2> SUFFICES ASSUME i + 2 <= n PROVE f[i + 2] = g[i + 2]
    BY <1>0
  <2>1. f[i + 1] = g[i + 1]
    BY <1>0, <1>4
  <2>2. i + 1 \in Nat \ {0} /\ i + 1 \in Nat /\ (i + 1) + 1 = i + 2 /\ (i + 1) + 1 <= n
    OBVIOUS
  <2>3. f[(i + 1) + 1] = f[i + 1] \o s[(i + 1) + 1]
    BY <1>1, <2>2
  <2>4. g[(i + 1) + 1] = g[i + 1] \o s[(i + 1) + 1]
    BY <1>2, <2>2
  <2> QED BY <2>1, <2>2, <2>3, <2>4, Zenon
<1>5. Nat \subseteq T
  <2> HIDE DEF T
  <2> QED BY <1>3, <1>4, InduccionNat
<1> SUFFICES ASSUME NEW i \in 1..n PROVE f[i] = g[i]
  BY <1>0
<1>6. i - 1 \in T /\ (i - 1) + 1 = i
  <2> HIDE DEF T
  <2> QED BY <1>5
<1>7. (i - 1) + 1 <= Len(s)
  BY <1>0
<1> QED BY <1>6, <1>7, Zenon

\* FlattenSeq is the last of the partial concatenations.
LEMMA ConcatenarEs ==
    ASSUME NEW X, NEW s \in Seq(Seq(X)),
           NEW g \in [0..Len(s) -> Seq(X)], Parciales(s, g)
    PROVE  FlattenSeq(s) = g[Len(s)]
<1>1. CASE Len(s) = 0
  BY <1>1 DEF FlattenSeq, Parciales
<1>2. CASE Len(s) # 0
  <2> DEFINE E(f) == [i \in 1..Len(s) |-> IF i = 1 THEN s[i] ELSE f[i - 1] \o s[i]]
             F == CHOOSE f : f = E(f)
             h == [i \in 1..Len(s) |-> g[i]]
  <2>1. h = E(h)
    <3> SUFFICES ASSUME NEW i \in 1..Len(s)
                 PROVE  g[i] = IF i = 1 THEN s[i] ELSE h[i - 1] \o s[i]
      BY Zenon
    <3>1. g[i] = g[i - 1] \o s[i]
      BY Zenon DEF Parciales
    <3>2. CASE i = 1
      <4>1. s[i] \in Seq(X) /\ i - 1 = 0
        BY <3>2
      <4>2. <<>> \o s[i] = s[i]
        BY <4>1
      <4> QED BY <3>1, <3>2, <4>1, <4>2, Zenon DEF Parciales
    <3>3. CASE i # 1
      <4>1. i - 1 \in 1..Len(s)
        BY <3>3
      <4> QED BY <3>1, <3>3, <4>1, Zenon
    <3> QED BY <3>2, <3>3
  <2>2. F = E(F)
    <3> HIDE DEF h, E
    <3> QED BY <2>1
  <2>3. FlattenSeq(s) = F[Len(s)]
    BY <1>2, Zenon DEF FlattenSeq
  <2>4. Acumuladas(s, F)
    <3> HIDE DEF F
    <3> QED BY <2>2 DEF Acumuladas
  <2> HIDE DEF F
  <2>5. \A i \in 1..Len(s) : F[i] = g[i]
    BY <2>4, ParcialesUnicas
  <2>6. Len(s) \in 1..Len(s)
    BY <1>2
  <2> QED BY <2>3, <2>5, <2>6, Zenon
<1> QED BY <1>1, <1>2

\* The concatenation of sequences over X is a sequence over X.
LEMMA ConcatenarTipo ==
    ASSUME NEW X, NEW s \in Seq(Seq(X))
    PROVE  FlattenSeq(s) \in Seq(X)
<1>1. PICK g \in [0..Len(s) -> Seq(X)] : Parciales(s, g)
  BY ParcialesExisten
<1>2. FlattenSeq(s) = g[Len(s)] /\ Len(s) \in 0..Len(s)
  BY <1>1, ConcatenarEs
<1> QED BY <1>2

\* Nothing concatenated is nothing.
LEMMA ConcatenarVacia == FlattenSeq(<<>>) = <<>>
BY DEF FlattenSeq

\* FlattenSeq concatenates the last sequence at the end.
LEMMA ConcatenarAgregar ==
    ASSUME NEW X, NEW s \in Seq(Seq(X)), NEW x \in Seq(X)
    PROVE  FlattenSeq(Append(s, x)) = FlattenSeq(s) \o x
<1>1. PICK g \in [0..Len(s) -> Seq(X)] : Parciales(s, g)
  BY ParcialesExisten
<1> DEFINE n == Len(s) + 1
           h == [k \in 0..n |-> IF k = n THEN g[Len(s)] \o x ELSE g[k]]
<1>2. g[Len(s)] \in Seq(X)
  OBVIOUS
<1>3. /\ Append(s, x) \in Seq(Seq(X)) /\ Len(Append(s, x)) = n
      /\ \A k \in 1..Len(s) : Append(s, x)[k] = s[k]
      /\ Append(s, x)[n] = x
  OBVIOUS
<1>4. h \in [0..n -> Seq(X)]
  BY <1>2
<1>5. /\ h[n] = g[Len(s)] \o x
      /\ \A k \in 0..Len(s) : h[k] = g[k]
  OBVIOUS
<1> HIDE DEF h
<1>6. Parciales(Append(s, x), h)
  <2>1. h[0] = <<>>
    BY <1>1, <1>5 DEF Parciales
  <2> SUFFICES ASSUME NEW k \in 1..n PROVE h[k] = h[k - 1] \o Append(s, x)[k]
    BY <1>3, <2>1 DEF Parciales
  <2>2. CASE k = n
    <3>1. k - 1 = Len(s) /\ Len(s) \in 0..Len(s)
      BY <2>2
    <3> QED BY <2>2, <3>1, <1>3, <1>5, Zenon
  <2>3. CASE k # n
    <3>1. k \in 1..Len(s) /\ k \in 0..Len(s) /\ k - 1 \in 0..Len(s)
      BY <2>3
    <3> QED BY <3>1, <1>1, <1>3, <1>5, Zenon DEF Parciales
  <2> QED BY <2>2, <2>3
<1>7. FlattenSeq(Append(s, x)) = h[n]
  BY <1>3, <1>4, <1>6, ConcatenarEs
<1>8. FlattenSeq(s) = g[Len(s)]
  BY <1>1, ConcatenarEs
<1> QED BY <1>5, <1>7, <1>8, Zenon

\* A sequence of one element, as the provers need it told.
LEMMA Unitaria ==
    ASSUME NEW X, NEW x \in X
    PROVE  <<x>> \in Seq(X) /\ Len(<<x>>) = 1 /\ <<x>>[1] = x
OBVIOUS

\* What is where in a \o b.
LEMMA Lugares ==
    ASSUME NEW X, NEW a \in Seq(X), NEW b \in Seq(X)
    PROVE  /\ a \o b \in Seq(X) /\ Len(a \o b) = Len(a) + Len(b)
           /\ \A i \in 1..Len(a) : (a \o b)[i] = a[i]
           /\ \A i \in 1..Len(b) : (a \o b)[Len(a) + i] = b[i]
OBVIOUS

\* What is where in a \o b, when the lengths are na and nb.
Juntas(X, a, na, b, nb) ==
    /\ a \o b \in Seq(X) /\ Len(a \o b) = na + nb
    /\ \A i \in 1..na : (a \o b)[i] = a[i]
    /\ \A i \in 1..nb : (a \o b)[na + i] = b[i]

\* Lugares, with the lengths named and in a form Zenon instantiates.
LEMMA Juntar ==
    \A X, a, b : a \in Seq(X) /\ b \in Seq(X) => Juntas(X, a, Len(a), b, Len(b))
<1> SUFFICES ASSUME NEW X, NEW a \in Seq(X), NEW b \in Seq(X)
             PROVE  Juntas(X, a, Len(a), b, Len(b))
  BY Zenon
<1> QED BY Lugares DEF Juntas

\* v are the elements of l that come after the n-th, up to the k-th.
EsTramo(X, v, l, n, k) ==
    /\ v \in Seq(X) /\ Len(v) = k - n
    /\ \A i \in 1..(k - n) : v[i] = l[n + i]

\* What SubSeq takes.
LEMMA Tramo ==
    \A X : \A l \in Seq(X), n, k \in Nat : n <= k /\ k <= Len(l) =>
        EsTramo(X, SubSeq(l, n + 1, k), l, n, k)
<1> SUFFICES ASSUME NEW X, NEW l \in Seq(X), NEW n \in Nat, NEW k \in Nat, n <= k, k <= Len(l)
             PROVE  EsTramo(X, SubSeq(l, n + 1, k), l, n, k)
  BY Zenon
<1>1. \A i \in (n + 1)..k : l[i] \in X
  OBVIOUS
<1>2. n + 1 \in Int /\ k \in Int
  OBVIOUS
<1> DEFINE m == SubSeq(l, n + 1, k)
<1>3. /\ m \in Seq(X)
      /\ Len(m) = IF n + 1 <= k THEN k - (n + 1) + 1 ELSE 0
      /\ \A i \in 1..(k - (n + 1) + 1) : m[i] = l[(n + 1) + i - 1]
  BY <1>1, <1>2, SubSeqProperties
<1> HIDE DEF m
<1>4. Len(m) = k - n
  BY <1>3
<1>5. k - (n + 1) + 1 = k - n /\ \A i \in 1..(k - n) : (n + 1) + i - 1 = n + i
  OBVIOUS
<1>6. \A i \in 1..(k - n) : m[i] = l[n + i]
  BY <1>3, <1>5, Zenon
<1> QED BY <1>3, <1>4, <1>6 DEF m, EsTramo

\* Concatenation is associative.
LEMMA Asociar ==
    \A X : \A a, b, c \in Seq(X) : (a \o b) \o c = a \o (b \o c)
BY ConcatAssociative

\* The concatenation of two sequences over X is one.
LEMMA Juntada == \A X : \A a, b \in Seq(X) : a \o b \in Seq(X)
OBVIOUS

\* A sequence cut twice after the same number of elements gives the same parts.
LEMMA MismoCorte ==
    \A X : \A u, v, x, y \in Seq(X) :
        Len(u) = Len(v) /\ u \o x = v \o y => u = v /\ x = y
<1> SUFFICES ASSUME NEW X, NEW u \in Seq(X), NEW v \in Seq(X), NEW x \in Seq(X), NEW y \in Seq(X),
                    Len(u) = Len(v), u \o x = v \o y
             PROVE  u = v /\ x = y
  BY Zenon
<1>1. PICK n \in Nat : n = Len(u) /\ n = Len(v)
  OBVIOUS
<1>2. PICK a \in Nat, b \in Nat : a = Len(x) /\ b = Len(y)
  OBVIOUS
<1>3. Juntas(X, u, n, x, a) /\ Juntas(X, v, n, y, b)
  BY <1>1, <1>2, Juntar, Zenon
<1>4. PICK z : z = u \o x /\ z = v \o y
  BY Zenon
<1>5. /\ Len(z) = n + a /\ Len(z) = n + b
      /\ \A i \in 1..n : z[i] = u[i] /\ z[i] = v[i]
      /\ \A i \in 1..a : z[n + i] = x[i]
      /\ \A i \in 1..b : z[n + i] = y[i]
  BY <1>3, <1>4, Zenon DEF Juntas
<1>6. a = b
  BY <1>5
<1>7. u = v
  BY <1>1, <1>5
<1>8. x = y
  <2>1. \A i \in 1..a : x[i] = y[i]
    BY <1>5, <1>6, Zenon
  <2>2. Len(x) = a /\ Len(y) = a
    BY <1>2, <1>6, Zenon
  <2> QED BY <2>1, <2>2
<1> QED BY <1>7, <1>8

\* A sequence is its first n elements and the rest.
LEMMA Partir ==
    \A X : \A a \in Seq(X), n \in Nat : n <= Len(a) =>
        /\ SubSeq(a, 1, n) \in Seq(X) /\ Len(SubSeq(a, 1, n)) = n
        /\ SubSeq(a, n + 1, Len(a)) \in Seq(X)
        /\ a = SubSeq(a, 1, n) \o SubSeq(a, n + 1, Len(a))
<1> SUFFICES ASSUME NEW X, NEW a \in Seq(X), NEW n \in Nat, n <= Len(a)
             PROVE  /\ SubSeq(a, 1, n) \in Seq(X) /\ Len(SubSeq(a, 1, n)) = n
                    /\ SubSeq(a, n + 1, Len(a)) \in Seq(X)
                    /\ a = SubSeq(a, 1, n) \o SubSeq(a, n + 1, Len(a))
  BY Zenon
<1>1. PICK k \in Nat : k = Len(a)
  OBVIOUS
<1>2. 0 \in Nat /\ 0 <= n /\ n <= k /\ k <= Len(a) /\ 0 + 1 = 1 /\ n - 0 = n
      /\ \A i \in Nat : 0 + i = i
  BY <1>1
<1>3. PICK u : u = SubSeq(a, 1, n)
  BY Zenon
<1>4. PICK v : v = SubSeq(a, n + 1, k)
  BY Zenon
<1>5. u \in Seq(X) /\ Len(u) = n /\ \A i \in 1..n : u[i] = a[i]
  <2>1. u = SubSeq(a, 0 + 1, n)
    BY <1>2, <1>3, Zenon
  <2>2. /\ u \in Seq(X) /\ Len(u) = n - 0
        /\ \A i \in 1..(n - 0) : u[i] = a[0 + i]
    BY <1>2, <2>1, Tramo, Zenon DEF EsTramo
  <2>3. \A i \in 1..n : 0 + i = i
    OBVIOUS
  <2> QED BY <1>2, <2>2, <2>3, Zenon
<1>6. v \in Seq(X) /\ Len(v) = k - n /\ \A i \in 1..(k - n) : v[i] = a[n + i]
  <2>1. EsTramo(X, v, a, n, k)
    BY <1>2, <1>4, Tramo, Zenon
  <2> QED BY <2>1, Zenon DEF EsTramo
<1>7. Juntas(X, u, n, v, k - n)
  BY <1>5, <1>6, Juntar, Zenon
<1>8. PICK w : w = u \o v
  BY Zenon
<1>9. /\ w \in Seq(X) /\ Len(w) = n + (k - n)
      /\ \A i \in 1..n : w[i] = a[i]
      /\ \A i \in 1..(k - n) : w[n + i] = a[n + i]
  BY <1>5, <1>6, <1>7, <1>8, Zenon DEF Juntas
<1>10. n + (k - n) = k
  OBVIOUS
<1>11. \A i \in 1..k : w[i] = a[i]
  <2>1. \A i \in 1..k : i \in 1..n \/ (i - n \in 1..(k - n) /\ n + (i - n) = i)
    BY <1>2
  <2> SUFFICES ASSUME NEW i \in 1..k PROVE w[i] = a[i]
    OBVIOUS
  <2>2. CASE i \in 1..n
    BY <2>2, <1>9, Zenon
  <2>3. CASE i - n \in 1..(k - n) /\ n + (i - n) = i
    BY <2>3, <1>9, Zenon
  <2> QED BY <2>1, <2>2, <2>3, Zenon
<1>12. a = w
  <2>1. Len(w) = k
    BY <1>9, <1>10, Zenon
  <2>2. w \in Seq(X)
    BY <1>9, Zenon
  <2> QED BY <1>1, <1>11, <2>1, <2>2
<1> QED BY <1>1, <1>3, <1>4, <1>5, <1>6, <1>8, <1>12, Zenon

\* Taking t from the front of a leaves u, the rest of a and b.
Reparto(X, a, b, t, u) ==
    /\ SubSeq(a, 1, Len(t)) = t
    /\ SubSeq(a, Len(t) + 1, Len(a)) \in Seq(X)
    /\ SubSeq(a, Len(t) + 1, Len(a)) \o b = u

\* A recv: if the stream is t and then u, and all of t has been delivered, the
\* first Len(t) delivered are t and u is what is left.
LEMMA Recibido ==
    \A X : \A a, b, t, u \in Seq(X) :
        a \o b = t \o u /\ Len(a) >= Len(t) => Reparto(X, a, b, t, u)
<1> TAKE X
<1> TAKE a, b, t, u \in Seq(X)
<1> HAVE a \o b = t \o u /\ Len(a) >= Len(t)
<1>1. PICK n \in Nat : n = Len(t)
  OBVIOUS
<1>2. PICK x, y : x = SubSeq(a, 1, n) /\ y = SubSeq(a, n + 1, Len(a))
  BY Zenon
<1>3. n <= Len(a)
  BY <1>1
<1>4. x \in Seq(X) /\ Len(x) = n /\ y \in Seq(X) /\ a = x \o y
  BY <1>2, <1>3, Partir, Zenon
<1>5. (x \o y) \o b = x \o (y \o b)
  BY <1>4, Asociar
<1>6. PICK z : z = y \o b
  BY Zenon
<1>7. z \in Seq(X)
  BY <1>4, <1>6, Juntada, Zenon
<1>8. x \o z = t \o u
  BY <1>4, <1>5, <1>6, Zenon
<1>9. x = t /\ z = u
  <2>1. x \in Seq(X) /\ Len(x) = Len(t)
    BY <1>1, <1>4, Zenon
  <2> QED BY <1>7, <1>8, <2>1, MismoCorte, Zenon
<1> QED BY <1>1, <1>2, <1>4, <1>6, <1>9, Zenon DEF Reparto

\* The network: delivering the next element changes neither the stream nor its
\* order.
LEMMA Entregado ==
    \A X : \A a, b \in Seq(X) : b # <<>> =>
        /\ Append(a, Head(b)) \in Seq(X) /\ Tail(b) \in Seq(X)
        /\ Append(a, Head(b)) \o Tail(b) = a \o b
<1> SUFFICES ASSUME NEW X, NEW a \in Seq(X), NEW b \in Seq(X), b # <<>>
             PROVE  /\ Append(a, Head(b)) \in Seq(X) /\ Tail(b) \in Seq(X)
                    /\ Append(a, Head(b)) \o Tail(b) = a \o b
  BY Zenon
<1>1. PICK h \in X : h = Head(b)
  <2>1. Head(b) \in X
    BY HeadTailProperties
  <2> QED BY <2>1, Zenon
<1>2. PICK t \in Seq(X) : t = Tail(b)
  <2>1. Tail(b) \in Seq(X)
    BY HeadTailProperties
  <2> QED BY <2>1, Zenon
<1>3. b = <<h>> \o t
  BY <1>1, <1>2
<1>4. PICK s \in Seq(X) : s = <<h>>
  BY Unitaria, Zenon
<1>5. Append(a, h) = a \o s
  BY <1>4
<1>6. (a \o s) \o t = a \o (s \o t)
  BY Asociar
<1>7. Append(a, h) \in Seq(X)
  OBVIOUS
<1> QED BY <1>1, <1>2, <1>3, <1>4, <1>5, <1>6, <1>7, Zenon
=============================================================================
