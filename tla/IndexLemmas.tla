---------------------------- MODULE IndexLemmas ----------------------------
(***************************************************************************)
(* Lemmas about indices, bounded sets of them, recursive functions over    *)
(* 0 .. N, what is kept of a sequence and what a function adds up to.  The *)
(* proofs of the components cite them by name.                             *)
(***************************************************************************)
EXTENDS Integers, Sequences, Selection, Sums, SequenceTheorems, FiniteSetTheorems,
        WellFoundedInduction, TLAPS

\* A nonempty set of indices has a first one.
LEMMA FirstIndex ==
  ASSUME NEW S \in SUBSET Nat, S # {}
  PROVE  \E k \in S : \A m \in S : k <= m
<1>1. PICK k \in S : \A m \in S : ~(<<m, k>> \in OpToRel(<, Nat))
  BY NatLessThanWellFounded, WFMin
<1>2. ASSUME NEW m \in S, m < k PROVE FALSE
  <2>1. <<m, k>> \in Nat \X Nat /\ <<m, k>>[1] < <<m, k>>[2]
    BY <1>2
  <2>2. <<m, k>> \in OpToRel(<, Nat)
    BY <2>1 DEF OpToRel
  <2>. QED BY <2>2, <1>1
<1>3. \A m \in S : m \in Nat /\ k \in Nat
  OBVIOUS
<1>. QED BY <1>2, <1>3

\* A nonempty set of indices up to a bound has a last one.
LEMMA LastIndex ==
  ASSUME NEW n \in Nat, NEW S \in SUBSET (0 .. n), S # {}
  PROVE  \E k \in S : \A m \in S : k >= m
<1>. DEFINE T == {n - k : k \in S}
<1>1. \A k \in S : k \in 0 .. n
  OBVIOUS
<1>2. \A k \in S : n - k \in Nat
  BY <1>1
<1>3. T \in SUBSET Nat /\ T # {}
  BY <1>2
<1>4. PICK t \in T : \A m \in T : t <= m
  BY <1>3, FirstIndex
<1>5. PICK k \in S : t = n - k
  BY <1>4
<1>6. \A m \in S : n - k <= n - m
  BY <1>4, <1>5
<1>. QED BY <1>1, <1>6

\* What holds at 0, and at n if it holds at n - 1, holds up to N.  (S is the
\* set of the indices it holds at.)
LEMMA UpTo ==
  ASSUME NEW N \in Nat, NEW S, 0 \in S,
         \A n \in 1 .. N : n - 1 \in S => n \in S
  PROVE  0 .. N \subseteq S
<1>. DEFINE Bad == {n \in 0 .. N : n \notin S}
<1>1. SUFFICES ASSUME Bad # {} PROVE FALSE
  OBVIOUS
<1>2. Bad \in SUBSET Nat
  OBVIOUS
<1>3. PICK k \in Bad : \A m \in Bad : k <= m
  BY <1>1, <1>2, FirstIndex
<1>4. k \in 1 .. N
  OBVIOUS
<1>5. k - 1 \in 0 .. N /\ ~(k <= k - 1)
  BY <1>4
<1>6. k - 1 \in S
  BY <1>3, <1>5
<1>. QED BY <1>4, <1>6

\* f is the recursive function over 0 .. N that starts at base and whose every
\* step stays in S.
Steps(S, N) == [S \X (1 .. N) -> S]
IsFold(f, S, N, base, step) ==
  /\ f \in [0 .. N -> S]
  /\ f[0] = base
  /\ \A n \in 1 .. N : f[n] = step[<<f[n - 1], n>>]

\* There is one.
LEMMA FoldExists ==
  ASSUME NEW S, NEW N \in Nat, NEW base \in S, NEW step \in Steps(S, N)
  PROVE  \E f : IsFold(f, S, N, base, step)
<1>. USE DEF Steps
<1>. DEFINE Good(f, k) == /\ f[0] = base
                          /\ \A n \in 1 .. k : f[n] = step[<<f[n - 1], n>>]
            T == {k \in 0 .. N : \E f \in [0 .. k -> S] : Good(f, k)}
<1>1. 0 \in T
  <2>. DEFINE g == [n \in 0 .. 0 |-> base]
  <2>1. g \in [0 .. 0 -> S]
    OBVIOUS
  <2>2. g[0] = base
    OBVIOUS
  <2>3. Good(g, 0)
    BY <2>2
  <2>. HIDE DEF g
  <2>. QED BY <2>1, <2>3
<1>2. ASSUME NEW k \in 1 .. N, k - 1 \in T PROVE k \in T
  <2>1. PICK f \in [0 .. k - 1 -> S] : Good(f, k - 1)
    BY <1>2
  <2>. DEFINE new == step[<<f[k - 1], k>>]
              g == [n \in 0 .. k |-> IF n = k THEN new ELSE f[n]]
  <2>2. new \in S
    <3>1. k - 1 \in 0 .. k - 1
      OBVIOUS
    <3>2. f[k - 1] \in S
      BY <3>1
    <3>3. <<f[k - 1], k>> \in S \X (1 .. N)
      BY <3>2
    <3>. QED BY <3>3
  <2>3. \A n \in 0 .. k : n # k => n \in 0 .. k - 1
    OBVIOUS
  <2>4. g \in [0 .. k -> S]
    <3>. HIDE DEF new
    <3>. QED BY <2>2, <2>3
  <2>5. g[0] = base
    BY <2>1
  <2>6. ASSUME NEW n \in 1 .. k PROVE g[n] = step[<<g[n - 1], n>>]
    <3>1. n - 1 \in 0 .. k /\ n - 1 # k
      OBVIOUS
    <3>2. g[n - 1] = f[n - 1]
      BY <3>1
    <3>3. CASE n = k
      BY <3>2, <3>3
    <3>4. CASE n # k
      <4>1. n \in 1 .. k - 1 /\ n \in 0 .. k
        BY <3>4
      <4>2. g[n] = f[n]
        BY <4>1, <3>4
      <4>. QED BY <4>1, <4>2, <3>2, <2>1
    <3>. QED BY <3>3, <3>4
  <2>7. Good(g, k)
    BY <2>5, <2>6
  <2>. HIDE DEF g
  <2>8. \E h \in [0 .. k -> S] : Good(h, k)
    BY <2>4, <2>7
  <2>. QED BY <2>8
<1>3. N \in T
  <2>. HIDE DEF T
  <2>1. \A k \in 1 .. N : k - 1 \in T => k \in T
    BY <1>2
  <2>2. 0 .. N \subseteq T
    BY <1>1, <2>1, UpTo
  <2>. QED BY <2>2
<1>4. PICK f \in [0 .. N -> S] : Good(f, N)
  BY <1>3
<1>5. IsFold(f, S, N, base, step)
  BY <1>4 DEF IsFold
<1>. QED BY <1>5

\* A sequence without its k-th element.
LEMMA WithoutElement ==
  ASSUME NEW S, NEW s \in Seq(S), NEW k \in 1 .. Len(s), NEW w,
         w = SubSeq(s, 1, k - 1) \o SubSeq(s, k + 1, Len(s))
  PROVE  /\ w \in Seq(S)
         /\ Len(w) = Len(s) - 1
         /\ \A j \in 1 .. Len(s) - 1 : w[j] = IF j < k THEN s[j] ELSE s[j + 1]
<1>. DEFINE u == SubSeq(s, 1, k - 1)
            v == SubSeq(s, k + 1, Len(s))
<1>1. Len(s) \in Nat /\ \A i \in 1 .. Len(s) : s[i] \in S
  OBVIOUS
<1>2. /\ u \in Seq(S) /\ Len(u) = k - 1
      /\ \A i \in 1 .. k - 1 : u[i] = s[i]
  <2>1. k - 1 \in Int /\ \A i \in 1 .. k - 1 : s[i] \in S
    BY <1>1
  <2>2. /\ u \in Seq(S)
        /\ Len(u) = IF 1 <= k - 1 THEN (k - 1) - 1 + 1 ELSE 0
        /\ \A i \in 1 .. (k - 1) - 1 + 1 : u[i] = s[1 + i - 1]
    BY <2>1, SubSeqProperties
  <2>3. \A i \in 1 .. k - 1 : i \in 1 .. (k - 1) - 1 + 1 /\ 1 + i - 1 = i
    BY <1>1
  <2>. QED BY <2>2, <2>3, <1>1
<1>3. /\ v \in Seq(S) /\ Len(v) = Len(s) - k
      /\ \A i \in 1 .. Len(s) - k : v[i] = s[k + i]
  <2>1. k + 1 \in Int /\ Len(s) \in Int /\ \A i \in k + 1 .. Len(s) : s[i] \in S
    BY <1>1
  <2>2. /\ v \in Seq(S)
        /\ Len(v) = IF k + 1 <= Len(s) THEN Len(s) - (k + 1) + 1 ELSE 0
        /\ \A i \in 1 .. Len(s) - (k + 1) + 1 : v[i] = s[(k + 1) + i - 1]
    BY <2>1, SubSeqProperties
  <2>3. \A i \in 1 .. Len(s) - k : i \in 1 .. Len(s) - (k + 1) + 1 /\ (k + 1) + i - 1 = k + i
    BY <1>1
  <2>. QED BY <2>2, <2>3, <1>1
<1>. HIDE DEF u, v
<1>4. /\ w \in Seq(S) /\ Len(w) = Len(s) - 1
      /\ \A i \in 1 .. Len(s) - 1 :
           w[i] = IF i <= k - 1 THEN u[i] ELSE v[i - (k - 1)]
  <2>1. w = u \o v
    BY DEF u, v
  <2>2. /\ u \o v \in Seq(S)
        /\ Len(u \o v) = Len(u) + Len(v)
        /\ \A i \in 1 .. Len(u) + Len(v) :
             (u \o v)[i] = IF i <= Len(u) THEN u[i] ELSE v[i - Len(u)]
    BY <1>2, <1>3, ConcatProperties
  <2>3. Len(u) = k - 1 /\ Len(v) = Len(s) - k
    BY <1>2, <1>3
  <2>4. Len(u) + Len(v) = Len(s) - 1
    BY <2>3, <1>1
  <2>. QED BY <2>1, <2>2, <2>3, <2>4
<1>5. ASSUME NEW j \in 1 .. Len(s) - 1
      PROVE  w[j] = IF j < k THEN s[j] ELSE s[j + 1]
  <2>2. CASE j < k
    <3>1. j \in 1 .. k - 1 /\ j <= k - 1
      BY <2>2, <1>1
    <3>. QED BY <3>1, <2>2, <1>2, <1>4
  <2>3. CASE ~(j < k)
    <3>1. j - (k - 1) \in 1 .. Len(s) - k /\ ~(j <= k - 1) /\ k + (j - (k - 1)) = j + 1
      BY <2>3, <1>1
    <3>. QED BY <3>1, <2>3, <1>3, <1>4
  <2>. QED BY <2>2, <2>3
<1>. QED BY <1>4, <1>5

\* at says where in s the elements of t were: those of the first n that pass, in
\* order.
Selects(at, t, s, passes, n) ==
  /\ at \in [1 .. Len(t) -> 1 .. n]
  /\ \A j \in 1 .. Len(t) : passes[at[j]] /\ t[j] = s[at[j]]
  /\ \A j, k \in 1 .. Len(t) : j < k => at[j] < at[k]
  /\ \A k \in 1 .. n : passes[k] => \E j \in 1 .. Len(t) : at[j] = k

\* One element more.
LEMMA SelectsOneMore ==
  ASSUME NEW S, NEW s \in Seq(S), NEW passes \in [1 .. Len(s) -> BOOLEAN],
         NEW n \in 1 .. Len(s), NEW t \in Seq(S), NEW at, Selects(at, t, s, passes, n - 1),
         NEW u, u = IF passes[n] THEN Append(t, s[n]) ELSE t
  PROVE  u \in Seq(S) /\ \E w : Selects(w, u, s, passes, n)
<1>1. Len(s) \in Nat /\ Len(t) \in Nat /\ n \in Nat /\ s[n] \in S
  OBVIOUS
<1>2. CASE ~passes[n]
  <2>1. u = t /\ \A j \in 1 .. Len(t) : at[j] \in 1 .. n - 1
    BY <1>2 DEF Selects
  <2>2. at \in [1 .. Len(t) -> 1 .. n]
    BY <1>1, <2>1 DEF Selects
  <2>3. \A k \in 1 .. n : passes[k] => \E j \in 1 .. Len(t) : at[j] = k
    <3>1. \A k \in 1 .. n : k \in 1 .. n - 1 \/ k = n
      BY <1>1
    <3>. QED BY <3>1, <1>2 DEF Selects
  <2>4. Selects(at, u, s, passes, n)
    BY <2>1, <2>2, <2>3 DEF Selects
  <2>. QED BY <2>1, <2>4
<1>3. CASE passes[n]
  <2>. DEFINE m == Len(t)
              w == [j \in 1 .. m + 1 |-> IF j = m + 1 THEN n ELSE at[j]]
  <2>1. /\ u \in Seq(S) /\ Len(u) = m + 1 /\ u[m + 1] = s[n]
        /\ \A j \in 1 .. m : u[j] = t[j]
    BY <1>1, <1>3
  <2>2. \A j \in 1 .. m + 1 : j \in 1 .. m \/ j = m + 1
    BY <1>1
  <2>. HIDE DEF m
  <2>3. \A j \in 1 .. m : w[j] = at[j] /\ at[j] \in 1 .. n - 1
    <3>1. \A j \in 1 .. m : j # m + 1 /\ j \in 1 .. m + 1
      BY <1>1 DEF m
    <3>2. \A j \in 1 .. m : at[j] \in 1 .. n - 1
      BY DEF Selects, m
    <3>. QED BY <3>1, <3>2
  <2>4. w[m + 1] = n /\ m + 1 \in 1 .. m + 1
    <3>1. m + 1 \in 1 .. m + 1
      BY <1>1 DEF m
    <3>. QED BY <3>1
  <2>5. w \in [1 .. Len(u) -> 1 .. n]
    <3>1. w = [j \in 1 .. m + 1 |-> w[j]]
      OBVIOUS
    <3>. HIDE DEF w
    <3>2. \A j \in 1 .. m + 1 : w[j] \in 1 .. n
      <4>1. n \in 1 .. n /\ \A j \in 1 .. n - 1 : j \in 1 .. n
        BY <1>1
      <4>. QED BY <2>2, <2>3, <2>4, <4>1
    <3>. QED BY <2>1, <3>1, <3>2
  <2>. HIDE DEF w
  <2>6. \A j \in 1 .. Len(u) : passes[w[j]] /\ u[j] = s[w[j]]
    BY <1>3, <2>1, <2>2, <2>3, <2>4 DEF Selects, m
  <2>7. ASSUME NEW j \in 1 .. Len(u), NEW k \in 1 .. Len(u), j < k PROVE w[j] < w[k]
    <3>1. j \in 1 .. m
      BY <1>1, <2>1, <2>7 DEF m
    <3>2. CASE k \in 1 .. m
      BY <2>3, <2>7, <3>1, <3>2 DEF Selects, m
    <3>3. CASE k = m + 1
      BY <1>1, <2>3, <2>4, <3>1, <3>3
    <3>. QED BY <2>1, <2>2, <3>2, <3>3
  <2>8. ASSUME NEW k \in 1 .. n, passes[k] PROVE \E j \in 1 .. Len(u) : w[j] = k
    <3>1. CASE k = n
      BY <2>1, <2>4, <3>1
    <3>2. CASE k # n
      <4>1. k \in 1 .. n - 1
        BY <1>1, <3>2
      <4>2. PICK j \in 1 .. m : at[j] = k
        BY <2>8, <4>1 DEF Selects, m
      <4>3. j \in 1 .. Len(u)
        BY <1>1, <2>1 DEF m
      <4>. QED BY <2>3, <4>2, <4>3
    <3>. QED BY <3>1, <3>2
  <2>9. Selects(w, u, s, passes, n)
    BY <2>5, <2>6, <2>7, <2>8 DEF Selects
  <2>. QED BY <2>1, <2>9
<1>. QED BY <1>2, <1>3

\* f goes through s, keeping what passes.
IsKept(f, S, s, passes) ==
  /\ f \in [0 .. Len(s) -> Seq(S)]
  /\ f[0] = <<>>
  /\ \A n \in 1 .. Len(s) :
       f[n] = IF passes[n] THEN Append(f[n - 1], s[n]) ELSE f[n - 1]

\* Kept is where such an f ends.
LEMMA KeptFold ==
  ASSUME NEW S, NEW s \in Seq(S), NEW passes \in [1 .. Len(s) -> BOOLEAN]
  PROVE  \E f : IsKept(f, S, s, passes) /\ Kept(s, passes) = f[Len(s)]
<1>. DEFINE N == Len(s)
            More(x, n) == IF passes[n] THEN Append(x, s[n]) ELSE x
            kept[n \in 0 .. N] ==
              IF n = 0 THEN <<>>
              ELSE IF passes[n] THEN Append(kept[n - 1], s[n])
              ELSE kept[n - 1]
            step == [x \in Seq(S) \X (1 .. N) |-> More(x[1], x[2])]
<1>1. N \in Nat /\ \A n \in 1 .. N : s[n] \in S
  OBVIOUS
<1>2. step \in Steps(Seq(S), N)
  BY <1>1 DEF Steps
<1>. HIDE DEF step
<1>3. <<>> \in Seq(S)
  OBVIOUS
<1>4. PICK f : IsFold(f, Seq(S), N, <<>>, step)
  BY <1>1, <1>2, <1>3, FoldExists
<1>5. \A n \in 1 .. N : f[n] = More(f[n - 1], n)
  <2>1. ASSUME NEW n \in 1 .. N PROVE f[n] = More(f[n - 1], n)
    <3>1. f[n - 1] \in Seq(S)
      BY <1>4 DEF IsFold
    <3>. HIDE DEF More
    <3>2. step[<<f[n - 1], n>>] = More(f[n - 1], n)
      BY <3>1 DEF step
    <3>. QED BY <3>2, <1>4 DEF IsFold
  <2>. QED BY <2>1
<1>6. f = [n \in 0 .. N |-> IF n = 0 THEN <<>>
                            ELSE IF passes[n] THEN Append(f[n - 1], s[n])
                            ELSE f[n - 1]]
  <2>. HIDE DEF More
  <2>1. \A n \in 0 .. N : f[n] = IF n = 0 THEN <<>> ELSE More(f[n - 1], n)
    BY <1>1, <1>4, <1>5 DEF IsFold
  <2>2. f = [n \in 0 .. N |-> IF n = 0 THEN <<>> ELSE More(f[n - 1], n)]
    BY <2>1, <1>4 DEF IsFold
  <2>. QED BY <2>2 DEF More
<1>7. kept = [n \in 0 .. N |-> IF n = 0 THEN <<>>
                               ELSE IF passes[n] THEN Append(kept[n - 1], s[n])
                               ELSE kept[n - 1]]
  BY <1>6
<1>. HIDE DEF kept
<1>8. \A n \in 1 .. N : n \in 0 .. N /\ n - 1 \in 0 .. N /\ n # 0
  BY <1>1
<1>9. kept[0] = <<>> /\ \A n \in 1 .. N : kept[n] = More(kept[n - 1], n)
  <2>1. 0 \in 0 .. N
    BY <1>1
  <2>2. kept[0] = <<>>
    BY <1>7, <2>1, Zenon
  <2>3. ASSUME NEW n \in 1 .. N PROVE kept[n] = More(kept[n - 1], n)
    <3>1. n \in 0 .. N /\ n # 0
      BY <1>8
    <3>. QED BY <1>7, <3>1, Zenon
  <2>. HIDE DEF More
  <2>. QED BY <2>2, <2>3
<1>10. \A n \in 0 .. N : kept[n] = f[n]
  <2>. DEFINE T == {n \in 0 .. N : kept[n] = f[n]}
  <2>1. 0 \in T
    BY <1>1, <1>4, <1>9 DEF IsFold
  <2>2. \A n \in 1 .. N : n - 1 \in T => n \in T
    <3>. HIDE DEF More
    <3>. QED BY <1>5, <1>8, <1>9
  <2>. HIDE DEF T
  <2>3. 0 .. N \subseteq T
    BY <1>1, <2>1, <2>2, UpTo
  <2>. QED BY <2>3 DEF T
<1>11. kept \in [0 .. N -> Seq(S)]
  <2>1. kept = [n \in 0 .. N |-> kept[n]]
    BY <1>7, Zenon
  <2>. QED BY <1>4, <1>10, <2>1 DEF IsFold
<1>12. IsKept(kept, S, s, passes)
  BY <1>9, <1>11 DEF IsKept
<1>13. Kept(s, passes) = kept[N]
  BY DEF Kept, kept
<1>. QED BY <1>12, <1>13

\* What Kept keeps.
LEMMA KeptSelects ==
  ASSUME NEW S, NEW s \in Seq(S), NEW passes \in [1 .. Len(s) -> BOOLEAN]
  PROVE  /\ Kept(s, passes) \in Seq(S)
         /\ \E at : Selects(at, Kept(s, passes), s, passes, Len(s))
<1>. DEFINE N == Len(s)
<1>1. PICK kept : IsKept(kept, S, s, passes) /\ Kept(s, passes) = kept[N]
  BY KeptFold
<1>2. N \in Nat
  OBVIOUS
<1>. DEFINE T == {n \in 0 .. N : /\ kept[n] \in Seq(S)
                                 /\ \E at : Selects(at, kept[n], s, passes, n)}
<1>3. 0 \in T
  <2>1. kept[0] = <<>> /\ <<>> \in Seq(S)
    BY <1>1 DEF IsKept
  <2>2. Selects(<<>>, <<>>, s, passes, 0)
    BY DEF Selects
  <2>3. 0 \in 0 .. N /\ \E at : Selects(at, kept[0], s, passes, 0)
    BY <1>2, <2>1, <2>2
  <2>. QED BY <2>1, <2>3, Zenon
<1>4. ASSUME NEW n \in 1 .. N, n - 1 \in T PROVE n \in T
  <2>1. kept[n] = IF passes[n] THEN Append(kept[n - 1], s[n]) ELSE kept[n - 1]
    BY <1>1 DEF IsKept
  <2>2. kept[n - 1] \in Seq(S)
    BY <1>4
  <2>3. PICK at : Selects(at, kept[n - 1], s, passes, n - 1)
    BY <1>4
  <2>4. kept[n] \in Seq(S) /\ \E w : Selects(w, kept[n], s, passes, n)
    BY <2>1, <2>2, <2>3, SelectsOneMore
  <2>. QED BY <2>4
<1>5. N \in T
  <2>. HIDE DEF T
  <2>1. 0 .. N \subseteq T
    BY <1>2, <1>3, <1>4, UpTo
  <2>. QED BY <1>2, <2>1
<1>. QED BY <1>1, <1>5

\* What is kept of nothing, and of one element more.
LEMMA KeptNone ==
  ASSUME NEW passes \in [1 .. 0 -> BOOLEAN]
  PROVE  Kept(<<>>, passes) = <<>>
<1>. DEFINE S == {}
<1>1. <<>> \in Seq(S) /\ Len(<<>>) = 0
  OBVIOUS
<1>. HIDE DEF S
<1>2. PICK f : IsKept(f, S, <<>>, passes) /\ Kept(<<>>, passes) = f[Len(<<>>)]
  BY <1>1, KeptFold
<1>. QED BY <1>1, <1>2 DEF IsKept

\* What is kept of one element more.
LEMMA KeptOneMore ==
  ASSUME NEW S, NEW s \in Seq(S), NEW x \in S,
         NEW p \in [1 .. Len(s) -> BOOLEAN],
         NEW q \in [1 .. Len(s) + 1 -> BOOLEAN],
         \A k \in 1 .. Len(s) : q[k] = p[k]
  PROVE  Kept(Append(s, x), q) =
           IF q[Len(s) + 1] THEN Append(Kept(s, p), x) ELSE Kept(s, p)
<1>. DEFINE N == Len(s)  t == Append(s, x)
<1>1. /\ t \in Seq(S) /\ Len(t) = N + 1 /\ t[N + 1] = x
      /\ \A k \in 1 .. N : t[k] = s[k]
  BY AppendProperties
<1>2. N \in Nat
  OBVIOUS
<1>3. q \in [1 .. Len(t) -> BOOLEAN]
  BY <1>1
<1>. HIDE DEF t
<1>4. PICK f : IsKept(f, S, s, p) /\ Kept(s, p) = f[N]
  BY KeptFold
<1>5. PICK g : IsKept(g, S, t, q) /\ Kept(t, q) = g[N + 1]
  BY <1>1, <1>3, KeptFold
<1>. HIDE DEF N
<1>6. /\ f[0] = <<>>
      /\ \A n \in 1 .. N : f[n] = IF p[n] THEN Append(f[n - 1], s[n]) ELSE f[n - 1]
  BY <1>4 DEF IsKept, N
<1>7. /\ g[0] = <<>>
      /\ \A n \in 1 .. N + 1 : g[n] = IF q[n] THEN Append(g[n - 1], t[n]) ELSE g[n - 1]
  BY <1>1, <1>5 DEF IsKept
<1>. DEFINE T == {n \in 0 .. N : g[n] = f[n]}
<1>8. 0 \in T
  BY <1>2, <1>6, <1>7
<1>9. ASSUME NEW n \in 1 .. N, n - 1 \in T PROVE n \in T
  <2>1. n \in 1 .. N + 1 /\ n \in 0 .. N /\ q[n] = p[n] /\ t[n] = s[n]
    BY <1>1, <1>2 DEF N
  <2>. QED BY <1>6, <1>7, <1>9, <2>1
<1>. HIDE DEF T
<1>10. N \in T
  <2>1. 0 .. N \subseteq T
    BY <1>2, <1>8, <1>9, UpTo
  <2>. QED BY <1>2, <2>1
<1>11. g[N] = f[N]
  BY <1>10 DEF T
<1>12. N + 1 \in 1 .. N + 1 /\ (N + 1) - 1 = N
  BY <1>2
<1>13. g[N + 1] = IF q[N + 1] THEN Append(f[N], x) ELSE f[N]
  BY <1>1, <1>7, <1>11, <1>12
<1>. QED BY <1>4, <1>5, <1>13 DEF N, t

-----------------------------------------------------------------------------
(* Sums.                                                                   *)

\* What holds of {}, and of a set with one element more if it holds without it,
\* holds of a finite set.  (Holds is the set of the sets it holds of.)
LEMMA UpToSet ==
  ASSUME NEW S, IsFiniteSet(S), NEW Holds, {} \in Holds,
         \A T \in SUBSET S : \A x \in S \ T : T \in Holds => T \cup {x} \in Holds
  PROVE  S \in Holds
<1>. DEFINE N == Cardinality(S)
            G == {n \in 0 .. N : \A T \in SUBSET S : Cardinality(T) = n => T \in Holds}
<1>1. N \in Nat /\ \A T \in SUBSET S : IsFiniteSet(T) /\ Cardinality(T) \in Nat
  BY FS_Subset, FS_CardinalityType
<1>2. 0 \in G
  <2>1. \A T \in SUBSET S : Cardinality(T) = 0 => T = {}
    BY <1>1, FS_EmptySet
  <2>. QED BY <1>1, <2>1
<1>3. ASSUME NEW n \in 1 .. N, n - 1 \in G PROVE n \in G
  <2>1. ASSUME NEW T \in SUBSET S, Cardinality(T) = n PROVE T \in Holds
    <3>1. T # {}
      BY <2>1, <1>1, FS_EmptySet
    <3>2. PICK x \in T : TRUE
      BY <3>1
    <3>. DEFINE U == T \ {x}
    <3>3. U \in SUBSET S /\ x \in S \ U /\ T = U \cup {x}
      BY <3>2
    <3>4. Cardinality(U) = n - 1
      BY <1>1, <2>1, <3>2, FS_RemoveElement
    <3>. HIDE DEF U
    <3>5. U \in Holds
      BY <1>3, <3>3, <3>4
    <3>. QED BY <3>3, <3>5
  <2>. QED BY <2>1
<1>4. N \in G
  <2>. HIDE DEF G, N
  <2>1. 0 .. N \subseteq G
    BY <1>1, <1>2, <1>3, UpTo
  <2>. QED BY <1>1, <2>1
<1>. QED BY <1>4

\* g goes through S, adding up f.
IsSum(g, S, f) ==
  /\ g \in [SUBSET S -> Int]
  /\ g[{}] = 0
  /\ \A T \in SUBSET S : T # {} =>
       LET x == CHOOSE x \in T : TRUE IN g[T] = f[x] + g[T \ {x}]

\* There is one.
LEMMA SumExists ==
  ASSUME NEW S, IsFiniteSet(S), NEW f, \A x \in S : f[x] \in Int
  PROVE  \E g : IsSum(g, S, f)
<1>. DEFINE N == Cardinality(S)
            Small(n) == {T \in SUBSET S : Cardinality(T) <= n}
            First(T) == CHOOSE x \in T : TRUE
            Good(g, n) == /\ g[{}] = 0
                          /\ \A T \in Small(n) : T # {} =>
                               g[T] = f[First(T)] + g[T \ {First(T)}]
            G == {n \in 0 .. N : \E g \in [Small(n) -> Int] : Good(g, n)}
<1>1. /\ N \in Nat
      /\ \A T \in SUBSET S : /\ IsFiniteSet(T) /\ Cardinality(T) \in Nat
                             /\ Cardinality(T) <= N
                             /\ Cardinality(T) = 0 <=> T = {}
  BY FS_Subset, FS_CardinalityType, FS_EmptySet
<1>2. \A T \in SUBSET S : T # {} => /\ First(T) \in T /\ First(T) \in S
                                    /\ f[First(T)] \in Int
                                    /\ T \ {First(T)} \in SUBSET S
                                    /\ Cardinality(T \ {First(T)}) = Cardinality(T) - 1
  <2>1. \A T \in SUBSET S : T # {} => First(T) \in T
    OBVIOUS
  <2>. HIDE DEF First
  <2>2. \A T \in SUBSET S : \A x \in T : Cardinality(T \ {x}) = Cardinality(T) - 1
    BY <1>1, FS_RemoveElement
  <2>. QED BY <2>1, <2>2
<1>. HIDE DEF First, N
<1>3. 0 \in G
  <2>. DEFINE g == [T \in Small(0) |-> 0]
  <2>1. g \in [Small(0) -> Int]
    OBVIOUS
  <2>2. {} \in Small(0) /\ \A T \in Small(0) : T = {}
    BY <1>1
  <2>3. Good(g, 0)
    BY <2>2
  <2>. HIDE DEF g
  <2>4. 0 \in 0 .. N
    BY <1>1
  <2>. QED BY <2>1, <2>3, <2>4
<1>4. ASSUME NEW n \in 1 .. N, n - 1 \in G PROVE n \in G
  <2>1. PICK g \in [Small(n - 1) -> Int] : Good(g, n - 1)
    BY <1>4
  <2>. DEFINE h == [T \in Small(n) |-> IF T = {} THEN 0
                                       ELSE f[First(T)] + g[T \ {First(T)}]]
  <2>2. \A T \in Small(n) : T # {} => T \ {First(T)} \in Small(n - 1) /\ g[T \ {First(T)}] \in Int
    <3>1. ASSUME NEW T \in Small(n), T # {} PROVE T \ {First(T)} \in Small(n - 1)
      <4>1. /\ T \ {First(T)} \in SUBSET S /\ Cardinality(T) <= n /\ Cardinality(T) \in Nat
            /\ Cardinality(T \ {First(T)}) = Cardinality(T) - 1
        BY <1>1, <1>2, <3>1
      <4>. QED BY <4>1
    <3>. HIDE DEF Small
    <3>. QED BY <3>1, <2>1
  <2>3. h \in [Small(n) -> Int]
    <3>1. \A T \in Small(n) : T # {} => f[First(T)] + g[T \ {First(T)}] \in Int
      BY <1>2, <2>2
    <3>. QED BY <3>1
  <2>4. {} \in Small(n) /\ {} \in Small(n - 1) /\ \A T \in Small(n - 1) : T \in Small(n)
    BY <1>1
  <2>5. h[{}] = 0
    BY <2>4
  <2>6. \A T \in Small(n - 1) : h[T] = g[T]
    <3>1. \A T \in Small(n - 1) : T # {} => g[T] = f[First(T)] + g[T \ {First(T)}]
      BY <2>1
    <3>2. g[{}] = 0
      BY <2>1
    <3>. HIDE DEF Small
    <3>. QED BY <2>4, <3>1, <3>2
  <2>7. \A T \in Small(n) : T # {} => h[T] = f[First(T)] + g[T \ {First(T)}]
    OBVIOUS
  <2>. HIDE DEF h
  <2>8. Good(h, n)
    BY <2>2, <2>5, <2>6, <2>7
  <2>. HIDE DEF Good, Small
  <2>. QED BY <2>3, <2>8
<1>5. N \in G
  <2>. HIDE DEF G
  <2>1. 0 .. N \subseteq G
    BY <1>1, <1>3, <1>4, UpTo
  <2>. QED BY <1>1, <2>1
<1>6. PICK g \in [Small(N) -> Int] : Good(g, N)
  BY <1>5
<1>7. Small(N) = SUBSET S
  BY <1>1
<1>. QED BY <1>6, <1>7 DEF IsSum, First

\* SumOver is what such a g comes to.
LEMMA SumFold ==
  ASSUME NEW S, IsFiniteSet(S), NEW f, \A x \in S : f[x] \in Int
  PROVE  \E g : IsSum(g, S, f) /\ SumOver(S, f) = g[S]
<1>. DEFINE First(T) == CHOOSE x \in T : TRUE
            sum[T \in SUBSET S] ==
              IF T = {} THEN 0
              ELSE LET x == CHOOSE x \in T : TRUE IN f[x] + sum[T \ {x}]
<1>1. PICK g : IsSum(g, S, f)
  BY SumExists
<1>2. g = [T \in SUBSET S |->
             IF T = {} THEN 0 ELSE LET x == CHOOSE x \in T : TRUE IN f[x] + g[T \ {x}]]
  <2>1. g = [T \in SUBSET S |-> g[T]]
    BY <1>1 DEF IsSum
  <2>2. \A T \in SUBSET S : g[T] =
          IF T = {} THEN 0 ELSE LET x == CHOOSE x \in T : TRUE IN f[x] + g[T \ {x}]
    BY <1>1 DEF IsSum
  <2>. QED BY <2>1, <2>2
<1>3. sum = [T \in SUBSET S |->
             IF T = {} THEN 0 ELSE LET x == CHOOSE x \in T : TRUE IN f[x] + sum[T \ {x}]]
  BY <1>2
<1>. HIDE DEF sum
<1>4. sum[{}] = 0
  BY <1>3
<1>5. \A T \in SUBSET S : T # {} =>
        LET x == CHOOSE x \in T : TRUE IN sum[T] = f[x] + sum[T \ {x}]
  BY <1>3
<1>6. /\ Cardinality(S) \in Nat
      /\ \A T \in SUBSET S : /\ IsFiniteSet(T) /\ Cardinality(T) \in Nat
                             /\ Cardinality(T) <= Cardinality(S)
                             /\ Cardinality(T) = 0 <=> T = {}
  BY FS_Subset, FS_CardinalityType, FS_EmptySet
<1>. DEFINE G == {n \in 0 .. Cardinality(S) :
                    \A T \in SUBSET S : Cardinality(T) = n => sum[T] = g[T]}
<1>7. 0 \in G
  <2>1. sum[{}] = g[{}]
    BY <1>1, <1>4 DEF IsSum
  <2>2. \A T \in SUBSET S : Cardinality(T) = 0 => sum[T] = g[T]
    BY <1>6, <2>1
  <2>. QED BY <1>6, <2>2
<1>8. ASSUME NEW n \in 1 .. Cardinality(S), n - 1 \in G PROVE n \in G
  <2>1. ASSUME NEW T \in SUBSET S, Cardinality(T) = n PROVE sum[T] = g[T]
    <3>1. T # {}
      BY <1>6, <2>1
    <3>. DEFINE x == CHOOSE x \in T : TRUE
    <3>2. x \in T
      BY <3>1
    <3>3. sum[T] = f[x] + sum[T \ {x}] /\ g[T] = f[x] + g[T \ {x}]
      BY <1>1, <1>5, <3>1 DEF IsSum
    <3>. HIDE DEF x
    <3>4. Cardinality(T \ {x}) = n - 1 /\ T \ {x} \in SUBSET S
      BY <1>6, <2>1, <3>2, FS_RemoveElement
    <3>5. sum[T \ {x}] = g[T \ {x}]
      BY <1>8, <3>4
    <3>. QED BY <3>3, <3>5
  <2>. QED BY <2>1
<1>9. \A T \in SUBSET S : sum[T] = g[T]
  <2>. HIDE DEF G
  <2>1. 0 .. Cardinality(S) \subseteq G
    BY <1>6, <1>7, <1>8, UpTo
  <2>. QED BY <1>6, <2>1 DEF G
<1>10. SumOver(S, f) = sum[S]
  BY DEF SumOver, sum
<1>. QED BY <1>1, <1>9, <1>10

\* Whatever is added up in one sum is added up in another.
LEMMA SumsAgree ==
  ASSUME NEW S, NEW f, NEW g, IsSum(g, S, f), NEW T, NEW e, NEW h, IsSum(h, T, e),
         NEW U, IsFiniteSet(U), U \subseteq S, U \subseteq T, \A x \in U : f[x] = e[x]
  PROVE  g[U] = h[U]
<1>. DEFINE Holds == {V \in SUBSET U : g[V] = h[V]}
            G == {n \in 0 .. Cardinality(U) :
                    \A V \in SUBSET U : Cardinality(V) = n => g[V] = h[V]}
<1>1. /\ Cardinality(U) \in Nat
      /\ \A V \in SUBSET U : /\ IsFiniteSet(V) /\ Cardinality(V) \in Nat
                             /\ Cardinality(V) <= Cardinality(U)
                             /\ Cardinality(V) = 0 <=> V = {}
  BY FS_Subset, FS_CardinalityType, FS_EmptySet
<1>2. 0 \in G
  <2>1. g[{}] = h[{}]
    BY DEF IsSum
  <2>2. \A V \in SUBSET U : Cardinality(V) = 0 => g[V] = h[V]
    BY <1>1, <2>1
  <2>. QED BY <1>1, <2>2
<1>3. ASSUME NEW n \in 1 .. Cardinality(U), n - 1 \in G PROVE n \in G
  <2>1. ASSUME NEW V \in SUBSET U, Cardinality(V) = n PROVE g[V] = h[V]
    <3>1. V # {}
      BY <1>1, <2>1
    <3>. DEFINE x == CHOOSE x \in V : TRUE
    <3>2. x \in V
      BY <3>1
    <3>3. g[V] = f[x] + g[V \ {x}] /\ h[V] = e[x] + h[V \ {x}]
      <4>1. V \in SUBSET S /\ V \in SUBSET T
        OBVIOUS
      <4>. QED BY <3>1, <4>1 DEF IsSum
    <3>. HIDE DEF x
    <3>4. Cardinality(V \ {x}) = n - 1 /\ V \ {x} \in SUBSET U
      BY <1>1, <2>1, <3>2, FS_RemoveElement
    <3>5. g[V \ {x}] = h[V \ {x}]
      BY <1>3, <3>4
    <3>. QED BY <3>2, <3>3, <3>5
  <2>. QED BY <2>1
<1>4. Cardinality(U) \in G
  <2>. HIDE DEF G
  <2>1. 0 .. Cardinality(U) \subseteq G
    BY <1>1, <1>2, <1>3, UpTo
  <2>. QED BY <1>1, <2>1
<1>. QED BY <1>4

\* The order does not matter.
LEMMA SumAnyOrder ==
  ASSUME NEW S, IsFiniteSet(S), NEW f, \A x \in S : f[x] \in Int,
         NEW g, IsSum(g, S, f), NEW T \in SUBSET S, NEW x \in T
  PROVE  g[T] = f[x] + g[T \ {x}]
<1>. DEFINE N == Cardinality(S)
            G == {n \in 0 .. N : \A U \in SUBSET S : \A y \in U :
                    Cardinality(U) = n => g[U] = f[y] + g[U \ {y}]}
<1>1. /\ N \in Nat
      /\ \A U \in SUBSET S : /\ IsFiniteSet(U) /\ Cardinality(U) \in Nat
                             /\ Cardinality(U) <= N
                             /\ Cardinality(U) = 0 <=> U = {}
                             /\ g[U] \in Int
  BY FS_Subset, FS_CardinalityType, FS_EmptySet DEF IsSum
<1>2. 0 \in G
  <2>1. \A U \in SUBSET S : Cardinality(U) = 0 => U = {}
    BY <1>1
  <2>. QED BY <1>1, <2>1
<1>3. ASSUME NEW n \in 1 .. N, n - 1 \in G PROVE n \in G
  <2>1. ASSUME NEW U \in SUBSET S, NEW y \in U, Cardinality(U) = n
        PROVE  g[U] = f[y] + g[U \ {y}]
    <3>. DEFINE z == CHOOSE z \in U : TRUE
    <3>1. z \in U /\ z \in S /\ y \in S
      OBVIOUS
    <3>2. g[U] = f[z] + g[U \ {z}]
      BY DEF IsSum
    <3>. HIDE DEF z
    <3>3. CASE y = z
      BY <3>2, <3>3
    <3>4. CASE y # z
      <4>1. /\ U \ {y} \in SUBSET S /\ U \ {z} \in SUBSET S
            /\ z \in U \ {y} /\ y \in U \ {z}
            /\ (U \ {y}) \ {z} \in SUBSET S
            /\ (U \ {z}) \ {y} = (U \ {y}) \ {z}
        BY <3>1, <3>4
      <4>2. Cardinality(U \ {y}) = n - 1 /\ Cardinality(U \ {z}) = n - 1
        BY <1>1, <2>1, <3>1, FS_RemoveElement
      <4>3. g[U \ {z}] = f[y] + g[(U \ {z}) \ {y}]
        BY <1>3, <4>1, <4>2
      <4>4. g[U \ {y}] = f[z] + g[(U \ {y}) \ {z}]
        BY <1>3, <4>1, <4>2
      <4>5. f[y] \in Int /\ f[z] \in Int /\ g[(U \ {y}) \ {z}] \in Int
        BY <1>1, <3>1, <4>1
      <4>. DEFINE rest == g[(U \ {y}) \ {z}]
      <4>6. g[U \ {z}] = f[y] + rest
        BY <4>1, <4>3
      <4>. HIDE DEF rest
      <4>7. rest \in Int
        BY <4>5 DEF rest
      <4>8. g[U \ {y}] = f[z] + rest
        BY <4>4 DEF rest
      <4>. QED BY <3>2, <4>5, <4>6, <4>7, <4>8
    <3>. QED BY <3>3, <3>4
  <2>. QED BY <2>1
<1>4. Cardinality(T) \in G
  <2>. HIDE DEF G
  <2>1. 0 .. N \subseteq G
    BY <1>1, <1>2, <1>3, UpTo
  <2>. QED BY <1>1, <2>1
<1>. QED BY <1>4

-----------------------------------------------------------------------------
\* What a sum is: nothing over {}, and an element more than without it.
LEMMA SumEmpty == \A f : SumOver({}, f) = 0
<1>. SUFFICES ASSUME NEW f PROVE SumOver({}, f) = 0
  OBVIOUS
<1>1. PICK g : IsSum(g, {}, f) /\ SumOver({}, f) = g[{}]
  BY SumFold, FS_EmptySet
<1>. QED BY <1>1 DEF IsSum

\* A sum over one element more.
LEMMA SumElement ==
  ASSUME NEW S, IsFiniteSet(S), NEW f, \A x \in S : f[x] \in Int, NEW x \in S
  PROVE  SumOver(S, f) = f[x] + SumOver(S \ {x}, f)
<1>1. PICK g : IsSum(g, S, f) /\ SumOver(S, f) = g[S]
  BY SumFold
<1>2. IsFiniteSet(S \ {x})
  BY FS_RemoveElement
<1>3. PICK h : IsSum(h, S \ {x}, f) /\ SumOver(S \ {x}, f) = h[S \ {x}]
  BY <1>2, SumFold
<1>4. g[S \ {x}] = h[S \ {x}]
  BY <1>1, <1>2, <1>3, SumsAgree
<1>5. g[S] = f[x] + g[S \ {x}]
  BY <1>1, SumAnyOrder
<1>. QED BY <1>1, <1>3, <1>4, <1>5

\* A sum of numbers is a number.
LEMMA SumInt ==
  ASSUME NEW S, IsFiniteSet(S), NEW f, \A x \in S : f[x] \in Int
  PROVE  SumOver(S, f) \in Int
<1>1. PICK g : IsSum(g, S, f) /\ SumOver(S, f) = g[S]
  BY SumFold
<1>. QED BY <1>1 DEF IsSum

\* It depends on the summands alone.
LEMMA SumSame ==
  ASSUME NEW S, IsFiniteSet(S), NEW f, NEW e, \A x \in S : f[x] \in Int /\ e[x] = f[x]
  PROVE  SumOver(S, e) = SumOver(S, f)
<1>1. PICK g : IsSum(g, S, f) /\ SumOver(S, f) = g[S]
  BY SumFold
<1>2. PICK h : IsSum(h, S, e) /\ SumOver(S, e) = h[S]
  BY SumFold
<1>. QED BY <1>1, <1>2, SumsAgree

\* Sums over one set more.
LEMMA SumMore ==
  ASSUME NEW T, IsFiniteSet(T), NEW x, x \notin T, NEW f,
         \A y \in T \cup {x} : f[y] \in Int
  PROVE  /\ SumOver(T \cup {x}, f) = f[x] + SumOver(T, f)
         /\ SumOver(T, f) \in Int /\ SumOver(T \cup {x}, f) \in Int
<1>. DEFINE S == T \cup {x}
<1>1. IsFiniteSet(S) /\ x \in S /\ S \ {x} = T
  BY FS_AddElement
<1>. HIDE DEF S
<1>2. \A y \in S : f[y] \in Int
  BY DEF S
<1>3. SumOver(S, f) = f[x] + SumOver(S \ {x}, f)
  BY <1>1, <1>2, SumElement
<1>4. SumOver(S, f) \in Int /\ SumOver(T, f) \in Int
  BY <1>1, <1>2, SumInt
<1>. QED BY <1>1, <1>3, <1>4 DEF S

\* The sum of two is the two sums together.
LEMMA SumPlus ==
  ASSUME NEW S, IsFiniteSet(S), NEW f, NEW g, NEW h,
         \A x \in S : g[x] \in Int /\ h[x] \in Int /\ f[x] = g[x] + h[x]
  PROVE  SumOver(S, f) = SumOver(S, g) + SumOver(S, h)
<1>. DEFINE Holds == {T \in SUBSET S : SumOver(T, f) = SumOver(T, g) + SumOver(T, h)}
<1>1. {} \in Holds
  BY SumEmpty
<1>2. ASSUME NEW T \in SUBSET S, NEW x \in S \ T, T \in Holds PROVE T \cup {x} \in Holds
  <2>1. IsFiniteSet(T) /\ T \cup {x} \in SUBSET S
    BY FS_Subset
  <2>2. \A y \in T \cup {x} : f[y] \in Int /\ g[y] \in Int /\ h[y] \in Int
    BY <2>1
  <2>3. /\ SumOver(T \cup {x}, f) = f[x] + SumOver(T, f)
        /\ SumOver(T, f) \in Int
    BY <2>1, <2>2, SumMore
  <2>4. /\ SumOver(T \cup {x}, g) = g[x] + SumOver(T, g)
        /\ SumOver(T, g) \in Int
    BY <2>1, <2>2, SumMore
  <2>5. /\ SumOver(T \cup {x}, h) = h[x] + SumOver(T, h)
        /\ SumOver(T, h) \in Int
    BY <2>1, <2>2, SumMore
  <2>6. SumOver(T, f) = SumOver(T, g) + SumOver(T, h)
    BY <1>2
  <2>7. f[x] = g[x] + h[x] /\ g[x] \in Int /\ h[x] \in Int
    OBVIOUS
  <2>8. SumOver(T \cup {x}, f) = SumOver(T \cup {x}, g) + SumOver(T \cup {x}, h)
    BY <2>3, <2>4, <2>5, <2>6, <2>7
  <2>. QED BY <2>1, <2>8
<1>. HIDE DEF Holds
<1>3. S \in Holds
  BY <1>1, <1>2, UpToSet
<1>. QED BY <1>3 DEF Holds

\* A sum of nothing is nothing.
LEMMA SumZero ==
  ASSUME NEW S, IsFiniteSet(S), NEW f, \A x \in S : f[x] = 0
  PROVE  SumOver(S, f) = 0
<1>. DEFINE Holds == {T \in SUBSET S : SumOver(T, f) = 0}
<1>1. {} \in Holds
  BY SumEmpty
<1>2. ASSUME NEW T \in SUBSET S, NEW x \in S \ T, T \in Holds PROVE T \cup {x} \in Holds
  <2>1. IsFiniteSet(T) /\ T \cup {x} \in SUBSET S
    BY FS_Subset
  <2>2. \A y \in T \cup {x} : f[y] \in Int
    BY <2>1
  <2>3. SumOver(T \cup {x}, f) = f[x] + SumOver(T, f)
    BY <2>1, <2>2, SumMore
  <2>4. SumOver(T, f) = 0 /\ f[x] = 0
    BY <1>2
  <2>5. SumOver(T \cup {x}, f) = 0
    BY <2>3, <2>4
  <2>. QED BY <2>1, <2>5
<1>. HIDE DEF Holds
<1>3. S \in Holds
  BY <1>1, <1>2, UpToSet
<1>. QED BY <1>3 DEF Holds

\* A greater summand makes no smaller sum.
LEMMA SumMonotone ==
  ASSUME NEW S, IsFiniteSet(S), NEW f, NEW g,
         \A x \in S : f[x] \in Int /\ g[x] \in Int /\ f[x] <= g[x]
  PROVE  SumOver(S, f) <= SumOver(S, g)
<1>. DEFINE Holds == {T \in SUBSET S : SumOver(T, f) <= SumOver(T, g)}
<1>1. {} \in Holds
  BY SumEmpty
<1>2. ASSUME NEW T \in SUBSET S, NEW x \in S \ T, T \in Holds PROVE T \cup {x} \in Holds
  <2>1. IsFiniteSet(T) /\ T \cup {x} \in SUBSET S
    BY FS_Subset
  <2>2. \A y \in T \cup {x} : f[y] \in Int /\ g[y] \in Int
    BY <2>1
  <2>3. /\ SumOver(T \cup {x}, f) = f[x] + SumOver(T, f)
        /\ SumOver(T, f) \in Int
    BY <2>1, <2>2, SumMore
  <2>4. /\ SumOver(T \cup {x}, g) = g[x] + SumOver(T, g)
        /\ SumOver(T, g) \in Int
    BY <2>1, <2>2, SumMore
  <2>5. SumOver(T, f) <= SumOver(T, g)
    BY <1>2
  <2>6. f[x] <= g[x] /\ f[x] \in Int /\ g[x] \in Int
    OBVIOUS
  <2>7. SumOver(T \cup {x}, f) <= SumOver(T \cup {x}, g)
    BY <2>3, <2>4, <2>5, <2>6
  <2>. QED BY <2>1, <2>7
<1>. HIDE DEF Holds
<1>3. S \in Holds
  BY <1>1, <1>2, UpToSet
<1>. QED BY <1>3 DEF Holds

\* A sum of naturals is a natural.
LEMMA SumNat ==
  ASSUME NEW S, IsFiniteSet(S), NEW f, \A x \in S : f[x] \in Nat
  PROVE  SumOver(S, f) \in Nat
<1>. DEFINE zero == [x \in S |-> 0]
<1>1. \A x \in S : zero[x] = 0 /\ zero[x] <= f[x] /\ zero[x] \in Int /\ f[x] \in Int
  OBVIOUS
<1>. HIDE DEF zero
<1>2. SumOver(S, zero) = 0
  BY <1>1, SumZero
<1>3. SumOver(S, zero) <= SumOver(S, f)
  BY <1>1, SumMonotone
<1>4. SumOver(S, f) \in Int
  BY <1>1, SumInt
<1>. QED BY <1>2, <1>3, <1>4

\* What is nothing outside T adds up over T alone.
LEMMA SumWithin ==
  ASSUME NEW S, IsFiniteSet(S), NEW T \in SUBSET S, NEW f, \A x \in S : f[x] \in Int,
         \A x \in S \ T : f[x] = 0
  PROVE  SumOver(S, f) = SumOver(T, f)
<1>. DEFINE Holds == {U \in SUBSET S : SumOver(U, f) = SumOver(U \cap T, f)}
<1>1. {} \in Holds
  <2>1. {} \cap T = {}
    OBVIOUS
  <2>. QED BY <2>1
<1>2. ASSUME NEW U \in SUBSET S, NEW x \in S \ U, U \in Holds PROVE U \cup {x} \in Holds
  <2>1. IsFiniteSet(U) /\ U \cup {x} \in SUBSET S /\ IsFiniteSet(U \cap T)
    BY FS_Subset
  <2>2. \A y \in U \cup {x} : f[y] \in Int
    BY <2>1
  <2>3. SumOver(U \cup {x}, f) = f[x] + SumOver(U, f) /\ SumOver(U, f) \in Int
    BY <2>1, <2>2, SumMore
  <2>4. SumOver(U, f) = SumOver(U \cap T, f)
    BY <1>2
  <2>5. CASE x \in T
    <3>1. (U \cup {x}) \cap T = (U \cap T) \cup {x} /\ x \notin U \cap T
      BY <2>5
    <3>2. \A y \in (U \cap T) \cup {x} : f[y] \in Int
      BY <2>2
    <3>3. SumOver((U \cap T) \cup {x}, f) = f[x] + SumOver(U \cap T, f)
      BY <2>1, <3>1, <3>2, SumMore
    <3>4. SumOver(U \cup {x}, f) = SumOver((U \cup {x}) \cap T, f)
      BY <2>3, <2>4, <3>1, <3>3
    <3>. QED BY <2>1, <3>4
  <2>6. CASE x \notin T
    <3>1. (U \cup {x}) \cap T = U \cap T /\ f[x] = 0
      BY <2>6
    <3>2. SumOver((U \cup {x}) \cap T, f) = SumOver(U \cap T, f)
      BY <3>1
    <3>3. SumOver(U \cup {x}, f) = SumOver(U, f)
      BY <2>3, <3>1
    <3>. QED BY <2>1, <2>4, <3>2, <3>3
  <2>. QED BY <2>5, <2>6
<1>. HIDE DEF Holds
<1>3. S \in Holds
  BY <1>1, <1>2, UpToSet
<1>4. S \cap T = T
  OBVIOUS
<1>. QED BY <1>3, <1>4 DEF Holds

\* A summand that is nothing but at x.
LEMMA SumAtOne ==
  ASSUME NEW S, IsFiniteSet(S), NEW x \in S, NEW f, f[x] \in Int,
         \A y \in S : y # x => f[y] = 0
  PROVE  SumOver(S, f) = f[x]
<1>1. \A y \in S : f[y] \in Int
  OBVIOUS
<1>2. SumOver(S, f) = SumOver({x}, f)
  <2>1. {x} \in SUBSET S /\ \A y \in S \ {x} : f[y] = 0
    OBVIOUS
  <2>. QED BY <1>1, <2>1, SumWithin
<1>3. SumOver({} \cup {x}, f) = f[x] + SumOver({}, f)
  <2>1. IsFiniteSet({}) /\ x \notin {} /\ \A y \in {} \cup {x} : f[y] \in Int
    BY FS_EmptySet
  <2>. QED BY <2>1, SumMore
<1>4. {} \cup {x} = {x} /\ SumOver({}, f) = 0
  BY SumEmpty
<1>. QED BY <1>2, <1>3, <1>4

\* Adding up by key, over the parts that the keys divide S into, and then over
\* the keys is adding up.
LEMMA SumByParts ==
  ASSUME NEW S, IsFiniteSet(S), NEW f, \A x \in S : f[x] \in Int,
         NEW K, IsFiniteSet(K), NEW key, \A x \in S : key[x] \in K,
         NEW part, \A r \in K : part[r] \in SUBSET S /\ \A x \in S : x \in part[r] <=> key[x] = r,
         NEW g, \A r \in K : g[r] = SumOver(part[r], f)
  PROVE  SumOver(K, g) = SumOver(S, f)
<1>. DEFINE Of(T, r) == {x \in T : key[x] = r}
            By(T) == [r \in K |-> SumOver(Of(T, r), f)]
            Holds == {T \in SUBSET S : SumOver(K, By(T)) = SumOver(T, f)}
<1>1. {} \in Holds
  <2>1. \A r \in K : Of({}, r) = {}
    OBVIOUS
  <2>2. \A r \in K : By({})[r] = 0
    <3>. HIDE DEF Of
    <3>. QED BY <2>1, SumEmpty
  <2>. HIDE DEF By
  <2>3. SumOver(K, By({})) = 0
    BY <2>2, SumZero
  <2>. QED BY <2>3, SumEmpty
<1>2. ASSUME NEW T \in SUBSET S, NEW x \in S \ T, T \in Holds PROVE T \cup {x} \in Holds
  <2>. DEFINE U == T \cup {x}
              At == [r \in K |-> IF r = key[x] THEN f[x] ELSE 0]
  <2>1. /\ IsFiniteSet(T) /\ IsFiniteSet(U) /\ U \in SUBSET S
        /\ \A r \in K : IsFiniteSet(Of(T, r)) /\ IsFiniteSet(Of(U, r))
    <3>1. \A V \in SUBSET S : IsFiniteSet(V)
      BY FS_Subset
    <3>. QED BY <3>1
  <2>2. \A y \in U : f[y] \in Int
    BY <2>1
  <2>3. ASSUME NEW r \in K
        PROVE  By(U)[r] = By(T)[r] + At[r] /\ By(T)[r] \in Int /\ At[r] \in Int
    <3>1. By(T)[r] = SumOver(Of(T, r), f) /\ By(U)[r] = SumOver(Of(U, r), f)
      OBVIOUS
    <3>2. By(T)[r] \in Int
      <4>1. \A y \in Of(T, r) : f[y] \in Int
        OBVIOUS
      <4>. HIDE DEF Of, By
      <4>. QED BY <2>1, <3>1, <4>1, SumInt
    <3>3. CASE r = key[x]
      <4>1. Of(U, r) = Of(T, r) \cup {x} /\ x \notin Of(T, r)
        BY <3>3
      <4>2. \A y \in Of(T, r) \cup {x} : f[y] \in Int
        OBVIOUS
      <4>3. At[r] = f[x] /\ f[x] \in Int
        BY <3>3
      <4>. HIDE DEF Of, By, At
      <4>4. SumOver(Of(T, r) \cup {x}, f) = f[x] + SumOver(Of(T, r), f)
        <5>1. IsFiniteSet(Of(T, r)) /\ x \notin Of(T, r)
          BY <2>1, <4>1
        <5>. QED BY ONLY <4>2, <5>1, SumMore
      <4>5. By(U)[r] = f[x] + By(T)[r]
        BY <3>1, <4>1, <4>4
      <4>. QED BY <3>2, <4>3, <4>5
    <3>4. CASE r # key[x]
      <4>1. Of(U, r) = Of(T, r)
        BY <3>4
      <4>2. At[r] = 0
        BY <3>4
      <4>. HIDE DEF Of, By, At
      <4>. QED BY <3>1, <3>2, <4>1, <4>2
    <3>. QED BY <3>3, <3>4
  <2>4. SumOver(K, At) = f[x]
    <3>1. /\ key[x] \in K /\ At[key[x]] = f[x] /\ f[x] \in Int
          /\ \A r \in K : r # key[x] => At[r] = 0
      OBVIOUS
    <3>. HIDE DEF At
    <3>. QED BY <3>1, SumAtOne
  <2>5. SumOver(K, By(U)) = SumOver(K, By(T)) + SumOver(K, At)
    <3>. DEFINE a == By(U)  b == By(T)
    <3>1. \A r \in K : b[r] \in Int /\ At[r] \in Int /\ a[r] = b[r] + At[r]
      BY <2>3
    <3>. HIDE DEF a, b, At
    <3>2. SumOver(K, a) = SumOver(K, b) + SumOver(K, At)
      BY <3>1, SumPlus
    <3>. QED BY <3>2 DEF a, b
  <2>6. SumOver(U, f) = f[x] + SumOver(T, f) /\ SumOver(T, f) \in Int
    <3>1. /\ x \notin T /\ \A y \in T \cup {x} : f[y] \in Int
          /\ IsFiniteSet(T) /\ U = T \cup {x}
      BY <2>1, <2>2
    <3>. HIDE DEF U
    <3>. QED BY ONLY <3>1, SumMore
  <2>7. SumOver(K, By(T)) = SumOver(T, f)
    BY <1>2
  <2>. HIDE DEF By
  <2>8. SumOver(K, By(U)) = SumOver(U, f)
    <3>1. f[x] \in Int
      OBVIOUS
    <3>. HIDE DEF U, At
    <3>. QED BY <2>4, <2>5, <2>6, <2>7, <3>1
  <2>. QED BY <2>1, <2>8
<1>. HIDE DEF Holds
<1>3. S \in Holds
  BY <1>1, <1>2, UpToSet
<1>4. SumOver(K, By(S)) = SumOver(S, f)
  BY <1>3 DEF Holds
<1>5. \A r \in K : By(S)[r] = g[r]
  <2>1. \A r \in K : part[r] = Of(S, r)
    OBVIOUS
  <2>2. \A r \in K : By(S)[r] = SumOver(Of(S, r), f)
    OBVIOUS
  <2>. HIDE DEF Of, By
  <2>. QED BY <2>1, <2>2
<1>6. \A r \in K : By(S)[r] \in Int
  <2>1. \A r \in K : Of(S, r) \in SUBSET S
    OBVIOUS
  <2>2. \A r \in K : By(S)[r] = SumOver(Of(S, r), f)
    OBVIOUS
  <2>. HIDE DEF Of, By
  <2>3. ASSUME NEW r \in K PROVE By(S)[r] \in Int
    <3>1. IsFiniteSet(Of(S, r)) /\ \A y \in Of(S, r) : f[y] \in Int
      BY <2>1, FS_Subset
    <3>. QED BY <2>2, <3>1, SumInt
  <2>. QED BY <2>3
<1>7. SumOver(K, g) = SumOver(K, By(S))
  <2>. HIDE DEF By
  <2>. QED BY <1>5, <1>6, SumSame
<1>. QED BY <1>4, <1>7

\* The sum over two sets without a common element.
LEMMA SumUnion ==
  ASSUME NEW A, IsFiniteSet(A), NEW B, IsFiniteSet(B), A \cap B = {},
         NEW f, \A x \in A \cup B : f[x] \in Int
  PROVE  SumOver(A \cup B, f) = SumOver(A, f) + SumOver(B, f)
<1>. DEFINE S == A \cup B
            g == [x \in S |-> IF x \in A THEN f[x] ELSE 0]
            h == [x \in S |-> IF x \in B THEN f[x] ELSE 0]
<1>1. IsFiniteSet(S)
  BY FS_Union
<1>2. /\ \A x \in S : g[x] \in Int /\ h[x] \in Int /\ f[x] = g[x] + h[x]
      /\ \A x \in S \ A : g[x] = 0
      /\ \A x \in S \ B : h[x] = 0
  OBVIOUS
<1>3. /\ \A x \in A : f[x] \in Int /\ g[x] = f[x]
      /\ \A x \in B : f[x] \in Int /\ h[x] = f[x]
  OBVIOUS
<1>4. A \in SUBSET S /\ B \in SUBSET S
  OBVIOUS
<1>. HIDE DEF S, g, h
<1>5. SumOver(S, f) = SumOver(S, g) + SumOver(S, h)
  BY <1>1, <1>2, SumPlus
<1>6. SumOver(S, g) = SumOver(A, g) /\ SumOver(S, h) = SumOver(B, h)
  BY <1>1, <1>2, <1>4, SumWithin
<1>7. SumOver(A, g) = SumOver(A, f) /\ SumOver(B, h) = SumOver(B, f)
  BY <1>3, SumSame
<1>. QED BY <1>5, <1>6, <1>7 DEF S

\* A function that agrees with e where it is defined adds up to the sum of e there.
LEMMA SumOfPart ==
  ASSUME NEW S, IsFiniteSet(S), NEW e, \A x \in S : e[x] \in Int,
         NEW f, DOMAIN f = S, \A x \in S : f[x] = e[x]
  PROVE  SumOf(f) = SumOver(S, e)
<1>1. SumOf(f) = SumOver(S, f)
  BY DEF SumOf
<1>2. SumOver(S, f) = SumOver(S, e)
  BY SumSame
<1>. QED BY <1>1, <1>2

\* A table of numbers, its rows over B and its columns over A, with their sums.
IsTable(A, B, row, col, rows, cols) ==
  /\ \A a \in A : \A b \in B : row[a][b] \in Int /\ col[b][a] = row[a][b]
  /\ \A a \in A : rows[a] = SumOver(B, row[a])
  /\ \A b \in B : cols[b] = SumOver(A, col[b])

\* Adding up by rows is adding up by columns.
LEMMA SumExchange ==
  ASSUME NEW A, IsFiniteSet(A), NEW B, IsFiniteSet(B), NEW row, NEW col, NEW rows, NEW cols,
         IsTable(A, B, row, col, rows, cols)
  PROVE  SumOver(A, rows) = SumOver(B, cols)
<1>. USE DEF IsTable
<1>. DEFINE Part(T) == [b \in B |-> SumOver(T, col[b])]
            Holds == {T \in SUBSET A : SumOver(T, rows) = SumOver(B, Part(T))}
<1>1. {} \in Holds
  <2>1. \A b \in B : Part({})[b] = 0
    BY SumEmpty
  <2>. HIDE DEF Part
  <2>2. SumOver(B, Part({})) = 0 /\ SumOver({}, rows) = 0
    BY <2>1, SumZero, SumEmpty
  <2>. QED BY <2>2
<1>2. \A a \in A : rows[a] \in Int
  BY SumInt
<1>3. \A T \in SUBSET A : IsFiniteSet(T) /\ \A b \in B : Part(T)[b] \in Int
  <2>. SUFFICES ASSUME NEW T \in SUBSET A
                PROVE  IsFiniteSet(T) /\ \A b \in B : Part(T)[b] \in Int
    OBVIOUS
  <2>1. IsFiniteSet(T)
    BY FS_Subset
  <2>2. ASSUME NEW b \in B PROVE Part(T)[b] \in Int
    <3>. DEFINE c == col[b]
    <3>1. \A y \in T : c[y] \in Int
      OBVIOUS
    <3>2. Part(T)[b] = SumOver(T, c)
      OBVIOUS
    <3>. HIDE DEF c, Part
    <3>. QED BY <2>1, <3>1, <3>2, SumInt
  <2>. QED BY <2>1, <2>2
<1>4. ASSUME NEW T \in SUBSET A, NEW x \in A \ T, T \in Holds PROVE T \cup {x} \in Holds
  <2>. DEFINE U == T \cup {x}
  <2>1. IsFiniteSet(T) /\ U \in SUBSET A /\ x \notin T
    BY <1>3
  <2>2. SumOver(U, rows) = rows[x] + SumOver(T, rows)
    <3>1. \A y \in T \cup {x} : rows[y] \in Int
      BY <1>2
    <3>2. IsFiniteSet(T) /\ x \notin T
      BY <2>1
    <3>. QED BY ONLY <3>1, <3>2, SumMore
  <2>3. \A b \in B : Part(U)[b] = row[x][b] + Part(T)[b]
    <3>. SUFFICES ASSUME NEW b \in B PROVE Part(U)[b] = row[x][b] + Part(T)[b]
      OBVIOUS
    <3>. DEFINE c == col[b]
    <3>1. (\A y \in T \cup {x} : c[y] \in Int) /\ c[x] = row[x][b]
      OBVIOUS
    <3>2. Part(U)[b] = SumOver(T \cup {x}, c) /\ Part(T)[b] = SumOver(T, c)
      BY <2>1
    <3>. HIDE DEF c, Part, U
    <3>3. SumOver(T \cup {x}, c) = c[x] + SumOver(T, c)
      <4>1. (\A y \in T \cup {x} : c[y] \in Int) /\ IsFiniteSet(T) /\ x \notin T
        BY <2>1, <3>1
      <4>. QED BY ONLY <4>1, SumMore
    <3>. QED BY <3>1, <3>2, <3>3
  <2>4. SumOver(B, Part(U)) = SumOver(B, row[x]) + SumOver(B, Part(T))
    <3>. DEFINE g == Part(U)  p == Part(T)  r == row[x]
    <3>1. \A b \in B : r[b] \in Int /\ p[b] \in Int /\ g[b] = r[b] + p[b]
      BY <1>3, <2>3
    <3>. HIDE DEF g, p, r
    <3>2. SumOver(B, g) = SumOver(B, r) + SumOver(B, p)
      BY <3>1, SumPlus
    <3>. QED BY <3>2 DEF g, p, r
  <2>5. SumOver(T, rows) = SumOver(B, Part(T)) /\ rows[x] = SumOver(B, row[x])
    BY <1>4
  <2>. HIDE DEF U, Part
  <2>6. SumOver(U, rows) = SumOver(B, Part(U))
    BY <2>2, <2>4, <2>5
  <2>. QED BY <2>1, <2>6 DEF U
<1>. HIDE DEF Holds
<1>5. A \in Holds
  BY <1>1, <1>4, UpToSet
<1>6. SumOver(A, rows) = SumOver(B, Part(A))
  BY <1>5 DEF Holds
<1>7. \A b \in B : Part(A)[b] \in Int /\ cols[b] = Part(A)[b]
  BY <1>3
<1>. HIDE DEF Part
<1>8. SumOver(B, cols) = SumOver(B, Part(A))
  BY <1>7, SumSame
<1>. QED BY <1>6, <1>8
=============================================================================
