------------------------ MODULE Materialize_proofs ------------------------
(***************************************************************************)
(* The theorems of Materialize.                                            *)
(***************************************************************************)
EXTENDS Materialize, ContextRules_proofs

-----------------------------------------------------------------------------
(* Texts: sequences of lines that cost something.                          *)

Costed(lines) == \E C : lines \in Seq(C) /\ \A c \in C : c.cost \in Nat

\* A sequence of lines with a cost is a costed text.
LEMMA CostedBy ==
  ASSUME NEW lines, NEW C, lines \in Seq(C), \A c \in C : c.cost \in Nat
  PROVE  Costed(lines)
  BY DEF Costed

\* What a costed text costs.
LEMMA CostedCost ==
  ASSUME NEW lines, Costed(lines)
  PROVE  Cost(lines) \in Nat /\ Len(lines) \in Nat /\ DOMAIN lines = 1 .. Len(lines)
<1>1. PICK C : lines \in Seq(C) /\ \A c \in C : c.cost \in Nat
  BY DEF Costed
<1>2. Len(lines) \in Nat /\ DOMAIN lines = 1 .. Len(lines)
      /\ \A k \in 1 .. Len(lines) : lines[k].cost \in Nat
  BY <1>1
<1>. DEFINE f == [k \in DOMAIN lines |-> lines[k].cost]
<1>3. DOMAIN f = 1 .. Len(lines) /\ \A k \in 1 .. Len(lines) : f[k] \in Nat
  BY <1>2
<1>4. Cost(lines) = SumOver(DOMAIN f, f)
  BY DEF Cost, SumOf
<1>5. IsFiniteSet(1 .. Len(lines))
  BY <1>2, FS_Interval
<1>. HIDE DEF f
<1>6. SumOver(1 .. Len(lines), f) \in Nat
  BY <1>3, <1>5, SumNat
<1>. QED BY <1>2, <1>3, <1>4, <1>6

\* A line with a cost is a costed text, ...
LEMMA CostedLine ==
  ASSUME NEW c, c.cost \in Nat
  PROVE  Costed(<<c>>)
<1>. DEFINE C == {c}
<1>1. <<c>> \in Seq(C) /\ \A d \in C : d.cost \in Nat
  OBVIOUS
<1>. HIDE DEF C
<1>. QED BY <1>1, CostedBy

\* ... and so is no line, ...
LEMMA CostedNone == Costed(<<>>)
<1>. DEFINE C == {}
<1>1. <<>> \in Seq(C) /\ \A d \in C : d.cost \in Nat
  OBVIOUS
<1>. HIDE DEF C
<1>. QED BY <1>1, CostedBy

\* ... and one costed text after another, ...
LEMMA CostedConcat ==
  ASSUME NEW a, Costed(a), NEW b, Costed(b)
  PROVE  Costed(a \o b)
<1>1. PICK C : a \in Seq(C) /\ \A c \in C : c.cost \in Nat
  BY DEF Costed
<1>2. PICK D : b \in Seq(D) /\ \A c \in D : c.cost \in Nat
  BY DEF Costed
<1>. DEFINE E == C \cup D
<1>3. a \in Seq(E) /\ b \in Seq(E) /\ \A c \in E : c.cost \in Nat
  BY <1>1, <1>2
<1>. HIDE DEF E
<1>4. a \o b \in Seq(E)
  BY <1>3, ConcatProperties
<1>. QED BY <1>3, <1>4, CostedBy

\* One line after another.
LEMMA CostedEach ==
  ASSUME NEW n \in Nat, NEW lines, lines = [k \in 1 .. n |-> lines[k]],
         \A k \in 1 .. n : lines[k].cost \in Nat
  PROVE  Costed(lines)
<1>. DEFINE C == {lines[k] : k \in 1 .. n}
<1>1. lines \in [1 .. n -> C]
  OBVIOUS
<1>2. lines \in Seq(C)
  BY <1>1
<1>3. \A c \in C : c.cost \in Nat
  OBVIOUS
<1>. QED BY <1>2, <1>3, CostedBy

\* What is kept of a text.
LEMMA CostedKept ==
  ASSUME NEW lines, Costed(lines), NEW passes \in [DOMAIN lines -> BOOLEAN]
  PROVE  Costed(Kept(lines, passes))
<1>1. PICK C : lines \in Seq(C) /\ \A c \in C : c.cost \in Nat
  BY DEF Costed
<1>2. passes \in [1 .. Len(lines) -> BOOLEAN]
  BY <1>1
<1>3. Kept(lines, passes) \in Seq(C)
  BY <1>1, <1>2, KeptSelects
<1>. QED BY <1>1, <1>3 DEF Costed

\* ... and so are the lines of some kinds, ...
LEMMA CostedLinesThat ==
  ASSUME NEW lines, Costed(lines), NEW is
  PROVE  Costed(LinesThat(lines, is))
<1>1. [k \in DOMAIN lines |-> lines[k].is \in is] \in [DOMAIN lines -> BOOLEAN]
  OBVIOUS
<1>. QED BY <1>1, CostedKept DEF LinesThat

\* ... and the lines that differ from those before them.
LEMMA CostedDistinct ==
  ASSUME NEW lines, Costed(lines)
  PROVE  Costed(Distinct(lines))
<1>1. [k \in DOMAIN lines |-> \A j \in 1 .. k - 1 : lines[j] # lines[k]]
        \in [DOMAIN lines -> BOOLEAN]
  OBVIOUS
<1>. QED BY <1>1, CostedKept DEF Distinct

\* The smaller and the greater of two numbers.
LEMMA MinMaxOfTwo ==
  ASSUME NEW a \in Int, NEW b \in Int
  PROVE  /\ Min({a, b}) = IF a <= b THEN a ELSE b
         /\ Max({a, b}) = IF a >= b THEN a ELSE b
<1>1. Min({a, b}) \in {a, b} /\ \A x \in {a, b} : Min({a, b}) <= x
  <2>1. \E x \in {a, b} : \A y \in {a, b} : x <= y
    <3>1. a <= b \/ b <= a
      OBVIOUS
    <3>2. (a <= b => \A y \in {a, b} : a <= y) /\ (b <= a => \A y \in {a, b} : b <= y)
      OBVIOUS
    <3>. QED BY <3>1, <3>2
  <2>. DEFINE S == {a, b}
  <2>2. \E x \in S : \A y \in S : x <= y
    BY <2>1
  <2>. HIDE DEF S
  <2>3. Min(S) \in S /\ \A x \in S : Min(S) <= x
    BY <2>2 DEF Min
  <2>. QED BY <2>3 DEF S
<1>2. Max({a, b}) \in {a, b} /\ \A x \in {a, b} : Max({a, b}) >= x
  <2>1. \E x \in {a, b} : \A y \in {a, b} : x >= y
    <3>1. a >= b \/ b >= a
      OBVIOUS
    <3>2. (a >= b => \A y \in {a, b} : a >= y) /\ (b >= a => \A y \in {a, b} : b >= y)
      OBVIOUS
    <3>. QED BY <3>1, <3>2
  <2>. DEFINE S == {a, b}
  <2>2. \E x \in S : \A y \in S : x >= y
    BY <2>1
  <2>. HIDE DEF S
  <2>3. Max(S) \in S /\ \A x \in S : Max(S) >= x
    BY <2>2 DEF Max
  <2>. QED BY <2>3 DEF S
<1>. QED BY <1>1, <1>2

\* The first and the last n elements of a sequence.
LEMMA EndsOf ==
  ASSUME NEW S, NEW s \in Seq(S), NEW n \in Nat
  PROVE  /\ FirstOf(s, n) \in Seq(S)
         /\ Len(FirstOf(s, n)) = IF n <= Len(s) THEN n ELSE Len(s)
         /\ \A k \in 1 .. Len(FirstOf(s, n)) : FirstOf(s, n)[k] = s[k]
         /\ LastOf(s, n) \in Seq(S)
         /\ Len(LastOf(s, n)) = IF n <= Len(s) THEN n ELSE Len(s)
         /\ \A k \in 1 .. Len(LastOf(s, n)) :
              LastOf(s, n)[k] = s[Len(s) - Len(LastOf(s, n)) + k]
<1>1. Len(s) \in Nat /\ \A k \in 1 .. Len(s) : s[k] \in S
  OBVIOUS
<1>. DEFINE m == IF n <= Len(s) THEN n ELSE Len(s)
            t == Len(s) - m + 1
<1>2. Min({n, Len(s)}) = m /\ Max({1, Len(s) - n + 1}) = t
  <2>. DEFINE N == Len(s)  a == N - n + 1
  <2>1. N \in Int /\ n \in Int /\ a \in Int /\ 1 \in Int
    BY <1>1
  <2>. HIDE DEF N, a
  <2>2. Min({n, N}) = IF n <= N THEN n ELSE N
    BY <2>1, MinMaxOfTwo
  <2>3. Max({1, a}) = IF 1 >= a THEN 1 ELSE a
    BY <2>1, MinMaxOfTwo
  <2>4. (IF 1 >= a THEN 1 ELSE a) = N - (IF n <= N THEN n ELSE N) + 1
    BY <2>1 DEF a
  <2>5. Max({1, a}) = N - (IF n <= N THEN n ELSE N) + 1
    BY <2>3, <2>4
  <2>6. Min({n, Len(s)}) = m
    BY <2>2 DEF N
  <2>7. Max({1, Len(s) - n + 1}) = t
    BY <2>5 DEF N, a
  <2>. QED BY <2>6, <2>7
<1>3. m \in 0 .. Len(s) /\ t \in 1 .. Len(s) + 1
  <2>. DEFINE N == Len(s)
  <2>1. N \in Nat
    BY <1>1
  <2>. HIDE DEF N
  <2>2. (IF n <= N THEN n ELSE N) \in 0 .. N
    BY <2>1
  <2>3. N - (IF n <= N THEN n ELSE N) + 1 \in 1 .. N + 1
    BY <2>1
  <2>. QED BY <2>2, <2>3 DEF N
<1>4. FirstOf(s, n) = SubSeq(s, 1, m) /\ LastOf(s, n) = SubSeq(s, t, Len(s))
  BY <1>2 DEF FirstOf, LastOf
<1>5. /\ SubSeq(s, 1, m) \in Seq(S)
      /\ Len(SubSeq(s, 1, m)) = m
      /\ \A k \in 1 .. m : SubSeq(s, 1, m)[k] = s[k]
  <2>1. m \in Int /\ 1 \in Int /\ \A i \in 1 .. m : s[i] \in S
    BY <1>1, <1>3
  <2>. HIDE DEF m
  <2>2. /\ SubSeq(s, 1, m) \in Seq(S)
        /\ Len(SubSeq(s, 1, m)) = IF 1 <= m THEN m - 1 + 1 ELSE 0
        /\ \A i \in 1 .. m - 1 + 1 : SubSeq(s, 1, m)[i] = s[1 + i - 1]
    BY <2>1, SubSeqProperties
  <2>3. \A i \in 1 .. m : i \in 1 .. m - 1 + 1 /\ 1 + i - 1 = i
    BY <1>3
  <2>. QED BY <1>3, <2>2, <2>3
<1>6. /\ SubSeq(s, t, Len(s)) \in Seq(S)
      /\ Len(SubSeq(s, t, Len(s))) = m
      /\ \A k \in 1 .. m : SubSeq(s, t, Len(s))[k] = s[Len(s) - m + k]
  <2>1. Len(s) \in Int /\ t \in Int /\ \A i \in t .. Len(s) : s[i] \in S
    BY <1>1, <1>3
  <2>4. Len(s) - t + 1 = m
    BY <1>1, <1>3
  <2>. HIDE DEF m, t
  <2>2. /\ SubSeq(s, t, Len(s)) \in Seq(S)
        /\ Len(SubSeq(s, t, Len(s))) = IF t <= Len(s) THEN Len(s) - t + 1 ELSE 0
        /\ \A i \in 1 .. Len(s) - t + 1 : SubSeq(s, t, Len(s))[i] = s[t + i - 1]
    BY <2>1, SubSeqProperties
  <2>3. \A i \in 1 .. m : i \in 1 .. Len(s) - t + 1 /\ t + i - 1 = Len(s) - m + i
    BY <1>1, <1>3, <2>4
  <2>. QED BY <1>1, <1>3, <2>2, <2>3, <2>4
<1>. HIDE DEF m, t
<1>. QED BY <1>4, <1>5, <1>6 DEF m

\* The ends of a costed text are costed texts.
LEMMA CostedEnds ==
  ASSUME NEW lines, Costed(lines), NEW n \in Nat
  PROVE  Costed(FirstOf(lines, n)) /\ Costed(LastOf(lines, n))
<1>1. PICK C : lines \in Seq(C) /\ \A c \in C : c.cost \in Nat
  BY DEF Costed
<1>2. FirstOf(lines, n) \in Seq(C) /\ LastOf(lines, n) \in Seq(C)
  BY <1>1, EndsOf
<1>. QED BY <1>1, <1>2 DEF Costed

\* The parts of a text, one after the other.
LEMMA JoinedSteps ==
  ASSUME NEW S, NEW parts \in Seq(Seq(S))
  PROVE  \E f : /\ f \in [0 .. Len(parts) -> Seq(S)]
                /\ f[0] = <<>>
                /\ \A n \in 1 .. Len(parts) : f[n] = f[n - 1] \o parts[n]
                /\ Joined(parts) = f[Len(parts)]
<1>. DEFINE N == Len(parts)
            Q == Seq(S)
            joined[n \in 0 .. N] == IF n = 0 THEN <<>> ELSE joined[n - 1] \o parts[n]
            step == [x \in Q \X (1 .. N) |-> x[1] \o parts[x[2]]]
<1>1. N \in Nat /\ (\A n \in 1 .. N : parts[n] \in Q) /\ <<>> \in Q
  OBVIOUS
<1>2. \A a \in Q, n \in 1 .. N : a \o parts[n] \in Q
  BY <1>1, ConcatProperties
<1>3. Joined(parts) = joined[N]
  BY DEF Joined
<1>. HIDE DEF step, N, Q, joined
<1>4. /\ \A n \in 1 .. N : n \in 0 .. N /\ n - 1 \in 0 .. N /\ n # 0
      /\ \A n \in 0 .. N : n = 0 \/ n \in 1 .. N
      /\ 0 \in 0 .. N /\ N \in 0 .. N
  BY <1>1
<1>5. step \in Steps(Q, N)
  BY <1>2 DEF Steps, step
<1>6. PICK f : IsFold(f, Q, N, <<>>, step)
  BY <1>1, <1>5, FoldExists
<1>7. f \in [0 .. N -> Q] /\ f[0] = <<>> /\ \A n \in 1 .. N : f[n] = step[<<f[n - 1], n>>]
  BY <1>6 DEF IsFold
<1>8. \A n \in 1 .. N : f[n] = f[n - 1] \o parts[n]
  <2>1. ASSUME NEW n \in 1 .. N PROVE f[n] = f[n - 1] \o parts[n]
    <3>1. f[n - 1] \in Q
      BY <1>4, <1>7
    <3>2. step[<<f[n - 1], n>>] = f[n - 1] \o parts[n]
      BY <3>1 DEF step
    <3>. QED BY <3>2, <1>7
  <2>. QED BY <2>1
<1>9. f = [n \in 0 .. N |-> IF n = 0 THEN <<>> ELSE f[n - 1] \o parts[n]]
  <2>1. ASSUME NEW n \in 0 .. N PROVE f[n] = IF n = 0 THEN <<>> ELSE f[n - 1] \o parts[n]
    BY <1>4, <1>7, <1>8
  <2>. QED BY <2>1, <1>7
<1>10. joined = [n \in 0 .. N |-> IF n = 0 THEN <<>> ELSE joined[n - 1] \o parts[n]]
  BY <1>9 DEF joined
<1>11. /\ joined[0] = <<>>
       /\ \A n \in 1 .. N : joined[n] = joined[n - 1] \o parts[n]
  <2>1. joined[0] = <<>>
    BY <1>4, <1>10, Zenon
  <2>2. ASSUME NEW n \in 1 .. N PROVE joined[n] = joined[n - 1] \o parts[n]
    BY <1>4, <1>10, Zenon
  <2>. QED BY <2>1, <2>2
<1>12. \A n \in 0 .. N : joined[n] \in Q
  <2>. DEFINE T == {n \in 0 .. N : joined[n] \in Q}
  <2>1. 0 \in T
    BY <1>1, <1>4, <1>11
  <2>2. ASSUME NEW n \in 1 .. N, n - 1 \in T PROVE n \in T
    <3>1. joined[n - 1] \in Q
      BY <2>2
    <3>. QED BY <1>2, <1>4, <1>11, <3>1
  <2>. HIDE DEF T
  <2>3. 0 .. N \subseteq T
    BY <1>1, <2>1, <2>2, UpTo
  <2>. QED BY <2>3 DEF T
<1>13. joined \in [0 .. N -> Q]
  <2>1. joined = [n \in 0 .. N |-> joined[n]]
    BY <1>10, Zenon
  <2>. QED BY <1>12, <2>1
<1>. QED BY <1>3, <1>11, <1>13 DEF N, Q

\* Costed texts, one after the other, are a costed text.
LEMMA CostedJoined ==
  ASSUME NEW C, \A c \in C : c.cost \in Nat, NEW parts \in Seq(Seq(C))
  PROVE  Costed(Joined(parts))
<1>1. PICK f : /\ f \in [0 .. Len(parts) -> Seq(C)]
               /\ Joined(parts) = f[Len(parts)]
  BY JoinedSteps
<1>2. Len(parts) \in Nat
  OBVIOUS
<1>3. Len(parts) \in 0 .. Len(parts)
  BY <1>2
<1>4. Joined(parts) \in Seq(C)
  BY <1>1, <1>3
<1>. QED BY <1>4, CostedBy

-----------------------------------------------------------------------------
(* Fitting a text to a budget.                                             *)

\* One line more, and all lines.
LEMMA FirstLines ==
  ASSUME NEW S, NEW s \in Seq(S)
  PROVE  /\ FirstOf(s, 0) = <<>>
         /\ FirstOf(s, Len(s)) = s
         /\ \A n \in 1 .. Len(s) : Append(FirstOf(s, n - 1), s[n]) = FirstOf(s, n)
<1>1. Len(s) \in Nat /\ \A k \in 1 .. Len(s) : s[k] \in S
  OBVIOUS
<1>2. \A n \in 0 .. Len(s) : /\ FirstOf(s, n) \in Seq(S) /\ Len(FirstOf(s, n)) = n
                              /\ \A k \in 1 .. n : FirstOf(s, n)[k] = s[k]
  <2>1. \A n \in 0 .. Len(s) : n \in Nat /\ n <= Len(s)
    BY <1>1
  <2>. QED BY <2>1, EndsOf
<1>3. FirstOf(s, 0) = <<>>
  <2>1. FirstOf(s, 0) \in Seq(S) /\ Len(FirstOf(s, 0)) = 0
    BY <1>1, <1>2
  <2>. DEFINE t == FirstOf(s, 0)
  <2>. HIDE DEF t
  <2>2. t \in Seq(S) /\ Len(t) = 0 => t = <<>>
    OBVIOUS
  <2>. QED BY <2>1, <2>2 DEF t
<1>4. FirstOf(s, Len(s)) = s
  <2>1. Len(s) \in 0 .. Len(s)
    BY <1>1
  <2>2. /\ FirstOf(s, Len(s)) \in Seq(S) /\ Len(FirstOf(s, Len(s))) = Len(s)
        /\ \A k \in 1 .. Len(s) : FirstOf(s, Len(s))[k] = s[k]
    BY <1>2, <2>1
  <2>. QED BY <2>2, SeqEqual
<1>5. ASSUME NEW n \in 1 .. Len(s)
      PROVE  Append(FirstOf(s, n - 1), s[n]) = FirstOf(s, n)
  <2>. DEFINE t == FirstOf(s, n - 1)  u == FirstOf(s, n)
  <2>1. n - 1 \in 0 .. Len(s) /\ n \in 0 .. Len(s) /\ s[n] \in S
    BY <1>1
  <2>2. /\ t \in Seq(S) /\ Len(t) = n - 1 /\ \A k \in 1 .. n - 1 : t[k] = s[k]
        /\ u \in Seq(S) /\ Len(u) = n /\ \A k \in 1 .. n : u[k] = s[k]
    BY <1>2, <2>1
  <2>. HIDE DEF t, u
  <2>3. /\ Append(t, s[n]) \in Seq(S)
        /\ Len(Append(t, s[n])) = Len(t) + 1
        /\ \A k \in 1 .. Len(t) : Append(t, s[n])[k] = t[k]
        /\ Append(t, s[n])[Len(t) + 1] = s[n]
    BY <2>1, <2>2, AppendProperties
  <2>. DEFINE a == Append(t, s[n])
  <2>. HIDE DEF a
  <2>4. a \in Seq(S) /\ Len(a) = n /\ a[n] = s[n] /\ \A k \in 1 .. n - 1 : a[k] = s[k]
    <3>1. Len(t) + 1 = n
      BY <2>2, <1>1
    <3>. QED BY <2>2, <2>3, <3>1 DEF a
  <2>5. \A k \in 1 .. n : a[k] = u[k]
    <3>1. \A k \in 1 .. n : k \in 1 .. n - 1 \/ k = n
      BY <1>1
    <3>. QED BY <2>2, <2>4, <3>1
  <2>6. a = u
    BY <2>2, <2>4, <2>5, SeqEqual
  <2>. QED BY <2>6 DEF a, t, u
<1>. QED BY <1>3, <1>4, <1>5

\* The loop of FitToTokenBudget.
LEMMA FitSteps ==
  ASSUME NEW C, NEW lines \in Seq(C), NEW budget,
         ~(budget <= 0 \/ Cost(lines) <= budget)
  PROVE  \E f : /\ f[0] = [kept |-> <<>>, full |-> FALSE]
                /\ \A n \in 1 .. Len(lines) : f[n] = PushLine(f[n - 1], lines[n], budget)
                /\ FitToTokenBudget(lines, budget) = f[Len(lines)].kept
<1>. DEFINE N == Len(lines)
            B == Seq(C \cup {Ellipsis})
            Q == [kept : B, full : BOOLEAN]
            start == [kept |-> <<>>, full |-> FALSE]
            fitted[n \in 0 .. N] ==
              IF n = 0 THEN [kept |-> <<>>, full |-> FALSE]
              ELSE PushLine(fitted[n - 1], lines[n], budget)
            step == [x \in Q \X (1 .. N) |-> PushLine(x[1], lines[x[2]], budget)]
<1>1. N \in Nat /\ (\A n \in 1 .. N : lines[n] \in C) /\ <<>> \in B
  OBVIOUS
<1>2. FitToTokenBudget(lines, budget) = fitted[N].kept
  BY DEF FitToTokenBudget
<1>3. \A a \in B : \A c \in C \cup {Ellipsis} : Append(a, c) \in B
  OBVIOUS
<1>. HIDE DEF step, N, B, fitted, start
<1>4. ASSUME NEW x \in Q, NEW n \in 1 .. N PROVE PushLine(x, lines[n], budget) \in Q
  <2>1. x.kept \in B /\ lines[n] \in C \cup {Ellipsis} /\ Ellipsis \in C \cup {Ellipsis}
    BY <1>1
  <2>2. Append(x.kept, lines[n]) \in B /\ Append(x.kept, Ellipsis) \in B
    BY <1>3, <2>1
  <2>. QED BY <2>2 DEF PushLine
<1>5. start \in Q
  BY <1>1 DEF start
<1>. HIDE DEF Q
<1>6. /\ \A n \in 1 .. N : n \in 0 .. N /\ n - 1 \in 0 .. N /\ n # 0
      /\ \A n \in 0 .. N : n = 0 \/ n \in 1 .. N
      /\ 0 \in 0 .. N
  BY <1>1
<1>7. step \in Steps(Q, N)
  BY <1>4 DEF Steps, step
<1>8. PICK f : IsFold(f, Q, N, start, step)
  BY <1>1, <1>5, <1>7, FoldExists
<1>9. f \in [0 .. N -> Q] /\ f[0] = start /\ \A n \in 1 .. N : f[n] = step[<<f[n - 1], n>>]
  BY <1>8 DEF IsFold
<1>10. \A n \in 1 .. N : f[n] = PushLine(f[n - 1], lines[n], budget)
  <2>1. ASSUME NEW n \in 1 .. N PROVE f[n] = PushLine(f[n - 1], lines[n], budget)
    <3>1. f[n - 1] \in Q
      BY <1>6, <1>9
    <3>2. step[<<f[n - 1], n>>] = PushLine(f[n - 1], lines[n], budget)
      BY <3>1 DEF step
    <3>. QED BY <3>2, <1>9
  <2>. QED BY <2>1
<1>11. f = [n \in 0 .. N |-> IF n = 0 THEN start ELSE PushLine(f[n - 1], lines[n], budget)]
  <2>1. ASSUME NEW n \in 0 .. N
        PROVE  f[n] = IF n = 0 THEN start ELSE PushLine(f[n - 1], lines[n], budget)
    BY <1>6, <1>9, <1>10
  <2>. QED BY <2>1, <1>9
<1>12. fitted = [n \in 0 .. N |->
                   IF n = 0 THEN start ELSE PushLine(fitted[n - 1], lines[n], budget)]
  BY <1>11 DEF fitted, start
<1>13. fitted[0] = start
  BY <1>6, <1>12, Zenon
<1>14. ASSUME NEW n \in 1 .. N PROVE fitted[n] = PushLine(fitted[n - 1], lines[n], budget)
  BY <1>6, <1>12, Zenon
<1>. QED BY <1>2, <1>13, <1>14 DEF N, start

\* Either all lines are there, or the first m and the mark of a cut: as many as
\* fit, and the first in any case.
LEMMA Fits ==
  ASSUME NEW lines, Costed(lines), NEW budget \in Int
  PROVE  \/ /\ FitToTokenBudget(lines, budget) = lines
            /\ ~(budget > 0 /\ Cost(lines) > budget /\ Len(lines) > 1)
         \/ /\ budget > 0 /\ Cost(lines) > budget /\ Len(lines) > 1
            /\ \E m \in 1 .. Len(lines) - 1 :
                 /\ FitToTokenBudget(lines, budget) = Append(FirstOf(lines, m), Ellipsis)
                 /\ m = 1 \/ Cost(FirstOf(lines, m)) <= budget
                 /\ Cost(FirstOf(lines, m + 1)) > budget
<1>. DEFINE N == Len(lines)
            price == [n \in 0 .. N |-> Cost(FirstOf(lines, n))]
            start == [kept |-> <<>>, full |-> FALSE]
<1>1. N \in Nat /\ Cost(lines) \in Nat
  BY CostedCost
<1>2. PICK C : lines \in Seq(C) /\ \A c \in C : c.cost \in Nat
  BY DEF Costed
<1>3. CASE budget <= 0 \/ Cost(lines) <= budget
  <2>1. FitToTokenBudget(lines, budget) = lines
    BY <1>3 DEF FitToTokenBudget
  <2>. QED BY <1>1, <1>3, <2>1
<1>4. CASE ~(budget <= 0 \/ Cost(lines) <= budget)
  <2>1. PICK f : /\ f[0] = start
                 /\ \A n \in 1 .. N : f[n] = PushLine(f[n - 1], lines[n], budget)
                 /\ FitToTokenBudget(lines, budget) = f[N].kept
    BY <1>2, <1>4, FitSteps
  <2>2. budget > 0 /\ Cost(lines) > budget
    BY <1>1, <1>4
  <2>3. \A n \in 0 .. N : price[n] = Cost(FirstOf(lines, n)) /\ price[n] \in Nat
    <3>1. ASSUME NEW n \in 0 .. N PROVE Cost(FirstOf(lines, n)) \in Nat
      <4>1. n \in Nat
        BY <1>1
      <4>. QED BY <4>1, CostedEnds, CostedCost
    <3>. QED BY <3>1
  <2>4. /\ FirstOf(lines, 0) = <<>> /\ FirstOf(lines, N) = lines
        /\ \A n \in 1 .. N : Append(FirstOf(lines, n - 1), lines[n]) = FirstOf(lines, n)
    BY <1>2, FirstLines
  <2>5. \A n \in 2 .. N : FirstOf(lines, n - 1) # <<>>
    <3>1. ASSUME NEW n \in 2 .. N PROVE Len(FirstOf(lines, n - 1)) # 0
      <4>1. n - 1 \in Nat /\ n - 1 <= Len(lines) /\ n - 1 # 0
        BY <1>1
      <4>. QED BY <1>2, <4>1, EndsOf
    <3>. QED BY <3>1
  <2>. HIDE DEF N, price
  <2>. DEFINE Whole(n) == /\ f[n] = [kept |-> FirstOf(lines, n), full |-> FALSE]
                          /\ \A m \in 2 .. n : price[m] <= budget
              Cut(n) == \E m \in 1 .. n - 1 :
                          /\ f[n] = [kept |-> Append(FirstOf(lines, m), Ellipsis),
                                      full |-> TRUE]
                          /\ m = 1 \/ price[m] <= budget
                          /\ price[m + 1] > budget
              T == {n \in 0 .. N : Whole(n) \/ Cut(n)}
  <2>6. 0 \in T
    <3>1. FirstOf(lines, 0) = <<>>
      BY <2>4
    <3>2. f[0] = start
      BY <2>1
    <3>3. f[0] = [kept |-> FirstOf(lines, 0), full |-> FALSE]
      BY <3>1, <3>2
    <3>4. \A m \in 2 .. 0 : FALSE
      OBVIOUS
    <3>5. Whole(0)
      BY <3>3, <3>4
    <3>. HIDE DEF Whole, Cut
    <3>. QED BY <1>1, <3>5
  <2>7. ASSUME NEW n \in 1 .. N, n - 1 \in T PROVE n \in T
    <3>1. f[n] = PushLine(f[n - 1], lines[n], budget)
      BY <2>1
    <3>2. n \in 0 .. N /\ n - 1 \in 0 .. N
      BY <1>1
    <3>3. CASE Cut(n - 1)
      <4>1. PICK m \in 1 .. n - 2 :
              /\ f[n - 1] = [kept |-> Append(FirstOf(lines, m), Ellipsis), full |-> TRUE]
              /\ m = 1 \/ price[m] <= budget
              /\ price[m + 1] > budget
        <5>1. n - 1 - 1 = n - 2
          BY <1>1
        <5>. QED BY <3>3, <5>1
      <4>2. m \in 1 .. n - 1
        BY <1>1
      <4>3. f[n] = f[n - 1]
        BY <3>1, <4>1 DEF PushLine
      <4>4. Cut(n)
        BY <4>1, <4>2, <4>3
      <4>. HIDE DEF Whole, Cut
      <4>. QED BY <3>2, <4>4
    <3>4. CASE Whole(n - 1)
      <4>1. /\ f[n - 1].kept = FirstOf(lines, n - 1) /\ ~f[n - 1].full
            /\ \A m \in 2 .. n - 1 : price[m] <= budget
        BY <3>4
      <4>2. Append(f[n - 1].kept, lines[n]) = FirstOf(lines, n)
        BY <2>4, <4>1
      <4>3. Cost(Append(f[n - 1].kept, lines[n])) = price[n]
        BY <2>3, <3>2, <4>2
      <4>4. CASE price[n] > budget /\ n >= 2
        <5>1. n \in 2 .. N
          BY <1>1, <4>4
        <5>2. f[n - 1].kept # <<>>
          BY <2>5, <4>1, <5>1
        <5>3. f[n] = [kept |-> Append(FirstOf(lines, n - 1), Ellipsis), full |-> TRUE]
          BY <3>1, <4>1, <4>3, <4>4, <5>2 DEF PushLine
        <5>4. n - 1 \in 1 .. n - 1 /\ (n - 1) + 1 = n
          BY <1>1, <5>1
        <5>5. n - 1 = 1 \/ price[n - 1] <= budget
          <6>1. n - 1 = 1 \/ n - 1 \in 2 .. n - 1
            BY <1>1, <5>1
          <6>. QED BY <4>1, <6>1
        <5>6. price[(n - 1) + 1] > budget
          BY <4>4, <5>4
        <5>7. Cut(n)
          BY <5>3, <5>4, <5>5, <5>6
        <5>. HIDE DEF Whole, Cut
        <5>. QED BY <3>2, <5>7
      <4>5. CASE ~(price[n] > budget /\ n >= 2)
        <5>1. ~(Cost(Append(f[n - 1].kept, lines[n])) > budget /\ f[n - 1].kept # <<>>)
          <6>1. CASE n >= 2
            BY <4>3, <4>5, <6>1
          <6>2. CASE ~(n >= 2)
            <7>1. n = 1
              BY <1>1, <6>2
            <7>. QED BY <2>4, <4>1, <7>1
          <6>. QED BY <6>1, <6>2
        <5>2. f[n] = [kept |-> FirstOf(lines, n), full |-> FALSE]
          BY <3>1, <4>1, <4>2, <5>1 DEF PushLine
        <5>3. ASSUME NEW m \in 2 .. n PROVE price[m] <= budget
          <6>1. m \in 2 .. n - 1 \/ (m = n /\ n >= 2)
            BY <1>1
          <6>2. price[n] \in Nat
            BY <2>3, <3>2
          <6>. QED BY <4>1, <4>5, <6>1, <6>2
        <5>4. Whole(n)
          BY <5>2, <5>3
        <5>. HIDE DEF Whole, Cut
        <5>. QED BY <3>2, <5>4
      <4>. QED BY <4>4, <4>5
    <3>. QED BY <2>7, <3>3, <3>4
  <2>8. N \in T
    <3>. HIDE DEF T
    <3>1. 0 .. N \subseteq T
      BY <1>1, <2>6, <2>7, UpTo
    <3>. QED BY <1>1, <3>1
  <2>9. CASE Whole(N)
    <3>1. FitToTokenBudget(lines, budget) = lines
      BY <2>1, <2>4, <2>9
    <3>2. ~(N > 1)
      <4>1. ASSUME N > 1 PROVE FALSE
        <5>1. N \in 2 .. N /\ N \in 0 .. N
          BY <1>1, <4>1
        <5>2. price[N] <= budget
          BY <2>9, <5>1
        <5>3. price[N] = Cost(lines)
          BY <2>3, <2>4, <5>1
        <5>. QED BY <1>1, <2>2, <5>2, <5>3
      <4>. QED BY <4>1
    <3>. QED BY <3>1, <3>2 DEF N
  <2>10. CASE Cut(N)
    <3>1. PICK m \in 1 .. N - 1 :
            /\ f[N] = [kept |-> Append(FirstOf(lines, m), Ellipsis), full |-> TRUE]
            /\ m = 1 \/ price[m] <= budget
            /\ price[m + 1] > budget
      BY <2>10
    <3>2. FitToTokenBudget(lines, budget) = Append(FirstOf(lines, m), Ellipsis)
      BY <2>1, <3>1
    <3>3. m \in 0 .. N /\ m + 1 \in 0 .. N /\ N > 1
      BY <1>1
    <3>4. /\ m = 1 \/ Cost(FirstOf(lines, m)) <= budget
          /\ Cost(FirstOf(lines, m + 1)) > budget
      BY <2>3, <3>1, <3>3
    <3>. QED BY <2>2, <3>2, <3>3, <3>4 DEF N
  <2>. QED BY <2>8, <2>9, <2>10
<1>. QED BY <1>3, <1>4

-----------------------------------------------------------------------------
(* What the strategies write before it is fitted.                          *)

IsSeq(s) == \E S : s \in Seq(S)

\* What a sequence is, whatever its elements.
LEMMA SeqIsSeq ==
  ASSUME NEW S, NEW s \in Seq(S)
  PROVE  IsSeq(s)
  BY DEF IsSeq

\* A sequence has a length, and its indices count up to it.
LEMMA SeqLength ==
  ASSUME NEW s, IsSeq(s)
  PROVE  Len(s) \in Nat /\ DOMAIN s = 1 .. Len(s)
<1>1. PICK S : s \in Seq(S)
  BY DEF IsSeq
<1>. QED BY <1>1

\* A function of the first n indices is a sequence of length n.
LEMMA SeqEach ==
  ASSUME NEW n \in Nat, NEW s, s = [k \in 1 .. n |-> s[k]]
  PROVE  IsSeq(s) /\ Len(s) = n
<1>. DEFINE S == {s[k] : k \in 1 .. n}
<1>1. s \in [1 .. n -> S]
  OBVIOUS
<1>2. s \in Seq(S) /\ Len(s) = n
  BY <1>1
<1>. HIDE DEF S
<1>. QED BY <1>2, SeqIsSeq

\* What is kept of a sequence is one, ...
LEMMA SeqKept ==
  ASSUME NEW s, IsSeq(s), NEW passes \in [DOMAIN s -> BOOLEAN]
  PROVE  IsSeq(Kept(s, passes))
<1>1. PICK S : s \in Seq(S)
  BY DEF IsSeq
<1>2. passes \in [1 .. Len(s) -> BOOLEAN]
  BY <1>1
<1>. QED BY <1>1, <1>2, KeptSelects, SeqIsSeq

\* ... and so are its different elements, ...
LEMMA SeqDistinct ==
  ASSUME NEW s, IsSeq(s)
  PROVE  IsSeq(Distinct(s))
<1>1. [k \in DOMAIN s |-> \A j \in 1 .. k - 1 : s[j] # s[k]] \in [DOMAIN s -> BOOLEAN]
  OBVIOUS
<1>. QED BY <1>1, SeqKept DEF Distinct

\* ... and its first elements.
LEMMA SeqFirst ==
  ASSUME NEW s, IsSeq(s), NEW n \in Nat
  PROVE  IsSeq(FirstOf(s, n))
<1>1. PICK S : s \in Seq(S)
  BY DEF IsSeq
<1>. QED BY <1>1, EndsOf, SeqIsSeq

\* A costed text is a sequence.
LEMMA CostedIsSeq ==
  ASSUME NEW lines, Costed(lines)
  PROVE  IsSeq(lines)
  BY DEF Costed, IsSeq

\* The names some lines give.
LEMMA SeqNames ==
  ASSUME NEW lines, IsSeq(lines)
  PROVE  IsSeq(Names(lines)) /\ Len(Names(lines)) \in Nat
<1>1. Len(lines) \in Nat /\ DOMAIN lines = 1 .. Len(lines)
  BY SeqLength
<1>2. Names(lines) = [k \in 1 .. Len(lines) |-> Names(lines)[k]]
  BY <1>1 DEF Names
<1>. QED BY <1>1, <1>2, SeqEach

\* A line of the repository's own costs one.
LEMMA LineCosts ==
  /\ \A is, name : Line(is, name, 1).cost \in Nat
  /\ \A is, n : Count(is, n).cost \in Nat
  /\ \A a, b : Counts(a, b).cost \in Nat
  BY DEF Line, Count, Counts

\* A text of an item is a costed one without the mark of a cut.
LEMMA TextIsCosted ==
  ASSUME NEW lines, IsText(lines)
  PROVE  Costed(lines) /\ \A k \in 1 .. Len(lines) : lines[k] # Ellipsis
<1>1. lines \in Seq(ToSet(lines))
  BY DEF IsText
<1>2. DOMAIN lines = 1 .. Len(lines)
  BY <1>1
<1>3. \A c \in ToSet(lines) : c.cost \in Nat
  BY DEF IsText, ToSet
<1>4. Costed(lines)
  BY <1>1, <1>3, CostedBy
<1>5. ASSUME NEW k \in 1 .. Len(lines) PROVE lines[k] # Ellipsis
  <2>1. lines[k].is # "..."
    BY <1>2 DEF IsText
  <2>2. Ellipsis.is = "..."
    BY DEF Ellipsis, Line
  <2>. QED BY <2>1, <2>2
<1>. QED BY <1>4, <1>5

\* The same, for texts given one by one.
LEMMA CostedEachJoined ==
  ASSUME NEW n \in Nat, NEW parts, parts = [k \in 1 .. n |-> parts[k]],
         \A k \in 1 .. n : Costed(parts[k])
  PROVE  Costed(Joined(parts))
<1>. DEFINE C == UNION {{parts[k][j] : j \in 1 .. Len(parts[k])} : k \in 1 .. n}
<1>1. ASSUME NEW k \in 1 .. n
      PROVE  parts[k] \in Seq(C) /\ \A j \in 1 .. Len(parts[k]) : parts[k][j].cost \in Nat
  <2>1. PICK D : parts[k] \in Seq(D) /\ \A c \in D : c.cost \in Nat
    BY DEF Costed
  <2>2. /\ Len(parts[k]) \in Nat
        /\ \A j \in 1 .. Len(parts[k]) : parts[k][j] \in C /\ parts[k][j] \in D
    BY <2>1
  <2>3. parts[k] = [j \in 1 .. Len(parts[k]) |-> parts[k][j]]
    BY <2>1
  <2>. HIDE DEF C
  <2>4. parts[k] \in [1 .. Len(parts[k]) -> C]
    BY <2>2, <2>3
  <2>5. parts[k] \in Seq(C)
    BY <2>2, <2>4
  <2>. QED BY <2>1, <2>2, <2>5
<1>2. \A c \in C : c.cost \in Nat
  BY <1>1
<1>. HIDE DEF C
<1>3. parts \in [1 .. n -> Seq(C)]
  BY <1>1
<1>4. parts \in Seq(Seq(C))
  BY <1>3
<1>. QED BY <1>2, <1>4, CostedJoined

\* The failures found in a text are some.
LEMMA FailuresAreSome ==
  ASSUME NEW lines, Costed(lines)
  PROVE  IsSeq(ParseFailedTests(lines))
<1>. DEFINE files == Names(LinesThat(lines, {"FAIL"}))
            named == Names(LinesThat(lines, {"named"}))
            expected == Names(LinesThat(lines, {"expected"}))
            at_(seq, i) == IF i \in DOMAIN seq THEN seq[i] ELSE None
            n == Max({Len(files), Len(named), 1})
            zipped == [i \in 1 .. n |-> [file |-> at_(files, i), name |-> at_(named, i),
                                         message |-> at_(expected, i)]]
            passes == [i \in DOMAIN zipped |->
                         \/ zipped[i].file # None \/ zipped[i].name # None
                         \/ zipped[i].message # None]
<1>1. Len(files) \in Nat /\ Len(named) \in Nat
  BY CostedLinesThat, CostedIsSeq, SeqNames
<1>2. ParseFailedTests(lines) = Kept(zipped, passes)
  BY DEF ParseFailedTests
<1>. HIDE DEF files, named, expected
<1>3. n \in Nat
  <2>. DEFINE S == {Len(files), Len(named), 1}
              m == Len(files) + Len(named) + 1
  <2>1. S \in SUBSET (0 .. m) /\ S # {}
    BY <1>1
  <2>2. m \in Nat
    BY <1>1
  <2>. HIDE DEF S, m
  <2>3. Max(S) \in S
    BY <2>1, <2>2, MaxPosition
  <2>4. \A x \in 0 .. m : x \in Nat
    OBVIOUS
  <2>5. Max(S) \in 0 .. m
    BY <2>1, <2>3
  <2>6. Max(S) \in Nat
    BY <2>4, <2>5
  <2>. QED BY <2>6 DEF S
<1>4. zipped = [i \in 1 .. n |-> zipped[i]] /\ passes \in [DOMAIN zipped -> BOOLEAN]
  OBVIOUS
<1>. HIDE DEF zipped, passes, n
<1>5. IsSeq(zipped)
  BY <1>3, <1>4, SeqEach
<1>. QED BY <1>2, <1>4, <1>5, SeqKept

\* The lines of a failure are a costed text.
LEMMA CostedFailure ==
  ASSUME NEW failure
  PROVE  Costed(FailureLines(failure))
<1>. DEFINE lines == <<Line("file", failure.file, 1), Line("test", failure.name, 1),
                       Line("message", failure.message, 1)>>
            passes == [k \in DOMAIN lines |-> lines[k].name # None]
<1>1. FailureLines(failure) = Kept(lines, passes)
  BY DEF FailureLines
<1>2. passes \in [DOMAIN lines -> BOOLEAN]
  OBVIOUS
<1>3. Costed(lines)
  <2>1. lines = [k \in 1 .. 3 |-> lines[k]]
    OBVIOUS
  <2>2. \A k \in 1 .. 3 : lines[k].cost \in Nat
    BY LineCosts
  <2>. HIDE DEF lines
  <2>. QED BY <2>1, <2>2, CostedEach
<1>. HIDE DEF lines, passes
<1>. QED BY <1>1, <1>2, <1>3, CostedKept

\* What every summary has in common costs something.
LEMMA CostedCommon ==
  ASSUME NEW item
  PROVE  /\ Command(item).cost \in Nat
         /\ Costed(ExitLines(item))
         /\ OriginalLine(item).cost \in Nat /\ OriginalLine(item) # Ellipsis
<1>1. Command(item).cost \in Nat
  BY LineCosts DEF Command
<1>2. Costed(ExitLines(item))
  BY LineCosts, CostedLine, CostedNone DEF ExitLines
<1>3. OriginalLine(item).cost \in Nat
  BY LineCosts DEF OriginalLine
<1>4. OriginalLine(item).is = "original" /\ Ellipsis.is = "..."
  BY DEF OriginalLine, Count, Ellipsis, Line
<1>. QED BY <1>1, <1>2, <1>3, <1>4

\* Two lines with a cost are a costed text.
LEMMA CostedTwo ==
  ASSUME NEW a, NEW b, a.cost \in Nat, b.cost \in Nat
  PROVE  Costed(<<a, b>>)
<1>. DEFINE lines == <<a, b>>
<1>1. lines = [k \in 1 .. 2 |-> lines[k]] /\ \A k \in 1 .. 2 : lines[k].cost \in Nat
  OBVIOUS
<1>. HIDE DEF lines
<1>2. Costed(lines)
  BY <1>1, CostedEach
<1>. QED BY <1>2 DEF lines

\* A costed text that ends in a line that is no mark of a cut.
Ends(lines) == Costed(lines) /\ Len(lines) > 0 /\ Last(lines) # Ellipsis

\* A text with a line of its own at the end.
LEMMA EndsInLine ==
  ASSUME NEW lines, Costed(lines), NEW c, c.cost \in Nat, c # Ellipsis
  PROVE  Ends(lines \o <<c>>)
<1>1. PICK C : lines \in Seq(C) /\ \A d \in C : d.cost \in Nat
  BY DEF Costed
<1>. DEFINE D == C \cup {c}
<1>2. lines \in Seq(D) /\ <<c>> \in Seq(D) /\ Len(<<c>>) = 1 /\ <<c>>[1] = c
  BY <1>1
<1>3. Len(lines) \in Nat
  BY <1>2
<1>. HIDE DEF D
<1>. DEFINE u == lines \o <<c>>
<1>4. Len(u) = Len(lines) + 1 /\ u[Len(lines) + 1] = c
  <2>1. /\ Len(u) = Len(lines) + Len(<<c>>)
        /\ \A i \in 1 .. Len(lines) + Len(<<c>>) :
             u[i] = IF i <= Len(lines) THEN lines[i] ELSE <<c>>[i - Len(lines)]
    BY <1>2, ConcatProperties
  <2>2. Len(lines) + 1 \in 1 .. Len(lines) + Len(<<c>>) /\ ~(Len(lines) + 1 <= Len(lines))
        /\ (Len(lines) + 1) - Len(lines) = 1
    BY <1>2, <1>3
  <2>. QED BY <1>2, <2>1, <2>2
<1>5. Costed(u)
  BY CostedLine, CostedConcat
<1>. HIDE DEF u
<1>6. Ends(u)
  BY <1>3, <1>4, <1>5 DEF Ends, Last
<1>. QED BY <1>6 DEF u

\* The summary of a test run is such a text.
LEMMA TestSummaryEnds ==
  ASSUME NEW item, IsText(ToolText(item)), MaxNames \in Nat
  PROVE  Ends(TestSummary(item))
<1>. DEFINE text == ToolText(item)
            counts == TestCounts(text)
            failures == ParseFailedTests(text)
            paths == Distinct(Names(LinesThat(text, {"FAIL", "PASS"})))
            relevant == IF \E k \in DOMAIN failures : failures[k].file # None THEN <<>>
                        ELSE FirstOf(paths, MaxNames)
            p1 == <<Line("status", TestStatus(item), 1), Command(item)>>
            p2 == ExitLines(item)
            p3 == <<Counts(counts.passed, Or(counts.failed, Len(failures)))>>
            p4 == Joined([k \in DOMAIN failures |-> FailureLines(failures[k])])
            p5 == [k \in DOMAIN relevant |-> Line("relevant", relevant[k], 1)]
<1>1. TestSummary(item) = p1 \o p2 \o p3 \o p4 \o p5 \o <<OriginalLine(item)>>
  BY DEF TestSummary
<1>2. Costed(text)
  BY TextIsCosted
<1>3. IsSeq(failures)
  BY <1>2, FailuresAreSome
<1>4. IsSeq(relevant)
  <2>1. IsSeq(paths)
    BY <1>2, CostedLinesThat, CostedIsSeq, SeqNames, SeqDistinct
  <2>2. IsSeq(<<>>)
    BY CostedNone, CostedIsSeq
  <2>. HIDE DEF paths, failures
  <2>. QED BY <2>1, <2>2, SeqFirst
<1>5. Costed(p1)
  BY CostedTwo, CostedCommon, LineCosts
<1>6. Costed(p2)
  BY CostedCommon
<1>7. Costed(p3)
  BY CostedLine, LineCosts
<1>8. Costed(p4)
  <2>. DEFINE parts == [k \in DOMAIN failures |-> FailureLines(failures[k])]
  <2>. HIDE DEF failures
  <2>1. Len(failures) \in Nat /\ DOMAIN failures = 1 .. Len(failures)
    BY <1>3, SeqLength
  <2>2. /\ parts = [k \in 1 .. Len(failures) |-> parts[k]]
        /\ \A k \in 1 .. Len(failures) : Costed(parts[k])
    BY <2>1, CostedFailure
  <2>. HIDE DEF parts
  <2>3. Costed(Joined(parts))
    BY <2>1, <2>2, CostedEachJoined
  <2>. QED BY <2>3 DEF parts
<1>9. Costed(p5)
  <2>. HIDE DEF relevant
  <2>1. Len(relevant) \in Nat /\ DOMAIN relevant = 1 .. Len(relevant)
    BY <1>4, SeqLength
  <2>2. /\ p5 = [k \in 1 .. Len(relevant) |-> p5[k]]
        /\ \A k \in 1 .. Len(relevant) : p5[k].cost \in Nat
    BY <2>1, LineCosts
  <2>. HIDE DEF p5
  <2>. QED BY <2>1, <2>2, CostedEach
<1>. HIDE DEF p1, p2, p3, p4, p5
<1>10. Costed(p1 \o p2 \o p3 \o p4 \o p5)
  BY <1>5, <1>6, <1>7, <1>8, <1>9, CostedConcat
<1>. QED BY <1>1, <1>10, EndsInLine, CostedCommon

\* So is that of a build.
LEMMA BuildSummaryEnds ==
  ASSUME NEW item, IsText(ToolText(item)), LastLines \in Nat
  PROVE  Ends(BuildSummary(item))
<1>. DEFINE text == ToolText(item)
            p1 == <<Line("status", BuildStatus(item), 1), Command(item)>>
            p2 == ExitLines(item)
            p4 == ExtractBuildErrors(text)
            p3 == <<Count("errors", Len(p4))>>
            p5 == FirstOf(LinesThat(text, {"warnings"}), 1)
            p6 == LastRelevantLines(text)
<1>1. BuildSummary(item) = p1 \o p2 \o p3 \o p4 \o p5 \o p6 \o <<OriginalLine(item)>>
  BY DEF BuildSummary
<1>2. Costed(text)
  BY TextIsCosted
<1>3. Costed(p1)
  BY CostedTwo, CostedCommon, LineCosts
<1>4. Costed(p2)
  BY CostedCommon
<1>5. Costed(p3)
  BY CostedLine, LineCosts
<1>6. Costed(p4)
  <2>. DEFINE errors == LinesThat(text, {"error"})
              first == [k \in DOMAIN errors |->
                          \A j \in 1 .. k - 1 : errors[j].name # errors[k].name]
  <2>1. p4 = Kept(errors, first)
    BY DEF ExtractBuildErrors
  <2>2. Costed(errors)
    BY <1>2, CostedLinesThat
  <2>. HIDE DEF errors
  <2>3. first \in [DOMAIN errors -> BOOLEAN]
    OBVIOUS
  <2>. HIDE DEF first
  <2>4. Costed(Kept(errors, first))
    BY <2>2, <2>3, CostedKept
  <2>. QED BY <2>1, <2>4
<1>7. Costed(p5)
  BY <1>2, CostedLinesThat, CostedEnds
<1>8. Costed(p6)
  BY <1>2, CostedEnds, CostedLinesThat, CostedDistinct DEF LastRelevantLines
<1>. HIDE DEF p1, p2, p3, p4, p5, p6
<1>9. Costed(p1 \o p2 \o p3 \o p4 \o p5 \o p6)
  BY <1>3, <1>4, <1>5, <1>6, <1>7, <1>8, CostedConcat
<1>. QED BY <1>1, <1>9, EndsInLine, CostedCommon

\* One line more for the hunks, and all of them.
LEMMA HunkPushed ==
  ASSUME NEW D, Ellipsis \in D, NEW groups \in Seq(Seq(D)), NEW line \in D
  PROVE  PushToHunk(groups, line) \in Seq(Seq(D))
<1>. DEFINE Q == Seq(D)
<1>1. <<line>> \in Q
  OBVIOUS
<1>2. \A x \in Q : Append(x, line) \in Q /\ Append(x, Ellipsis) \in Q
  OBVIOUS
<1>. HIDE DEF Q
<1>3. groups \in Seq(Q)
  BY DEF Q
<1>4. \A s \in Seq(Q) : \A x \in Q : Append(s, x) \in Seq(Q)
  OBVIOUS
<1>5. ASSUME groups # <<>> PROVE Last(groups) \in Q /\ Front(groups) \in Seq(Q)
  <2>1. Len(groups) \in Nat /\ Len(groups) # 0
    BY <1>3, <1>5
  <2>2. Last(groups) \in Q
    BY <1>3, <2>1 DEF Last
  <2>3. Len(groups) - 1 \in Int /\ \A i \in 1 .. Len(groups) - 1 : groups[i] \in Q
    BY <1>3, <2>1
  <2>4. SubSeq(groups, 1, Len(groups) - 1) \in Seq(Q)
    BY <2>3, SubSeqProperties
  <2>. QED BY <2>2, <2>4 DEF Front
<1>6. PushToHunk(groups, line) \in Seq(Q)
  <2>1. CASE line.is \in {"diff", "@@"}
    BY <1>1, <1>3, <1>4, <2>1 DEF PushToHunk
  <2>2. CASE line.is \notin {"diff", "@@"}
    <3>1. CASE groups = <<>> \/ line.is \notin {"change", "stat"}
      BY <1>3, <2>2, <3>1 DEF PushToHunk
    <3>2. CASE ~(groups = <<>> \/ line.is \notin {"change", "stat"})
      <4>1. Last(groups) \in Q /\ Front(groups) \in Seq(Q)
        BY <1>5, <3>2
      <4>2. /\ Append(Front(groups), Append(Last(groups), line)) \in Seq(Q)
            /\ Append(Front(groups), Append(Last(groups), Ellipsis)) \in Seq(Q)
        BY <1>2, <1>4, <4>1
      <4>. QED BY <1>3, <2>2, <3>2, <4>2 DEF PushToHunk
    <3>. QED BY <3>1, <3>2
  <2>. QED BY <2>1, <2>2
<1>. QED BY <1>6 DEF Q

\* The hunks of a diff are texts, whatever its lines.
LEMMA HunksAreTexts ==
  ASSUME NEW D, Ellipsis \in D, NEW lines \in Seq(D)
  PROVE  CompactHunks(lines) \in Seq(Seq(D))
<1>. DEFINE N == Len(lines)
            Q == Seq(Seq(D))
            groups[n \in 0 .. N] == IF n = 0 THEN <<>> ELSE PushToHunk(groups[n - 1], lines[n])
            step == [x \in Q \X (1 .. N) |-> PushToHunk(x[1], lines[x[2]])]
<1>1. N \in Nat /\ (\A n \in 1 .. N : lines[n] \in D) /\ <<>> \in Q
  OBVIOUS
<1>2. \A a \in Q, n \in 1 .. N : PushToHunk(a, lines[n]) \in Q
  BY <1>1, HunkPushed
<1>3. CompactHunks(lines) = groups[N]
  BY DEF CompactHunks
<1>. HIDE DEF step, N, Q, groups
<1>4. /\ \A n \in 1 .. N : n \in 0 .. N /\ n - 1 \in 0 .. N /\ n # 0
      /\ \A n \in 0 .. N : n = 0 \/ n \in 1 .. N
      /\ 0 \in 0 .. N /\ N \in 0 .. N
  BY <1>1
<1>5. step \in Steps(Q, N)
  BY <1>2 DEF Steps, step
<1>6. PICK f : IsFold(f, Q, N, <<>>, step)
  BY <1>1, <1>5, FoldExists
<1>7. f \in [0 .. N -> Q] /\ f[0] = <<>> /\ \A n \in 1 .. N : f[n] = step[<<f[n - 1], n>>]
  BY <1>6 DEF IsFold
<1>8. \A n \in 1 .. N : f[n] = PushToHunk(f[n - 1], lines[n])
  <2>1. ASSUME NEW n \in 1 .. N PROVE f[n] = PushToHunk(f[n - 1], lines[n])
    <3>1. f[n - 1] \in Q
      BY <1>4, <1>7
    <3>2. step[<<f[n - 1], n>>] = PushToHunk(f[n - 1], lines[n])
      BY <3>1 DEF step
    <3>. QED BY <3>2, <1>7
  <2>. QED BY <2>1
<1>9. f = [n \in 0 .. N |-> IF n = 0 THEN <<>> ELSE PushToHunk(f[n - 1], lines[n])]
  <2>1. ASSUME NEW n \in 0 .. N
        PROVE  f[n] = IF n = 0 THEN <<>> ELSE PushToHunk(f[n - 1], lines[n])
    BY <1>4, <1>7, <1>8
  <2>. QED BY <2>1, <1>7
<1>10. groups = [n \in 0 .. N |-> IF n = 0 THEN <<>> ELSE PushToHunk(groups[n - 1], lines[n])]
  BY <1>9 DEF groups
<1>11. groups[0] = <<>>
  BY <1>4, <1>10, Zenon
<1>12. ASSUME NEW n \in 1 .. N PROVE groups[n] = PushToHunk(groups[n - 1], lines[n])
  BY <1>4, <1>10, Zenon
<1>13. groups[N] \in Q
  <2>. DEFINE T == {n \in 0 .. N : groups[n] \in Q}
  <2>1. 0 \in T
    BY <1>1, <1>4, <1>11
  <2>2. ASSUME NEW n \in 1 .. N, n - 1 \in T PROVE n \in T
    <3>1. groups[n - 1] \in Q
      BY <2>2
    <3>2. groups[n] = PushToHunk(groups[n - 1], lines[n])
      BY <1>12
    <3>. QED BY <1>2, <1>4, <3>1, <3>2
  <2>. HIDE DEF T
  <2>3. 0 .. N \subseteq T
    BY <1>1, <2>1, <2>2, UpTo
  <2>4. N \in T
    BY <1>4, <2>3
  <2>. QED BY <2>4 DEF T
<1>. QED BY <1>3, <1>13 DEF Q

\* So is that of a diff, if there is one.
LEMMA GitDiffSummaryEnds ==
  ASSUME NEW item, IsText(ToolText(item)), MaxNames \in Nat, MaxHunks \in Nat,
         GitDiffSummary(item) # <<>>
  PROVE  Ends(GitDiffSummary(item))
<1>. DEFINE text == ToolText(item)
            files == Distinct(LinesThat(text, {"diff"}))
            p1 == <<Line("status", "diff", 1), Command(item)>>
            p2 == <<Count("files", Len(files))>>
            p3 == FirstOf(files, MaxNames)
            p4 == Joined(FirstOf(CompactHunks(text), MaxHunks))
<1>1. GitDiffSummary(item) = p1 \o p2 \o p3 \o p4 \o <<OriginalLine(item)>>
  BY DEF GitDiffSummary
<1>2. Costed(text)
  BY TextIsCosted
<1>3. Costed(p1)
  BY CostedTwo, CostedCommon, LineCosts
<1>4. Costed(p2)
  BY CostedLine, LineCosts
<1>5. Costed(p3)
  BY <1>2, CostedLinesThat, CostedDistinct, CostedEnds
<1>6. Costed(p4)
  <2>1. PICK C : text \in Seq(C) /\ \A c \in C : c.cost \in Nat
    BY <1>2 DEF Costed
  <2>. DEFINE D == C \cup {Ellipsis}
  <2>2. Ellipsis \in D /\ text \in Seq(D) /\ \A c \in D : c.cost \in Nat
    <3>1. Ellipsis.cost \in Nat
      BY LineCosts DEF Ellipsis
    <3>2. text \in Seq(D)
      <4>. HIDE DEF text
      <4>. QED BY <2>1
    <3>. HIDE DEF text
    <3>. QED BY <2>1, <3>1, <3>2
  <2>. HIDE DEF D, text
  <2>3. FirstOf(CompactHunks(text), MaxHunks) \in Seq(Seq(D))
    BY <2>2, HunksAreTexts, EndsOf
  <2>. QED BY <2>2, <2>3, CostedJoined
<1>. HIDE DEF p1, p2, p3, p4
<1>7. Costed(p1 \o p2 \o p3 \o p4)
  BY <1>3, <1>4, <1>5, <1>6, CostedConcat
<1>. QED BY <1>1, <1>7, EndsInLine, CostedCommon

\* So is that of a listing.
LEMMA DirectorySummaryEnds ==
  ASSUME NEW item, IsText(ToolText(item)), MaxNames \in Nat
  PROVE  Ends(DirectorySummary(item))
<1>. DEFINE entries == LinesThat(ToolText(item), {"entry"})
            paths == [k \in DOMAIN entries |-> entries[k].path]
            noisyAt == {k \in DOMAIN paths : NoisyRoots(paths[k]) # <<>>}
            isNoisy == [k \in DOMAIN paths |-> k \in noisyAt]
            isShallow == [k \in DOMAIN paths |-> k \notin noisyAt /\ Len(paths[k]) <= 2]
            noisy == Kept(paths, isNoisy)
            shallow == Kept(paths, isShallow)
            tops == [k \in DOMAIN shallow |-> Head(shallow[k])]
            top == Distinct(tops)
            heads == [k \in DOMAIN noisy |-> Head(NoisyRoots(noisy[k]))]
            roots == Distinct(heads)
            p1 == <<Line("status", "listing", 1), Count("entries", Len(paths))>>
            p2 == [k \in DOMAIN FirstOf(top, MaxNames) |-> Line("top", top[k], 1)]
            p3 == [k \in DOMAIN roots |->
                     [is |-> "noisy", name |-> roots[k], cost |-> 1,
                      count |-> Cardinality({j \in noisyAt :
                                               Head(NoisyRoots(paths[j])) = roots[k]})]]
<1>1. DirectorySummary(item) = p1 \o p2 \o p3 \o <<OriginalLine(item)>>
  BY DEF DirectorySummary
<1>2. IsSeq(entries)
  BY TextIsCosted, CostedLinesThat, CostedIsSeq
<1>3. IsSeq(paths)
  <2>. HIDE DEF entries
  <2>1. Len(entries) \in Nat /\ DOMAIN entries = 1 .. Len(entries)
    BY <1>2, SeqLength
  <2>2. paths = [k \in 1 .. Len(entries) |-> paths[k]]
    BY <2>1
  <2>. HIDE DEF paths
  <2>. QED BY <2>1, <2>2, SeqEach
<1>4. isNoisy \in [DOMAIN paths -> BOOLEAN] /\ isShallow \in [DOMAIN paths -> BOOLEAN]
  OBVIOUS
<1>5. IsSeq(noisy) /\ IsSeq(shallow)
  <2>. HIDE DEF paths, isNoisy, isShallow
  <2>. QED BY <1>3, <1>4, SeqKept
<1>. HIDE DEF entries, paths, noisyAt, isNoisy, isShallow, noisy, shallow
<1>6. IsSeq(tops) /\ IsSeq(heads)
  <2>1. /\ Len(shallow) \in Nat /\ DOMAIN shallow = 1 .. Len(shallow)
        /\ Len(noisy) \in Nat /\ DOMAIN noisy = 1 .. Len(noisy)
    BY <1>5, SeqLength
  <2>2. /\ tops = [k \in 1 .. Len(shallow) |-> tops[k]]
        /\ heads = [k \in 1 .. Len(noisy) |-> heads[k]]
    BY <2>1
  <2>. HIDE DEF tops, heads
  <2>. QED BY <2>1, <2>2, SeqEach
<1>. HIDE DEF tops, heads
<1>7. IsSeq(roots) /\ IsSeq(FirstOf(top, MaxNames))
  BY <1>6, SeqDistinct, SeqFirst
<1>. HIDE DEF roots, top
<1>8. Costed(p1)
  BY CostedTwo, LineCosts
<1>9. Costed(p2)
  <2>. DEFINE shown == FirstOf(top, MaxNames)
  <2>1. Len(shown) \in Nat /\ DOMAIN shown = 1 .. Len(shown)
    BY <1>7, SeqLength
  <2>. HIDE DEF shown
  <2>2. /\ p2 = [k \in 1 .. Len(shown) |-> p2[k]]
        /\ \A k \in 1 .. Len(shown) : p2[k].cost \in Nat
    BY <2>1, LineCosts DEF shown
  <2>. HIDE DEF p2
  <2>. QED BY <2>1, <2>2, CostedEach
<1>10. Costed(p3)
  <2>1. Len(roots) \in Nat /\ DOMAIN roots = 1 .. Len(roots)
    BY <1>7, SeqLength
  <2>2. /\ p3 = [k \in 1 .. Len(roots) |-> p3[k]]
        /\ \A k \in 1 .. Len(roots) : p3[k].cost \in Nat
    BY <2>1
  <2>. HIDE DEF p3
  <2>. QED BY <2>1, <2>2, CostedEach
<1>. HIDE DEF p1, p2, p3
<1>11. Costed(p1 \o p2 \o p3)
  BY <1>8, <1>9, <1>10, CostedConcat
<1>. QED BY <1>1, <1>11, EndsInLine, CostedCommon

\* Both ends of a text, with the gap between them.
LEMMA ExcerptEnds ==
  ASSUME NEW item, IsText(Content(item)), HeadLines \in Nat, TailLines \in Nat
  PROVE  Ends(Excerpt(item))
<1>. DEFINE original == Content(item)
            gap == Line("gap", None, 1)
            front == FirstOf(original, HeadLines)
            back == LastOf(original, TailLines)
<1>1. Costed(original) /\ \A k \in 1 .. Len(original) : original[k] # Ellipsis
  BY TextIsCosted
<1>2. gap.cost \in Nat /\ gap # Ellipsis
  <2>1. gap.is = "gap" /\ Ellipsis.is = "..."
    BY DEF Line, Ellipsis
  <2>. QED BY <2>1, LineCosts
<1>3. Excerpt(item) = front \o <<gap>> \o back
  BY DEF Excerpt
<1>. HIDE DEF original, gap
<1>4. Costed(front) /\ Costed(back)
  BY <1>1, CostedEnds
<1>5. PICK C : original \in Seq(C) /\ \A c \in C : c.cost \in Nat
  BY <1>1 DEF Costed
<1>6. /\ Len(original) \in Nat
      /\ Len(back) = IF TailLines <= Len(original) THEN TailLines ELSE Len(original)
      /\ \A k \in 1 .. Len(back) : back[k] = original[Len(original) - Len(back) + k]
  BY <1>5, EndsOf
<1>. HIDE DEF front, back
<1>7. Ends(front \o <<gap>>)
  BY <1>2, <1>4, EndsInLine
<1>. DEFINE start == front \o <<gap>>
<1>8. Ends(start)
  BY <1>7
<1>. HIDE DEF start
<1>9. Ends(start \o back)
  <2>1. PICK A : start \in Seq(A)
    BY <1>8 DEF Ends, Costed
  <2>2. PICK B : back \in Seq(B)
    BY <1>4 DEF Costed
  <2>. DEFINE D == A \cup B
  <2>3. start \in Seq(D) /\ back \in Seq(D)
    BY <2>1, <2>2
  <2>. HIDE DEF D
  <2>. DEFINE u == start \o back
              m == Len(start)
              n == Len(back)
  <2>4. /\ Len(u) = m + n
        /\ \A i \in 1 .. m + n : u[i] = IF i <= m THEN start[i] ELSE back[i - m]
    BY <2>3, ConcatProperties
  <2>5. m \in Nat /\ n \in Nat /\ m > 0
    BY <2>3, <1>8 DEF Ends
  <2>6. Costed(u)
    BY <1>4, <1>8, CostedConcat DEF Ends
  <2>7. n > 0 => back[n] # Ellipsis
    <3>1. CASE n > 0
      <4>1. n \in 1 .. Len(back) /\ Len(original) - n + n = Len(original)
            /\ Len(original) \in 1 .. Len(original)
        BY <1>6, <2>5, <3>1
      <4>2. back[n] = original[Len(original)]
        BY <1>6, <4>1
      <4>. QED BY <1>1, <4>1, <4>2
    <3>. QED BY <3>1
  <2>8. start[m] # Ellipsis
    BY <1>8 DEF Ends, Last
  <2>. HIDE DEF u, m, n
  <2>9. u[m + n] # Ellipsis
    <3>1. m + n \in 1 .. m + n
      BY <2>5
    <3>2. CASE n > 0
      <4>1. ~(m + n <= m) /\ (m + n) - m = n
        BY <2>5, <3>2
      <4>. QED BY <2>4, <2>7, <3>1, <3>2, <4>1
    <3>3. CASE n = 0
      <4>1. m + n <= m /\ m + n = m
        BY <2>5, <3>3
      <4>. QED BY <2>4, <2>8, <3>1, <4>1
    <3>. QED BY <2>5, <3>2, <3>3
  <2>10. Ends(u)
    BY <2>4, <2>5, <2>6, <2>9 DEF Ends, Last
  <2>. QED BY <2>10 DEF u
<1>. QED BY <1>3, <1>9 DEF start

\* Every strategy's text ends in a line that is no mark of a cut, and has a
\* target.
LEMMA FullEnds ==
  ASSUME NEW item, IsText(Content(item)), IsText(ToolText(item))
  PROVE  Ends(Full(item)) /\ Target(item) \in Int
<1>1. /\ HeadLines \in Nat /\ TailLines \in Nat /\ MaxNames \in Nat
      /\ MaxHunks \in Nat /\ LastLines \in Nat
  BY BoundsAssumption
<1>2. /\ Budgets.test \in Int /\ Budgets.gitDiff \in Int /\ Budgets.build \in Int
      /\ Budgets.directoryList \in Int /\ Budgets.generic \in Int
  BY BudgetsAssumption
<1>3. BudgetForKind(KindOf(item)) \in Int
  BY <1>2 DEF BudgetForKind
<1>4. CASE StrategyOf(item) = "test_summary"
  BY <1>1, <1>2, <1>4, TestSummaryEnds DEF Full, Target
<1>5. CASE StrategyOf(item) = "git_diff"
  <2>1. GitDiffSummary(item) # <<>>
    BY <1>5 DEF StrategyOf
  <2>2. Full(item) = GitDiffSummary(item) /\ Target(item) = Budgets.gitDiff
    BY <1>5 DEF Full, Target
  <2>. QED BY <1>1, <1>2, <2>1, <2>2, GitDiffSummaryEnds
<1>6. CASE StrategyOf(item) = "directory_list"
  BY <1>1, <1>2, <1>6, DirectorySummaryEnds DEF Full, Target
<1>7. CASE StrategyOf(item) = "error_extract"
  BY <1>1, <1>3, <1>7, BuildSummaryEnds DEF Full, Target
<1>8. CASE StrategyOf(item) \notin {"test_summary", "git_diff", "directory_list",
                                    "error_extract"}
  BY <1>1, <1>2, <1>8, ExcerptEnds DEF Full, Target
<1>. QED BY <1>4, <1>5, <1>6, <1>7, <1>8

\* A text whose end was cut off.
LEMMA CutText ==
  ASSUME NEW lines, Costed(lines), NEW m \in 1 .. Len(lines) - 1, NEW cut,
         cut = Append(FirstOf(lines, m), Ellipsis)
  PROVE  /\ Costed(cut)
         /\ Last(cut) = Ellipsis
         /\ Front(cut) = FirstOf(lines, m)
         /\ Len(FirstOf(lines, m)) = m
         /\ IsPrefix(FirstOf(lines, m), lines)
<1>1. PICK C : lines \in Seq(C) /\ \A c \in C : c.cost \in Nat
  BY DEF Costed
<1>2. Len(lines) \in Nat /\ m \in Nat /\ m <= Len(lines)
  BY <1>1
<1>. DEFINE kept == FirstOf(lines, m)
            D == C \cup {Ellipsis}
<1>3. /\ kept \in Seq(C) /\ Len(kept) = m
      /\ \A k \in 1 .. m : kept[k] = lines[k]
  BY <1>1, <1>2, EndsOf
<1>4. lines \in Seq(D) /\ Ellipsis \in D
  BY <1>1
<1>5. \A c \in D : c.cost \in Nat
  BY <1>1, LineCosts DEF Ellipsis
<1>. HIDE DEF D, kept
<1>6. kept \in Seq(D)
  <2>1. kept \in [1 .. m -> D]
    <3>1. \A k \in 1 .. m : lines[k] \in D
      BY <1>2, <1>4
    <3>2. kept = [k \in 1 .. m |-> kept[k]]
      BY <1>3
    <3>. QED BY <1>3, <3>1, <3>2
  <2>. QED BY <1>2, <2>1
<1>7. cut = Append(kept, Ellipsis)
  BY DEF kept
<1>8. /\ cut \in Seq(D) /\ Len(cut) = m + 1 /\ cut[m + 1] = Ellipsis
      /\ \A k \in 1 .. m : cut[k] = kept[k]
  BY <1>3, <1>4, <1>6, <1>7, AppendProperties
<1>9. Costed(cut)
  BY <1>5, <1>8, CostedBy
<1>10. Last(cut) = Ellipsis
  BY <1>8 DEF Last
<1>11. Front(cut) = kept
  <2>. DEFINE f == SubSeq(cut, 1, m)
  <2>1. f = [k \in 1 .. m |-> cut[k]]
    BY <1>2, <1>8
  <2>2. f = [k \in 1 .. m |-> kept[k]]
    BY <1>8, <2>1
  <2>3. kept = [k \in 1 .. m |-> kept[k]]
    BY <1>3
  <2>4. Front(cut) = f
    BY <1>2, <1>8 DEF Front
  <2>. QED BY <2>2, <2>3, <2>4
<1>12. IsPrefix(kept, lines)
  <2>1. SubSeq(kept, 1, m) = [k \in 1 .. m |-> kept[k]]
    BY <1>2, <1>3
  <2>2. SubSeq(lines, 1, m) = [k \in 1 .. m |-> lines[k]]
    BY <1>1, <1>2
  <2>3. SubSeq(kept, 1, m) = SubSeq(lines, 1, m)
    BY <1>3, <2>1, <2>2
  <2>. QED BY <1>2, <1>3, <2>3 DEF IsPrefix
<1>. QED BY <1>3, <1>9, <1>10, <1>11, <1>12 DEF kept

\* What fitting does to a text that ends in a line.
FittedTo(body, full, target) ==
  LET kept == IF IsCut(body) THEN Front(body) ELSE body IN
  /\ IsPrefix(kept, full)
  /\ target > 0 /\ Cost(full) > target /\ Len(full) > 1 <=> IsCut(body)
  /\ IF IsCut(body) THEN /\ Len(kept) = 1 \/ Cost(kept) <= target
                        /\ Cost(FirstOf(full, Len(kept) + 1)) > target
     ELSE body = full

\* So it does, whatever the text and the target.
LEMMA FittedText ==
  ASSUME NEW full, Ends(full), NEW target \in Int, NEW body,
         body = FitToTokenBudget(full, target)
  PROVE  Costed(body) /\ FittedTo(body, full, target)
<1>1. Costed(full) /\ Last(full) # Ellipsis
  BY DEF Ends
<1>2. CASE /\ body = full
           /\ ~(target > 0 /\ Cost(full) > target /\ Len(full) > 1)
  <2>1. ~IsCut(body)
    BY <1>1, <1>2 DEF IsCut
  <2>2. IsPrefix(full, full)
    <3>1. PICK C : full \in Seq(C)
      BY <1>1 DEF Costed
    <3>2. Len(full) \in Nat
      BY <3>1
    <3>. QED BY <3>2 DEF IsPrefix
  <2>. QED BY <1>1, <1>2, <2>1, <2>2 DEF FittedTo
<1>3. ASSUME target > 0 /\ Cost(full) > target /\ Len(full) > 1,
             NEW m \in 1 .. Len(full) - 1,
             body = Append(FirstOf(full, m), Ellipsis),
             m = 1 \/ Cost(FirstOf(full, m)) <= target,
             Cost(FirstOf(full, m + 1)) > target
      PROVE  Costed(body) /\ FittedTo(body, full, target)
  <2>1. /\ Costed(body) /\ IsCut(body) /\ Front(body) = FirstOf(full, m)
        /\ Len(Front(body)) = m /\ IsPrefix(Front(body), full)
    BY <1>1, <1>3, CutText DEF IsCut
  <2>. QED BY <1>3, <2>1 DEF FittedTo
<1>. QED BY <1>1, <1>2, <1>3, Fits

\* The header comes off again.
LEMMA HeaderOff ==
  ASSUME NEW header, NEW body, IsSeq(body)
  PROVE  Tail(<<header>> \o body) = body
<1>1. PICK S : body \in Seq(S)
  BY DEF IsSeq
<1>. DEFINE D == S \cup {header}
<1>2. body \in Seq(D) /\ <<header>> \in Seq(D)
  BY <1>1
<1>. DEFINE h == <<header>>
<1>3. Len(h) = 1 /\ Len(body) \in Nat
  BY <1>2
<1>. HIDE DEF D, h
<1>. DEFINE u == h \o body
<1>4. /\ u \in Seq(D) /\ Len(u) = Len(body) + 1
      /\ \A i \in 1 .. Len(body) + 1 : u[i] = IF i <= 1 THEN h[i] ELSE body[i - 1]
  <2>1. h \in Seq(D)
    BY <1>2 DEF h
  <2>2. /\ u \in Seq(D) /\ Len(u) = Len(h) + Len(body)
        /\ \A i \in 1 .. Len(h) + Len(body) :
             u[i] = IF i <= Len(h) THEN h[i] ELSE body[i - Len(h)]
    BY <1>2, <2>1, ConcatProperties
  <2>3. Len(h) + Len(body) = Len(body) + 1
    BY <1>3
  <2>. QED BY <1>3, <2>2, <2>3
<1>. HIDE DEF u
<1>5. u # <<>>
  BY <1>3, <1>4
<1>6. /\ Tail(u) \in Seq(D) /\ Len(Tail(u)) = Len(body)
      /\ \A i \in 1 .. Len(body) : Tail(u)[i] = u[i + 1]
  <2>1. /\ Tail(u) \in Seq(D) /\ Len(Tail(u)) = Len(u) - 1
        /\ \A i \in 1 .. Len(Tail(u)) : Tail(u)[i] = u[i + 1]
    BY <1>4, <1>5, HeadTailProperties
  <2>. QED BY <1>3, <1>4, <2>1
<1>7. \A i \in 1 .. Len(body) : Tail(u)[i] = body[i]
  <2>1. \A i \in 1 .. Len(body) :
          i + 1 \in 1 .. Len(body) + 1 /\ ~(i + 1 <= 1) /\ (i + 1) - 1 = i
    BY <1>3
  <2>. QED BY <1>4, <1>6, <2>1
<1>8. Tail(u) = [i \in 1 .. Len(body) |-> body[i]]
  <2>. DEFINE t == Tail(u)
  <2>0. t \in Seq(D)
    BY <1>6
  <2>. HIDE DEF t
  <2>1. t = [i \in 1 .. Len(t) |-> t[i]]
    BY <2>0
  <2>2. Len(t) = Len(body) /\ \A i \in 1 .. Len(body) : t[i] = body[i]
    BY <1>6, <1>7 DEF t
  <2>3. t = [i \in 1 .. Len(body) |-> body[i]]
    BY <2>1, <2>2
  <2>. QED BY <2>3 DEF t
<1>9. body = [i \in 1 .. Len(body) |-> body[i]]
  BY <1>2
<1>. QED BY <1>8, <1>9 DEF u, h

\* What compressItem makes of an item: its tokens are counted, and its text is
\* fitted to the target of the strategy that wrote it.
LEMMA CompressedItem ==
  ASSUME NEW item, IsText(Content(item)), IsText(ToolText(item))
  PROVE  LET compressed == CompressItem(item)
             body == Tail(compressed.content)
         IN  /\ compressed.retainedTokens \in Nat
             /\ \/ StrategyOf(item) = "head_tail" /\ body = Content(item)
                \/ FittedTo(body, Full(item), Target(item))
<1>. DEFINE strategy == StrategyOf(item)
            fit == IF strategy = "head_tail" THEN HeadTail(item)
                   ELSE FitToTokenBudget(Full(item), Target(item))
            content == <<Line("header", strategy, 1)>> \o fit
<1>1. Costed(fit) /\ \/ strategy = "head_tail" /\ fit = Content(item)
                     \/ FittedTo(fit, Full(item), Target(item))
  <2>1. Ends(Full(item)) /\ Target(item) \in Int
    BY FullEnds
  <2>2. CASE fit = FitToTokenBudget(Full(item), Target(item))
    BY <2>1, <2>2, FittedText
  <2>3. CASE strategy = "head_tail" /\ fit = Content(item)
    BY <2>3, TextIsCosted
  <2>4. CASE strategy = "head_tail"
    <3>1. Full(item) = Excerpt(item) /\ Target(item) = Budgets.generic
      BY <2>4 DEF Full, Target
    <3>2. fit = Content(item) \/ fit = FitToTokenBudget(Full(item), Target(item))
      BY <2>4, <3>1 DEF HeadTail
    <3>. QED BY <2>2, <2>3, <2>4, <3>2
  <2>. QED BY <2>2, <2>4
<1>2. /\ CompressItem(item).content = content
      /\ CompressItem(item).retainedTokens = Cost(content)
  BY DEF CompressItem, WrapStructured
<1>. HIDE DEF fit, strategy
<1>3. Cost(content) \in Nat
  BY <1>1, CostedLine, LineCosts, CostedConcat, CostedCost
<1>4. Tail(content) = fit
  BY <1>1, CostedIsSeq, HeaderOff
<1>5. strategy = StrategyOf(item)
  BY DEF strategy
<1>. HIDE DEF content
<1>. QED BY <1>1, <1>2, <1>3, <1>4, <1>5

-----------------------------------------------------------------------------
(* What is decided about an item with and without the semantic layer.      *)

\* Nothing the rules say is the semantic layer's; only a PROTECT forbids
\* compression, and no safety rule drops.
PlainlySaid(d) ==
  /\ d \in Decision
  /\ d.authority # "semantic" /\ d.rule # "semantic"
  /\ d.compression = "forbidden" => d.action = "PROTECT"
  /\ d.action = "DROP" => d.rule \notin SafetyRules

\* So speaks every rule that says something of an item.
LEMMA RulesSay ==
  ASSUME NEW s, NEW i \in DOMAIN s, NEW d \in Said(s)[i]
  PROVE  PlainlySaid(d)
<1>1. PICK r \in Rules : i \in Emits(r, s) /\ d = Emission(r, s[i])
  BY SaidProperties
<1>2. r # "semantic"
  BY <1>1 DEF Emits
<1>3. /\ d \in Decision /\ d.rule = r /\ d.authority # "semantic"
      /\ d.action = "DROP" => r \in DropRules \cup {"semantic"}
  BY <1>1, EmissionProperties
<1>4. d.compression = "forbidden" => d.action = "PROTECT"
  <2>1. CASE r \in ProtectRules
    BY <1>1, <2>1, EmissionProperties
  <2>2. CASE r \notin ProtectRules
    <3>1. \/ d = MakeDecision("DROP", "heuristic", r)
          \/ d = MakeDecision("COMPRESS", "heuristic", r)
          \/ d = MakeDecision("DROP", "structural", r)
      BY <1>1, <2>2 DEF Emission, ProtectRules, SafetyRules
    <3>. QED BY <3>1 DEF MakeDecision
  <2>. QED BY <2>1, <2>2
<1>5. r \in DropRules => r \notin SafetyRules
  BY DEF DropRules, SafetyRules
<1>. QED BY <1>2, <1>3, <1>4, <1>5 DEF PlainlySaid

\* The same of a verdict, about what was said plainly or by the semantic layer.
LEMMA VerdictOfPlain ==
  ASSUME NEW said \in SUBSET Decision, NEW c \in BOOLEAN, NEW d \in Verdicts(said, c),
         \A e \in said : PlainlySaid(e) \/ \E a \in SemanticAnswers : e = SemanticDecision(a)
  PROVE  /\ d.compression = "forbidden" => d.action = "PROTECT"
         /\ d.action = "DROP" => /\ d.retention = "normal"
                                 /\ \E e \in said : e.action = "DROP" /\ e.rule = d.rule
                                 /\ d.rule \notin SafetyRules
<1>1. \A e \in said : /\ e.compression = "forbidden" => e.action = "PROTECT"
                      /\ e.action = "DROP" => e.rule \notin SafetyRules
  <2>1. \A a \in SemanticAnswers : /\ SemanticDecision(a).compression = "allowed"
                                   /\ SemanticDecision(a).rule = "semantic"
    BY DEF SemanticDecision, MakeDecision
  <2>2. "semantic" \notin SafetyRules
    BY DEF SafetyRules
  <2>. QED BY <2>1, <2>2 DEF PlainlySaid
<1>2. CASE ~Retained(said)
  <2>1. PICK e \in Leading(said, c) : d = [e EXCEPT !.retention = "normal"]
    BY <1>2 DEF Verdicts
  <2>2. e \in Decision /\ e \in said \cup {DefaultKeep}
    BY <2>1, LeadingProperties
  <2>3. /\ d.action = e.action /\ d.rule = e.rule /\ d.compression = e.compression
        /\ d.retention = "normal"
    BY <2>1, <2>2 DEF Decision
  <2>4. DefaultKeep.action = "KEEP" /\ DefaultKeep.compression = "allowed"
    BY DEF DefaultKeep
  <2>. QED BY <1>1, <2>2, <2>3, <2>4
<1>3. CASE Retained(said) /\ MayCompress(said)
  <2>1. PICK e \in Compressing(said) :
          d = [e EXCEPT !.retention = "protected", !.compression = "allowed"]
    BY <1>3 DEF Verdicts
  <2>2. e \in Decision /\ e.action = "COMPRESS"
    BY <2>1 DEF Compressing
  <2>3. d.action = "COMPRESS" /\ d.compression = "allowed"
    BY <2>1, <2>2 DEF Decision
  <2>. QED BY <2>3
<1>4. CASE Retained(said) /\ ~MayCompress(said)
  <2>1. d.action \in {"PROTECT", "COMPRESS"}
    BY <1>4, RetainedVerdict
  <2>. DEFINE k == IF CompressionForbidden(said) THEN "forbidden" ELSE "allowed"
  <2>2. PICK e \in Protecting(said) :
          d = [e EXCEPT !.action = "PROTECT", !.retention = "protected", !.compression = k]
    BY <1>4 DEF Verdicts
  <2>3. e \in Decision
    BY <2>2 DEF Protecting
  <2>4. d.action = "PROTECT"
    <3>. HIDE DEF k
    <3>. QED BY <2>2, <2>3 DEF Decision
  <2>. QED BY <2>4
<1>. QED BY <1>2, <1>3, <1>4

\* What the semantic layer changes where nothing retains: it goes further, or it
\* leaves the action as it was.
LEMMA AnswerGoesFurther ==
  ASSUME NEW said \in SUBSET Decision, ~Retained(said), \A e \in said : PlainlySaid(e),
         NEW a \in SemanticAnswers,
         NEW d \in Verdicts(said, FALSE),
         NEW f \in Verdicts(said \cup {SemanticDecision(a)}, TRUE)
  PROVE  \/ f.action = d.action
         \/ f.action = a /\ ActionRank(a) > ActionRank(d.action)
<1>. DEFINE sd == SemanticDecision(a)
            both == said \cup {sd}
<1>1. /\ sd \in Decision /\ ~Retains(sd) /\ sd.authority = "semantic" /\ sd.action = a
  <2>1. sd.action = a
    BY DEF SemanticDecision, MakeDecision
  <2>. QED BY <2>1, SemanticDecisionProperties
<1>. HIDE DEF sd
<1>2. both \in SUBSET Decision /\ ~Retained(both)
  BY <1>1 DEF Retained
<1>3. Strongest(both) = Strongest(said)
  <2>1. Contenders(both) = Contenders(said)
    BY <1>1 DEF Contenders
  <2>. QED BY <2>1 DEF Strongest
<1>4. PICK e \in Strongest(said) : d = [e EXCEPT !.retention = "normal"]
  <2>1. Escalations(said, FALSE) = {}
    BY DEF Escalations
  <2>2. Leading(said, FALSE) = Strongest(said)
    BY <2>1 DEF Leading
  <2>. QED BY <2>2 DEF Verdicts
<1>5. e \in Decision /\ d.action = e.action
  <2>1. e \in Decision
    BY <1>4, StrongestProperties
  <2>. QED BY <1>4, <2>1 DEF Decision
<1>6. PICK g \in Leading(both, TRUE) : f = [g EXCEPT !.retention = "normal"]
  BY <1>2 DEF Verdicts, sd
<1>7. g \in Decision /\ f.action = g.action
  <2>1. g \in Decision
    BY <1>2, <1>6, LeadingProperties
  <2>. QED BY <1>6, <2>1 DEF Decision
<1>8. CASE g \in Escalations(both, TRUE)
  <2>1. /\ g \in both /\ g.authority = "semantic"
        /\ \A x \in Strongest(both) : ActionRank(g.action) > ActionRank(x.action)
    BY <1>8 DEF Escalations
  <2>2. g = sd
    BY <2>1 DEF PlainlySaid
  <2>. QED BY <1>1, <1>3, <1>4, <1>5, <1>7, <2>1, <2>2
<1>9. CASE g \notin Escalations(both, TRUE)
  <2>1. g \in Strongest(said)
    BY <1>3, <1>6, <1>9 DEF Leading
  <2>2. g.action = e.action
    BY <1>4, <2>1, StrongestProperties
  <2>. QED BY <1>5, <1>7, <2>2
<1>. QED BY <1>8, <1>9

\* A decision as the pipeline relies on it.
SoundDecision(d) ==
  /\ d \in Decision
  /\ d.retention = "protected" => d.action # "DROP"
  /\ d.compression = "forbidden" => d.action = "PROTECT"
  /\ d.action = "DROP" => d.rule \notin SafetyRules

\* The decisions of both passes about one item, and the answer about it.
LEMMA DecisionsOfBoth ==
  ASSUME NEW s, NEW i \in DOMAIN s,
         NEW ans \in [SemanticCandidates(s) -> SemanticAnswers \cup {None}]
  PROVE  LET det == Decided(s, ans).deterministic[i]
             fin == Decided(s, ans).final[i]
         IN  /\ SoundDecision(det) /\ SoundDecision(fin)
             /\ det.retention = fin.retention
             /\ det.action = "DROP" =>
                  /\ fin = det /\ i \notin DOMAIN ans /\ det.rule # "semantic"
             /\ fin.action = "DROP" /\ det.action # "DROP" =>
                  i \in DOMAIN ans /\ ans[i] = "DROP"
             /\ det.action = "COMPRESS" => fin.action # "KEEP"
<1>. DEFINE said == Said(s)[i]
            det == Winner(said, FALSE)
            answer == IF i \in DOMAIN ans THEN ans[i] ELSE None
            fin == Outcome(said, answer)
<1>1. Decided(s, ans).deterministic[i] = det /\ Decided(s, ans).final[i] = fin
  BY SaidProperties DEF Decided
<1>2. said \in SUBSET Decision /\ \A e \in said : PlainlySaid(e)
  BY SaidProperties, RulesSay
<1>3. i \in DOMAIN ans => det.retention # "protected" /\ det.action \notin {"PROTECT", "DROP"}
  <2>1. DOMAIN ans = SemanticCandidates(s)
    OBVIOUS
  <2>2. Deterministic(s)[i] = det
    BY DEF Deterministic
  <2>. QED BY <2>1, <2>2 DEF SemanticCandidates
<1>4. answer # None => i \in DOMAIN ans /\ answer = ans[i] /\ answer \in SemanticAnswers
  OBVIOUS
<1>. HIDE DEF said, answer
<1>5. det \in Verdicts(said, FALSE) /\ det \in Decision
  BY <1>2, WinnerIsVerdict
<1>6. /\ det.compression = "forbidden" => det.action = "PROTECT"
      /\ det.action = "DROP" => /\ det.retention = "normal"
                                /\ det.rule \notin SafetyRules
                                /\ det.rule # "semantic"
  <2>1. \A e \in said : e.rule # "semantic"
    BY <1>2 DEF PlainlySaid
  <2>2. \A e \in said : PlainlySaid(e) \/ \E a \in SemanticAnswers : e = SemanticDecision(a)
    BY <1>2
  <2>. HIDE DEF det
  <2>3. /\ det.compression = "forbidden" => det.action = "PROTECT"
        /\ det.action = "DROP" => /\ det.retention = "normal"
                                  /\ \E e \in said : e.action = "DROP" /\ e.rule = det.rule
                                  /\ det.rule \notin SafetyRules
    BY <1>2, <1>5, <2>2, VerdictOfPlain
  <2>. QED BY <2>1, <2>3
<1>7. /\ (det.retention = "protected") <=> Retained(said)
      /\ (det.retention = "normal") <=> ~Retained(said)
  BY <1>2, <1>5, RetainedVerdict
<1>8. SoundDecision(det)
  BY <1>5, <1>6 DEF SoundDecision
<1>9. CASE answer = None
  <2>1. fin = det
    BY <1>9 DEF Outcome
  <2>. HIDE DEF det, fin
  <2>. QED BY <1>1, <1>3, <1>6, <1>8, <2>1
<1>10. CASE answer # None
  <2>. DEFINE sd == SemanticDecision(answer)
              both == said \cup {sd}
  <2>1. fin = Winner(both, TRUE)
    BY <1>10 DEF Outcome
  <2>2. sd \in Decision /\ ~Retains(sd)
    BY <1>4, <1>10, SemanticDecisionProperties
  <2>3. both \in SUBSET Decision /\ (Retained(both) <=> Retained(said))
    <3>. HIDE DEF sd
    <3>. QED BY <1>2, <2>2 DEF Retained
  <2>4. \A e \in both : PlainlySaid(e) \/ \E a \in SemanticAnswers : e = SemanticDecision(a)
    BY <1>2, <1>4, <1>10
  <2>. HIDE DEF both
  <2>5. fin \in Verdicts(both, TRUE) /\ fin \in Decision
    BY <2>1, <2>3, WinnerIsVerdict
  <2>. HIDE DEF fin
  <2>6. /\ fin.compression = "forbidden" => fin.action = "PROTECT"
        /\ fin.action = "DROP" => fin.retention = "normal" /\ fin.rule \notin SafetyRules
    BY <2>3, <2>4, <2>5, VerdictOfPlain
  <2>7. /\ (fin.retention = "protected") <=> Retained(both)
        /\ (fin.retention = "normal") <=> ~Retained(both)
    BY <2>3, <2>5, RetainedVerdict
  <2>8. ~Retained(said) /\ det.action \in {"KEEP", "COMPRESS"}
    <3>1. det.action \in Actions
      BY <1>5 DEF Decision
    <3>. HIDE DEF det
    <3>. QED BY <1>3, <1>4, <1>7, <1>10, <3>1 DEF Actions
  <2>9. \/ fin.action = det.action
        \/ fin.action = answer /\ ActionRank(answer) > ActionRank(det.action)
    <3>. HIDE DEF det
    <3>. QED BY <1>2, <1>4, <1>5, <1>10, <2>5, <2>8, AnswerGoesFurther DEF both
  <2>. HIDE DEF det
  <2>10. det.action = "COMPRESS" => fin.action # "KEEP"
    BY <2>9 DEF ActionRank
  <2>11. fin.action = "DROP" => i \in DOMAIN ans /\ ans[i] = "DROP"
    BY <1>4, <1>10, <2>8, <2>9
  <2>12. SoundDecision(fin)
    BY <2>5, <2>6 DEF SoundDecision
  <2>13. det.retention = fin.retention
    BY <1>7, <2>3, <2>7, <2>8
  <2>. QED BY <1>1, <1>8, <2>8, <2>10, <2>11, <2>12, <2>13
<1>. QED BY <1>9, <1>10

-----------------------------------------------------------------------------
(* The invariant.                                                          *)

\* How an item is written if it is not dropped.
GoodOut(out, d, s, hook) ==
  LET i == out.id IN
  /\ out.tokenCount \in Nat
  /\ d[i].action # "DROP"
  /\ d[i].action # "COMPRESS" => /\ out.tokenCount = TokenCount(s[i])
                                 /\ out.content = Content(s[i])
  /\ d[i].action = "COMPRESS" /\ ~hook => out.content = CompressItem(s[i]).content

\* w is what the decisions d leave of the first n items of s: each item that is
\* not dropped, once, in order.
WrittenOut(w, n, d, s, hook) ==
  /\ IsSeq(w)
  /\ \A k \in 1 .. Len(w) : w[k].id \in 1 .. n /\ GoodOut(w[k], d, s, hook)
  /\ \A j, k \in 1 .. Len(w) : j < k => w[j].id < w[k].id
  /\ \A i \in 1 .. n : d[i].action # "DROP" => \E k \in 1 .. Len(w) : w[k].id = i

\* Before the first item nothing is written.
LEMMA NothingWrittenOut ==
  ASSUME NEW d, NEW s, NEW hook
  PROVE  WrittenOut(<<>>, 0, d, s, hook)
<1>1. <<>> \in Seq({}) /\ Len(<<>>) = 0
  OBVIOUS
<1>2. IsSeq(<<>>)
  BY <1>1, SeqIsSeq
<1>. QED BY <1>1, <1>2 DEF WrittenOut

\* A dropped item leaves no output.
LEMMA SkippedOut ==
  ASSUME NEW n \in Nat, NEW w, NEW d, NEW s, NEW hook, WrittenOut(w, n, d, s, hook),
         d[n + 1].action = "DROP"
  PROVE  WrittenOut(w \o <<>>, n + 1, d, s, hook)
<1>1. PICK S : w \in Seq(S)
  BY DEF WrittenOut, IsSeq
<1>2. w \o <<>> = w
  BY <1>1, ConcatEmptySeq
<1>3. \A i \in 1 .. n + 1 : i \in 1 .. n \/ i = n + 1
  OBVIOUS
<1>4. \A i \in 1 .. n : i \in 1 .. n + 1
  OBVIOUS
<1>. QED BY <1>2, <1>3, <1>4 DEF WrittenOut

\* An item that is not dropped is written after those before it.
LEMMA OneMoreOut ==
  ASSUME NEW n \in Nat, NEW w, NEW d, NEW s, NEW hook, WrittenOut(w, n, d, s, hook),
         NEW out, out.id = n + 1, GoodOut(out, d, s, hook)
  PROVE  WrittenOut(w \o <<out>>, n + 1, d, s, hook)
<1>1. PICK S : w \in Seq(S)
  BY DEF WrittenOut, IsSeq
<1>. DEFINE D == S \cup {out}
            m == Len(w)
            u == w \o <<out>>
<1>2. w \in Seq(D) /\ <<out>> \in Seq(D) /\ Len(<<out>>) = 1 /\ <<out>>[1] = out /\ m \in Nat
  BY <1>1
<1>. HIDE DEF D
<1>3. /\ u \in Seq(D) /\ Len(u) = m + 1
      /\ \A k \in 1 .. m : u[k] = w[k]
      /\ u[m + 1] = out
  <2>1. /\ u \in Seq(D) /\ Len(u) = m + Len(<<out>>)
        /\ \A k \in 1 .. m + Len(<<out>>) : u[k] = IF k <= m THEN w[k] ELSE <<out>>[k - m]
    BY <1>2, ConcatProperties
  <2>2. m + 1 \in 1 .. m + 1 /\ ~(m + 1 <= m) /\ (m + 1) - m = 1
    BY <1>2
  <2>3. \A k \in 1 .. m : k \in 1 .. m + 1 /\ k <= m
    BY <1>2
  <2>. HIDE DEF u, m
  <2>. QED BY <1>2, <2>1, <2>2, <2>3
<1>4. /\ \A k \in 1 .. m : w[k].id \in 1 .. n /\ GoodOut(w[k], d, s, hook)
      /\ \A j, k \in 1 .. m : j < k => w[j].id < w[k].id
      /\ \A i \in 1 .. n : d[i].action # "DROP" => \E k \in 1 .. m : w[k].id = i
  BY DEF WrittenOut
<1>5. IsSeq(u)
  BY <1>3, SeqIsSeq
<1>. HIDE DEF u, m
<1>6. \A k \in 1 .. m + 1 : k \in 1 .. m \/ k = m + 1
  BY <1>2
<1>7. m + 1 \in 1 .. m + 1 /\ \A k \in 1 .. m : k \in 1 .. m + 1 /\ k \in Nat /\ k < m + 1
  BY <1>2
<1>8. \A i \in 1 .. n + 1 : i \in 1 .. n \/ i = n + 1
  OBVIOUS
<1>9. n + 1 \in 1 .. n + 1 /\ \A i \in 1 .. n : i \in 1 .. n + 1 /\ i < n + 1
  OBVIOUS
<1>10. \A k \in 1 .. m + 1 : u[k].id \in 1 .. n + 1 /\ GoodOut(u[k], d, s, hook)
  BY <1>3, <1>4, <1>6, <1>9
<1>11. \A j, k \in 1 .. m + 1 : j < k => u[j].id < u[k].id
  <2>. SUFFICES ASSUME NEW j \in 1 .. m + 1, NEW k \in 1 .. m + 1, j < k
                PROVE  u[j].id < u[k].id
    OBVIOUS
  <2>1. j \in 1 .. m
    BY <1>2
  <2>2. CASE k \in 1 .. m
    BY <1>3, <1>4, <2>1, <2>2
  <2>3. CASE k = m + 1
    <3>1. u[j] = w[j] /\ w[j].id \in 1 .. n /\ u[k] = out
      BY <1>3, <1>4, <2>1, <2>3
    <3>. QED BY <1>9, <3>1
  <2>. QED BY <1>6, <2>2, <2>3
<1>12. \A i \in 1 .. n + 1 : d[i].action # "DROP" => \E k \in 1 .. m + 1 : u[k].id = i
  <2>. SUFFICES ASSUME NEW i \in 1 .. n + 1, d[i].action # "DROP"
                PROVE  \E k \in 1 .. m + 1 : u[k].id = i
    OBVIOUS
  <2>1. CASE i \in 1 .. n
    <3>1. PICK k \in 1 .. m : w[k].id = i
      BY <1>4, <2>1
    <3>. QED BY <1>3, <1>7, <3>1
  <2>2. CASE i = n + 1
    BY <1>3, <1>7, <2>2
  <2>. QED BY <1>8, <2>1, <2>2
<1>. QED BY <1>3, <1>5, <1>10, <1>11, <1>12 DEF WrittenOut, u

\* How many items pass p has been through.
Progress(p, current, next, n) ==
  IF current = p THEN next - 1 ELSE IF current = "deterministic" THEN 0 ELSE n

\* Numbers given to finitely many things.
IsTally(f) == IsFiniteSet(DOMAIN f) /\ \A x \in DOMAIN f : f[x] \in Nat

\* A report whose parts add up.
GoodReport(r) ==
  /\ r.agent \in Agents
  /\ r.originalTokens \in Nat /\ r.effectiveTokens \in Int
  /\ r.compressionSavings \in Nat /\ r.dropSavings \in Nat
  /\ r.semanticDropSavings \in Nat /\ r.semanticDropSavings <= r.dropSavings
  /\ IsTally(r.reasonCodeTotals)
  /\ SumOf(r.reasonCodeTotals) = r.compressionSavings + r.dropSavings
  /\ r.originalTokens - r.effectiveTokens <= r.compressionSavings + r.dropSavings
  /\ r.agent = "codex" =>
       r.originalTokens - r.effectiveTokens = r.compressionSavings + r.dropSavings
  /\ r.unsafeDropCount = 0

\* What is being done to the session.
SessionInv ==
  /\ session \in Seq(Items) /\ hooked \in BOOLEAN
  /\ pass \in Passes \cup {"idle", "done", "failed"}
  /\ at \in 1 .. Len(session) + 1
  /\ pass = "idle" => written = NothingWritten /\ at = 1
  /\ pass = "failed" => hooked
  /\ DOMAIN written = Passes

\* What is decided and written.
PassInv ==
  /\ pass # "idle" =>
       /\ answers \in [SemanticCandidates(session) -> SemanticAnswers \cup {None}]
       /\ decisions = Decided(session, answers)
  /\ pass \in Passes \cup {"done"} =>
       \A p \in Passes :
         WrittenOut(written[p], Progress(p, pass, at, Len(session)), decisions[p],
                    session, hooked)

ReportsInv == IsSeq(reports) /\ \A k \in 1 .. Len(reports) : GoodReport(reports[k])

MaterializeInv == SessionInv /\ PassInv /\ ReportsInv

-----------------------------------------------------------------------------
(* What is saved, item by item and in all.                                 *)

\* What is saved of an item, and what it grows by.
LEMMA SavedOrGrown ==
  ASSUME NEW t \in Nat, NEW r \in Nat
  PROVE  /\ Saved(t, r) \in Nat /\ Max({0, r - t}) \in Nat
         /\ t + Max({0, r - t}) = r + Saved(t, r)
         /\ Saved(t, r) <= t
         /\ r = t => Saved(t, r) = 0 /\ Max({0, r - t}) = 0
         /\ r = 0 => Saved(t, r) = t /\ Max({0, r - t}) = 0
<1>1. /\ Max({0, t - r}) = IF 0 >= t - r THEN 0 ELSE t - r
      /\ Max({0, r - t}) = IF 0 >= r - t THEN 0 ELSE r - t
  <2>. DEFINE d == t - r  e == r - t
  <2>1. d \in Int /\ e \in Int /\ 0 \in Int
    OBVIOUS
  <2>. HIDE DEF d, e
  <2>2. Max({0, d}) = (IF 0 >= d THEN 0 ELSE d) /\ Max({0, e}) = (IF 0 >= e THEN 0 ELSE e)
    BY <2>1, MinMaxOfTwo
  <2>. QED BY <2>2 DEF d, e
<1>. DEFINE grown == Max({0, r - t})
            saved == Max({0, t - r})
<1>2. saved = IF r >= t THEN 0 ELSE t - r
  BY <1>1
<1>3. grown = IF t >= r THEN 0 ELSE r - t
  BY <1>1
<1>. HIDE DEF grown, saved
<1>4. /\ saved \in Nat /\ grown \in Nat /\ t + grown = r + saved /\ saved <= t
      /\ r = t => saved = 0 /\ grown = 0
      /\ r = 0 => saved = t /\ grown = 0
  BY <1>2, <1>3
<1>. QED BY <1>4 DEF Saved, saved, grown

Grown(tokens, retained) == Max({0, retained - tokens})

\* N: the items; t: what each costs, r: what a pass retains of it; K, P, C, D: the
\* items by what the pass does with them.
Account(N, t, r, act, K, P, C, D, saved, grown) ==
  /\ IsFiniteSet(N) /\ \A i \in N : t[i] \in Nat /\ r[i] \in Nat /\ act[i] \in Actions
  /\ \A i \in N : /\ act[i] \in {"KEEP", "PROTECT"} => r[i] = t[i]
                  /\ act[i] = "DROP" => r[i] = 0
  /\ K = {i \in N : act[i] = "KEEP"} /\ P = {i \in N : act[i] = "PROTECT"}
  /\ C = {i \in N : act[i] = "COMPRESS"} /\ D = {i \in N : act[i] = "DROP"}
  /\ \A i \in N : saved[i] = Saved(t[i], r[i]) /\ grown[i] = Grown(t[i], r[i])
AddsUp(N, t, r, K, P, C, D, saved, grown) ==
  /\ SumOver(N, t) - SumOver(N, r) = SumOver(C, saved) + SumOver(D, t) - SumOver(C, grown)
  /\ SumOver(N, r) = SumOver(K, t) + SumOver(P, t) + SumOver(C, r)
  /\ SumOver(C \cup D, saved) = SumOver(C, saved) + SumOver(D, t)
  /\ SumOver(N, saved) = SumOver(C, saved) + SumOver(D, t)
  /\ SumOver(C, saved) + SumOver(D, t) <= SumOver(N, t)
  /\ SumOver(C, saved) \in Nat /\ SumOver(D, t) \in Nat /\ SumOver(C, grown) \in Nat
  /\ SumOver(N, t) \in Nat /\ SumOver(N, r) \in Nat

\* The account of a pass adds up, whatever the tokens.
LEMMA ItemSavings ==
  ASSUME NEW N, NEW t, NEW r, NEW act, NEW K, NEW P, NEW C, NEW D, NEW saved, NEW grown,
         Account(N, t, r, act, K, P, C, D, saved, grown)
  PROVE  AddsUp(N, t, r, K, P, C, D, saved, grown)
<1>0. /\ IsFiniteSet(N) /\ \A i \in N : t[i] \in Nat /\ r[i] \in Nat /\ act[i] \in Actions
      /\ \A i \in N : /\ act[i] \in {"KEEP", "PROTECT"} => r[i] = t[i]
                      /\ act[i] = "DROP" => r[i] = 0
      /\ K = {i \in N : act[i] = "KEEP"} /\ P = {i \in N : act[i] = "PROTECT"}
      /\ C = {i \in N : act[i] = "COMPRESS"} /\ D = {i \in N : act[i] = "DROP"}
      /\ \A i \in N : saved[i] = Saved(t[i], r[i]) /\ grown[i] = Grown(t[i], r[i])
  BY DEF Account
<1>1. /\ K \in SUBSET N /\ P \in SUBSET N /\ C \in SUBSET N /\ D \in SUBSET N
      /\ \A i \in N : i \in K \cup P \cup C \cup D
      /\ \A i \in N : i \in K \cup P => r[i] = t[i]
      /\ \A i \in N : i \in D => r[i] = 0
      /\ K \cap P = {} /\ (K \cup P) \cap C = {} /\ C \cap D = {}
  BY <1>0 DEF Actions
<1>2. /\ IsFiniteSet(K) /\ IsFiniteSet(P) /\ IsFiniteSet(C) /\ IsFiniteSet(D)
      /\ IsFiniteSet(K \cup P) /\ IsFiniteSet(C \cup D)
  BY <1>0, <1>1, FS_Subset, FS_Union
<1>3. \A i \in N : /\ saved[i] \in Nat /\ grown[i] \in Nat
                   /\ t[i] + grown[i] = r[i] + saved[i] /\ saved[i] <= t[i]
                   /\ r[i] = t[i] => saved[i] = 0 /\ grown[i] = 0
                   /\ r[i] = 0 => saved[i] = t[i] /\ grown[i] = 0
  <2>1. ASSUME NEW i \in N, NEW a, a = t[i], NEW b, b = r[i]
        PROVE  /\ saved[i] \in Nat /\ grown[i] \in Nat
               /\ a + grown[i] = b + saved[i] /\ saved[i] <= a
               /\ b = a => saved[i] = 0 /\ grown[i] = 0
               /\ b = 0 => saved[i] = a /\ grown[i] = 0
    <3>1. a \in Nat /\ b \in Nat /\ saved[i] = Saved(a, b) /\ grown[i] = Max({0, b - a})
      BY <1>0, <2>1 DEF Grown
    <3>. QED BY ONLY <3>1, SavedOrGrown
  <2>. QED BY <2>1
<1>4. \A i \in N : /\ t[i] \in Int /\ r[i] \in Int /\ saved[i] \in Int /\ grown[i] \in Int
  BY <1>0, <1>3
<1>5. SumOver(N, t) + SumOver(N, grown) = SumOver(N, r) + SumOver(N, saved)
  <2>. DEFINE h == [i \in N |-> t[i] + grown[i]]
  <2>1. \A i \in N : h[i] = t[i] + grown[i] /\ h[i] = r[i] + saved[i]
    BY <1>3
  <2>. HIDE DEF h
  <2>2. SumOver(N, h) = SumOver(N, t) + SumOver(N, grown)
    BY <1>0, <1>4, <2>1, SumPlus
  <2>3. SumOver(N, h) = SumOver(N, r) + SumOver(N, saved)
    BY <1>0, <1>4, <2>1, SumPlus
  <2>. QED BY <2>2, <2>3
<1>6. SumOver(N, saved) = SumOver(C \cup D, saved)
  <2>1. C \cup D \in SUBSET N /\ \A i \in N \ (C \cup D) : saved[i] = 0
    BY <1>1, <1>3
  <2>. QED BY <1>0, <1>4, <2>1, SumWithin
<1>7. SumOver(C \cup D, saved) = SumOver(C, saved) + SumOver(D, saved)
  <2>1. \A i \in C \cup D : saved[i] \in Int
    BY <1>1, <1>4
  <2>. QED BY <1>1, <1>2, <2>1, SumUnion
<1>8. SumOver(D, saved) = SumOver(D, t)
  <2>1. \A i \in D : t[i] \in Int /\ saved[i] = t[i]
    BY <1>1, <1>3, <1>4
  <2>. QED BY <1>2, <2>1, SumSame
<1>9. SumOver(N, grown) = SumOver(C, grown)
  <2>1. \A i \in N \ C : grown[i] = 0
    BY <1>1, <1>3
  <2>. QED BY <1>0, <1>1, <1>4, <2>1, SumWithin
<1>10. SumOver(N, r) = SumOver(K, t) + SumOver(P, t) + SumOver(C, r)
  <2>1. SumOver(N, r) = SumOver((K \cup P) \cup C, r)
    <3>1. (K \cup P) \cup C \in SUBSET N /\ \A i \in N \ ((K \cup P) \cup C) : r[i] = 0
      BY <1>1
    <3>. QED BY <1>0, <1>4, <3>1, SumWithin
  <2>2. SumOver((K \cup P) \cup C, r) = SumOver(K \cup P, r) + SumOver(C, r)
    <3>1. \A i \in (K \cup P) \cup C : r[i] \in Int
      BY <1>1, <1>4
    <3>. QED BY <1>1, <1>2, <3>1, SumUnion
  <2>3. SumOver(K \cup P, r) = SumOver(K \cup P, t)
    <3>1. \A i \in K \cup P : t[i] \in Int /\ r[i] = t[i]
      BY <1>1, <1>4
    <3>. QED BY <1>2, <3>1, SumSame
  <2>4. SumOver(K \cup P, t) = SumOver(K, t) + SumOver(P, t)
    <3>1. \A i \in K \cup P : t[i] \in Int
      BY <1>1, <1>4
    <3>. QED BY <1>1, <1>2, <3>1, SumUnion
  <2>. QED BY <2>1, <2>2, <2>3, <2>4
<1>11. /\ SumOver(N, t) \in Nat /\ SumOver(N, r) \in Nat
       /\ SumOver(C, saved) \in Nat /\ SumOver(D, t) \in Nat /\ SumOver(C, grown) \in Nat
  <2>1. /\ \A i \in C : saved[i] \in Nat /\ grown[i] \in Nat
        /\ \A i \in D : t[i] \in Nat
        /\ \A i \in N : t[i] \in Nat /\ r[i] \in Nat
    BY <1>0, <1>1, <1>3
  <2>. QED BY <1>0, <1>2, <2>1, SumNat
<1>12. SumOver(N, saved) <= SumOver(N, t)
  BY <1>0, <1>3, <1>4, SumMonotone
<1>13. SumOver(C \cup D, saved) = SumOver(C, saved) + SumOver(D, t)
  BY ONLY <1>7, <1>8
<1>14. SumOver(N, saved) = SumOver(C, saved) + SumOver(D, t)
  BY ONLY <1>6, <1>13
<1>15. SumOver(N, t) - SumOver(N, r) = SumOver(C, saved) + SumOver(D, t) - SumOver(C, grown)
  BY ONLY <1>5, <1>9, <1>11, <1>14
<1>16. SumOver(C, saved) + SumOver(D, t) <= SumOver(N, t)
  BY ONLY <1>12, <1>14
<1>. QED BY ONLY <1>10, <1>11, <1>13, <1>14, <1>15, <1>16 DEF AddsUp

\* What is written of each item, and in all.  of[i][k] is what the k-th item
\* written costs if it is item i.
LEMMA WrittenTokens ==
  ASSUME NEW n \in Nat, NEW w, NEW d, NEW s, NEW hook, WrittenOut(w, n, d, s, hook),
         NEW tokens, DOMAIN tokens = DOMAIN w,
         \A k \in DOMAIN w : tokens[k] = w[k].tokenCount,
         NEW of, \A i \in 1 .. n : DOMAIN of[i] = DOMAIN w,
         \A i \in 1 .. n : \A k \in DOMAIN w :
           of[i][k] = IF w[k].id = i THEN w[k].tokenCount ELSE 0,
         NEW r, \A i \in 1 .. n : r[i] = SumOf(of[i])
  PROVE  /\ \A i \in 1 .. n : /\ r[i] \in Nat
                              /\ d[i].action = "DROP" => r[i] = 0
                              /\ d[i].action \notin {"DROP", "COMPRESS"} =>
                                   r[i] = TokenCount(s[i])
         /\ SumOf(tokens) = SumOver(1 .. n, r)
<1>. DEFINE N == 1 .. n
            W == DOMAIN w
<1>1. IsSeq(w) /\ W = 1 .. Len(w) /\ Len(w) \in Nat
  BY SeqLength DEF WrittenOut
<1>2. IsFiniteSet(N) /\ IsFiniteSet(W)
  BY <1>1, FS_Interval
<1>3. /\ \A k \in W : w[k].id \in N /\ GoodOut(w[k], d, s, hook)
      /\ \A j, k \in W : j < k => w[j].id < w[k].id
      /\ \A i \in N : d[i].action # "DROP" => \E k \in W : w[k].id = i
  BY <1>1 DEF WrittenOut
<1>4. \A k \in W : tokens[k] \in Nat /\ w[k].tokenCount \in Nat
  BY <1>3 DEF GoodOut
<1>5. \A j, k \in W : w[j].id = w[k].id => j = k
  <2>. SUFFICES ASSUME NEW j \in W, NEW k \in W, w[j].id = w[k].id PROVE j = k
    OBVIOUS
  <2>1. j \in Int /\ k \in Int /\ w[j].id \in Int /\ w[k].id \in Int
    BY <1>1, <1>3
  <2>2. ~(w[j].id < w[k].id) /\ ~(w[k].id < w[j].id)
    BY <2>1
  <2>. QED BY <1>3, <2>1, <2>2
<1>6. \A i \in N : r[i] = SumOver(W, of[i])
  BY DEF SumOf
<1>. HIDE DEF W
<1>7. ASSUME NEW i \in N
      PROVE  /\ r[i] \in Nat
             /\ d[i].action = "DROP" => r[i] = 0
             /\ d[i].action \notin {"DROP", "COMPRESS"} => r[i] = TokenCount(s[i])
  <2>. DEFINE f == of[i]
  <2>1. \A k \in W : f[k] = IF w[k].id = i THEN w[k].tokenCount ELSE 0
    BY DEF W
  <2>2. r[i] = SumOver(W, f)
    BY <1>6
  <2>. HIDE DEF f
  <2>3. CASE \E k \in W : w[k].id = i
    <3>1. PICK k \in W : w[k].id = i
      BY <2>3
    <3>2. f[k] = w[k].tokenCount /\ f[k] \in Int /\ \A j \in W : j # k => f[j] = 0
      BY <1>4, <1>5, <2>1, <3>1
    <3>3. SumOver(W, f) = f[k]
      BY <1>2, <3>2, SumAtOne
    <3>4. GoodOut(w[k], d, s, hook)
      BY <1>3
    <3>. QED BY <1>4, <2>2, <3>1, <3>2, <3>3, <3>4 DEF GoodOut
  <2>4. CASE ~\E k \in W : w[k].id = i
    <3>1. \A k \in W : f[k] = 0
      BY <2>1, <2>4
    <3>2. SumOver(W, f) = 0
      BY <1>2, <3>1, SumZero
    <3>3. d[i].action = "DROP"
      BY <1>3, <2>4
    <3>. QED BY <2>2, <3>2, <3>3
  <2>. QED BY <2>3, <2>4
<1>8. SumOf(tokens) = SumOver(N, r)
  <2>. DEFINE key == [k \in W |-> w[k].id]
  <2>1. \A k \in W : key[k] \in N /\ tokens[k] \in Int
    BY <1>3, <1>4
  <2>2. ASSUME NEW i \in N PROVE r[i] = SumOver({k \in W : key[k] = i}, tokens)
    <3>. DEFINE f == of[i]
                T == {k \in W : key[k] = i}
    <3>1. \A k \in W : f[k] = IF key[k] = i THEN w[k].tokenCount ELSE 0
      BY DEF W
    <3>2. r[i] = SumOver(W, f)
      BY <1>6
    <3>3. T \in SUBSET W /\ \A k \in W : k \in T <=> key[k] = i
      OBVIOUS
    <3>. HIDE DEF f, T, key
    <3>4. /\ \A k \in W : f[k] \in Int
          /\ \A k \in W \ T : f[k] = 0
      BY <1>4, <3>1, <3>3
    <3>5. SumOver(W, f) = SumOver(T, f)
      BY <1>2, <3>3, <3>4, SumWithin
    <3>6. \A k \in T : tokens[k] \in Int /\ f[k] = tokens[k]
      <4>1. \A k \in W : tokens[k] = w[k].tokenCount
        BY DEF W
      <4>. QED BY <1>4, <3>1, <3>3, <4>1
    <3>7. IsFiniteSet(T)
      BY <1>2, <3>3, FS_Subset
    <3>8. SumOver(T, f) = SumOver(T, tokens)
      BY <3>6, <3>7, SumSame
    <3>. QED BY <3>2, <3>5, <3>8 DEF T
  <2>. HIDE DEF key
  <2>3. SumOver(N, r) = SumOver(W, tokens)
    <3>. DEFINE part == [i \in N |-> {k \in W : key[k] = i}]
    <3>1. \A i \in N : r[i] = SumOver(part[i], tokens)
      BY <2>2
    <3>2. \A k \in W : key[k] \in N /\ tokens[k] \in Int
      BY <2>1
    <3>3. \A i \in N : part[i] \in SUBSET W /\ \A k \in W : k \in part[i] <=> key[k] = i
      OBVIOUS
    <3>. HIDE DEF N, part
    <3>. QED BY ONLY <1>2, <3>1, <3>2, <3>3, SumByParts
  <2>4. SumOf(tokens) = SumOver(W, tokens)
    BY DEF SumOf, W
  <2>. QED BY <2>3, <2>4
<1>. QED BY <1>7, <1>8

-----------------------------------------------------------------------------
(* A session both passes are through with.                                 *)

\* The items and the decisions about each of them.
LEMMA ItemsDecided ==
  ASSUME MaterializeInv, pass # "idle"
  PROVE  /\ Len(session) \in Nat /\ DOMAIN session = 1 .. Len(session)
         /\ IsFiniteSet(DOMAIN session)
         /\ \A i \in DOMAIN session :
              /\ session[i] \in Items /\ TokenCount(session[i]) \in Nat
              /\ \A p \in Passes : SoundDecision(decisions[p][i])
              /\ decisions.deterministic[i].retention = decisions.final[i].retention
              /\ decisions.deterministic[i].action = "DROP" =>
                   /\ decisions.final[i] = decisions.deterministic[i]
                   /\ i \notin DOMAIN answers /\ decisions.deterministic[i].rule # "semantic"
              /\ decisions.final[i].action = "DROP" /\ decisions.deterministic[i].action # "DROP" =>
                   i \in DOMAIN answers /\ answers[i] = "DROP"
              /\ decisions.deterministic[i].action = "COMPRESS" =>
                   decisions.final[i].action # "KEEP"
<1>1. /\ session \in Seq(Items)
      /\ answers \in [SemanticCandidates(session) -> SemanticAnswers \cup {None}]
      /\ decisions = Decided(session, answers)
  BY DEF MaterializeInv, SessionInv, PassInv
<1>2. Len(session) \in Nat /\ DOMAIN session = 1 .. Len(session)
  BY <1>1
<1>3. IsFiniteSet(DOMAIN session)
  BY <1>2, FS_Interval
<1>4. ASSUME NEW i \in DOMAIN session
      PROVE  session[i] \in Items /\ TokenCount(session[i]) \in Nat
  <2>1. session[i] \in Items
    BY <1>1, <1>2
  <2>2. IsText(Content(session[i]))
    BY <2>1, ItemsAssumption
  <2>3. Cost(Content(session[i])) \in Nat
    BY <2>2, TextIsCosted, CostedCost
  <2>. QED BY <2>1, <2>3 DEF TokenCount
<1>5. ASSUME NEW i \in DOMAIN session
      PROVE  LET det == decisions.deterministic[i]
                 fin == decisions.final[i]
             IN  /\ SoundDecision(det) /\ SoundDecision(fin)
                 /\ det.retention = fin.retention
                 /\ det.action = "DROP" =>
                      /\ fin = det /\ i \notin DOMAIN answers /\ det.rule # "semantic"
                 /\ fin.action = "DROP" /\ det.action # "DROP" =>
                      i \in DOMAIN answers /\ answers[i] = "DROP"
                 /\ det.action = "COMPRESS" => fin.action # "KEEP"
  BY <1>1, <1>5, DecisionsOfBoth
<1>6. ASSUME NEW i \in DOMAIN session, NEW p \in Passes
      PROVE  SoundDecision(decisions[p][i])
  BY <1>5 DEF Passes
<1>. QED BY <1>2, <1>3, <1>4, <1>5, <1>6

TokensOfItems == [i \in DOMAIN session |-> TokenCount(session[i])]
RetainedOfItems(p) == [i \in DOMAIN session |-> RetainedTokens(p, i)]
SavedOfItems(p) == [i \in DOMAIN session |-> SavedBy(p, i)]
GrownOfItems(p) ==
  [i \in DOMAIN session |-> Max({0, RetainedTokens(p, i) - TokenCount(session[i])})]

\* What is written when both passes are through.
LEMMA AllWritten ==
  ASSUME MaterializeInv, pass = "done", NEW p \in Passes
  PROVE  WrittenOut(written[p], Len(session), decisions[p], session, hooked)
<1>1. WrittenOut(written[p], Progress(p, pass, at, Len(session)),
                decisions[p], session, hooked)
  BY DEF MaterializeInv, PassInv
<1>2. Progress(p, pass, at, Len(session)) = Len(session)
  BY DEF Progress, Passes
<1>. QED BY <1>1, <1>2

\* What is retained of each item, and in all.
LEMMA ItemsRetained ==
  ASSUME MaterializeInv, pass = "done", NEW p \in Passes
  PROVE  /\ \A i \in DOMAIN session :
              /\ RetainedTokens(p, i) \in Nat
              /\ decisions[p][i].action = "DROP" => RetainedTokens(p, i) = 0
              /\ decisions[p][i].action \notin {"DROP", "COMPRESS"} =>
                   RetainedTokens(p, i) = TokenCount(session[i])
         /\ CompactTokens(p) = SumOver(DOMAIN session, RetainedOfItems(p))
<1>. DEFINE n == Len(session)
            w == written[p]
            tokens == [k \in DOMAIN w |-> w[k].tokenCount]
            of == [i \in 1 .. n |-> [k \in DOMAIN w |->
                                       IF w[k].id = i THEN w[k].tokenCount ELSE 0]]
            r == RetainedOfItems(p)
            d == decisions[p]
<1>1. n \in Nat /\ DOMAIN session = 1 .. n
  BY ItemsDecided
<1>2. WrittenOut(w, n, d, session, hooked)
  BY AllWritten
<1>3. /\ DOMAIN tokens = DOMAIN w
      /\ \A k \in DOMAIN w : tokens[k] = w[k].tokenCount
      /\ \A i \in 1 .. n : DOMAIN of[i] = DOMAIN w
      /\ \A i \in 1 .. n : \A k \in DOMAIN w :
           of[i][k] = IF w[k].id = i THEN w[k].tokenCount ELSE 0
  OBVIOUS
<1>4. \A i \in 1 .. n : r[i] = SumOf(of[i]) /\ r[i] = RetainedTokens(p, i)
  BY <1>1 DEF RetainedOfItems, RetainedTokens
<1>5. CompactTokens(p) = SumOf(tokens)
  BY DEF CompactTokens
<1>. HIDE DEF n, w, tokens, of, r, d
<1>6. /\ \A i \in 1 .. n : /\ r[i] \in Nat
                           /\ d[i].action = "DROP" => r[i] = 0
                           /\ d[i].action \notin {"DROP", "COMPRESS"} =>
                                r[i] = TokenCount(session[i])
      /\ SumOf(tokens) = SumOver(1 .. n, r)
  <2>1. \A i \in 1 .. n : r[i] = SumOf(of[i])
    BY <1>4
  <2>2. n \in Nat
    BY <1>1
  <2>. QED BY ONLY <1>2, <1>3, <2>1, <2>2, WrittenTokens
<1>7. CompactTokens(p) = SumOver(DOMAIN session, r)
  BY <1>1, <1>5, <1>6
<1>8. \A i \in DOMAIN session :
        /\ RetainedTokens(p, i) \in Nat
        /\ d[i].action = "DROP" => RetainedTokens(p, i) = 0
        /\ d[i].action \notin {"DROP", "COMPRESS"} =>
             RetainedTokens(p, i) = TokenCount(session[i])
  BY <1>1, <1>4, <1>6
<1>. QED BY <1>7, <1>8 DEF r, d

\* A part of the items costs what its items do.
LEMMA TokensOfPart ==
  ASSUME MaterializeInv, pass = "done", NEW S \in SUBSET DOMAIN session
  PROVE  TokensOf(S) = SumOver(S, TokensOfItems) /\ TokensOf(S) \in Nat
<1>. DEFINE f == [i \in S |-> TokenCount(session[i])]
            t == TokensOfItems
<1>1. IsFiniteSet(S) /\ \A i \in S : TokenCount(session[i]) \in Nat
  BY ItemsDecided, FS_Subset
<1>2. DOMAIN f = S /\ \A i \in S : f[i] = t[i] /\ t[i] \in Nat /\ t[i] \in Int
  BY <1>1 DEF TokensOfItems
<1>3. TokensOf(S) = SumOf(f)
  BY DEF TokensOf
<1>. HIDE DEF f, t
<1>4. SumOf(f) = SumOver(S, t)
  BY <1>1, <1>2, SumOfPart
<1>5. SumOver(S, t) \in Nat
  BY <1>1, <1>2, SumNat
<1>. QED BY <1>3, <1>4, <1>5 DEF t

\* What a pass saves: over the items it compresses and over those it drops.
LEMMA SessionSavings ==
  ASSUME MaterializeInv, pass = "done", NEW p \in Passes
  PROVE  AddsUp(DOMAIN session, TokensOfItems, RetainedOfItems(p), ItemsWith(p, "KEEP"),
                ItemsWith(p, "PROTECT"), ItemsWith(p, "COMPRESS"), ItemsWith(p, "DROP"),
                SavedOfItems(p), GrownOfItems(p))
<1>. DEFINE N == DOMAIN session
            t == TokensOfItems
            r == RetainedOfItems(p)
            saved == SavedOfItems(p)
            grown == GrownOfItems(p)
            K == ItemsWith(p, "KEEP")
            P == ItemsWith(p, "PROTECT")
            C == ItemsWith(p, "COMPRESS")
            D == ItemsWith(p, "DROP")
            act == [i \in N |-> decisions[p][i].action]
<1>1. /\ IsFiniteSet(N)
      /\ \A i \in N : /\ t[i] = TokenCount(session[i]) /\ t[i] \in Nat
                      /\ r[i] = RetainedTokens(p, i)
                      /\ act[i] = decisions[p][i].action /\ act[i] \in Actions
                      /\ saved[i] = SavedBy(p, i)
                      /\ grown[i] = Max({0, RetainedTokens(p, i) - TokenCount(session[i])})
  BY ItemsDecided
     DEF TokensOfItems, RetainedOfItems, SavedOfItems, GrownOfItems, SoundDecision, Decision
<1>2. \A i \in N : /\ r[i] \in Nat
                   /\ act[i] = "DROP" => r[i] = 0
                   /\ act[i] \notin {"DROP", "COMPRESS"} => r[i] = t[i]
  <2>. HIDE DEF t, r, act
  <2>. QED BY <1>1, ItemsRetained
<1>3. /\ K = {i \in N : act[i] = "KEEP"} /\ P = {i \in N : act[i] = "PROTECT"}
      /\ C = {i \in N : act[i] = "COMPRESS"} /\ D = {i \in N : act[i] = "DROP"}
  <2>1. \A i \in N : act[i] = decisions[p][i].action
    OBVIOUS
  <2>. HIDE DEF act
  <2>. QED BY <2>1 DEF ItemsWith
<1>. HIDE DEF N, t, r, saved, grown, K, P, C, D, act
<1>4. \A i \in N : saved[i] = Saved(t[i], r[i]) /\ grown[i] = Grown(t[i], r[i])
  BY ONLY <1>1 DEF SavedBy, Grown
<1>5. Account(N, t, r, act, K, P, C, D, saved, grown)
  BY ONLY <1>1, <1>2, <1>3, <1>4 DEF Account
<1>6. AddsUp(N, t, r, K, P, C, D, saved, grown)
  BY ONLY <1>5, ItemSavings
<1>. QED BY <1>6 DEF N, t, r, saved, grown, K, P, C, D

\* The statistics of a pass in these sums.
LEMMA PassStatistics ==
  ASSUME MaterializeInv, pass = "done", NEW p \in Passes
  PROVE  LET stats == ComputeStats(p)
             C == ItemsWith(p, "COMPRESS")
             D == ItemsWith(p, "DROP")
         IN  /\ stats.originalTokens = SumOver(DOMAIN session, TokensOfItems)
             /\ stats.compactTokens = SumOver(DOMAIN session, RetainedOfItems(p))
             /\ stats.keptTokens = SumOver(ItemsWith(p, "KEEP"), TokensOfItems)
             /\ stats.protectedTokens = SumOver(ItemsWith(p, "PROTECT"), TokensOfItems)
             /\ stats.compressedTokens = SumOver(C, RetainedOfItems(p))
             /\ stats.compressionSavings = SumOver(C, SavedOfItems(p))
             /\ stats.dropSavings = SumOver(D, TokensOfItems)
             /\ IsTally(stats.reductions)
             /\ SumOf(stats.reductions) = SumOver(C \cup D, SavedOfItems(p))
             /\ Growth(p) = SumOver(C, GrownOfItems(p))
<1>. DEFINE N == DOMAIN session
            t == TokensOfItems
            r == RetainedOfItems(p)
            saved == SavedOfItems(p)
            grown == GrownOfItems(p)
            C == ItemsWith(p, "COMPRESS")
            D == ItemsWith(p, "DROP")
            stats == ComputeStats(p)
<1>1. /\ C \in SUBSET N /\ D \in SUBSET N /\ ItemsWith(p, "KEEP") \in SUBSET N
      /\ ItemsWith(p, "PROTECT") \in SUBSET N
  BY DEF ItemsWith
<1>2. /\ IsFiniteSet(N) /\ IsFiniteSet(C) /\ IsFiniteSet(D) /\ IsFiniteSet(C \cup D)
  BY <1>1, ItemsDecided, FS_Subset, FS_Union
<1>3. \A i \in N : /\ RetainedTokens(p, i) \in Int /\ SavedBy(p, i) \in Nat
                   /\ Max({0, RetainedTokens(p, i) - TokenCount(session[i])}) \in Int
  <2>. SUFFICES ASSUME NEW i \in N
                PROVE  /\ RetainedTokens(p, i) \in Int /\ SavedBy(p, i) \in Nat
                       /\ Max({0, RetainedTokens(p, i) - TokenCount(session[i])}) \in Int
    OBVIOUS
  <2>. DEFINE a == TokenCount(session[i])  b == RetainedTokens(p, i)
  <2>1. a \in Nat /\ b \in Nat
    BY ItemsDecided, ItemsRetained
  <2>. HIDE DEF a, b
  <2>2. Saved(a, b) \in Nat /\ Max({0, b - a}) \in Nat
    BY <2>1, SavedOrGrown
  <2>3. Saved(a, b) \in Nat /\ Max({0, b - a}) \in Int /\ b \in Int
    BY <2>1, <2>2
  <2>. QED BY <2>3 DEF a, b, SavedBy
<1>4. \A i \in N : /\ r[i] = RetainedTokens(p, i) /\ r[i] \in Int
                   /\ saved[i] = SavedBy(p, i) /\ saved[i] \in Nat
                   /\ grown[i] = Max({0, RetainedTokens(p, i) - TokenCount(session[i])})
                   /\ grown[i] \in Int
  BY <1>3 DEF RetainedOfItems, SavedOfItems, GrownOfItems
<1>5. /\ stats.originalTokens = SumOver(N, t)
      /\ stats.keptTokens = SumOver(ItemsWith(p, "KEEP"), t)
      /\ stats.protectedTokens = SumOver(ItemsWith(p, "PROTECT"), t)
      /\ stats.dropSavings = SumOver(D, t)
  <2>1. /\ stats.originalTokens = TokensOf(N)
        /\ stats.keptTokens = TokensOf(ItemsWith(p, "KEEP"))
        /\ stats.protectedTokens = TokensOf(ItemsWith(p, "PROTECT"))
        /\ stats.dropSavings = TokensOf(D)
    BY DEF ComputeStats
  <2>2. N \in SUBSET N
    OBVIOUS
  <2>. HIDE DEF stats, D, t
  <2>. QED BY <1>1, <2>1, <2>2, TokensOfPart DEF t
<1>6. stats.compactTokens = SumOver(N, r)
  <2>1. stats.compactTokens = CompactTokens(p)
    BY DEF ComputeStats
  <2>. QED BY <2>1, ItemsRetained
<1>7. stats.compressedTokens = SumOver(C, r)
  <2>. DEFINE f == [i \in C |-> RetainedTokens(p, i)]
  <2>1. stats.compressedTokens = SumOf(f)
    BY DEF ComputeStats
  <2>2. DOMAIN f = C /\ \A i \in C : r[i] \in Int /\ f[i] = r[i]
    BY <1>1, <1>4
  <2>. HIDE DEF f, C, r
  <2>. QED BY <1>2, <2>1, <2>2, SumOfPart
<1>8. stats.compressionSavings = SumOver(C, saved)
  <2>. DEFINE f == [i \in C |-> SavedBy(p, i)]
  <2>1. stats.compressionSavings = SumOf(f)
    BY DEF ComputeStats
  <2>2. C \subseteq N
    BY <1>1
  <2>. HIDE DEF C, saved
  <2>3. DOMAIN f = C /\ \A i \in C : saved[i] \in Nat /\ f[i] = saved[i]
    BY <1>4, <2>2
  <2>4. \A i \in C : saved[i] \in Int
    BY <2>3
  <2>. HIDE DEF f
  <2>. QED BY <1>2, <2>1, <2>3, <2>4, SumOfPart
<1>9. Growth(p) = SumOver(C, grown)
  <2>. DEFINE f == [i \in C |-> Max({0, RetainedTokens(p, i) - TokenCount(session[i])})]
  <2>1. Growth(p) = SumOf(f)
    BY DEF Growth
  <2>2. DOMAIN f = C /\ \A i \in C : grown[i] \in Int /\ f[i] = grown[i]
    BY <1>1, <1>4
  <2>. HIDE DEF f, C, grown
  <2>. QED BY <1>2, <2>1, <2>2, SumOfPart
<1>. DEFINE S == C \cup D
            key == [i \in S |-> ReasonFor(p, i)]
            R == {ReasonFor(p, i) : i \in S}
            part == [code \in R |-> {j \in S : ReasonFor(p, j) = code}]
            each == [code \in R |-> [i \in part[code] |-> SavedBy(p, i)]]
            reductions == [code \in R |->
                            SumOf([i \in {j \in S : ReasonFor(p, j) = code} |->
                                   SavedBy(p, i)])]
<1>10. stats.reductions = reductions
  BY DEF ComputeStats
<1>11. IsFiniteSet(R)
  <2>1. key \in Surjection(S, R)
    BY DEF Surjection
  <2>. HIDE DEF S
  <2>. HIDE DEF key, R
  <2>. QED BY <1>2, <2>1, FS_Surjection DEF S
<1>12. /\ \A i \in S : key[i] \in R /\ saved[i] \in Nat
       /\ \A code \in R : /\ part[code] \in SUBSET S
                          /\ \A i \in S : i \in part[code] <=> key[i] = code
       /\ \A code \in R : reductions[code] = SumOf(each[code])
       /\ \A code \in R : DOMAIN each[code] = part[code]
       /\ \A code \in R : \A i \in part[code] : each[code][i] = saved[i]
  <2>1. S \in SUBSET N
    BY <1>1
  <2>. HIDE DEF saved
  <2>2. \A i \in S : saved[i] = SavedBy(p, i) /\ saved[i] \in Nat
    BY <1>4, <2>1
  <2>. HIDE DEF S
  <2>. QED BY <2>2
<1>. HIDE DEF R, part, each, reductions, key, saved
<1>13. \A code \in R :
         reductions[code] = SumOver(part[code], saved) /\ reductions[code] \in Nat
  <2>. SUFFICES ASSUME NEW code \in R
                PROVE  /\ reductions[code] = SumOver(part[code], saved)
                       /\ reductions[code] \in Nat
    OBVIOUS
  <2>. DEFINE T == part[code]  f == each[code]
  <2>1. T \in SUBSET S /\ DOMAIN f = T /\ \A i \in T : f[i] = saved[i] /\ saved[i] \in Nat
    BY <1>12
  <2>2. IsFiniteSet(T)
    BY <1>2, <2>1, FS_Subset
  <2>3. reductions[code] = SumOf(f)
    BY <1>12
  <2>. HIDE DEF T, f, S
  <2>4. SumOf(f) = SumOver(T, saved)
    BY <2>1, <2>2, SumOfPart
  <2>5. SumOver(T, saved) \in Nat
    BY <2>1, <2>2, SumNat
  <2>. QED BY <2>3, <2>4, <2>5 DEF T
<1>14. SumOver(R, reductions) = SumOver(S, saved)
  <2>1. /\ \A i \in S : saved[i] \in Int
        /\ \A i \in S : key[i] \in R
        /\ \A code \in R :
             part[code] \in SUBSET S /\ \A i \in S : i \in part[code] <=> key[i] = code
        /\ \A code \in R : reductions[code] = SumOver(part[code], saved)
        /\ IsFiniteSet(S) /\ IsFiniteSet(R)
    BY <1>2, <1>11, <1>12, <1>13
  <2>. HIDE DEF S
  <2>. QED BY ONLY <2>1, SumByParts
<1>15. DOMAIN reductions = R /\ SumOf(reductions) = SumOver(R, reductions)
  <2>1. DOMAIN reductions = R
    BY DEF reductions
  <2>. QED BY <2>1 DEF SumOf
<1>16. /\ IsTally(stats.reductions)
       /\ SumOf(stats.reductions) = SumOver(C \cup D, saved)
  <2>. HIDE DEF stats, C, D
  <2>. QED BY <1>10, <1>11, <1>13, <1>14, <1>15 DEF S, IsTally
<1>. HIDE DEF stats
<1>. QED BY <1>5, <1>6, <1>7, <1>8, <1>9, <1>16 DEF stats, saved

\* The parts of what a pass costs and saves add up.
LEMMA PassAddsUp ==
  ASSUME MaterializeInv, pass = "done", NEW p \in Passes
  PROVE  LET stats == ComputeStats(p) IN
         /\ stats.originalTokens - stats.compactTokens =
              TotalPotentialSavings(stats) - Growth(p)
         /\ stats.compactTokens =
              stats.keptTokens + stats.protectedTokens + stats.compressedTokens
         /\ SumOf(stats.reductions) = TotalPotentialSavings(stats)
         /\ SumOver(DOMAIN session, SavedOfItems(p)) = TotalPotentialSavings(stats)
         /\ TotalPotentialSavings(stats) <= stats.originalTokens
         /\ stats.compressionSavings \in Nat /\ stats.dropSavings \in Nat /\ Growth(p) \in Nat
         /\ stats.originalTokens \in Nat /\ stats.compactTokens \in Nat
<1>. DEFINE stats == ComputeStats(p)
            N == DOMAIN session
            t == TokensOfItems
            r == RetainedOfItems(p)
            saved == SavedOfItems(p)
            grown == GrownOfItems(p)
            K == ItemsWith(p, "KEEP")
            P == ItemsWith(p, "PROTECT")
            C == ItemsWith(p, "COMPRESS")
            D == ItemsWith(p, "DROP")
<1>1. /\ stats.originalTokens = SumOver(N, t) /\ stats.compactTokens = SumOver(N, r)
      /\ stats.keptTokens = SumOver(K, t) /\ stats.protectedTokens = SumOver(P, t)
      /\ stats.compressedTokens = SumOver(C, r)
      /\ stats.compressionSavings = SumOver(C, saved) /\ stats.dropSavings = SumOver(D, t)
      /\ SumOf(stats.reductions) = SumOver(C \cup D, saved)
      /\ Growth(p) = SumOver(C, grown)
  BY PassStatistics
<1>2. AddsUp(N, t, r, K, P, C, D, saved, grown)
  BY SessionSavings
<1>3. TotalPotentialSavings(stats) = stats.compressionSavings + stats.dropSavings
  BY DEF TotalPotentialSavings
<1>. HIDE DEF stats, N, t, r, saved, grown, K, P, C, D
<1>4. /\ stats.originalTokens - stats.compactTokens = TotalPotentialSavings(stats) - Growth(p)
      /\ stats.compactTokens =
           stats.keptTokens + stats.protectedTokens + stats.compressedTokens
      /\ SumOf(stats.reductions) = TotalPotentialSavings(stats)
      /\ SumOver(N, saved) = TotalPotentialSavings(stats)
      /\ TotalPotentialSavings(stats) <= stats.originalTokens
      /\ stats.compressionSavings \in Nat /\ stats.dropSavings \in Nat /\ Growth(p) \in Nat
      /\ stats.originalTokens \in Nat /\ stats.compactTokens \in Nat
  BY ONLY <1>1, <1>2, <1>3 DEF AddsUp
<1>. QED BY <1>4 DEF stats, N, saved

\* What is protected costs what is protected word for word and what is shortened.
LEMMA ProtectedAddsUp ==
  ASSUME MaterializeInv, pass = "done", NEW p \in Passes
  PROVE  LET stats == ComputeStats(p) IN
         stats.protectedVerbatimTokens + stats.protectedCompressibleTokens =
           TokensOf(ProtectedItems(p))
<1>. DEFINE S == ProtectedItems(p)
            C == ItemsWith(p, "COMPRESS")
            A == S \ C
            B == S \cap C
            N == DOMAIN session
            t == TokensOfItems
            stats == ComputeStats(p)
<1>1. stats.protectedVerbatimTokens = TokensOf(A)
      /\ stats.protectedCompressibleTokens = TokensOf(B)
  BY DEF ComputeStats
<1>2. S \in SUBSET N
  BY DEF ProtectedItems
<1>. HIDE DEF S, C, stats
<1>3. A \in SUBSET N /\ B \in SUBSET N /\ A \cap B = {} /\ S = A \cup B
  BY <1>2
<1>. HIDE DEF A, B
<1>4. /\ TokensOf(S) = SumOver(S, t) /\ TokensOf(A) = SumOver(A, t)
      /\ TokensOf(B) = SumOver(B, t)
  BY <1>2, <1>3, TokensOfPart
<1>5. /\ IsFiniteSet(A) /\ IsFiniteSet(B)
      /\ \A i \in N : t[i] \in Int
  BY <1>3, ItemsDecided, FS_Subset DEF TokensOfItems
<1>. HIDE DEF N, t
<1>6. \A i \in A \cup B : t[i] \in Int
  BY <1>3, <1>5
<1>7. SumOver(A \cup B, t) = SumOver(A, t) + SumOver(B, t)
  BY <1>3, <1>5, <1>6, SumUnion
<1>. QED BY <1>1, <1>3, <1>4, <1>7 DEF S, stats

\* The items of a report.
Summarized == [i \in DOMAIN session |-> SummarizeItem(i)]

\* What the items of a report say is saved.
LEMMA SummariesAddUp ==
  ASSUME MaterializeInv, pass = "done"
  PROVE  /\ \A i \in DOMAIN session :
              /\ SummarizeItem(i).savedTokens = SavedBy("final", i)
              /\ decisions.final[i].action = "DROP" =>
                   SummarizeItem(i).savedTokens = TokenCount(session[i])
         /\ SumOf([i \in DOMAIN session |-> SummarizeItem(i).savedTokens]) =
              TotalPotentialSavings(ComputeStats("final"))
<1>. DEFINE N == DOMAIN session
            saved == SavedOfItems("final")
            f == [i \in N |-> SummarizeItem(i).savedTokens]
<1>0. "final" \in Passes
  BY DEF Passes
<1>1. ASSUME NEW i \in N
      PROVE  /\ SummarizeItem(i).savedTokens = SavedBy("final", i)
             /\ SavedBy("final", i) \in Int
             /\ decisions.final[i].action = "DROP" =>
                  SummarizeItem(i).savedTokens = TokenCount(session[i])
  <2>. DEFINE a == TokenCount(session[i])  b == RetainedTokens("final", i)
  <2>1. /\ a \in Nat /\ b \in Nat
        /\ decisions.final[i].action = "DROP" => b = 0
    BY <1>0, ItemsDecided, ItemsRetained
  <2>2. /\ SavedBy("final", i) = Saved(a, b)
        /\ SummarizeItem(i).savedTokens =
             IF decisions.final[i].action = "DROP" THEN a ELSE SavedBy("final", i)
    BY DEF SavedBy, SummarizeItem
  <2>. HIDE DEF a, b
  <2>3. Saved(a, b) \in Nat /\ (b = 0 => Saved(a, b) = a)
    BY <2>1, SavedOrGrown
  <2>. QED BY <2>1, <2>2, <2>3 DEF a
<1>2. IsFiniteSet(N)
  BY ItemsDecided
<1>3. DOMAIN f = N /\ \A i \in N : f[i] = saved[i] /\ saved[i] \in Int
  BY <1>1 DEF SavedOfItems
<1>4. SumOver(N, saved) = TotalPotentialSavings(ComputeStats("final"))
  BY <1>0, PassAddsUp
<1>. HIDE DEF f, saved
<1>5. SumOf(f) = SumOver(N, saved)
  BY <1>2, <1>3, SumOfPart
<1>. QED BY <1>1, <1>4, <1>5 DEF f

\* What a report puts down to the semantic layer is what the rules alone would not
\* have dropped.
LEMMA SemanticDropsAddUp ==
  ASSUME MaterializeInv, pass = "done"
  PROVE  /\ ComputeStats("final").dropSavings - SemanticDropSavings(Summarized) =
              ComputeStats("deterministic").dropSavings
         /\ SemanticDropSavings(Summarized) \in Nat
         /\ ComputeStats("deterministic").dropSavings \in Nat
<1>. DEFINE N == DOMAIN session
            t == TokensOfItems
            items == Summarized
            det == ItemsWith("deterministic", "DROP")
            fin == ItemsWith("final", "DROP")
            dropped == {i \in DOMAIN items :
                          /\ items[i].action = "DROP"
                          /\ items[i].semanticAction = "DROP" \/ items[i].rule = "semantic"}
            f == [i \in dropped |-> items[i].savedTokens]
            further == fin \ det
<1>0. "final" \in Passes /\ "deterministic" \in Passes
  BY DEF Passes
<1>1. /\ ComputeStats("final").dropSavings = SumOver(fin, t)
      /\ ComputeStats("deterministic").dropSavings = SumOver(det, t)
  BY <1>0, PassStatistics
<1>2. SemanticDropSavings(Summarized) = SumOf(f)
  BY DEF SemanticDropSavings
<1>3. /\ det \in SUBSET fin /\ fin \in SUBSET N
      /\ \A i \in N : /\ i \in det <=> decisions.deterministic[i].action = "DROP"
                      /\ i \in fin <=> decisions.final[i].action = "DROP"
  <2>1. \A i \in N : /\ i \in det <=> decisions.deterministic[i].action = "DROP"
                     /\ i \in fin <=> decisions.final[i].action = "DROP"
    BY DEF ItemsWith
  <2>2. det \in SUBSET N /\ fin \in SUBSET N
    BY DEF ItemsWith
  <2>. HIDE DEF det, fin
  <2>3. \A i \in det : i \in fin
    BY <2>1, <2>2, ItemsDecided
  <2>. QED BY <2>1, <2>2, <2>3
<1>. HIDE DEF det, fin
<1>4. dropped = further
  <2>1. \A i \in N :
          /\ items[i].action = decisions.final[i].action
          /\ items[i].rule = decisions.final[i].rule
          /\ items[i].semanticAction = IF i \in DOMAIN answers THEN answers[i] ELSE None
    BY DEF Summarized, SummarizeItem
  <2>2. DOMAIN items = N
    BY DEF Summarized
  <2>3. None # "DROP"
    BY NoAnswerAssumption DEF SemanticAnswers
  <2>. HIDE DEF items
  <2>4. \A i \in N : (/\ items[i].action = "DROP"
                      /\ items[i].semanticAction = "DROP" \/ items[i].rule = "semantic")
                       <=> i \in fin /\ i \notin det
    <3>. SUFFICES ASSUME NEW i \in N
                  PROVE  (/\ items[i].action = "DROP"
                          /\ items[i].semanticAction = "DROP" \/ items[i].rule = "semantic")
                           <=> i \in fin /\ i \notin det
      OBVIOUS
    <3>1. CASE i \in det
      <4>1. decisions.final[i] = decisions.deterministic[i] /\ i \notin DOMAIN answers
            /\ decisions.deterministic[i].rule # "semantic"
        BY <1>3, <3>1, ItemsDecided
      <4>. QED BY <2>1, <2>3, <3>1, <4>1
    <3>2. CASE i \notin det /\ i \in fin
      <4>1. i \in DOMAIN answers /\ answers[i] = "DROP"
        BY <1>3, <3>2, ItemsDecided
      <4>. QED BY <1>3, <2>1, <3>2, <4>1
    <3>3. CASE i \notin det /\ i \notin fin
      BY <1>3, <2>1, <3>3
    <3>. QED BY <3>1, <3>2, <3>3
  <2>5. \A i : i \in dropped <=> i \in further
    BY <1>3, <2>2, <2>4
  <2>. HIDE DEF dropped, further
  <2>. QED BY <2>5
<1>5. DOMAIN f = further /\ \A i \in further : f[i] = t[i] /\ t[i] \in Int
  <2>1. DOMAIN f = further
    BY <1>4
  <2>2. \A i \in N : items[i].savedTokens = SummarizeItem(i).savedTokens
    BY DEF Summarized
  <2>. HIDE DEF items
  <2>3. \A i \in further : f[i] = SummarizeItem(i).savedTokens
    BY <1>3, <1>4, <2>2
  <2>. HIDE DEF f, dropped
  <2>4. \A i \in fin : SummarizeItem(i).savedTokens = TokenCount(session[i])
                         /\ TokenCount(session[i]) \in Nat
    BY <1>3, SummariesAddUp, ItemsDecided
  <2>5. \A i \in further : t[i] = TokenCount(session[i])
    BY <1>3 DEF TokensOfItems
  <2>. QED BY <2>1, <2>3, <2>4, <2>5
<1>. HIDE DEF f, dropped, items, t
<1>6. IsFiniteSet(fin) /\ IsFiniteSet(det) /\ IsFiniteSet(further)
  <2>1. IsFiniteSet(N)
    BY ItemsDecided
  <2>2. det \in SUBSET N /\ fin \in SUBSET N /\ further \in SUBSET N
    BY <1>3
  <2>. QED BY <2>1, <2>2, FS_Subset
<1>7. SumOf(f) = SumOver(further, t)
  <2>. HIDE DEF further
  <2>. QED BY <1>5, <1>6, SumOfPart
<1>8. \A i \in N : t[i] \in Nat /\ t[i] \in Int
  BY ItemsDecided DEF TokensOfItems, t
<1>9. SumOver(fin, t) = SumOver(det, t) + SumOver(further, t)
  <2>1. fin = det \cup further /\ det \cap further = {}
    BY <1>3
  <2>. HIDE DEF further
  <2>2. \A i \in det \cup further : t[i] \in Int
    BY <1>3, <1>8, <2>1
  <2>3. SumOver(det \cup further, t) = SumOver(det, t) + SumOver(further, t)
    BY <1>6, <2>1, <2>2, SumUnion
  <2>. QED BY <2>1, <2>3
<1>10. SumOver(det, t) \in Nat /\ SumOver(further, t) \in Nat
  <2>1. (\A i \in det : t[i] \in Nat) /\ \A i \in further : t[i] \in Nat
    BY <1>3, <1>8
  <2>. HIDE DEF further
  <2>. QED BY <1>6, <2>1, SumNat
<1>. HIDE DEF further
<1>. QED BY <1>1, <1>2, <1>7, <1>9, <1>10 DEF t

\* No drop of a finished session is unsafe.
LEMMA NoUnsafeDrop ==
  ASSUME MaterializeInv, pass = "done"
  PROVE  UnsafeDropCount(Summarized) = 0
<1>. DEFINE items == Summarized
            unsafe == {i \in DOMAIN items :
                         /\ items[i].action = "DROP"
                         /\ items[i].rule \in SafetyRules \/ items[i].retention = "protected"}
<1>1. UnsafeDropCount(Summarized) = Cardinality(unsafe)
  BY DEF UnsafeDropCount
<1>2. \A i \in DOMAIN session : SoundDecision(decisions.final[i])
  BY ItemsDecided DEF Passes
<1>3. DOMAIN items = DOMAIN session
      /\ \A i \in DOMAIN session : /\ items[i].action = decisions.final[i].action
                                   /\ items[i].rule = decisions.final[i].rule
                                   /\ items[i].retention = decisions.final[i].retention
  BY DEF Summarized, SummarizeItem
<1>. HIDE DEF items
<1>4. unsafe = {}
  BY <1>2, <1>3 DEF SoundDecision
<1>. QED BY <1>1, <1>4, FS_EmptySet

\* What a report tells of a finished session adds up.
LEMMA ReportIsGood ==
  ASSUME MaterializeInv, pass = "done", NEW agent \in Agents
  PROVE  GoodReport(ToStoreReport(agent))
<1>. DEFINE stats == ComputeStats("final")
            r == ToStoreReport(agent)
            saved == TotalPotentialSavings(stats)
            left == stats.originalTokens - saved
            grown == Growth("final")
<1>0. "final" \in Passes
  BY DEF Passes
<1>1. /\ stats.originalTokens - stats.compactTokens = saved - grown
      /\ SumOf(stats.reductions) = saved
      /\ saved <= stats.originalTokens
      /\ stats.compressionSavings \in Nat /\ stats.dropSavings \in Nat /\ grown \in Nat
      /\ stats.originalTokens \in Nat /\ stats.compactTokens \in Nat
  BY <1>0, PassAddsUp
<1>2. saved = stats.compressionSavings + stats.dropSavings
  BY DEF TotalPotentialSavings
<1>3. IsTally(stats.reductions)
  BY <1>0, PassStatistics
<1>4. /\ stats.dropSavings - SemanticDropSavings(Summarized) =
           ComputeStats("deterministic").dropSavings
      /\ SemanticDropSavings(Summarized) \in Nat
      /\ ComputeStats("deterministic").dropSavings \in Nat
  BY SemanticDropsAddUp
<1>5. UnsafeDropCount(Summarized) = 0
  BY NoUnsafeDrop
<1>6. /\ r.agent = agent /\ r.originalTokens = stats.originalTokens
      /\ r.effectiveTokens = EffectiveTokens(agent, stats)
      /\ r.compressionSavings = stats.compressionSavings /\ r.dropSavings = stats.dropSavings
      /\ r.semanticDropSavings = SemanticDropSavings(Summarized)
      /\ r.reasonCodeTotals = stats.reductions
      /\ r.unsafeDropCount = UnsafeDropCount(Summarized)
  BY DEF ToStoreReport, Summarized
<1>7. EffectiveTokens(agent, stats) =
        IF agent = "codex" THEN Max({0, left}) ELSE stats.compactTokens
  BY DEF EffectiveTokens
<1>. HIDE DEF stats, r, saved, grown
<1>8. Max({0, left}) = left
  <2>1. left \in Int /\ 0 \in Int /\ left >= 0
    BY <1>1, <1>2
  <2>. HIDE DEF left
  <2>2. Max({0, left}) = IF 0 >= left THEN 0 ELSE left
    BY <2>1, MinMaxOfTwo
  <2>. QED BY <2>1, <2>2
<1>9. /\ r.effectiveTokens \in Int /\ r.originalTokens - r.effectiveTokens <= saved
      /\ agent = "codex" => r.originalTokens - r.effectiveTokens = saved
  <2>1. CASE agent = "codex"
    BY <1>1, <1>2, <1>6, <1>7, <1>8, <2>1
  <2>2. CASE agent # "codex"
    BY <1>1, <1>2, <1>6, <1>7, <2>2
  <2>. QED BY <2>1, <2>2
<1>10. SumOf(r.reasonCodeTotals) = saved
  BY <1>1, <1>6
<1>11. /\ r.agent \in Agents /\ r.originalTokens \in Nat
       /\ r.compressionSavings \in Nat /\ r.dropSavings \in Nat
       /\ r.semanticDropSavings \in Nat /\ r.semanticDropSavings <= r.dropSavings
       /\ r.unsafeDropCount = 0
       /\ saved = r.compressionSavings + r.dropSavings
  BY <1>1, <1>2, <1>4, <1>5, <1>6
<1>12. IsTally(r.reasonCodeTotals)
  BY <1>3, <1>6
<1>13. GoodReport(r)
  BY <1>6, <1>9, <1>10, <1>11, <1>12 DEF GoodReport
<1>. QED BY <1>13 DEF r

-----------------------------------------------------------------------------
(* The invariant holds: a step per action.                                 *)

\* The invariant holds at first.
LEMMA InitMaterialize == Init => MaterializeInv
<1>. SUFFICES ASSUME Init PROVE MaterializeInv
  OBVIOUS
<1>1. /\ session = <<>> /\ reports = <<>> /\ hooked \in BOOLEAN
      /\ pass = "idle" /\ at = 1 /\ written = NothingWritten
  BY DEF Init
<1>2. <<>> \in Seq(Items) /\ Len(<<>>) = 0 /\ <<>> \in Seq({})
  OBVIOUS
<1>3. IsSeq(<<>>)
  BY <1>2, SeqIsSeq
<1>4. DOMAIN written = Passes
  BY <1>1 DEF NothingWritten
<1>5. SessionInv
  BY <1>1, <1>2, <1>4 DEF SessionInv
<1>6. PassInv
  BY <1>1 DEF PassInv, Passes
<1>7. ReportsInv
  BY <1>1, <1>2, <1>3 DEF ReportsInv
<1>. QED BY <1>5, <1>6, <1>7 DEF MaterializeInv

\* Where the pass has come to when it writes an item.
LEMMA WritingPass ==
  ASSUME MaterializeInv, Writing
  PROVE  /\ pass \in Passes /\ at \in DOMAIN session /\ at - 1 \in Nat /\ at = (at - 1) + 1
         /\ session[at] \in Items
         /\ WrittenOut(written[pass], at - 1, decisions[pass], session, hooked)
         /\ decisions[pass][at] \in Decision
<1>1. /\ session \in Seq(Items) /\ at \in 1 .. Len(session) + 1
      /\ pass \in Passes /\ at <= Len(session) /\ Len(session) \in Nat
      /\ DOMAIN session = 1 .. Len(session)
  BY DEF MaterializeInv, SessionInv, Writing
<1>2. at \in DOMAIN session /\ at - 1 \in Nat /\ at = (at - 1) + 1
  BY <1>1
<1>3. session[at] \in Items
  BY <1>1, <1>2
<1>4. WrittenOut(written[pass], Progress(pass, pass, at, Len(session)), decisions[pass],
                 session, hooked)
  BY <1>1 DEF MaterializeInv, PassInv
<1>5. Progress(pass, pass, at, Len(session)) = at - 1
  BY DEF Progress
<1>6. pass # "idle"
  BY <1>1 DEF Passes
<1>7. SoundDecision(decisions[pass][at])
  BY <1>1, <1>2, <1>6, ItemsDecided
<1>. QED BY <1>1, <1>2, <1>3, <1>4, <1>5, <1>7 DEF SoundDecision

\* Writing what the decision about the item leaves of it keeps the invariant.
LEMMA WriteStep ==
  ASSUME MaterializeInv, Writing, NEW out, Write(out),
         WrittenOut(written[pass] \o out, at, decisions[pass], session, hooked)
  PROVE  MaterializeInv'
<1>1. /\ at' = at + 1 /\ written' = [written EXCEPT ![pass] = written[pass] \o out]
      /\ session' = session /\ hooked' = hooked /\ answers' = answers
      /\ decisions' = decisions /\ pass' = pass /\ reports' = reports
  BY DEF Write
<1>2. /\ pass \in Passes /\ at <= Len(session) /\ Len(session) \in Nat
      /\ at \in 1 .. Len(session) + 1 /\ DOMAIN written = Passes
  BY DEF MaterializeInv, SessionInv, Writing
<1>3. pass # "idle" /\ pass # "failed" /\ pass # "done"
  BY <1>2 DEF Passes
<1>4. /\ written'[pass] = written[pass] \o out
      /\ \A p \in Passes : p # pass => written'[p] = written[p]
      /\ DOMAIN written' = Passes
  BY <1>1, <1>2
<1>5. SessionInv'
  <2>1. at + 1 \in 1 .. Len(session) + 1
    BY <1>2
  <2>2. session \in Seq(Items) /\ hooked \in BOOLEAN
        /\ pass \in Passes \cup {"idle", "done", "failed"}
    BY DEF MaterializeInv, SessionInv
  <2>. QED BY <1>1, <1>3, <1>4, <2>1, <2>2 DEF SessionInv
<1>6. ASSUME NEW p \in Passes
      PROVE  WrittenOut(written'[p], Progress(p, pass, at + 1, Len(session)), decisions[p],
                        session, hooked)
  <2>1. CASE p = pass
    <3>1. Progress(p, pass, at + 1, Len(session)) = at
      BY <1>2, <2>1 DEF Progress
    <3>. QED BY <1>4, <2>1, <3>1
  <2>2. CASE p # pass
    <3>1. Progress(p, pass, at + 1, Len(session)) = Progress(p, pass, at, Len(session))
      BY <2>2 DEF Progress
    <3>2. WrittenOut(written[p], Progress(p, pass, at, Len(session)), decisions[p],
                     session, hooked)
      BY <1>2 DEF MaterializeInv, PassInv
    <3>. QED BY <1>4, <2>2, <3>1, <3>2
  <2>. QED BY <2>1, <2>2
<1>7. /\ answers \in [SemanticCandidates(session) -> SemanticAnswers \cup {None}]
      /\ decisions = Decided(session, answers)
  BY <1>3 DEF MaterializeInv, PassInv
<1>8. PassInv'
  BY <1>1, <1>6, <1>7 DEF PassInv
<1>9. ReportsInv'
  BY <1>1 DEF MaterializeInv, ReportsInv
<1>. QED BY <1>5, <1>8, <1>9 DEF MaterializeInv

\* Dropping an item preserves the invariant.
LEMMA SkipStep ==
  ASSUME MaterializeInv, Skip
  PROVE  MaterializeInv'
<1>1. Writing /\ decisions[pass][at].action = "DROP" /\ Write(<<>>)
  BY DEF Skip, Action
<1>. DEFINE n == at - 1  d == decisions[pass]  w == written[pass]
<1>2. n \in Nat /\ at = n + 1 /\ WrittenOut(w, n, d, session, hooked)
      /\ d[n + 1].action = "DROP"
  BY <1>1, WritingPass
<1>. HIDE DEF n, d, w
<1>3. WrittenOut(w \o <<>>, n + 1, d, session, hooked)
  BY ONLY <1>2, SkippedOut
<1>. QED BY <1>1, <1>2, <1>3, WriteStep DEF d, w

\* An item that is written in a way that fits the decision about it.
LEMMA OutStep ==
  ASSUME MaterializeInv, Writing, NEW out, Write(<<out>>), out.id = at,
         GoodOut(out, decisions[pass], session, hooked)
  PROVE  MaterializeInv'
<1>. DEFINE n == at - 1  d == decisions[pass]  w == written[pass]
<1>1. n \in Nat /\ at = n + 1 /\ WrittenOut(w, n, d, session, hooked) /\ out.id = n + 1
      /\ GoodOut(out, d, session, hooked)
  BY WritingPass
<1>. HIDE DEF n, d, w
<1>2. WrittenOut(w \o <<out>>, n + 1, d, session, hooked)
  BY ONLY <1>1, OneMoreOut
<1>. QED BY <1>1, <1>2, WriteStep DEF d, w

\* So does copying an item, ...
LEMMA CopyStep ==
  ASSUME MaterializeInv, Copy
  PROVE  MaterializeInv'
<1>. DEFINE out == Out(at, TokenCount(session[at]), Content(session[at]))
<1>1. Writing /\ decisions[pass][at].action \in {"PROTECT", "KEEP"} /\ Write(<<out>>)
  BY DEF Copy, Action
<1>2. /\ out.id = at /\ out.tokenCount = TokenCount(session[at])
      /\ out.content = Content(session[at])
  BY DEF Out
<1>3. TokenCount(session[at]) \in Nat
  <2>1. pass # "idle" /\ at \in DOMAIN session
    BY <1>1, WritingPass DEF Passes
  <2>. QED BY <2>1, ItemsDecided
<1>. HIDE DEF out
<1>4. GoodOut(out, decisions[pass], session, hooked)
  BY <1>1, <1>2, <1>3 DEF GoodOut
<1>. QED BY <1>1, <1>2, <1>4, OutStep

\* ... compressing it, ...
LEMMA CompressStep ==
  ASSUME MaterializeInv, Compress
  PROVE  MaterializeInv'
<1>. DEFINE item == session[at]
            out == Out(at, CompressItem(item).retainedTokens, CompressItem(item).content)
<1>1. Writing /\ decisions[pass][at].action = "COMPRESS" /\ ~hooked /\ Write(<<out>>)
  BY DEF Compress, Action
<1>2. /\ out.id = at /\ out.tokenCount = CompressItem(item).retainedTokens
      /\ out.content = CompressItem(item).content
  BY DEF Out
<1>3. CompressItem(item).retainedTokens \in Nat
  <2>1. item \in Items
    BY <1>1, WritingPass
  <2>2. IsText(Content(item)) /\ IsText(ToolText(item))
    BY <2>1, ItemsAssumption
  <2>. HIDE DEF item
  <2>. QED BY <2>2, CompressedItem
<1>. HIDE DEF out
<1>4. GoodOut(out, decisions[pass], session, hooked)
  BY <1>1, <1>2, <1>3 DEF GoodOut
<1>. QED BY <1>1, <1>2, <1>4, OutStep

\* ... having a provider compress it, ...
LEMMA ProviderCompressesStep ==
  ASSUME MaterializeInv, ProviderCompresses
  PROVE  MaterializeInv'
<1>1. Writing /\ decisions[pass][at].action = "COMPRESS" /\ hooked
  BY DEF ProviderCompresses, Action
<1>2. PICK cost \in ProvidedCosts : Write(<<Out(at, cost, <<Line("provided", None, cost)>>)>>)
  BY DEF ProviderCompresses
<1>. DEFINE out == Out(at, cost, <<Line("provided", None, cost)>>)
<1>3. out.id = at /\ out.tokenCount = cost /\ cost \in Nat /\ Write(<<out>>)
  BY <1>2, CostsAssumption DEF Out
<1>. HIDE DEF out
<1>4. GoodOut(out, decisions[pass], session, hooked)
  BY <1>1, <1>3 DEF GoodOut
<1>. QED BY <1>1, <1>3, <1>4, OutStep

\* ... the failure of a provider, ...
LEMMA ProviderFailsStep ==
  ASSUME MaterializeInv, ProviderFails
  PROVE  MaterializeInv'
<1>1. /\ pass \in Passes /\ hooked /\ pass' = "failed" /\ session' = session
      /\ hooked' = hooked /\ answers' = answers /\ decisions' = decisions /\ at' = at
      /\ written' = written /\ reports' = reports
  BY DEF ProviderFails, Writing
<1>2. pass # "idle"
  BY <1>1 DEF Passes
<1>3. SessionInv'
  BY <1>1 DEF MaterializeInv, SessionInv
<1>4. PassInv'
  BY <1>1, <1>2 DEF MaterializeInv, PassInv, Passes
<1>5. ReportsInv'
  BY <1>1 DEF MaterializeInv, ReportsInv
<1>. QED BY <1>3, <1>4, <1>5 DEF MaterializeInv

\* ... the end of a pass, ...
LEMMA EndPassStep ==
  ASSUME MaterializeInv, EndPass
  PROVE  MaterializeInv'
<1>. DEFINE n == Len(session)
<1>1. /\ pass \in Passes /\ at > n /\ at' = 1
      /\ pass' = IF pass = "deterministic" THEN "final" ELSE "done"
      /\ session' = session /\ hooked' = hooked /\ answers' = answers
      /\ decisions' = decisions /\ written' = written /\ reports' = reports
  BY DEF EndPass
<1>2. /\ n \in Nat /\ at \in 1 .. n + 1 /\ at = n + 1 /\ at - 1 = n
      /\ pass # "idle" /\ pass' # "idle" /\ pass' # "failed"
      /\ pass' \in Passes \cup {"idle", "done", "failed"}
  BY <1>1 DEF MaterializeInv, SessionInv, Passes
<1>3. SessionInv'
  <2>1. 1 \in 1 .. n + 1
    BY <1>2
  <2>2. session \in Seq(Items) /\ hooked \in BOOLEAN /\ DOMAIN written = Passes
    BY DEF MaterializeInv, SessionInv
  <2>. QED BY <1>1, <1>2, <2>1, <2>2 DEF SessionInv
<1>4. ASSUME NEW p \in Passes
      PROVE  WrittenOut(written[p], Progress(p, pass', 1, n), decisions[p], session, hooked)
  <2>1. WrittenOut(written[p], Progress(p, pass, at, n), decisions[p], session, hooked)
    BY <1>1 DEF MaterializeInv, PassInv
  <2>2. Progress(p, pass', 1, n) = Progress(p, pass, at, n)
    BY <1>1, <1>2 DEF Progress, Passes
  <2>. QED BY <2>1, <2>2
<1>5. /\ answers \in [SemanticCandidates(session) -> SemanticAnswers \cup {None}]
      /\ decisions = Decided(session, answers)
  BY <1>2 DEF MaterializeInv, PassInv
<1>6. PassInv'
  BY <1>1, <1>4, <1>5 DEF PassInv
<1>7. ReportsInv'
  BY <1>1 DEF MaterializeInv, ReportsInv
<1>. QED BY <1>3, <1>6, <1>7 DEF MaterializeInv

\* ... one item more, ...
LEMMA GrowStep ==
  ASSUME MaterializeInv, NEW item \in Items, Grow(item)
  PROVE  MaterializeInv'
<1>1. /\ pass = "idle" /\ session' = Append(session, item)
      /\ hooked' = hooked /\ pass' = pass /\ at' = at /\ written' = written
      /\ reports' = reports
  BY DEF Grow
<1>2. /\ session \in Seq(Items) /\ hooked \in BOOLEAN /\ at = 1 /\ written = NothingWritten
      /\ DOMAIN written = Passes
  BY <1>1 DEF MaterializeInv, SessionInv
<1>3. Append(session, item) \in Seq(Items) /\ Len(Append(session, item)) \in Nat
  BY <1>2
<1>4. SessionInv'
  <2>1. 1 \in 1 .. Len(session') + 1
    BY <1>1, <1>3
  <2>. QED BY <1>1, <1>2, <1>3, <2>1 DEF SessionInv
<1>5. PassInv'
  BY <1>1 DEF PassInv, Passes
<1>6. ReportsInv'
  BY <1>1 DEF MaterializeInv, ReportsInv
<1>. QED BY <1>4, <1>5, <1>6 DEF MaterializeInv

\* ... the decisions about a session, ...
LEMMA DecideStep ==
  ASSUME MaterializeInv, Decide
  PROVE  MaterializeInv'
<1>1. /\ pass = "idle" /\ pass' = "deterministic"
      /\ answers' \in [SemanticCandidates(session) -> SemanticAnswers \cup {None}]
      /\ decisions' = Decided(session, answers')
      /\ session' = session /\ hooked' = hooked /\ at' = at /\ written' = written
      /\ reports' = reports
  BY DEF Decide
<1>2. /\ session \in Seq(Items) /\ hooked \in BOOLEAN /\ at = 1 /\ written = NothingWritten
      /\ at \in 1 .. Len(session) + 1 /\ DOMAIN written = Passes
  BY <1>1 DEF MaterializeInv, SessionInv
<1>3. SessionInv'
  BY <1>1, <1>2 DEF SessionInv, Passes
<1>4. ASSUME NEW p \in Passes
      PROVE  WrittenOut(written[p], Progress(p, "deterministic", 1, Len(session)),
                        decisions'[p], session, hooked)
  <2>1. Progress(p, "deterministic", 1, Len(session)) = 0
    BY DEF Progress
  <2>2. written[p] = <<>>
    BY <1>2 DEF NothingWritten
  <2>. QED BY <2>1, <2>2, NothingWrittenOut
<1>5. PassInv'
  BY <1>1, <1>2, <1>4 DEF PassInv
<1>6. ReportsInv'
  BY <1>1 DEF MaterializeInv, ReportsInv
<1>. QED BY <1>3, <1>5, <1>6 DEF MaterializeInv

\* ... the start of the next one, ...
LEMMA NextSessionStep ==
  ASSUME MaterializeInv, NextSession
  PROVE  SessionInv' /\ PassInv'
<1>1. /\ session' = <<>> /\ pass' = "idle" /\ at' = 1 /\ written' = NothingWritten
      /\ hooked' = hooked
  BY DEF NextSession
<1>2. <<>> \in Seq(Items) /\ Len(<<>>) = 0 /\ hooked \in BOOLEAN
  BY DEF MaterializeInv, SessionInv
<1>3. DOMAIN NothingWritten = Passes
  BY DEF NothingWritten
<1>4. SessionInv'
  BY <1>1, <1>2, <1>3 DEF SessionInv
<1>5. PassInv'
  BY <1>1 DEF PassInv, Passes
<1>. QED BY <1>4, <1>5

\* ... saving a report, ...
LEMMA ReportStep ==
  ASSUME MaterializeInv, NEW agent \in Agents, Report(agent)
  PROVE  MaterializeInv'
<1>. DEFINE r == ToStoreReport(agent)
<1>1. pass = "done" /\ reports' = Append(reports, r) /\ NextSession
  BY DEF Report
<1>2. GoodReport(r)
  BY <1>1, ReportIsGood
<1>. HIDE DEF r
<1>3. ReportsInv'
  <2>1. PICK S : reports \in Seq(S)
    BY DEF MaterializeInv, ReportsInv, IsSeq
  <2>2. \A k \in 1 .. Len(reports) : GoodReport(reports[k])
    BY DEF MaterializeInv, ReportsInv
  <2>. DEFINE D == S \cup {r}
              u == Append(reports, r)
  <2>3. reports \in Seq(D) /\ r \in D
    BY <2>1
  <2>. HIDE DEF D
  <2>4. /\ u \in Seq(D) /\ Len(u) = Len(reports) + 1 /\ Len(reports) \in Nat
        /\ \A k \in 1 .. Len(reports) : u[k] = reports[k]
        /\ u[Len(reports) + 1] = r
    BY <2>3, AppendProperties
  <2>. HIDE DEF u
  <2>5. \A k \in 1 .. Len(u) : k \in 1 .. Len(reports) \/ k = Len(reports) + 1
    BY <2>4
  <2>6. \A k \in 1 .. Len(u) : GoodReport(u[k])
    BY <1>2, <2>2, <2>4, <2>5
  <2>7. IsSeq(u)
    BY <2>4, SeqIsSeq
  <2>8. reports' = u
    BY <1>1 DEF u
  <2>. QED BY <2>6, <2>7, <2>8 DEF ReportsInv
<1>. QED BY <1>1, <1>3, NextSessionStep DEF MaterializeInv

\* ... and giving a session up.
LEMMA AbandonStep ==
  ASSUME MaterializeInv, Abandon
  PROVE  MaterializeInv'
<1>1. reports' = reports /\ NextSession
  BY DEF Abandon
<1>2. ReportsInv'
  BY <1>1 DEF MaterializeInv, ReportsInv
<1>. QED BY <1>1, <1>2, NextSessionStep DEF MaterializeInv

\* Every step preserves the invariant.
LEMMA NextMaterialize ==
  MaterializeInv /\ [Next]_vars => MaterializeInv'
<1>. SUFFICES ASSUME MaterializeInv, [Next]_vars PROVE MaterializeInv'
  OBVIOUS
<1>1. CASE UNCHANGED vars
  BY <1>1 DEF vars, MaterializeInv, SessionInv, PassInv, ReportsInv
<1>2. CASE \E item \in Items : Grow(item)
  BY <1>2, GrowStep
<1>3. CASE Decide
  BY <1>3, DecideStep
<1>4. CASE Skip
  BY <1>4, SkipStep
<1>5. CASE Copy
  BY <1>5, CopyStep
<1>6. CASE Compress
  BY <1>6, CompressStep
<1>7. CASE ProviderCompresses
  BY <1>7, ProviderCompressesStep
<1>8. CASE ProviderFails
  BY <1>8, ProviderFailsStep
<1>9. CASE EndPass
  BY <1>9, EndPassStep
<1>10. CASE \E agent \in Agents : Report(agent)
  BY <1>10, ReportStep
<1>11. CASE Abandon
  BY <1>11, AbandonStep
<1>. QED BY <1>1, <1>2, <1>3, <1>4, <1>5, <1>6, <1>7, <1>8, <1>9, <1>10, <1>11 DEF Next

\* While a session is written out, what is written is what the decisions leave of
\* the items the pass has come to, and every report made so far adds up.
THEOREM MaterializeInvariant == Spec => []MaterializeInv
BY InitMaterialize, NextMaterialize, PTL DEF Spec

-----------------------------------------------------------------------------
(* What holds of a finished session.                                       *)

\* computeStats: the splits of a session's tokens by action, by retention and by
\* reason are splits of the same tokens, and what is saved, less what items grew
\* by, is what the output is shorter by.
THEOREM SavingsAddUpTheorem == Spec => []SavingsAddUp
<1>1. MaterializeInv => SavingsAddUp
  <2>. SUFFICES ASSUME MaterializeInv, pass = "done"
                PROVE  SavingsAddUp
    BY DEF SavingsAddUp, Done
  <2>1. ASSUME NEW p \in Passes
        PROVE  LET stats == ComputeStats(p) IN
               /\ stats.originalTokens - stats.compactTokens =
                    TotalPotentialSavings(stats) - Growth(p)
               /\ stats.compactTokens =
                    stats.keptTokens + stats.protectedTokens + stats.compressedTokens
               /\ stats.protectedVerbatimTokens + stats.protectedCompressibleTokens =
                    TokensOf(ProtectedItems(p))
               /\ SumOf(stats.reductions) = TotalPotentialSavings(stats)
    BY <2>1, PassAddsUp, ProtectedAddsUp
  <2>2. SumOf([i \in DOMAIN session |-> SummarizeItem(i).savedTokens]) =
          TotalPotentialSavings(ComputeStats("final"))
    BY SummariesAddUp
  <2>. QED BY <2>1, <2>2 DEF SavingsAddUp
<1>. QED BY <1>1, MaterializeInvariant, PTL

\* snapshotFromUnknown: what a report puts down to the rules is what the rules alone
\* would have dropped, and nothing is dropped that a safety rule speaks for.
THEOREM DropsAreAttributedTheorem == Spec => []DropsAreAttributed
<1>1. MaterializeInv => DropsAreAttributed
  <2>. SUFFICES ASSUME MaterializeInv, pass = "done"
                PROVE  DropsAreAttributed
    BY DEF DropsAreAttributed, Done
  <2>. DEFINE r == ToStoreReport("claude")
  <2>1. /\ r.dropSavings = ComputeStats("final").dropSavings
        /\ r.semanticDropSavings = SemanticDropSavings(Summarized)
        /\ r.unsafeDropCount = UnsafeDropCount(Summarized)
    BY DEF ToStoreReport, Summarized
  <2>. HIDE DEF r
  <2>2. r.dropSavings - r.semanticDropSavings = ComputeStats("deterministic").dropSavings
    BY <2>1, SemanticDropsAddUp
  <2>3. r.unsafeDropCount = 0
    BY <2>1, NoUnsafeDrop
  <2>. QED BY <2>2, <2>3 DEF DropsAreAttributed, r
<1>. QED BY <1>1, MaterializeInvariant, PTL

\* The items a finished pass has written.
LEMMA ItemsWritten ==
  ASSUME MaterializeInv, pass = "done", NEW p \in Passes
  PROVE  /\ ToSet(Ids(p)) = DOMAIN session \ Dropping(p)
         /\ \A k \in 1 .. Len(Ids(p)) - 1 : Ids(p)[k] < Ids(p)[k + 1]
         /\ \A i \in DOMAIN session :
              decisions[p][i].action \notin {"DROP", "COMPRESS"} => i \in Verbatim(p)
<1>. DEFINE n == Len(session)
            w == written[p]
            m == Len(w)
            d == decisions[p]
            ids == [k \in 1 .. m |-> w[k].id]
<1>1. n \in Nat /\ DOMAIN session = 1 .. n
  BY ItemsDecided DEF Passes
<1>2. WrittenOut(w, n, d, session, hooked)
  BY AllWritten
<1>3. m \in Nat /\ DOMAIN w = 1 .. m
  BY <1>2, SeqLength DEF WrittenOut
<1>4. /\ \A k \in 1 .. m : w[k].id \in 1 .. n /\ GoodOut(w[k], d, session, hooked)
      /\ \A j, k \in 1 .. m : j < k => w[j].id < w[k].id
      /\ \A i \in 1 .. n : d[i].action # "DROP" => \E k \in 1 .. m : w[k].id = i
  BY <1>2 DEF WrittenOut
<1>5. Ids(p) = ids
  BY <1>3 DEF Ids
<1>. HIDE DEF w
<1>6. ids \in Seq(1 .. n) /\ Len(ids) = m /\ DOMAIN ids = 1 .. m
      /\ \A k \in 1 .. m : ids[k] = w[k].id
  BY <1>3, <1>4
<1>. HIDE DEF ids, m, d, n
<1>7. \A i : i \in ToSet(ids) <=> i \in 1 .. n /\ d[i].action # "DROP"
  <2>1. \A i : i \in ToSet(ids) <=> \E k \in 1 .. m : ids[k] = i
    BY <1>6 DEF ToSet
  <2>2. \A k \in 1 .. m : ids[k] \in 1 .. n /\ d[ids[k]].action # "DROP"
    BY <1>4, <1>6 DEF GoodOut
  <2>3. \A i \in 1 .. n : d[i].action # "DROP" => \E k \in 1 .. m : ids[k] = i
    BY <1>4, <1>6
  <2>. QED BY <2>1, <2>2, <2>3
<1>8. ToSet(ids) = DOMAIN session \ Dropping(p)
  <2>1. \A i : i \in DOMAIN session \ Dropping(p) <=> i \in 1 .. n /\ d[i].action # "DROP"
    BY <1>1 DEF Dropping, ItemsWith, d
  <2>2. \A i : i \in ToSet(ids) <=> i \in DOMAIN session \ Dropping(p)
    BY <1>7, <2>1
  <2>. QED BY ONLY <2>2
<1>9. \A k \in 1 .. m - 1 : ids[k] < ids[k + 1]
  <2>1. \A k \in 1 .. m - 1 : k \in 1 .. m /\ k + 1 \in 1 .. m /\ k < k + 1
    BY <1>3
  <2>. QED BY <1>4, <1>6, <2>1
<1>10. ASSUME NEW i \in DOMAIN session, d[i].action \notin {"DROP", "COMPRESS"}
       PROVE  i \in Verbatim(p)
  <2>1. PICK k \in 1 .. m : w[k].id = i
    BY <1>1, <1>4, <1>10
  <2>2. w[k].content = Content(session[w[k].id])
    BY <1>4, <1>10, <2>1 DEF GoodOut
  <2>3. Verbatim(p) = {w[j].id : j \in {h \in DOMAIN w :
                         w[h].content = Content(session[w[h].id])}}
    BY DEF Verbatim, w
  <2>. QED BY <1>3, <2>1, <2>2, <2>3
<1>. QED BY <1>5, <1>6, <1>8, <1>9, <1>10 DEF d

\* materialize: what is retained is written, in order and word for word where
\* compressing is not allowed; and the semantic layer shrinks what the rules leave.
THEOREM SemanticOnlyShrinksTheorem == Spec => []SemanticOnlyShrinks
<1>1. MaterializeInv => SemanticOnlyShrinks
  <2>. SUFFICES ASSUME MaterializeInv, pass = "done"
                PROVE  SemanticOnlyShrinks
    BY DEF SemanticOnlyShrinks, Done
  <2>1. ASSUME NEW p \in Passes
        PROVE  /\ ToSet(Ids(p)) = DOMAIN session \ Dropping(p)
               /\ \A k \in 1 .. Len(Ids(p)) - 1 : Ids(p)[k] < Ids(p)[k + 1]
               /\ ProtectedItems(p) \subseteq ToSet(Ids(p))
               /\ \A i \in DOMAIN session :
                    decisions[p][i].compression = "forbidden" => i \in Verbatim(p)
    <3>1. \A i \in DOMAIN session : SoundDecision(decisions[p][i])
      BY <2>1, ItemsDecided
    <3>2. ProtectedItems(p) \subseteq DOMAIN session \ Dropping(p)
      BY <3>1 DEF ProtectedItems, Dropping, ItemsWith, SoundDecision
    <3>3. \A i \in DOMAIN session : decisions[p][i].compression = "forbidden" =>
            decisions[p][i].action \notin {"DROP", "COMPRESS"}
      BY <3>1 DEF SoundDecision
    <3>. QED BY <2>1, <3>2, <3>3, ItemsWritten
  <2>2. \A i \in DOMAIN session :
          /\ decisions.deterministic[i].retention = decisions.final[i].retention
          /\ decisions.deterministic[i].action = "DROP" =>
               decisions.final[i] = decisions.deterministic[i]
          /\ decisions.deterministic[i].action = "COMPRESS" =>
               decisions.final[i].action # "KEEP"
    BY ItemsDecided
  <2>3. Dropping("deterministic") \subseteq Dropping("final")
    BY <2>2 DEF Dropping, ItemsWith
  <2>4. ProtectedItems("deterministic") = ProtectedItems("final")
    BY <2>2 DEF ProtectedItems
  <2>5. ItemsWith("deterministic", "COMPRESS") \cap ItemsWith("final", "KEEP") = {}
    BY <2>2 DEF ItemsWith
  <2>. QED BY <2>1, <2>3, <2>4, <2>5 DEF SemanticOnlyShrinks
<1>. QED BY <1>1, MaterializeInvariant, PTL

\* What a compressor of the repository has written, in whatever step of a pass.
LEMMA SummaryWritten ==
  ASSUME MaterializeInv, NEW s \in Summaries
  PROVE  \E item \in Items : s = <<item, CompressItem(item).content>>
<1>1. ~hooked /\ \E p \in Passes :
                   \E k \in {j \in DOMAIN written[p] :
                               decisions[p][written[p][j].id].action = "COMPRESS"} :
                     s = <<session[written[p][k].id], written[p][k].content>>
  BY DEF Summaries
<1>2. PICK p \in Passes :
        \E k \in DOMAIN written[p] :
          /\ decisions[p][written[p][k].id].action = "COMPRESS"
          /\ s = <<session[written[p][k].id], written[p][k].content>>
  BY <1>1
<1>. DEFINE w == written[p]  d == decisions[p]  n == Len(session)
<1>3. PICK k \in DOMAIN w :
        d[w[k].id].action = "COMPRESS" /\ s = <<session[w[k].id], w[k].content>>
  BY <1>2
<1>4. session \in Seq(Items) /\ n \in Nat /\ at \in 1 .. n + 1
      /\ pass \in Passes \cup {"idle", "done", "failed"}
  BY DEF MaterializeInv, SessionInv
<1>5. pass \in Passes \cup {"done"}
  <2>1. pass # "failed"
    BY <1>1 DEF MaterializeInv, SessionInv
  <2>2. CASE pass = "idle"
    <3>1. w = <<>> /\ DOMAIN <<>> = {}
      BY <2>2 DEF MaterializeInv, SessionInv, NothingWritten
    <3>. HIDE DEF w
    <3>. QED BY <1>3, <3>1
  <2>. QED BY <1>4, <2>1, <2>2
<1>6. WrittenOut(w, Progress(p, pass, at, n), d, session, hooked)
  BY <1>5 DEF MaterializeInv, PassInv
<1>7. Progress(p, pass, at, n) \in 0 .. n
  BY <1>4, <1>5 DEF Progress, Passes
<1>. HIDE DEF w, d
<1>8. Len(w) \in Nat /\ DOMAIN w = 1 .. Len(w)
  BY <1>6, SeqLength DEF WrittenOut
<1>9. w[k].id \in 1 .. Progress(p, pass, at, n) /\ GoodOut(w[k], d, session, hooked)
  BY <1>3, <1>6, <1>8 DEF WrittenOut
<1>10. session[w[k].id] \in Items
  BY <1>4, <1>7, <1>9
<1>11. w[k].content = CompressItem(session[w[k].id]).content
  BY <1>1, <1>3, <1>9 DEF GoodOut
<1>. QED BY <1>3, <1>10, <1>11

\* compressItem: what a strategy writes below its header loses its end and nothing
\* else, and only where the strategy's text costs more than its target.
THEOREM SummariesFitTheTargetTheorem == Spec => []SummariesFitTheTarget
<1>1. MaterializeInv => SummariesFitTheTarget
  <2>. SUFFICES ASSUME MaterializeInv, NEW s \in Summaries
                PROVE  LET item == s[1]
                           body == Tail(s[2])
                           full == Full(item)
                           target == Target(item)
                           kept == IF IsCut(body) THEN Front(body) ELSE body
                       IN  \/ StrategyOf(item) = "head_tail" /\ body = Content(item)
                           \/ /\ IsPrefix(kept, full)
                              /\ target > 0 /\ Cost(full) > target /\ Len(full) > 1
                                   <=> IsCut(body)
                              /\ IF IsCut(body)
                                 THEN /\ Len(kept) = 1 \/ Cost(kept) <= target
                                      /\ Cost(FirstOf(full, Len(kept) + 1)) > target
                                 ELSE body = full
    BY DEF SummariesFitTheTarget
  <2>1. PICK item \in Items : s = <<item, CompressItem(item).content>>
    BY SummaryWritten
  <2>2. IsText(Content(item)) /\ IsText(ToolText(item))
    BY <2>1, ItemsAssumption
  <2>. DEFINE content == CompressItem(item).content
              body == Tail(content)
  <2>3. \/ StrategyOf(item) = "head_tail" /\ body = Content(item)
        \/ FittedTo(body, Full(item), Target(item))
    BY <2>2, CompressedItem
  <2>4. s[1] = item /\ s[2] = content
    BY <2>1
  <2>. HIDE DEF content
  <2>. QED BY <2>3, <2>4 DEF FittedTo
<1>. QED BY <1>1, MaterializeInvariant, PTL

-----------------------------------------------------------------------------
(* Reports added up.                                                       *)

\* There are finitely many agents.
LEMMA AgentsFinite == IsFiniteSet(Agents)
<1>1. IsFiniteSet({"codex"}) /\ IsFiniteSet({"cursor"}) /\ IsFiniteSet({"claude"})
  BY FS_Singleton
<1>2. Agents = {"codex"} \cup {"cursor"} \cup {"claude"}
  BY DEF Agents
<1>. QED BY <1>1, <1>2, FS_Union

\* The tokens observed, split by agent.
LEMMA AgentsAddUp ==
  ASSUME NEW stored, IsSeq(stored), \A k \in 1 .. Len(stored) : GoodReport(stored[k])
  PROVE  SumOf(Aggregate(stored).byAgent) = Aggregate(stored).tokensObserved
<1>. DEFINE each == DOMAIN stored
            obs == [k \in each |-> stored[k].originalTokens]
            key == [k \in each |-> stored[k].agent]
            part == [a \in Agents |-> {j \in each : stored[j].agent = a}]
            of == [a \in Agents |-> [k \in {j \in each : stored[j].agent = a} |->
                                       stored[k].originalTokens]]
            g == [a \in Agents |-> SumOf([k \in {j \in each : stored[j].agent = a} |->
                                            stored[k].originalTokens])]
<1>1. Len(stored) \in Nat /\ each = 1 .. Len(stored)
  BY SeqLength
<1>2. IsFiniteSet(each)
  BY <1>1, FS_Interval
<1>3. Aggregate(stored).byAgent = g /\ Aggregate(stored).tokensObserved = SumOf(obs)
  BY DEF Aggregate
<1>4. /\ DOMAIN obs = each /\ \A k \in each : obs[k] \in Int
      /\ \A k \in each : key[k] \in Agents
  BY <1>1 DEF GoodReport
<1>5. /\ DOMAIN g = Agents
      /\ \A a \in Agents : /\ part[a] \in SUBSET each
                           /\ \A k \in each : k \in part[a] <=> key[k] = a
                           /\ DOMAIN of[a] = part[a] /\ \A k \in part[a] : of[a][k] = obs[k]
                           /\ g[a] = SumOf(of[a])
  OBVIOUS
<1>. HIDE DEF each, obs, key, part, of, g
<1>6. \A a \in Agents : g[a] = SumOver(part[a], obs)
  <2>. TAKE a \in Agents
  <2>1. IsFiniteSet(part[a]) /\ \A k \in part[a] : obs[k] \in Int
    BY <1>2, <1>4, <1>5, FS_Subset
  <2>2. SumOf(of[a]) = SumOver(part[a], obs)
    BY <1>5, <2>1, SumOfPart
  <2>. QED BY <1>5, <2>2
<1>7. SumOver(Agents, g) = SumOver(each, obs)
  BY ONLY <1>2, <1>4, <1>5, <1>6, AgentsFinite, SumByParts
<1>8. SumOf(g) = SumOver(Agents, g) /\ SumOf(obs) = SumOver(each, obs)
  BY <1>4, <1>5 DEF SumOf
<1>. QED BY <1>3, <1>7, <1>8

\* No summand is more than the sum of them.
LEMMA PartOfSum ==
  ASSUME NEW S, IsFiniteSet(S), NEW f, \A x \in S : f[x] \in Nat, NEW x \in S
  PROVE  f[x] <= SumOver(S, f)
<1>1. SumOver(S, f) = f[x] + SumOver(S \ {x}, f)
  BY SumElement
<1>2. SumOver(S \ {x}, f) \in Nat
  <2>1. IsFiniteSet(S \ {x}) /\ \A y \in S \ {x} : f[y] \in Nat
    BY FS_RemoveElement
  <2>. QED BY <2>1, SumNat
<1>. QED BY <1>1, <1>2

\* What was saved, by reason and by report; and no report saved more for a reason
\* than all of them did.
LEMMA ReasonsAddUp ==
  ASSUME NEW stored, IsSeq(stored), \A k \in 1 .. Len(stored) : GoodReport(stored[k]),
         NEW each, each = DOMAIN stored, NEW rows,
         \A k \in each :
           rows[k] = stored[k].compressionSavings + stored[k].dropSavings
  PROVE  /\ IsTally(Reasons(stored))
         /\ SumOf(Reasons(stored)) = SumOver(each, rows)
         /\ \A k \in each : \A code \in DOMAIN stored[k].reasonCodeTotals :
              /\ code \in DOMAIN Reasons(stored)
              /\ stored[k].reasonCodeTotals[code] <= Reasons(stored)[code]
<1>. DEFINE totals == [k \in each |-> stored[k].reasonCodeTotals]
            names == UNION {DOMAIN stored[k].reasonCodeTotals : k \in each}
            col == [code \in names |-> [k \in each |->
                      IF code \in DOMAIN stored[k].reasonCodeTotals
                      THEN stored[k].reasonCodeTotals[code] ELSE 0]]
            row == [k \in each |-> [code \in names |->
                      IF code \in DOMAIN stored[k].reasonCodeTotals
                      THEN stored[k].reasonCodeTotals[code] ELSE 0]]
            having == [code \in names |->
                         {j \in each : code \in DOMAIN stored[j].reasonCodeTotals}]
            of == [code \in names |->
                     [k \in {j \in each : code \in DOMAIN stored[j].reasonCodeTotals} |->
                        stored[k].reasonCodeTotals[code]]]
            g == [code \in names |->
                    SumOf([k \in {j \in each : code \in DOMAIN stored[j].reasonCodeTotals} |->
                             stored[k].reasonCodeTotals[code]])]
<1>1. Len(stored) \in Nat /\ each = 1 .. Len(stored)
  BY SeqLength
<1>2. IsFiniteSet(each)
  BY <1>1, FS_Interval
<1>3. Reasons(stored) = g
  BY DEF Reasons
<1>4. \A k \in each :
        /\ totals[k] = stored[k].reasonCodeTotals
        /\ IsTally(totals[k])
        /\ SumOf(totals[k]) = rows[k]
  <2>. SUFFICES ASSUME NEW k \in each
                PROVE  /\ totals[k] = stored[k].reasonCodeTotals
                       /\ IsTally(totals[k])
                       /\ SumOf(totals[k]) = rows[k]
    OBVIOUS
  <2>1. totals[k] = stored[k].reasonCodeTotals
    OBVIOUS
  <2>2. GoodReport(stored[k])
    BY <1>1
  <2>3. rows[k] = stored[k].compressionSavings + stored[k].dropSavings
    OBVIOUS
  <2>. HIDE DEF totals
  <2>. QED BY <2>1, <2>2, <2>3 DEF GoodReport
<1>5. \A code : code \in names <=> \E k \in each : code \in DOMAIN totals[k]
  OBVIOUS
<1>6. \A code \in names : \A k \in each :
        /\ col[code][k] = IF code \in DOMAIN totals[k] THEN totals[k][code] ELSE 0
        /\ row[k][code] = IF code \in DOMAIN totals[k] THEN totals[k][code] ELSE 0
  OBVIOUS
<1>7. \A code \in names :
        /\ having[code] \in SUBSET each
        /\ \A k \in each : k \in having[code] <=> code \in DOMAIN totals[k]
        /\ DOMAIN of[code] = having[code]
        /\ \A k \in having[code] : of[code][k] = totals[k][code]
        /\ g[code] = SumOf(of[code])
  OBVIOUS
<1>8. DOMAIN g = names
  OBVIOUS
<1>. HIDE DEF totals, names, col, row, having, of, g
<1>9. IsFiniteSet(names)
  <2>. DEFINE named == [k \in each |-> DOMAIN totals[k]]
              families == {DOMAIN totals[k] : k \in each}
  <2>1. named \in Surjection(each, families)
    BY DEF Surjection
  <2>2. \A T \in families : IsFiniteSet(T)
    BY <1>4 DEF IsTally
  <2>3. names = UNION families
    BY <1>5
  <2>. HIDE DEF named, families
  <2>4. IsFiniteSet(families)
    BY <1>2, <2>1, FS_Surjection
  <2>. QED BY <2>2, <2>3, <2>4, FS_UNION
<1>10. \A code \in names : \A k \in each :
         col[code][k] \in Nat /\ row[k][code] \in Nat /\ col[code][k] = row[k][code]
  BY <1>4, <1>6 DEF IsTally
<1>11. ASSUME NEW k \in each
       PROVE  rows[k] = SumOver(names, row[k])
  <2>. DEFINE f == row[k]  e == totals[k]  T == DOMAIN e
  <2>1. /\ T \in SUBSET names
        /\ \A code \in names : f[code] \in Int
        /\ \A code \in names \ T : f[code] = 0
        /\ \A code \in T : f[code] = e[code] /\ e[code] \in Int
    <3>1. T \in SUBSET names /\ \A code \in T : e[code] \in Nat
      BY <1>4, <1>5 DEF IsTally
    <3>2. \A code \in names : f[code] \in Nat
      BY <1>10
    <3>3. \A code \in names : f[code] = IF code \in T THEN e[code] ELSE 0
      BY <1>6
    <3>. HIDE DEF f, e, T
    <3>. QED BY <3>1, <3>2, <3>3
  <2>2. rows[k] = SumOf(e) /\ SumOf(e) = SumOver(T, e)
    BY <1>4 DEF SumOf
  <2>. HIDE DEF f, e, T
  <2>3. SumOver(names, f) = SumOver(T, f)
    BY ONLY <1>9, <2>1, SumWithin
  <2>4. SumOver(T, f) = SumOver(T, e)
    <3>1. IsFiniteSet(T)
      BY <1>9, <2>1, FS_Subset
    <3>. QED BY ONLY <3>1, <2>1, SumSame
  <2>. QED BY <2>2, <2>3, <2>4 DEF f
<1>12. ASSUME NEW code \in names
       PROVE  g[code] = SumOver(each, col[code])
  <2>. DEFINE f == col[code]  e == of[code]  T == having[code]
  <2>1. /\ T \in SUBSET each /\ DOMAIN e = T
        /\ \A k \in each : f[k] \in Int
        /\ \A k \in each \ T : f[k] = 0
        /\ \A k \in T : e[k] = f[k]
    BY <1>6, <1>7, <1>10
  <2>2. g[code] = SumOf(e)
    BY <1>7
  <2>. HIDE DEF f, e, T
  <2>3. SumOver(each, f) = SumOver(T, f)
    BY ONLY <1>2, <2>1, SumWithin
  <2>4. SumOf(e) = SumOver(T, f)
    <3>1. IsFiniteSet(T) /\ \A k \in T : f[k] \in Int
      BY <1>2, <2>1, FS_Subset
    <3>. QED BY ONLY <3>1, <2>1, SumOfPart
  <2>. QED BY <2>2, <2>3, <2>4 DEF f
<1>13. SumOver(each, rows) = SumOver(names, g)
  <2>1. \A k \in each : \A code \in names :
          row[k][code] \in Int /\ col[code][k] = row[k][code]
    BY <1>10
  <2>2. \A k \in each : rows[k] = SumOver(names, row[k])
    BY <1>11
  <2>3. \A code \in names : g[code] = SumOver(each, col[code])
    BY <1>12
  <2>4. IsTable(each, names, row, col, rows, g)
    BY ONLY <2>1, <2>2, <2>3 DEF IsTable
  <2>. QED BY ONLY <1>2, <1>9, <2>4, SumExchange
<1>14. SumOf(g) = SumOver(names, g)
  BY <1>8 DEF SumOf
<1>15. \A code \in names : g[code] \in Nat /\ \A k \in each : col[code][k] <= g[code]
  <2>. SUFFICES ASSUME NEW code \in names
                PROVE  g[code] \in Nat /\ \A k \in each : col[code][k] <= g[code]
    OBVIOUS
  <2>. DEFINE f == col[code]
  <2>1. \A k \in each : f[k] \in Nat
    BY <1>10
  <2>2. g[code] = SumOver(each, f)
    BY <1>12
  <2>. HIDE DEF f
  <2>3. SumOver(each, f) \in Nat
    BY <1>2, <2>1, SumNat
  <2>4. \A k \in each : f[k] <= SumOver(each, f)
    BY <1>2, <2>1, PartOfSum
  <2>. QED BY <2>2, <2>3, <2>4 DEF f
<1>16. \A k \in each : \A code \in DOMAIN totals[k] : code \in names /\ totals[k][code] <= g[code]
  BY <1>5, <1>6, <1>15
<1>17. IsTally(g)
  BY <1>8, <1>9, <1>15 DEF IsTally
<1>. QED BY <1>3, <1>4, <1>8, <1>13, <1>14, <1>16, <1>17

\* Of finitely many reasons one saved most.
LEMMA LargestOf ==
  ASSUME NEW reasons, NEW codes, IsFiniteSet(codes), codes # {},
         \A code \in codes : reasons[code] \in Nat
  PROVE  /\ Largest(reasons, codes) \in codes
         /\ \A code \in codes : reasons[code] <= reasons[Largest(reasons, codes)]
<1>. DEFINE Holds == {T \in SUBSET codes :
                       T # {} => \E top \in T : \A code \in T : reasons[code] <= reasons[top]}
<1>1. {} \in Holds
  OBVIOUS
<1>2. ASSUME NEW T \in SUBSET codes, NEW x \in codes \ T, T \in Holds PROVE T \cup {x} \in Holds
  <2>1. CASE T = {}
    BY <2>1
  <2>2. CASE T # {}
    <3>1. PICK top \in T : \A code \in T : reasons[code] <= reasons[top]
      BY <1>2, <2>2
    <3>2. CASE reasons[x] <= reasons[top]
      BY <3>1, <3>2
    <3>3. CASE ~(reasons[x] <= reasons[top])
      <4>1. \A code \in T \cup {x} : reasons[code] <= reasons[x]
        BY <3>1, <3>3
      <4>. QED BY <4>1
    <3>. QED BY <3>2, <3>3
  <2>. QED BY <2>1, <2>2
<1>3. codes \in Holds
  <2>. HIDE DEF Holds
  <2>. QED BY <1>1, <1>2, UpToSet
<1>4. \E top \in codes : \A code \in codes : reasons[code] <= reasons[top]
  BY <1>3
<1>. QED BY <1>4 DEF Largest

\* Taking the largest away, again and again.
LEMMA LeftIsFold ==
  ASSUME NEW reasons, IsTally(reasons), NEW N, N = Cardinality(DOMAIN reasons),
         NEW left, left = Left(reasons)
  PROVE  /\ left[0] = DOMAIN reasons
         /\ \A n \in 1 .. N : left[n] = left[n - 1] \ {Largest(reasons, left[n - 1])}
<1>. DEFINE codes == DOMAIN reasons
            S == SUBSET codes
            step == [x \in S \X (1 .. N) |-> x[1] \ {Largest(reasons, x[1])}]
            taken[n \in 0 .. N] ==
              IF n = 0 THEN codes ELSE taken[n - 1] \ {Largest(reasons, taken[n - 1])}
<1>1. N \in Nat
  BY FS_CardinalityType DEF IsTally
<1>2. step \in Steps(S, N) /\ codes \in S
  BY DEF Steps
<1>3. \A T \in S : \A n \in 1 .. N : step[<<T, n>>] = T \ {Largest(reasons, T)}
  OBVIOUS
<1>. HIDE DEF step
<1>4. PICK f : IsFold(f, S, N, codes, step)
  <2>. HIDE DEF S, codes
  <2>. QED BY ONLY <1>1, <1>2, FoldExists
<1>5. /\ f \in [0 .. N -> S] /\ f[0] = codes
      /\ \A n \in 1 .. N : f[n] = step[<<f[n - 1], n>>]
  BY <1>4 DEF IsFold
<1>6. \A n \in 1 .. N : f[n] = f[n - 1] \ {Largest(reasons, f[n - 1])}
  <2>. TAKE n \in 1 .. N
  <2>1. n - 1 \in 0 .. N
    BY <1>1
  <2>2. f[n - 1] \in S
    BY <1>5, <2>1
  <2>. HIDE DEF S
  <2>. QED BY <1>3, <1>5, <2>2
<1>7. f = [n \in 0 .. N |->
             IF n = 0 THEN codes ELSE f[n - 1] \ {Largest(reasons, f[n - 1])}]
  <2>1. f = [n \in 0 .. N |-> f[n]]
    BY <1>5
  <2>2. \A n \in 0 .. N : n = 0 \/ n \in 1 .. N
    BY <1>1
  <2>3. \A n \in 0 .. N : f[n] =
          IF n = 0 THEN codes ELSE f[n - 1] \ {Largest(reasons, f[n - 1])}
    BY <1>1, <1>5, <1>6, <2>2
  <2>. QED BY <2>1, <2>3
<1>8. taken = [n \in 0 .. N |->
                 IF n = 0 THEN codes ELSE taken[n - 1] \ {Largest(reasons, taken[n - 1])}]
  BY <1>7
<1>9. left = taken
  BY DEF Left
<1>. HIDE DEF taken, codes
<1>10. left = [n \in 0 .. N |->
                 IF n = 0 THEN codes ELSE left[n - 1] \ {Largest(reasons, left[n - 1])}]
  BY <1>8, <1>9
<1>11. left[0] = codes
  BY <1>1, <1>10
<1>12. ASSUME NEW n \in 1 .. N
       PROVE  left[n] = left[n - 1] \ {Largest(reasons, left[n - 1])}
  <2>1. n \in 0 .. N /\ n # 0
    BY <1>1
  <2>. QED BY <1>10, <2>1
<1>. QED BY <1>11, <1>12 DEF codes

\* top[n] is taken n-th, from the largest down; left[n] is what is then left.
IsRanking(left, top, reasons, N) ==
  /\ N \in Nat /\ left[0] = DOMAIN reasons
  /\ \A n \in 0 .. N : left[n] \subseteq DOMAIN reasons /\ Cardinality(left[n]) = N - n
  /\ \A n \in 1 .. N :
       /\ top[n] \in left[n - 1] /\ left[n] = left[n - 1] \ {top[n]}
       /\ \A code \in left[n - 1] : reasons[code] <= reasons[top[n]]

LEMMA LeftRanks ==
  ASSUME NEW reasons, IsTally(reasons), NEW N, N = Cardinality(DOMAIN reasons),
         NEW left, left = Left(reasons),
         NEW top, \A n \in 1 .. N : top[n] = Largest(reasons, left[n - 1])
  PROVE  IsRanking(left, top, reasons, N)
<1>. DEFINE codes == DOMAIN reasons
            T == {n \in 0 .. N : left[n] \subseteq codes /\ Cardinality(left[n]) = N - n}
<1>1. N \in Nat /\ IsFiniteSet(codes) /\ \A code \in codes : reasons[code] \in Nat
  BY FS_CardinalityType DEF IsTally
<1>2. /\ left[0] = codes
      /\ \A n \in 1 .. N : left[n] = left[n - 1] \ {top[n]}
  BY LeftIsFold
<1>3. 0 \in T
  BY <1>1, <1>2
<1>. HIDE DEF codes
<1>4. ASSUME NEW n \in 1 .. N, n - 1 \in T
      PROVE  /\ top[n] \in left[n - 1]
             /\ \A code \in left[n - 1] : reasons[code] <= reasons[top[n]]
             /\ n \in T
  <2>. DEFINE U == left[n - 1]
  <2>1. U \subseteq codes /\ Cardinality(U) = N - n + 1 /\ N - n + 1 # 0
    BY <1>1, <1>4
  <2>2. IsFiniteSet(U)
    BY <1>1, <2>1, FS_Subset
  <2>. HIDE DEF U
  <2>3. U # {}
    BY <2>1, FS_EmptySet
  <2>4. top[n] = Largest(reasons, U)
    BY DEF U
  <2>5. \A code \in U : reasons[code] \in Nat
    BY <1>1, <2>1
  <2>6. top[n] \in U /\ \A code \in U : reasons[code] <= reasons[top[n]]
    BY <2>2, <2>3, <2>4, <2>5, LargestOf
  <2>7. left[n] = U \ {top[n]}
    BY <1>2 DEF U
  <2>8. Cardinality(U \ {top[n]}) = Cardinality(U) - 1
    BY <2>2, <2>6, FS_RemoveElement
  <2>9. n \in T
    <3>1. n \in 0 .. N /\ Cardinality(left[n]) = N - n
      BY <1>1, <2>1, <2>7, <2>8
    <3>. QED BY <2>1, <2>7, <3>1
  <2>. QED BY <2>6, <2>9 DEF U
<1>5. 0 .. N \subseteq T
  <2>1. \A n \in 1 .. N : n - 1 \in T => n \in T
    BY <1>4
  <2>. HIDE DEF T
  <2>. QED BY <1>1, <1>3, <2>1, UpTo
<1>6. \A n \in 1 .. N : n - 1 \in T
  BY <1>1, <1>5
<1>7. \A n \in 0 .. N : left[n] \subseteq codes /\ Cardinality(left[n]) = N - n
  BY <1>5
<1>. QED BY <1>1, <1>2, <1>4, <1>6, <1>7 DEF IsRanking, codes

\* What was taken and what is left come to what there was.
LEMMA RankingAddsUp ==
  ASSUME NEW reasons, IsTally(reasons), NEW left, NEW top, NEW N,
         IsRanking(left, top, reasons, N),
         NEW tok, \A n \in 1 .. N : tok[n] = reasons[top[n]]
  PROVE  /\ \A n \in 1 .. N : tok[n] \in Nat
         /\ \A n \in 0 .. N :
              SumOver(1 .. n, tok) + SumOver(left[n], reasons) = SumOf(reasons)
<1>. DEFINE codes == DOMAIN reasons
            T == {n \in 0 .. N :
                    SumOver(1 .. n, tok) + SumOver(left[n], reasons) = SumOf(reasons)}
<1>1. /\ N \in Nat /\ left[0] = codes /\ IsFiniteSet(codes)
      /\ \A code \in codes : reasons[code] \in Nat
      /\ \A n \in 0 .. N : left[n] \subseteq codes
      /\ \A n \in 1 .. N : top[n] \in left[n - 1] /\ left[n] = left[n - 1] \ {top[n]}
  BY DEF IsRanking, IsTally
<1>2. SumOf(reasons) = SumOver(codes, reasons) /\ SumOf(reasons) \in Int
  <2>1. SumOf(reasons) = SumOver(codes, reasons)
    BY DEF SumOf
  <2>. HIDE DEF codes
  <2>2. \A code \in codes : reasons[code] \in Int
    BY <1>1
  <2>. QED BY <1>1, <2>1, <2>2, SumInt
<1>. HIDE DEF codes
<1>3. \A n \in 1 .. N : n - 1 \in 0 .. N /\ n \in 0 .. N /\ tok[n] \in Nat
  <2>. TAKE n \in 1 .. N
  <2>1. n - 1 \in 0 .. N /\ n \in 0 .. N
    BY <1>1
  <2>. QED BY <1>1, <2>1
<1>4. 0 \in T
  <2>1. 1 .. 0 = {}
    OBVIOUS
  <2>2. SumOver(1 .. 0, tok) = 0
    BY <2>1, SumEmpty
  <2>. QED BY <1>1, <1>2, <2>2
<1>5. ASSUME NEW n \in 1 .. N, n - 1 \in T PROVE n \in T
  <2>. DEFINE A == 1 .. n  B == 1 .. n - 1  U == left[n - 1]  V == left[n]
  <2>1. n \in A /\ A \ {n} = B /\ B \subseteq A /\ A \subseteq 1 .. N
    BY <1>1
  <2>2. IsFiniteSet(A) /\ \A k \in A : tok[k] \in Int
    <3>1. n \in Int /\ 1 \in Int
      BY <1>1
    <3>2. IsFiniteSet(A)
      BY ONLY <3>1, FS_Interval
    <3>3. \A k \in A : tok[k] \in Int
      BY <1>3, <2>1
    <3>. QED BY <3>2, <3>3
  <2>3. U \subseteq codes /\ V = U \ {top[n]} /\ top[n] \in U
    BY <1>1, <1>3
  <2>4. SumOver(B, tok) + SumOver(U, reasons) = SumOf(reasons)
    BY <1>5
  <2>5. tok[n] = reasons[top[n]] /\ tok[n] \in Nat
    BY <1>3
  <2>. HIDE DEF A, B, U, V
  <2>6. IsFiniteSet(U) /\ \A code \in U : reasons[code] \in Int
    BY <1>1, <2>3, FS_Subset
  <2>7. SumOver(A, tok) = tok[n] + SumOver(B, tok)
    BY <2>1, <2>2, SumElement
  <2>8. SumOver(U, reasons) = reasons[top[n]] + SumOver(V, reasons)
    BY <2>3, <2>6, SumElement
  <2>9. SumOver(B, tok) \in Int
    <3>1. IsFiniteSet(B) /\ \A k \in B : tok[k] \in Int
      BY <2>1, <2>2, FS_Subset
    <3>. QED BY <3>1, SumInt
  <2>10. SumOver(V, reasons) \in Int
    <3>1. IsFiniteSet(V) /\ \A code \in V : reasons[code] \in Int
      BY <2>3, <2>6, FS_RemoveElement
    <3>. QED BY <3>1, SumInt
  <2>11. SumOver(A, tok) + SumOver(V, reasons) = SumOf(reasons)
    BY <2>4, <2>5, <2>7, <2>8, <2>9, <2>10
  <2>. QED BY <1>3, <2>11 DEF A, V
<1>6. 0 .. N \subseteq T
  <2>. HIDE DEF T
  <2>. QED BY <1>1, <1>4, <1>5, UpTo
<1>. QED BY <1>3, <1>6

\* Later is no larger, and what is left is no larger than what was taken.
LEMMA RankingDescends ==
  ASSUME NEW reasons, NEW left, NEW top, NEW N, IsRanking(left, top, reasons, N),
         NEW n \in 1 .. N
  PROVE  /\ top[n] \in DOMAIN reasons
         /\ \A code \in left[n] : reasons[code] <= reasons[top[n]]
         /\ n + 1 \in 1 .. N => reasons[top[n + 1]] <= reasons[top[n]]
         /\ \A k \in n .. N : left[k] \subseteq left[n]
<1>. DEFINE M == N - n
            T == {k \in 0 .. M : left[n + k] \subseteq left[n]}
<1>1. /\ N \in Nat /\ n \in Nat /\ M \in Nat /\ n - 1 \in 0 .. N
      /\ left[n - 1] \subseteq DOMAIN reasons
      /\ top[n] \in left[n - 1] /\ left[n] = left[n - 1] \ {top[n]}
      /\ \A code \in left[n - 1] : reasons[code] <= reasons[top[n]]
  <2>1. N \in Nat
    BY DEF IsRanking
  <2>2. n - 1 \in 0 .. N /\ n \in Nat /\ M \in Nat
    BY <2>1
  <2>. QED BY <2>1, <2>2 DEF IsRanking
<1>2. \A code \in left[n] : reasons[code] <= reasons[top[n]]
  BY <1>1
<1>3. n + 1 \in 1 .. N => reasons[top[n + 1]] <= reasons[top[n]]
  <2>. SUFFICES ASSUME n + 1 \in 1 .. N PROVE reasons[top[n + 1]] <= reasons[top[n]]
    OBVIOUS
  <2>1. top[n + 1] \in left[(n + 1) - 1]
    BY DEF IsRanking
  <2>2. (n + 1) - 1 = n
    BY <1>1
  <2>. QED BY <1>2, <2>1, <2>2
<1>4. 0 \in T
  BY <1>1
<1>5. ASSUME NEW k \in 1 .. M, k - 1 \in T PROVE k \in T
  <2>1. n + k \in 1 .. N /\ (n + k) - 1 = n + (k - 1) /\ k \in 0 .. M
    BY <1>1
  <2>2. left[n + k] \subseteq left[(n + k) - 1]
    BY <2>1 DEF IsRanking
  <2>3. left[n + (k - 1)] \subseteq left[n]
    BY <1>5
  <2>. QED BY <2>1, <2>2, <2>3
<1>6. 0 .. M \subseteq T
  <2>. HIDE DEF T, M
  <2>. QED BY <1>1, <1>4, <1>5, UpTo
<1>7. \A k \in n .. N : left[k] \subseteq left[n]
  <2>. TAKE k \in n .. N
  <2>1. k - n \in 0 .. M /\ n + (k - n) = k
    BY <1>1
  <2>. QED BY <1>6, <2>1
<1>. QED BY <1>1, <1>2, <1>3, <1>7

\* TopReasons shows the largest reasons from the largest down, and any that is left
\* out is no larger than those shown; they come to no more than all reasons do, and
\* to all of it unless they are as many as may be shown.
LEMMA TopReasonsAre ==
  ASSUME NEW reasons, IsTally(reasons), NEW shown, shown = TopReasons(reasons),
         NEW told, told = SumOf([n \in DOMAIN shown |-> shown[n].tokens])
  PROVE  /\ \A n \in DOMAIN shown : shown[n].tokens \in Nat
         /\ \A n \in 1 .. Len(shown) - 1 : shown[n].tokens >= shown[n + 1].tokens
         /\ \A code \in DOMAIN reasons :
              \/ \E n \in DOMAIN shown : shown[n].code = code
              \/ /\ Len(shown) = MaxReasons
                 /\ \A n \in DOMAIN shown : shown[n].tokens >= reasons[code]
         /\ told <= SumOf(reasons)
         /\ Len(shown) < MaxReasons => told = SumOf(reasons)
<1>. DEFINE codes == DOMAIN reasons
            N == Cardinality(codes)
            M == Min({MaxReasons, N})
            left == Left(reasons)
            top == [n \in 1 .. N |-> Largest(reasons, left[n - 1])]
            tok == [n \in 1 .. N |-> reasons[top[n]]]
<1>1. N \in Nat /\ IsFiniteSet(codes) /\ \A code \in codes : reasons[code] \in Nat
  BY FS_CardinalityType DEF IsTally
<1>2. M = (IF MaxReasons <= N THEN MaxReasons ELSE N) /\ M \in Nat /\ M <= N
  <2>. HIDE DEF N
  <2>1. MaxReasons \in Int /\ N \in Int
    BY <1>1, ReasonsAssumption
  <2>2. M = IF MaxReasons <= N THEN MaxReasons ELSE N
    BY <2>1, MinMaxOfTwo
  <2>. QED BY <1>1, <2>2, ReasonsAssumption
<1>3. shown = [n \in 1 .. M |-> [code |-> Largest(reasons, left[n - 1]),
                                tokens |-> reasons[Largest(reasons, left[n - 1])]]]
  BY DEF TopReasons
<1>. HIDE DEF M, left
<1>4. IsRanking(left, top, reasons, N)
  <2>1. \A n \in 1 .. N : top[n] = Largest(reasons, left[n - 1])
    OBVIOUS
  <2>. HIDE DEF N, top
  <2>. QED BY <2>1, LeftRanks DEF N, left
<1>. HIDE DEF codes, N
<1>5. \A n \in 1 .. M :
        n \in 1 .. N /\ shown[n].code = top[n] /\ shown[n].tokens = reasons[top[n]]
  <2>. TAKE n \in 1 .. M
  <2>1. n \in 1 .. N
    BY <1>1, <1>2
  <2>. QED BY <1>3, <2>1
<1>6. \A n \in 1 .. N : tok[n] = reasons[top[n]]
  OBVIOUS
<1>. HIDE DEF top, tok
<1>7. Len(shown) = M /\ DOMAIN shown = 1 .. M
  <2>1. shown = [n \in 1 .. M |-> shown[n]] /\ DOMAIN shown = 1 .. M
    BY <1>3
  <2>. QED BY <1>2, <2>1, SeqEach
<1>8. \A n \in 1 .. N : tok[n] \in Nat
  BY <1>4, <1>6, RankingAddsUp
<1>9. M \in 0 .. N
  BY <1>1, <1>2
<1>10. SumOver(1 .. M, tok) + SumOver(left[M], reasons) = SumOf(reasons)
  BY <1>4, <1>6, <1>9, RankingAddsUp
<1>11. told = SumOver(1 .. M, tok) /\ told \in Nat
  <2>. DEFINE A == 1 .. M  f == [n \in DOMAIN shown |-> shown[n].tokens]
  <2>1. \A n \in A : tok[n] \in Nat /\ f[n] = tok[n]
    BY <1>5, <1>6, <1>7, <1>8
  <2>2. DOMAIN f = A
    BY <1>7
  <2>3. IsFiniteSet(A)
    <3>1. 1 \in Int /\ M \in Int
      BY <1>2
    <3>. QED BY ONLY <3>1, FS_Interval
  <2>4. told = SumOf(f)
    OBVIOUS
  <2>. HIDE DEF A, f
  <2>5. \A n \in A : tok[n] \in Int
    BY <2>1
  <2>6. SumOf(f) = SumOver(A, tok)
    BY <2>1, <2>2, <2>3, <2>5, SumOfPart
  <2>7. SumOver(A, tok) \in Nat
    BY <2>1, <2>3, SumNat
  <2>. QED BY <2>4, <2>6, <2>7 DEF A
<1>12. /\ left[M] \subseteq codes /\ IsFiniteSet(left[M])
       /\ Cardinality(left[M]) = N - M /\ left[0] = codes
  <2>1. left[M] \subseteq codes /\ Cardinality(left[M]) = N - M /\ left[0] = codes
    BY <1>4, <1>9 DEF IsRanking, codes
  <2>. QED BY <1>1, <2>1, FS_Subset
<1>13. SumOver(left[M], reasons) \in Nat
  <2>1. \A code \in left[M] : reasons[code] \in Nat
    BY <1>1, <1>12
  <2>. QED BY <1>12, <2>1, SumNat
<1>14. told <= SumOf(reasons)
  BY <1>10, <1>11, <1>13
<1>15. Len(shown) < MaxReasons => told = SumOf(reasons)
  <2>. SUFFICES ASSUME Len(shown) < MaxReasons PROVE told = SumOf(reasons)
    OBVIOUS
  <2>1. N - M = 0
    BY <1>1, <1>2, <1>7, ReasonsAssumption
  <2>2. left[M] = {}
    BY <1>12, <2>1, FS_EmptySet
  <2>3. SumOver(left[M], reasons) = 0
    BY <2>2, SumEmpty
  <2>. QED BY <1>10, <1>11, <2>3
<1>16. ASSUME NEW n \in 1 .. Len(shown) - 1 PROVE shown[n].tokens >= shown[n + 1].tokens
  <2>. Len(shown) = M
    BY <1>7
  <2>0. n \in 1 .. M - 1
    OBVIOUS
  <2>1. n \in 1 .. M /\ n + 1 \in 1 .. M
    <3>1. M \in Nat
      BY <1>2
    <3>. QED BY ONLY <2>0, <3>1
  <2>2. n \in 1 .. N /\ n + 1 \in 1 .. N
    BY <1>5, <2>1
  <2>3. reasons[top[n + 1]] <= reasons[top[n]]
    BY <1>4, <2>2, RankingDescends
  <2>4. /\ top[n] \in DOMAIN reasons /\ top[n + 1] \in DOMAIN reasons
    BY <1>4, <2>2, RankingDescends
  <2>. QED BY <1>1, <1>5, <2>1, <2>3, <2>4 DEF codes
<1>17. ASSUME NEW code \in codes, code \in left[M]
       PROVE  /\ Len(shown) = MaxReasons
              /\ \A n \in DOMAIN shown : shown[n].tokens >= reasons[code]
  <2>1. left[M] # {} /\ N - M # 0
    BY <1>12, <1>17, FS_EmptySet
  <2>2. Len(shown) = MaxReasons
    BY <1>1, <1>2, <1>7, <2>1
  <2>3. ASSUME NEW n \in 1 .. M PROVE shown[n].tokens >= reasons[code]
    <3>1. n \in 1 .. N /\ M \in n .. N
      BY <1>1, <1>2, <1>5
    <3>2. /\ left[M] \subseteq left[n] /\ top[n] \in DOMAIN reasons
          /\ \A other \in left[n] : reasons[other] <= reasons[top[n]]
      BY <1>4, <3>1, RankingDescends
    <3>3. reasons[code] <= reasons[top[n]] /\ top[n] \in codes
      BY <1>17, <3>2 DEF codes
    <3>. QED BY <1>1, <1>5, <3>3
  <2>. QED BY <1>7, <2>2, <2>3
<1>18. ASSUME NEW code \in codes, code \notin left[M]
       PROVE  \E n \in DOMAIN shown : shown[n].code = code
  <2>. DEFINE T == {n \in 0 .. M : code \in left[n]}
  <2>1. 0 \in T
    BY <1>2, <1>12
  <2>2. M \notin T
    BY <1>18
  <2>3. PICK n \in 1 .. M : n - 1 \in T /\ n \notin T
    <3>. HIDE DEF T
    <3>1. (\A n \in 1 .. M : n - 1 \in T => n \in T) => 0 .. M \subseteq T
      BY <1>2, <2>1, UpTo
    <3>. QED BY <1>2, <2>2, <3>1
  <2>4. code \in left[n - 1] /\ code \notin left[n]
    BY <1>2, <2>3
  <2>5. n \in 1 .. N /\ shown[n].code = top[n]
    BY <1>5
  <2>6. left[n] = left[n - 1] \ {top[n]}
    BY <1>4, <2>5 DEF IsRanking
  <2>. QED BY <1>7, <2>4, <2>5, <2>6
<1>19. \A code \in codes :
         \/ \E n \in DOMAIN shown : shown[n].code = code
         \/ /\ Len(shown) = MaxReasons
            /\ \A n \in DOMAIN shown : shown[n].tokens >= reasons[code]
  BY <1>17, <1>18
<1>20. \A n \in DOMAIN shown : shown[n].tokens \in Nat
  BY <1>5, <1>6, <1>7, <1>8
<1>. QED BY <1>14, <1>15, <1>16, <1>19, <1>20 DEF codes

\* What aggregateReports shows of reports whose parts add up.
LEMMA ReportsAddUp ==
  ASSUME NEW stored, IsSeq(stored), \A k \in 1 .. Len(stored) : GoodReport(stored[k])
  PROVE  LET sum == Aggregate(stored)
             saved == sum.compressionSavings + sum.deterministicDropSavings
                        + sum.semanticDropSavings
             shown == sum.topReasons
             told == SumOf([n \in DOMAIN shown |-> shown[n].tokens])
         IN  /\ \A n \in 1 .. Len(shown) - 1 : shown[n].tokens >= shown[n + 1].tokens
             /\ \A k \in DOMAIN stored : \A code \in DOMAIN stored[k].reasonCodeTotals :
                  \/ \E n \in DOMAIN shown : shown[n].code = code
                  \/ /\ Len(shown) = MaxReasons
                     /\ \A n \in DOMAIN shown :
                          shown[n].tokens >= stored[k].reasonCodeTotals[code]
             /\ told <= saved
             /\ Len(shown) < MaxReasons => told = saved
             /\ sum.potentialSavings <= saved
             /\ (\A k \in DOMAIN stored : stored[k].agent = "codex")
                  => sum.potentialSavings = saved
             /\ sum.unsafeDropCount = 0
<1>. DEFINE each == DOMAIN stored
            sum == Aggregate(stored)
            obs == [k \in each |-> stored[k].originalTokens]
            eff == [k \in each |-> stored[k].effectiveTokens]
            comp == [k \in each |-> stored[k].compressionSavings]
            drops == [k \in each |-> stored[k].dropSavings]
            sem == [k \in each |-> stored[k].semanticDropSavings]
            unsafe == [k \in each |-> stored[k].unsafeDropCount]
            rows == [k \in each |-> stored[k].compressionSavings + stored[k].dropSavings]
            left == [k \in each |-> eff[k] + rows[k]]
            reduced == SumOf(obs) - SumOf(eff)
            ruled == SumOf(drops) - SumOf(sem)
<1>1. Len(stored) \in Nat /\ each = 1 .. Len(stored)
  BY SeqLength
<1>2. IsFiniteSet(each)
  BY <1>1, FS_Interval
<1>3. /\ sum.potentialSavings = Max({0, reduced})
      /\ sum.compressionSavings = SumOf(comp)
      /\ sum.deterministicDropSavings = Max({0, ruled})
      /\ sum.semanticDropSavings = SumOf(sem)
      /\ sum.unsafeDropCount = SumOf(unsafe)
  BY DEF Aggregate
<1>4. /\ SumOf(obs) = SumOver(each, obs) /\ SumOf(eff) = SumOver(each, eff)
      /\ SumOf(comp) = SumOver(each, comp) /\ SumOf(drops) = SumOver(each, drops)
      /\ SumOf(sem) = SumOver(each, sem) /\ SumOf(unsafe) = SumOver(each, unsafe)
  BY DEF SumOf
<1>5. \A k \in each : rows[k] = stored[k].compressionSavings + stored[k].dropSavings
  OBVIOUS
<1>6. \A k \in each :
        /\ obs[k] \in Int /\ eff[k] \in Int /\ comp[k] \in Nat /\ drops[k] \in Nat
        /\ sem[k] \in Nat /\ sem[k] <= drops[k]
        /\ rows[k] = comp[k] + drops[k] /\ left[k] = eff[k] + rows[k]
        /\ obs[k] <= left[k] /\ unsafe[k] = 0
        /\ stored[k].agent = "codex" => obs[k] = left[k]
  <2>. SUFFICES ASSUME NEW k \in each
                PROVE  /\ obs[k] \in Int /\ eff[k] \in Int /\ comp[k] \in Nat
                       /\ drops[k] \in Nat /\ sem[k] \in Nat /\ sem[k] <= drops[k]
                       /\ rows[k] = comp[k] + drops[k] /\ left[k] = eff[k] + rows[k]
                       /\ obs[k] <= left[k] /\ unsafe[k] = 0
                       /\ stored[k].agent = "codex" => obs[k] = left[k]
    OBVIOUS
  <2>1. GoodReport(stored[k])
    BY <1>1
  <2>2. /\ obs[k] = stored[k].originalTokens /\ eff[k] = stored[k].effectiveTokens
        /\ comp[k] = stored[k].compressionSavings /\ drops[k] = stored[k].dropSavings
        /\ sem[k] = stored[k].semanticDropSavings /\ unsafe[k] = stored[k].unsafeDropCount
        /\ rows[k] = comp[k] + drops[k] /\ left[k] = eff[k] + rows[k]
    OBVIOUS
  <2>. HIDE DEF obs, eff, comp, drops, sem, unsafe, rows, left
  <2>. QED BY <2>1, <2>2 DEF GoodReport
<1>. DEFINE reasons == Reasons(stored)
            shown == sum.topReasons
            told == SumOf([n \in DOMAIN shown |-> shown[n].tokens])
<1>7. /\ IsTally(reasons) /\ SumOf(reasons) = SumOver(each, rows)
      /\ \A k \in each : \A code \in DOMAIN stored[k].reasonCodeTotals :
           /\ code \in DOMAIN reasons
           /\ stored[k].reasonCodeTotals[code] <= reasons[code]
           /\ stored[k].reasonCodeTotals[code] \in Nat
  <2>1. each = DOMAIN stored
    OBVIOUS
  <2>2. \A k \in each : IsTally(stored[k].reasonCodeTotals)
    BY <1>1 DEF GoodReport
  <2>. HIDE DEF rows, sum, each
  <2>3. /\ IsTally(Reasons(stored)) /\ SumOf(Reasons(stored)) = SumOver(each, rows)
        /\ \A k \in each : \A code \in DOMAIN stored[k].reasonCodeTotals :
             /\ code \in DOMAIN Reasons(stored)
             /\ stored[k].reasonCodeTotals[code] <= Reasons(stored)[code]
    BY <1>5, <2>1, ReasonsAddUp
  <2>. QED BY <2>2, <2>3 DEF IsTally
<1>8. shown = TopReasons(reasons)
  BY DEF Aggregate
<1>9. told = SumOf([n \in DOMAIN shown |-> shown[n].tokens])
  OBVIOUS
<1>. HIDE DEF reasons, shown, told
<1>10. /\ \A n \in DOMAIN shown : shown[n].tokens \in Nat
       /\ \A n \in 1 .. Len(shown) - 1 : shown[n].tokens >= shown[n + 1].tokens
       /\ \A code \in DOMAIN reasons :
            \/ \E n \in DOMAIN shown : shown[n].code = code
            \/ /\ Len(shown) = MaxReasons
               /\ \A n \in DOMAIN shown : shown[n].tokens >= reasons[code]
       /\ told <= SumOf(reasons)
       /\ Len(shown) < MaxReasons => told = SumOf(reasons)
  BY ONLY <1>7, <1>8, <1>9, TopReasonsAre
<1>11. \A k \in each : \A code \in DOMAIN stored[k].reasonCodeTotals :
         \/ \E n \in DOMAIN shown : shown[n].code = code
         \/ /\ Len(shown) = MaxReasons
            /\ \A n \in DOMAIN shown : shown[n].tokens >= stored[k].reasonCodeTotals[code]
  <2>. SUFFICES ASSUME NEW k \in each, NEW code \in DOMAIN stored[k].reasonCodeTotals,
                       ~ \E n \in DOMAIN shown : shown[n].code = code
                PROVE  /\ Len(shown) = MaxReasons
                       /\ \A n \in DOMAIN shown :
                            shown[n].tokens >= stored[k].reasonCodeTotals[code]
    OBVIOUS
  <2>. DEFINE own == stored[k].reasonCodeTotals[code]
  <2>1. code \in DOMAIN reasons /\ own <= reasons[code] /\ own \in Nat
    BY <1>7
  <2>2. reasons[code] \in Nat
    BY <1>7, <2>1 DEF IsTally
  <2>. HIDE DEF own
  <2>3. Len(shown) = MaxReasons /\ \A n \in DOMAIN shown : shown[n].tokens >= reasons[code]
    BY <1>10, <2>1
  <2>4. \A n \in DOMAIN shown : shown[n].tokens >= own
    BY <1>10, <2>1, <2>2, <2>3
  <2>. QED BY <2>3, <2>4 DEF own
<1>12. /\ \A k \in DOMAIN stored : \A code \in DOMAIN stored[k].reasonCodeTotals :
            \/ \E n \in DOMAIN shown : shown[n].code = code
            \/ /\ Len(shown) = MaxReasons
               /\ \A n \in DOMAIN shown :
                    shown[n].tokens >= stored[k].reasonCodeTotals[code]
  BY <1>11
<1>13. (\A k \in DOMAIN stored : stored[k].agent = "codex") <=>
        \A k \in each : stored[k].agent = "codex"
  OBVIOUS
<1>. HIDE DEF each, sum, obs, eff, comp, drops, sem, unsafe, rows, left
<1>14. /\ SumOver(each, obs) \in Int /\ SumOver(each, eff) \in Int
      /\ SumOver(each, comp) \in Nat /\ SumOver(each, drops) \in Nat
      /\ SumOver(each, sem) \in Nat /\ SumOver(each, unsafe) = 0
  BY ONLY <1>2, <1>6, SumInt, SumNat, SumZero
<1>15. SumOver(each, rows) = SumOver(each, comp) + SumOver(each, drops)
  <2>1. \A k \in each : comp[k] \in Int /\ drops[k] \in Int /\ rows[k] = comp[k] + drops[k]
    BY <1>6
  <2>. QED BY ONLY <1>2, <2>1, SumPlus
<1>16. SumOver(each, left) = SumOver(each, eff) + SumOver(each, rows)
  <2>1. \A k \in each : eff[k] \in Int /\ rows[k] \in Int /\ left[k] = eff[k] + rows[k]
    BY <1>6
  <2>. QED BY ONLY <1>2, <2>1, SumPlus
<1>17. SumOver(each, sem) <= SumOver(each, drops)
  <2>1. \A k \in each : sem[k] \in Int /\ drops[k] \in Int /\ sem[k] <= drops[k]
    BY <1>6
  <2>. QED BY ONLY <1>2, <2>1, SumMonotone
<1>18. SumOver(each, obs) <= SumOver(each, left)
  <2>1. \A k \in each : obs[k] \in Int /\ left[k] \in Int /\ obs[k] <= left[k]
    BY <1>6
  <2>. QED BY ONLY <1>2, <2>1, SumMonotone
<1>19. (\A k \in each : stored[k].agent = "codex") => SumOver(each, obs) = SumOver(each, left)
  <2>. SUFFICES ASSUME \A k \in each : stored[k].agent = "codex"
                PROVE  SumOver(each, obs) = SumOver(each, left)
    OBVIOUS
  <2>1. \A k \in each : left[k] \in Int /\ obs[k] = left[k]
    BY <1>6
  <2>. QED BY ONLY <1>2, <2>1, SumSame
<1>20. /\ reduced = SumOver(each, obs) - SumOver(each, eff)
       /\ ruled = SumOver(each, drops) - SumOver(each, sem)
       /\ reduced \in Int /\ ruled \in Int
  BY <1>4, <1>14
<1>. HIDE DEF reduced, ruled
<1>21. /\ Max({0, reduced}) = IF 0 >= reduced THEN 0 ELSE reduced
       /\ Max({0, ruled}) = IF 0 >= ruled THEN 0 ELSE ruled
  <2>1. 0 \in Int
    OBVIOUS
  <2>. QED BY ONLY <1>20, <2>1, MinMaxOfTwo
<1>. DEFINE saved == sum.compressionSavings + sum.deterministicDropSavings
                       + sum.semanticDropSavings
<1>22. sum.deterministicDropSavings = SumOver(each, drops) - SumOver(each, sem)
  BY <1>3, <1>14, <1>17, <1>20, <1>21
<1>23. saved = SumOver(each, rows)
  BY <1>3, <1>4, <1>14, <1>15, <1>22
<1>24. saved \in Nat
  BY <1>14, <1>15, <1>23
<1>25. reduced <= saved
  BY <1>14, <1>15, <1>16, <1>18, <1>20, <1>23
<1>26. (\A k \in each : stored[k].agent = "codex") => reduced = saved
  BY <1>14, <1>15, <1>16, <1>19, <1>20, <1>23
<1>27. sum.unsafeDropCount = 0
  BY <1>3, <1>4, <1>14
<1>28. told <= saved /\ (Len(shown) < MaxReasons => told = saved)
  BY <1>7, <1>23, <1>10
<1>. HIDE DEF saved
<1>29. sum.potentialSavings <= saved
  BY <1>3, <1>20, <1>21, <1>24, <1>25
<1>30. (\A k \in each : stored[k].agent = "codex") => sum.potentialSavings = saved
  BY <1>3, <1>20, <1>21, <1>24, <1>26
<1>. QED BY <1>13, <1>27, <1>28, <1>29, <1>30, <1>10, <1>12 DEF saved, told, shown, sum

\* aggregateReports: the tokens observed are those of the agents together; the
\* reasons shown are the largest, from the largest down, and account for all that was
\* saved unless there are as many as are shown; and the reductions shown are never
\* more than what was saved: less only where items grew, which Codex' reports do not
\* show.  So it is for every limit on the reasons shown.
THEOREM AggregatesAddUpTheorem == Spec => []AggregatesAddUp
<1>1. MaterializeInv => AggregatesAddUp
  <2>. SUFFICES ASSUME MaterializeInv PROVE AggregatesAddUp
    OBVIOUS
  <2>1. IsSeq(reports) /\ \A k \in 1 .. Len(reports) : GoodReport(reports[k])
    BY DEF MaterializeInv, ReportsInv
  <2>2. Aggregate(reports).tokensObserved = SumOf(Aggregate(reports).byAgent)
    BY <2>1, AgentsAddUp
  <2>. QED BY <2>1, <2>2, ReportsAddUp DEF AggregatesAddUp, ShownFromTheLargest
<1>. QED BY <1>1, MaterializeInvariant, PTL

-----------------------------------------------------------------------------
(* What a summary tells.                                                   *)

\* What holds of the empty sequence, and of a sequence with one element more if it
\* holds without it, holds of every sequence.
LEMMA SeqUpTo ==
  ASSUME NEW S, NEW Holds, <<>> \in Holds,
         \A s \in Seq(S) : \A x \in S : s \in Holds => Append(s, x) \in Holds
  PROVE  Seq(S) \subseteq Holds
<1>1. SUFFICES ASSUME NEW s \in Seq(S) PROVE s \in Holds
  OBVIOUS
<1>. DEFINE N == Len(s)
            T == {n \in 0 .. N : FirstOf(s, n) \in Holds}
<1>2. N \in Nat /\ \A n \in 1 .. N : s[n] \in S
  OBVIOUS
<1>3. /\ FirstOf(s, 0) = <<>> /\ FirstOf(s, N) = s
      /\ \A n \in 1 .. N : Append(FirstOf(s, n - 1), s[n]) = FirstOf(s, n)
  BY FirstLines
<1>4. 0 \in T
  BY <1>2, <1>3
<1>5. ASSUME NEW n \in 1 .. N, n - 1 \in T PROVE n \in T
  <2>1. n \in 0 .. N /\ n - 1 \in Nat
    BY <1>2
  <2>2. FirstOf(s, n - 1) \in Seq(S)
    BY <2>1, EndsOf
  <2>3. Append(FirstOf(s, n - 1), s[n]) \in Holds
    BY <1>2, <1>5, <2>2
  <2>. QED BY <1>3, <2>1, <2>3
<1>6. 0 .. N \subseteq T
  <2>. HIDE DEF T, N
  <2>. QED BY <1>2, <1>4, <1>5, UpTo
<1>7. N \in T
  BY <1>2, <1>6
<1>. QED BY <1>3, <1>7

\* Two sequences, one after the other, and one element more.
LEMMA ConcatMore ==
  ASSUME NEW S, NEW a \in Seq(S), NEW b \in Seq(S), NEW x \in S
  PROVE  a \o Append(b, x) = Append(a \o b, x) /\ a \o <<>> = a /\ <<>> \o a = a
  OBVIOUS

\* The names of the lines that are is.
Told(lines, is) == Names(LinesThat(lines, {is}))

\* The names of no line, and of one line more.
LEMMA NamesMore ==
  ASSUME NEW S, NEW s \in Seq(S), NEW x \in S
  PROVE  /\ Names(<<>>) = <<>>
         /\ Names(Append(s, x)) = Append(Names(s), x.name)
         /\ Len(Names(s)) = Len(s) /\ DOMAIN Names(s) = 1 .. Len(s)
         /\ Names(s) \in Seq({c.name : c \in S})
<1>1. DOMAIN s = 1 .. Len(s) /\ Len(s) \in Nat /\ DOMAIN <<>> = 1 .. 0
      /\ \A k \in 1 .. Len(s) : s[k] \in S
  OBVIOUS
<1>. DEFINE N == {c.name : c \in S}
            t == Append(s, x)
<1>2. /\ DOMAIN t = 1 .. Len(s) + 1 /\ t[Len(s) + 1] = x
      /\ \A k \in 1 .. Len(s) : t[k] = s[k]
  BY AppendProperties
<1>. HIDE DEF t
<1>3. Names(s) = [k \in 1 .. Len(s) |-> s[k].name]
  BY <1>1 DEF Names
<1>4. Names(s) \in Seq(N) /\ Len(Names(s)) = Len(s) /\ DOMAIN Names(s) = 1 .. Len(s)
  <2>1. Names(s) \in [1 .. Len(s) -> N]
    BY <1>1, <1>3
  <2>. HIDE DEF N
  <2>. QED BY <1>1, <1>3, <2>1
<1>5. Names(<<>>) = <<>>
  <2>1. Names(<<>>) = [k \in 1 .. 0 |-> <<>>[k].name]
    BY <1>1 DEF Names
  <2>. QED BY <2>1
<1>6. Names(t) = Append(Names(s), x.name)
  <2>1. Names(t) = [k \in 1 .. Len(s) + 1 |-> t[k].name]
    BY <1>2 DEF Names
  <2>2. x.name \in N
    OBVIOUS
  <2>. DEFINE u == Append(Names(s), x.name)
  <2>3. /\ u \in Seq(N) /\ Len(u) = Len(s) + 1 /\ u[Len(s) + 1] = x.name
        /\ \A k \in 1 .. Len(s) : u[k] = Names(s)[k]
    <3>. HIDE DEF N
    <3>. QED BY <1>4, <2>2, AppendProperties
  <2>. HIDE DEF u, N
  <2>4. u = [k \in 1 .. Len(s) + 1 |-> u[k]]
    BY <2>3
  <2>5. \A k \in 1 .. Len(s) + 1 : u[k] = t[k].name
    <3>1. \A k \in 1 .. Len(s) + 1 : k \in 1 .. Len(s) \/ k = Len(s) + 1
      BY <1>1
    <3>. QED BY <1>2, <1>3, <2>3, <3>1
  <2>6. Names(t) = u
    BY <2>1, <2>4, <2>5
  <2>. QED BY <2>6 DEF u
<1>. QED BY <1>4, <1>5, <1>6 DEF t

\* What is told of no line, and of one line more.
LEMMA ToldMore ==
  ASSUME NEW S, NEW s \in Seq(S), NEW x \in S, NEW is
  PROVE  /\ LinesThat(<<>>, is) = <<>>
         /\ LinesThat(s, is) \in Seq(S)
         /\ LinesThat(Append(s, x), is) =
              IF x.is \in is THEN Append(LinesThat(s, is), x) ELSE LinesThat(s, is)
<1>. DEFINE t == Append(s, x)
            p == [k \in DOMAIN s |-> s[k].is \in is]
            q == [k \in DOMAIN t |-> t[k].is \in is]
            z == [k \in DOMAIN <<>> |-> <<>>[k].is \in is]
<1>1. LinesThat(s, is) = Kept(s, p) /\ LinesThat(t, is) = Kept(t, q)
      /\ LinesThat(<<>>, is) = Kept(<<>>, z)
  BY DEF LinesThat
<1>2. DOMAIN s = 1 .. Len(s) /\ Len(s) \in Nat /\ DOMAIN <<>> = 1 .. 0
  OBVIOUS
<1>3. /\ DOMAIN t = 1 .. Len(s) + 1 /\ t[Len(s) + 1] = x
      /\ \A k \in 1 .. Len(s) : t[k] = s[k]
  BY AppendProperties
<1>. HIDE DEF t
<1>4. /\ p \in [1 .. Len(s) -> BOOLEAN] /\ q \in [1 .. Len(s) + 1 -> BOOLEAN]
      /\ z \in [1 .. 0 -> BOOLEAN]
  BY <1>2, <1>3
<1>5. \A k \in 1 .. Len(s) : q[k] = p[k]
  BY <1>2, <1>3
<1>6. q[Len(s) + 1] <=> x.is \in is
  <2>1. Len(s) + 1 \in DOMAIN t
    BY <1>2, <1>3
  <2>. QED BY <1>3, <2>1
<1>. HIDE DEF p, q, z
<1>7. Kept(<<>>, z) = <<>>
  BY <1>4, KeptNone
<1>8. Kept(t, q) = IF q[Len(s) + 1] THEN Append(Kept(s, p), x) ELSE Kept(s, p)
  BY ONLY <1>4, <1>5, KeptOneMore, s \in Seq(S), x \in S DEF t
<1>9. Kept(s, p) \in Seq(S)
  BY <1>4, KeptSelects
<1>. QED BY <1>1, <1>6, <1>7, <1>8, <1>9 DEF t

\* What is told of no line, and of one line more.
LEMMA ToldNone == \A is : Told(<<>>, is) = <<>>
<1>. SUFFICES ASSUME NEW is PROVE Told(<<>>, is) = <<>>
  OBVIOUS
<1>. DEFINE z == [k \in DOMAIN <<>> |-> <<>>[k].is \in {is}]
<1>1. LinesThat(<<>>, {is}) = Kept(<<>>, z)
  BY DEF LinesThat
<1>2. z \in [1 .. 0 -> BOOLEAN]
  OBVIOUS
<1>. HIDE DEF z
<1>3. LinesThat(<<>>, {is}) = <<>>
  BY <1>1, <1>2, KeptNone
<1>4. Names(<<>>) = <<>>
  BY DEF Names
<1>. QED BY <1>3, <1>4 DEF Told

\* What is told is a sequence of names.
LEMMA ToldNames ==
  ASSUME NEW S, NEW s \in Seq(S), NEW is
  PROVE  Told(s, is) \in Seq({c.name : c \in S})
<1>. DEFINE p == [k \in DOMAIN s |-> s[k].is \in {is}]
            l == LinesThat(s, {is})
            N == {c.name : c \in S}
<1>1. l = Kept(s, p) /\ p \in [1 .. Len(s) -> BOOLEAN]
  BY DEF LinesThat
<1>. HIDE DEF p, l
<1>2. l \in Seq(S)
  BY <1>1, KeptSelects
<1>3. Names(l) \in [1 .. Len(l) -> N]
  BY <1>2 DEF Names
<1>. HIDE DEF N
<1>4. Names(l) \in Seq(N)
  BY <1>2, <1>3
<1>. QED BY <1>4 DEF Told, l, N

\* What is told of one line more.
LEMMA ToldOneMore ==
  ASSUME NEW S, NEW s \in Seq(S), NEW x \in S, NEW is
  PROVE  Told(Append(s, x), is) =
           IF x.is = is THEN Append(Told(s, is), x.name) ELSE Told(s, is)
<1>1. /\ LinesThat(s, {is}) \in Seq(S)
      /\ LinesThat(Append(s, x), {is}) =
           IF x.is \in {is} THEN Append(LinesThat(s, {is}), x) ELSE LinesThat(s, {is})
  BY ToldMore
<1>. DEFINE l == LinesThat(s, {is})
<1>2. l \in Seq(S)
  BY <1>1
<1>. HIDE DEF l
<1>3. Names(Append(l, x)) = Append(Names(l), x.name)
  BY <1>2, NamesMore
<1>4. x.is \in {is} <=> x.is = is
  OBVIOUS
<1>5. Told(s, is) = Names(l)
  BY DEF Told, l
<1>6. Told(Append(s, x), is) = IF x.is = is THEN Append(Names(l), x.name) ELSE Names(l)
  BY <1>1, <1>3, <1>4 DEF Told, l
<1>. QED BY <1>5, <1>6

\* Two sequences have their elements in one set.
LEMMA SeqBoth ==
  ASSUME NEW a, IsSeq(a), NEW b, IsSeq(b)
  PROVE  \E S : a \in Seq(S) /\ b \in Seq(S)
<1>1. PICK A : a \in Seq(A)
  BY DEF IsSeq
<1>2. PICK B : b \in Seq(B)
  BY DEF IsSeq
<1>. DEFINE S == A \cup B
<1>3. a \in Seq(S) /\ b \in Seq(S)
  BY <1>1, <1>2
<1>. HIDE DEF S
<1>. QED BY <1>3

\* Two sequences, one after the other, are a sequence.
LEMMA SeqConcat ==
  ASSUME NEW a, IsSeq(a), NEW b, IsSeq(b)
  PROVE  IsSeq(a \o b)
<1>1. PICK S : a \in Seq(S) /\ b \in Seq(S)
  BY SeqBoth
<1>. QED BY <1>1, ConcatProperties, SeqIsSeq

\* What is told of two texts, one after the other.
LEMMA ToldConcat ==
  ASSUME NEW a, IsSeq(a), NEW b, IsSeq(b), NEW is
  PROVE  Told(a \o b, is) = Told(a, is) \o Told(b, is)
<1>1. PICK S : a \in Seq(S) /\ b \in Seq(S)
  BY SeqBoth
<1>. DEFINE N == {c.name : c \in S}
            Holds == {s \in Seq(S) : Told(a \o s, is) = Told(a, is) \o Told(s, is)}
<1>2. \A s \in Seq(S) : Told(s, is) \in Seq(N)
  BY ToldNames
<1>. HIDE DEF N
<1>3. <<>> \in Holds
  <2>1. a \o <<>> = a /\ <<>> \in Seq(S)
    BY <1>1
  <2>2. Told(a, is) \o <<>> = Told(a, is)
    BY <1>1, <1>2
  <2>3. Told(a \o <<>>, is) = Told(a, is) \o Told(<<>>, is)
    BY <2>1, <2>2, ToldNone
  <2>. QED BY <2>1, <2>3
<1>4. ASSUME NEW s \in Seq(S), NEW x \in S, s \in Holds PROVE Append(s, x) \in Holds
  <2>1. a \o Append(s, x) = Append(a \o s, x) /\ a \o s \in Seq(S) /\ Append(s, x) \in Seq(S)
    BY <1>1, ConcatMore, ConcatProperties
  <2>. DEFINE u == a \o s
  <2>0. u \in Seq(S)
    BY <2>1
  <2>. HIDE DEF u
  <2>2. Told(Append(u, x), is) =
          IF x.is = is THEN Append(Told(u, is), x.name) ELSE Told(u, is)
    BY ONLY <2>0, x \in S, ToldOneMore
  <2>3. Told(Append(s, x), is) =
          IF x.is = is THEN Append(Told(s, is), x.name) ELSE Told(s, is)
    BY ONLY s \in Seq(S), x \in S, ToldOneMore
  <2>4. Told(a \o s, is) = Told(a, is) \o Told(s, is)
    BY <1>4
  <2>5. Told(a, is) \o Append(Told(s, is), x.name) = Append(Told(a, is) \o Told(s, is), x.name)
    <3>1. Told(a, is) \in Seq(N) /\ Told(s, is) \in Seq(N) /\ x.name \in N
      BY <1>1, <1>2 DEF N
    <3>. QED BY <3>1, ConcatMore
  <2>6. Told(a \o Append(s, x), is) = Told(a, is) \o Told(Append(s, x), is)
    BY <2>1, <2>2, <2>3, <2>4, <2>5 DEF u
  <2>. QED BY <2>1, <2>6
<1>. HIDE DEF Holds
<1>5. Seq(S) \subseteq Holds
  BY <1>3, <1>4, SeqUpTo
<1>. QED BY <1>1, <1>5 DEF Holds

\* A text none of whose lines are is tells nothing.
LEMMA ToldNothing ==
  ASSUME NEW s, IsSeq(s), NEW is, \A k \in 1 .. Len(s) : s[k].is # is
  PROVE  Told(s, is) = <<>>
<1>. DEFINE S == {s[k] : k \in 1 .. Len(s)}
            Holds == {t \in Seq(S) : Told(t, is) = <<>>}
<1>1. Len(s) \in Nat /\ s = [k \in 1 .. Len(s) |-> s[k]]
  BY DEF IsSeq
<1>2. s \in Seq(S) /\ \A c \in S : c.is # is
  <2>1. s \in [1 .. Len(s) -> S]
    BY <1>1
  <2>. QED BY <1>1, <2>1
<1>3. <<>> \in Holds
  <2>1. <<>> \in Seq(S)
    OBVIOUS
  <2>. QED BY <2>1, ToldNone
<1>. HIDE DEF S
<1>4. ASSUME NEW t \in Seq(S), NEW x \in S, t \in Holds PROVE Append(t, x) \in Holds
  <2>1. Append(t, x) \in Seq(S)
    BY AppendProperties
  <2>2. Told(Append(t, x), is) =
          IF x.is = is THEN Append(Told(t, is), x.name) ELSE Told(t, is)
    BY ONLY t \in Seq(S), x \in S, ToldOneMore
  <2>3. x.is # is
    BY <1>2
  <2>. QED BY <1>4, <2>1, <2>2, <2>3
<1>. HIDE DEF Holds
<1>5. Seq(S) \subseteq Holds
  BY <1>3, <1>4, SeqUpTo
<1>. QED BY <1>2, <1>5 DEF Holds

\* The first of two sequences, one after the other, is a prefix.
LEMMA PrefixOfConcat ==
  ASSUME NEW a, IsSeq(a), NEW b, IsSeq(b)
  PROVE  IsPrefix(a, a \o b)
<1>1. PICK S : a \in Seq(S) /\ b \in Seq(S)
  BY SeqBoth
<1>. DEFINE u == a \o b  n == Len(a)
<1>2. /\ u \in Seq(S) /\ Len(u) = n + Len(b) /\ \A k \in 1 .. n : u[k] = a[k]
  <2>1. /\ u \in Seq(S) /\ Len(u) = Len(a) + Len(b)
        /\ \A i \in 1 .. Len(a) + Len(b) : u[i] = IF i <= Len(a) THEN a[i] ELSE b[i - Len(a)]
    BY <1>1, ConcatProperties
  <2>2. Len(a) \in Nat /\ Len(b) \in Nat
    BY <1>1
  <2>3. \A k \in 1 .. n : k \in 1 .. Len(a) + Len(b) /\ k <= Len(a)
    BY <2>2
  <2>. QED BY <2>1, <2>3
<1>. HIDE DEF u
<1>3. n \in Nat /\ Len(b) \in Nat /\ n <= Len(u)
  BY <1>1, <1>2
<1>4. SubSeq(a, 1, n) = [k \in 1 .. n |-> a[k]]
  BY <1>1, <1>3
<1>5. SubSeq(u, 1, n) = [k \in 1 .. n |-> u[k]]
  BY <1>2, <1>3
<1>6. SubSeq(a, 1, n) = SubSeq(u, 1, n)
  BY <1>2, <1>4, <1>5
<1>7. IsPrefix(a, u)
  BY <1>3, <1>6 DEF IsPrefix
<1>. QED BY <1>7 DEF u

\* A sequence is its first elements and the others.
LEMMA FirstAndRest ==
  ASSUME NEW S, NEW s \in Seq(S), NEW m \in 0 .. Len(s)
  PROVE  \E r \in Seq(S) : s = FirstOf(s, m) \o r
<1>1. Len(s) \in Nat /\ m \in Nat /\ m <= Len(s) /\ \A k \in 1 .. Len(s) : s[k] \in S
  OBVIOUS
<1>. DEFINE a == FirstOf(s, m)  d == Len(s) - m  r == [k \in 1 .. d |-> s[m + k]]
<1>2. a \in Seq(S) /\ Len(a) = m /\ \A k \in 1 .. m : a[k] = s[k]
  BY <1>1, EndsOf
<1>. HIDE DEF a
<1>3. d \in Nat /\ \A k \in 1 .. d : m + k \in 1 .. Len(s)
  BY <1>1
<1>4. r \in [1 .. d -> S]
  BY <1>1, <1>3
<1>5. r \in Seq(S) /\ Len(r) = d /\ \A k \in 1 .. d : r[k] = s[m + k]
  <2>. HIDE DEF d
  <2>. QED BY <1>3, <1>4
<1>. HIDE DEF r
<1>. DEFINE u == a \o r
<1>6. /\ u \in Seq(S) /\ Len(u) = Len(a) + Len(r)
      /\ \A i \in 1 .. Len(a) + Len(r) : u[i] = IF i <= Len(a) THEN a[i] ELSE r[i - Len(a)]
  BY <1>2, <1>5, ConcatProperties
<1>. HIDE DEF u
<1>7. Len(u) = Len(s)
  BY <1>1, <1>2, <1>5, <1>6
<1>8. ASSUME NEW i \in 1 .. Len(s) PROVE u[i] = s[i]
  <2>1. i \in 1 .. Len(a) + Len(r)
    BY <1>6, <1>7
  <2>2. CASE i <= m
    BY <1>1, <1>2, <1>6, <2>1, <2>2
  <2>3. CASE ~(i <= m)
    <3>1. i - m \in 1 .. d /\ m + (i - m) = i
      BY <1>1, <2>3
    <3>. QED BY <1>2, <1>5, <1>6, <2>1, <2>3, <3>1
  <2>. QED BY <2>2, <2>3
<1>9. u = s
  BY <1>6, <1>7, <1>8, SeqEqual
<1>10. s = a \o r
  BY <1>9 DEF u
<1>. QED BY <1>5, <1>10 DEF a

\* What the first lines of a text tell comes first in what it tells.
LEMMA ToldPrefix ==
  ASSUME NEW s, IsSeq(s), NEW m \in 0 .. Len(s), NEW is
  PROVE  IsPrefix(Told(FirstOf(s, m), is), Told(s, is))
<1>1. PICK S : s \in Seq(S)
  BY DEF IsSeq
<1>2. PICK r \in Seq(S) : s = FirstOf(s, m) \o r
  BY <1>1, FirstAndRest
<1>. DEFINE a == FirstOf(s, m)
<1>3. m \in Nat
  BY <1>1
<1>4. a \in Seq(S) /\ s = a \o r
  BY <1>1, <1>2, <1>3, EndsOf
<1>. HIDE DEF a
<1>5. Told(s, is) = Told(a, is) \o Told(r, is)
  BY <1>4, SeqIsSeq, ToldConcat
<1>6. IsSeq(Told(a, is)) /\ IsSeq(Told(r, is))
  BY <1>4, ToldNames, SeqIsSeq
<1>. QED BY <1>5, <1>6, PrefixOfConcat DEF a

-----------------------------------------------------------------------------
(* The failures of a test run.                                             *)

\* One name more, given or not.
LEMMA GivenMore ==
  ASSUME NEW S, NEW s \in Seq(S), NEW x \in S
  PROVE  /\ GivenNames(s) \in Seq(S)
         /\ GivenNames(Append(s, x)) =
              IF x # None THEN Append(GivenNames(s), x) ELSE GivenNames(s)
<1>. DEFINE t == Append(s, x)
            p == [k \in DOMAIN s |-> s[k] # None]
            q == [k \in DOMAIN t |-> t[k] # None]
<1>1. GivenNames(s) = Kept(s, p) /\ GivenNames(t) = Kept(t, q)
  BY DEF GivenNames
<1>2. DOMAIN s = 1 .. Len(s) /\ Len(s) \in Nat
  OBVIOUS
<1>3. /\ DOMAIN t = 1 .. Len(s) + 1 /\ t[Len(s) + 1] = x
      /\ \A k \in 1 .. Len(s) : t[k] = s[k]
  BY AppendProperties
<1>. HIDE DEF t
<1>4. p \in [1 .. Len(s) -> BOOLEAN] /\ q \in [1 .. Len(s) + 1 -> BOOLEAN]
  BY <1>2, <1>3
<1>5. \A k \in 1 .. Len(s) : q[k] = p[k]
  BY <1>2, <1>3
<1>6. q[Len(s) + 1] <=> x # None
  <2>1. Len(s) + 1 \in DOMAIN t
    BY <1>2, <1>3
  <2>. QED BY <1>3, <2>1
<1>. HIDE DEF p, q
<1>7. Kept(t, q) = IF q[Len(s) + 1] THEN Append(Kept(s, p), x) ELSE Kept(s, p)
  BY ONLY <1>4, <1>5, KeptOneMore, s \in Seq(S), x \in S DEF t
<1>8. Kept(s, p) \in Seq(S)
  BY <1>4, KeptSelects
<1>. QED BY <1>1, <1>6, <1>7, <1>8 DEF t

\* No name, no name given.
LEMMA GivenNone == GivenNames(<<>>) = <<>>
<1>. DEFINE z == [k \in DOMAIN <<>> |-> <<>>[k] # None]
<1>1. GivenNames(<<>>) = Kept(<<>>, z)
  BY DEF GivenNames
<1>2. z \in [1 .. 0 -> BOOLEAN]
  OBVIOUS
<1>. HIDE DEF z
<1>. QED BY <1>1, <1>2, KeptNone

\* The parts of a text, and one part more.
LEMMA JoinedNone == Joined(<<>>) = <<>>
<1>. DEFINE S == {}
<1>1. <<>> \in Seq(Seq(S)) /\ Len(<<>>) = 0
  OBVIOUS
<1>. HIDE DEF S
<1>2. PICK f : f[0] = <<>> /\ Joined(<<>>) = f[Len(<<>>)]
  BY <1>1, JoinedSteps
<1>. QED BY <1>1, <1>2

\* The texts joined, and one text more.
LEMMA JoinedMore ==
  ASSUME NEW S, NEW parts \in Seq(Seq(S)), NEW part \in Seq(S)
  PROVE  Joined(parts) \in Seq(S) /\ Joined(Append(parts, part)) = Joined(parts) \o part
<1>. DEFINE N == Len(parts)  t == Append(parts, part)  Q == Seq(S)
<1>1. /\ t \in Seq(Q) /\ Len(t) = N + 1 /\ t[N + 1] = part
      /\ \A k \in 1 .. N : t[k] = parts[k]
  BY AppendProperties
<1>2. N \in Nat
  OBVIOUS
<1>3. PICK f : /\ f \in [0 .. N -> Q] /\ f[0] = <<>>
               /\ \A n \in 1 .. N : f[n] = f[n - 1] \o parts[n]
               /\ Joined(parts) = f[N]
  BY JoinedSteps
<1>. HIDE DEF t
<1>4. PICK g : /\ g[0] = <<>>
               /\ \A n \in 1 .. Len(t) : g[n] = g[n - 1] \o t[n]
               /\ Joined(t) = g[Len(t)]
  BY <1>1, JoinedSteps
<1>. HIDE DEF N, Q
<1>. DEFINE T == {n \in 0 .. N : g[n] = f[n]}
<1>5. 0 \in T
  BY <1>2, <1>3, <1>4
<1>6. ASSUME NEW n \in 1 .. N, n - 1 \in T PROVE n \in T
  <2>1. n \in 1 .. Len(t) /\ n \in 0 .. N /\ t[n] = parts[n]
    BY <1>1, <1>2
  <2>. QED BY <1>3, <1>4, <1>6, <2>1
<1>. HIDE DEF T
<1>7. N \in T
  <2>1. 0 .. N \subseteq T
    BY <1>2, <1>5, <1>6, UpTo
  <2>. QED BY <1>2, <2>1
<1>8. g[N] = f[N]
  BY <1>7 DEF T
<1>9. Len(t) \in 1 .. Len(t) /\ Len(t) - 1 = N
  BY <1>1, <1>2
<1>10. Joined(t) = f[N] \o part
  BY <1>1, <1>4, <1>8, <1>9
<1>11. f[N] \in Q
  BY <1>2, <1>3
<1>. QED BY <1>3, <1>10, <1>11 DEF t, Q

\* The lines of one failure.
FailureParts(r) == {Line("file", r.file, 1), Line("test", r.name, 1),
                    Line("message", r.message, 1)}

\* A failure is written file, test, message, as far as it has them.
LEMMA LinesOfFailure ==
  ASSUME NEW r
  PROVE  LET file == IF r.file # None THEN <<Line("file", r.file, 1)>> ELSE <<>>
             test == IF r.name # None THEN Append(file, Line("test", r.name, 1)) ELSE file
         IN  FailureLines(r) = IF r.message # None
                               THEN Append(test, Line("message", r.message, 1)) ELSE test
<1>. DEFINE l1 == Line("file", r.file, 1)
            l2 == Line("test", r.name, 1)
            l3 == Line("message", r.message, 1)
            lines == <<l1, l2, l3>>
            S == {l1, l2, l3}
            p == [k \in DOMAIN lines |-> lines[k].name # None]
<1>1. FailureLines(r) = Kept(lines, p)
  BY DEF FailureLines
<1>2. /\ l1.name = r.file /\ l2.name = r.name /\ l3.name = r.message
  BY DEF Line
<1>. HIDE DEF l1, l2, l3
<1>3. /\ lines \in Seq(S) /\ Len(lines) = 3
      /\ lines[1] = l1 /\ lines[2] = l2 /\ lines[3] = l3
  OBVIOUS
<1>4. p \in [1 .. 3 -> BOOLEAN]
  OBVIOUS
<1>. HIDE DEF lines, S
<1>5. (p[1] <=> r.file # None) /\ (p[2] <=> r.name # None) /\ (p[3] <=> r.message # None)
  <2>1. 1 \in DOMAIN lines /\ 2 \in DOMAIN lines /\ 3 \in DOMAIN lines
    BY <1>3
  <2>. QED BY <1>2, <1>3, <2>1
<1>. HIDE DEF p
<1>6. PICK f : IsKept(f, S, lines, p) /\ Kept(lines, p) = f[3]
  BY <1>3, <1>4, KeptFold
<1>7. /\ f[0] = <<>>
      /\ \A n \in 1 .. 3 : f[n] = IF p[n] THEN Append(f[n - 1], lines[n]) ELSE f[n - 1]
  BY <1>3, <1>6 DEF IsKept
<1>8. /\ f[1] = IF p[1] THEN Append(f[0], l1) ELSE f[0]
      /\ f[2] = IF p[2] THEN Append(f[1], l2) ELSE f[1]
      /\ f[3] = IF p[3] THEN Append(f[2], l3) ELSE f[2]
  <2>1. 1 \in 1 .. 3 /\ 2 \in 1 .. 3 /\ 3 \in 1 .. 3 /\ 1 - 1 = 0 /\ 2 - 1 = 1 /\ 3 - 1 = 2
    OBVIOUS
  <2>2. f[1] = IF p[1] THEN Append(f[1 - 1], lines[1]) ELSE f[1 - 1]
    BY <1>7, <2>1
  <2>3. f[2] = IF p[2] THEN Append(f[2 - 1], lines[2]) ELSE f[2 - 1]
    BY <1>7, <2>1
  <2>4. f[3] = IF p[3] THEN Append(f[3 - 1], lines[3]) ELSE f[3 - 1]
    BY <1>7, <2>1
  <2>. QED BY <1>3, <2>1, <2>2, <2>3, <2>4
<1>9. Append(<<>>, l1) = <<l1>>
  OBVIOUS
<1>. QED BY <1>1, <1>5, <1>6, <1>7, <1>8, <1>9 DEF l1, l2, l3

\* Every failing test is listed under a file it was printed under.
Listed(lines, text) ==
  \A k \in 1 .. Len(lines) : lines[k].is = "test" =>
    /\ k > 1 /\ lines[k - 1].is = "file"
    /\ PrintedUnder(text, lines[k - 1].name, lines[k].name)

Given(name) == IF name # None THEN <<name>> ELSE <<>>

\* What the lines of one failure tell.
LEMMA FailureTold ==
  ASSUME NEW r
  PROVE  /\ FailureLines(r) \in Seq(FailureParts(r))
         /\ Told(FailureLines(r), "file") = Given(r.file)
         /\ Told(FailureLines(r), "test") = Given(r.name)
         /\ r.file = None /\ r.name = None /\ r.message = None => FailureLines(r) = <<>>
<1>. DEFINE l1 == Line("file", r.file, 1)
            l2 == Line("test", r.name, 1)
            l3 == Line("message", r.message, 1)
            S == {l1, l2, l3}
            file == IF r.file # None THEN <<l1>> ELSE <<>>
            test == IF r.name # None THEN Append(file, l2) ELSE file
            all == IF r.message # None THEN Append(test, l3) ELSE test
<1>1. FailureLines(r) = all
  BY LinesOfFailure
<1>2. S = FailureParts(r)
  BY DEF FailureParts
<1>3. /\ l1.name = r.file /\ l2.name = r.name /\ l3.name = r.message
      /\ l1.is = "file" /\ l2.is = "test" /\ l3.is = "message"
  BY DEF Line
<1>. HIDE DEF l1, l2, l3
<1>4. l1 \in S /\ l2 \in S /\ l3 \in S /\ <<>> \in Seq(S) /\ <<l1>> \in Seq(S)
      /\ Append(<<>>, l1) = <<l1>>
  OBVIOUS
<1>. HIDE DEF S
<1>5. file \in Seq(S)
  BY <1>4
<1>6. test \in Seq(S)
  <2>. HIDE DEF file
  <2>. QED BY <1>4, <1>5, AppendProperties
<1>7. all \in Seq(S)
  <2>. HIDE DEF test
  <2>. QED BY <1>4, <1>6, AppendProperties
<1>8. \A is \in {"file", "test"} :
        Told(file, is) = IF r.file # None /\ is = "file" THEN <<r.file>> ELSE <<>>
  <2>. SUFFICES ASSUME NEW is \in {"file", "test"}
                PROVE  Told(file, is) =
                         IF r.file # None /\ is = "file" THEN <<r.file>> ELSE <<>>
    OBVIOUS
  <2>1. Told(<<>>, is) = <<>>
    BY ToldNone
  <2>2. Told(Append(<<>>, l1), is) =
          IF l1.is = is THEN Append(Told(<<>>, is), l1.name) ELSE Told(<<>>, is)
    BY ONLY <1>4, ToldOneMore
  <2>3. Append(<<>>, r.file) = <<r.file>>
    OBVIOUS
  <2>. QED BY <1>3, <1>4, <2>1, <2>2, <2>3
<1>9. \A is \in {"file", "test"} :
        Told(test, is) = IF r.name # None /\ is = "test" THEN <<r.name>> ELSE Told(file, is)
  <2>. SUFFICES ASSUME NEW is \in {"file", "test"}
                PROVE  Told(test, is) = IF r.name # None /\ is = "test" THEN <<r.name>>
                                        ELSE Told(file, is)
    OBVIOUS
  <2>. HIDE DEF file
  <2>1. Told(Append(file, l2), is) =
          IF l2.is = is THEN Append(Told(file, is), l2.name) ELSE Told(file, is)
    BY ONLY <1>4, <1>5, ToldOneMore
  <2>2. is = "test" => Told(file, is) = <<>>
    BY <1>8
  <2>3. Append(<<>>, r.name) = <<r.name>>
    OBVIOUS
  <2>. QED BY <1>3, <2>1, <2>2, <2>3
<1>10. \A is \in {"file", "test"} : Told(all, is) = Told(test, is)
  <2>. SUFFICES ASSUME NEW is \in {"file", "test"} PROVE Told(all, is) = Told(test, is)
    OBVIOUS
  <2>. HIDE DEF test
  <2>1. Told(Append(test, l3), is) =
          IF l3.is = is THEN Append(Told(test, is), l3.name) ELSE Told(test, is)
    BY ONLY <1>4, <1>6, ToldOneMore
  <2>. QED BY <1>3, <2>1
<1>11. r.file = None /\ r.name = None /\ r.message = None => all = <<>>
  OBVIOUS
<1>. HIDE DEF all, test, file
<1>12. Told(all, "file") = Given(r.file)
  BY <1>8, <1>9, <1>10 DEF Given
<1>13. Told(all, "test") = Given(r.name)
  BY <1>8, <1>9, <1>10 DEF Given
<1>. QED BY <1>1, <1>2, <1>7, <1>11, <1>12, <1>13

\* Texts that list tests under their files do so one after the other, and down to
\* any line.
LEMMA ListedConcat ==
  ASSUME NEW a, IsSeq(a), NEW b, IsSeq(b), NEW text, Listed(a, text), Listed(b, text)
  PROVE  Listed(a \o b, text)
<1>1. PICK S : a \in Seq(S) /\ b \in Seq(S)
  BY SeqBoth
<1>. DEFINE u == a \o b  n == Len(a)
<1>2. Len(a) \in Nat /\ Len(b) \in Nat
  BY <1>1
<1>3. /\ Len(u) = n + Len(b)
      /\ \A i \in 1 .. n + Len(b) : u[i] = IF i <= n THEN a[i] ELSE b[i - n]
  BY <1>1, ConcatProperties
<1>. HIDE DEF u
<1>4. ASSUME NEW k \in 1 .. Len(u), u[k].is = "test"
      PROVE  /\ k > 1 /\ u[k - 1].is = "file"
             /\ PrintedUnder(text, u[k - 1].name, u[k].name)
  <2>1. CASE k <= n
    <3>1. k \in 1 .. n /\ k \in 1 .. n + Len(b)
      BY <1>2, <1>3, <2>1
    <3>2. u[k] = a[k]
      BY <1>3, <2>1, <3>1
    <3>3. /\ k > 1 /\ a[k - 1].is = "file"
          /\ PrintedUnder(text, a[k - 1].name, a[k].name)
      BY <1>4, <3>1, <3>2 DEF Listed
    <3>4. k - 1 \in 1 .. n + Len(b) /\ k - 1 <= n
      BY <1>2, <3>1, <3>3
    <3>. QED BY <1>3, <3>2, <3>3, <3>4
  <2>2. CASE ~(k <= n)
    <3>1. k - n \in 1 .. Len(b) /\ k \in 1 .. n + Len(b)
      BY <1>2, <1>3, <2>2
    <3>2. u[k] = b[k - n]
      BY <1>3, <2>2, <3>1
    <3>3. /\ k - n > 1 /\ b[(k - n) - 1].is = "file"
          /\ PrintedUnder(text, b[(k - n) - 1].name, b[k - n].name)
      BY <1>4, <3>1, <3>2 DEF Listed
    <3>4. /\ k - 1 \in 1 .. n + Len(b) /\ ~(k - 1 <= n) /\ (k - 1) - n = (k - n) - 1
          /\ k > 1
      BY <1>2, <3>1, <3>3
    <3>. QED BY <1>3, <3>2, <3>3, <3>4
  <2>. QED BY <2>1, <2>2
<1>5. Listed(u, text)
  BY <1>4 DEF Listed
<1>. QED BY <1>5 DEF u

\* The first lines of a listing are one.
LEMMA ListedFirst ==
  ASSUME NEW a, IsSeq(a), NEW text, Listed(a, text), NEW m \in 0 .. Len(a)
  PROVE  Listed(FirstOf(a, m), text)
<1>1. PICK S : a \in Seq(S)
  BY DEF IsSeq
<1>2. Len(a) \in Nat /\ m \in Nat /\ m <= Len(a)
  BY <1>1
<1>. DEFINE u == FirstOf(a, m)
<1>3. Len(u) = m /\ \A k \in 1 .. m : u[k] = a[k]
  BY <1>1, <1>2, EndsOf
<1>. HIDE DEF u
<1>4. ASSUME NEW k \in 1 .. m, u[k].is = "test"
      PROVE  /\ k > 1 /\ u[k - 1].is = "file"
             /\ PrintedUnder(text, u[k - 1].name, u[k].name)
  <2>1. k \in 1 .. Len(a)
    BY <1>2
  <2>2. /\ k > 1 /\ a[k - 1].is = "file"
        /\ PrintedUnder(text, a[k - 1].name, a[k].name)
    BY <1>3, <1>4, <2>1 DEF Listed
  <2>3. k - 1 \in 1 .. m
    BY <1>2, <2>2
  <2>. QED BY <1>3, <2>2, <2>3
<1>5. Listed(u, text)
  BY <1>3, <1>4 DEF Listed
<1>. QED BY <1>5 DEF u

\* Lines none of which is that of a failing test.
LEMMA ListedNothing ==
  ASSUME NEW a, NEW text, \A k \in 1 .. Len(a) : a[k].is # "test"
  PROVE  Listed(a, text)
  BY DEF Listed

\* A failure is a listing, if its test was printed under its file.
LEMMA ListedFailure ==
  ASSUME NEW r, NEW text,
         r.name # None => r.file # None /\ PrintedUnder(text, r.file, r.name)
  PROVE  Listed(FailureLines(r), text)
<1>. DEFINE l1 == Line("file", r.file, 1)
            l2 == Line("test", r.name, 1)
            l3 == Line("message", r.message, 1)
            file == IF r.file # None THEN <<l1>> ELSE <<>>
            test == IF r.name # None THEN Append(file, l2) ELSE file
            all == IF r.message # None THEN Append(test, l3) ELSE test
<1>1. FailureLines(r) = all
  BY LinesOfFailure
<1>2. /\ l1.name = r.file /\ l2.name = r.name
      /\ l1.is = "file" /\ l2.is = "test" /\ l3.is = "message"
  BY DEF Line
<1>. HIDE DEF l1, l2, l3
<1>3. CASE r.name = None
  <2>. DEFINE S == {l1, l3}
  <2>0. <<>> \in Seq(S) /\ <<l1>> \in Seq(S) /\ l3 \in S
    OBVIOUS
  <2>. HIDE DEF S
  <2>1. test = file /\ file \in Seq(S) /\ l3 \in S
    BY <1>3, <2>0
  <2>. HIDE DEF test, file
  <2>2. all \in Seq(S)
    BY <2>1, AppendProperties
  <2>. HIDE DEF all
  <2>3. \A k \in 1 .. Len(all) : all[k] \in S
    BY <2>2
  <2>4. \A k \in 1 .. Len(all) : all[k].is # "test"
    BY <1>2, <2>3 DEF S
  <2>. QED BY <1>1, <2>4, ListedNothing
<1>4. CASE r.name # None
  <2>. DEFINE S == {l1, l2, l3}
  <2>0. /\ l2 \in S /\ l3 \in S
        /\ <<l1>> \in Seq(S) /\ Len(<<l1>>) = 1 /\ <<l1>>[1] = l1
    OBVIOUS
  <2>. HIDE DEF S
  <2>1. /\ l2 \in S /\ l3 \in S /\ test = Append(file, l2)
        /\ file \in Seq(S) /\ Len(file) = 1 /\ file[1] = l1
    <3>1. file = <<l1>> /\ test = Append(file, l2)
      BY <1>4
    <3>. HIDE DEF file, test
    <3>. QED BY <2>0, <3>1
  <2>. HIDE DEF file, test
  <2>2. test \in Seq(S) /\ Len(test) = 2 /\ test[1] = l1 /\ test[2] = l2
    <3>1. /\ Append(file, l2) \in Seq(S) /\ Len(Append(file, l2)) = Len(file) + 1
          /\ \A k \in 1 .. Len(file) : Append(file, l2)[k] = file[k]
          /\ Append(file, l2)[Len(file) + 1] = l2
      BY <2>1, AppendProperties
    <3>2. Len(file) + 1 = 2 /\ 1 \in 1 .. Len(file)
      BY <2>1
    <3>. QED BY <2>1, <3>1, <3>2
  <2>5. all[1] = l1 /\ all[2] = l2 /\ \A k \in 1 .. Len(all) : k = 1 \/ k = 2 \/ all[k] = l3
    <3>1. CASE r.message = None
      <4>1. \A k \in 1 .. Len(test) : k = 1 \/ k = 2
        BY <2>2
      <4>. QED BY <2>2, <3>1, <4>1
    <3>2. CASE r.message # None
      <4>1. /\ Len(all) = 3 /\ all[3] = l3
            /\ \A k \in 1 .. Len(test) : all[k] = test[k]
        BY <2>1, <2>2, <3>2, AppendProperties
      <4>2. 1 \in 1 .. Len(test) /\ 2 \in 1 .. Len(test)
            /\ \A k \in 1 .. 3 : k = 1 \/ k = 2 \/ k = 3
        BY <2>2
      <4>. QED BY <2>2, <4>1, <4>2
    <3>. QED BY <3>1, <3>2
  <2>. HIDE DEF all
  <2>3. ASSUME NEW k \in 1 .. Len(all), all[k].is = "test"
        PROVE  /\ k > 1 /\ all[k - 1].is = "file"
               /\ PrintedUnder(text, all[k - 1].name, all[k].name)
    <3>1. k = 2
      BY <1>2, <2>5, <2>3
    <3>2. k - 1 = 1 /\ k > 1
      BY <3>1
    <3>. QED BY <1>2, <1>4, <2>5, <3>1, <3>2
  <2>. QED BY <1>1, <2>3 DEF Listed
<1>. QED BY <1>3, <1>4

\* The lines of what was found, as far as it was.
IsFailure(r) == r.file # None \/ r.name # None \/ r.message # None
Found(z) == Kept(z, [i \in DOMAIN z |-> IsFailure(z[i])])
FailureText(z) == Joined([k \in DOMAIN Found(z) |-> FailureLines(Found(z)[k])])

\* The failures found, and one row more.
LEMMA FoundMore ==
  ASSUME NEW R, NEW z \in Seq(R), NEW r \in R
  PROVE  /\ Found(z) \in Seq(R)
         /\ Found(Append(z, r)) =
              IF IsFailure(r) THEN Append(Found(z), r) ELSE Found(z)
<1>. DEFINE t == Append(z, r)
            p == [i \in DOMAIN z |-> IsFailure(z[i])]
            q == [i \in DOMAIN t |-> IsFailure(t[i])]
<1>1. Found(z) = Kept(z, p) /\ Found(t) = Kept(t, q)
  BY DEF Found
<1>2. DOMAIN z = 1 .. Len(z) /\ Len(z) \in Nat
  OBVIOUS
<1>3. /\ DOMAIN t = 1 .. Len(z) + 1 /\ t[Len(z) + 1] = r
      /\ \A k \in 1 .. Len(z) : t[k] = z[k]
  BY AppendProperties
<1>. HIDE DEF t
<1>4. p \in [1 .. Len(z) -> BOOLEAN] /\ q \in [1 .. Len(z) + 1 -> BOOLEAN]
  BY <1>2, <1>3 DEF IsFailure
<1>5. \A k \in 1 .. Len(z) : q[k] = p[k]
  BY <1>2, <1>3
<1>6. q[Len(z) + 1] = IsFailure(r)
  <2>1. Len(z) + 1 \in DOMAIN t
    BY <1>2, <1>3
  <2>. QED BY <1>3, <2>1
<1>. HIDE DEF p, q
<1>7. Kept(t, q) = IF q[Len(z) + 1] THEN Append(Kept(z, p), r) ELSE Kept(z, p)
  BY ONLY <1>4, <1>5, KeptOneMore, z \in Seq(R), r \in R DEF t
<1>8. Kept(z, p) \in Seq(R)
  BY <1>4, KeptSelects
<1>. QED BY <1>1, <1>6, <1>7, <1>8 DEF t

\* What is left out has no lines, so nothing is lost.
LEMMA FailureTextMore ==
  ASSUME NEW R, NEW z \in Seq(R), NEW r \in R
  PROVE  /\ \E S : FailureText(z) \in Seq(S)
         /\ FailureText(Append(z, r)) = FailureText(z) \o FailureLines(r)
<1>. DEFINE S == UNION {FailureParts(x) : x \in R}
            v == Found(z)
            w == Found(Append(z, r))
            each == [k \in DOMAIN v |-> FailureLines(v[k])]
            some == IsFailure(r)
<1>1. v \in Seq(R) /\ w = IF some THEN Append(v, r) ELSE v
  BY FoundMore
<1>2. FailureText(z) = Joined(each)
  BY DEF FailureText
<1>3. FailureText(Append(z, r)) = Joined([k \in DOMAIN w |-> FailureLines(w[k])])
  BY DEF FailureText
<1>. HIDE DEF v, w, some
<1>4. \A x \in R : FailureLines(x) \in Seq(S)
  <2>1. ASSUME NEW x \in R PROVE FailureLines(x) \in Seq(S)
    <3>1. FailureLines(x) \in Seq(FailureParts(x))
      BY FailureTold
    <3>2. FailureParts(x) \subseteq S
      OBVIOUS
    <3>. HIDE DEF S
    <3>. QED BY <3>1, <3>2
  <2>. QED BY <2>1
<1>. HIDE DEF S
<1>5. Len(v) \in Nat /\ DOMAIN v = 1 .. Len(v) /\ \A k \in 1 .. Len(v) : v[k] \in R
  BY <1>1
<1>6. each \in Seq(Seq(S)) /\ Len(each) = Len(v)
      /\ \A k \in 1 .. Len(v) : each[k] = FailureLines(v[k])
  <2>1. each \in [1 .. Len(v) -> Seq(S)]
    BY <1>4, <1>5
  <2>. QED BY <1>5, <2>1
<1>. DEFINE P == FailureLines(r)
<1>7. P \in Seq(S) /\ r \in R
  BY <1>4
<1>8. Joined(each) \in Seq(S) /\ Joined(Append(each, P)) = Joined(each) \o P
  <2>. HIDE DEF P, each
  <2>. QED BY <1>6, <1>7, JoinedMore
<1>9. CASE some
  <2>. DEFINE n == Len(v) + 1  u == Append(v, r)
              all == [k \in DOMAIN u |-> FailureLines(u[k])]
  <2>1. /\ DOMAIN u = 1 .. n /\ u[n] = r /\ \A k \in 1 .. Len(v) : u[k] = v[k]
    BY <1>1, <1>7, AppendProperties
  <2>2. w = u
    BY <1>1, <1>9
  <2>. HIDE DEF u
  <2>3. all = [k \in 1 .. n |-> all[k]]
    BY <2>1
  <2>4. \A k \in 1 .. n : all[k] = IF k = n THEN P ELSE each[k]
    <3>1. \A k \in 1 .. n : k = n \/ (k \in 1 .. Len(v) /\ k # n)
      BY <1>5
    <3>2. \A k \in 1 .. n : all[k] = FailureLines(u[k])
      BY <2>1
    <3>3. n \notin 1 .. Len(v)
      BY <1>5
    <3>. HIDE DEF all, each, n
    <3>. QED BY <1>6, <2>1, <3>1, <3>2, <3>3
  <2>5. /\ Append(each, P) = [k \in 1 .. n |-> Append(each, P)[k]]
        /\ \A k \in 1 .. n : Append(each, P)[k] = IF k = n THEN P ELSE each[k]
    <3>. HIDE DEF each, P
    <3>1. /\ Append(each, P) \in Seq(Seq(S)) /\ Len(Append(each, P)) = n
          /\ \A k \in 1 .. Len(v) : Append(each, P)[k] = each[k]
          /\ Append(each, P)[n] = P
      BY <1>6, <1>7, AppendProperties
    <3>2. \A k \in 1 .. n : k = n \/ (k \in 1 .. Len(v) /\ k # n)
      BY <1>5
    <3>. DEFINE a == Append(each, P)
    <3>0. a \in Seq(Seq(S)) /\ Len(a) = n
      BY <3>1
    <3>. HIDE DEF a, n
    <3>3. a = [k \in 1 .. n |-> a[k]]
      BY <3>0
    <3>. QED BY <3>1, <3>2, <3>3 DEF a
  <2>. HIDE DEF all, each, P
  <2>6. all = Append(each, P)
    BY <2>3, <2>4, <2>5
  <2>. QED BY <1>2, <1>3, <1>8, <2>2, <2>6 DEF all, P
<1>10. CASE ~some
  <2>1. P = <<>>
    BY <1>10, FailureTold DEF some, IsFailure
  <2>. HIDE DEF P
  <2>2. Joined(each) \o <<>> = Joined(each)
    BY <1>8
  <2>3. w = v
    BY <1>1, <1>10
  <2>4. FailureText(Append(z, r)) = Joined(each)
    BY <1>3, <2>3
  <2>5. FailureText(z) \in Seq(S)
    BY <1>2, <1>8
  <2>. HIDE DEF each
  <2>6. FailureText(Append(z, r)) = FailureText(z) \o P
    BY <1>2, <2>1, <2>2, <2>4
  <2>. QED BY <2>5, <2>6 DEF P
<1>. QED BY <1>2, <1>8, <1>9, <1>10

\* A function of the elements, for one element more.
Each(s, m) == [k \in DOMAIN s |-> m[s[k]]]
EachAppended(s, x, m) == Each(Append(s, x), m) = Append(Each(s, m), m[x])

\* One element more, one image more.
LEMMA EachMore ==
  ASSUME NEW S, NEW V, NEW m \in [S -> V], NEW s \in Seq(S), NEW x \in S
  PROVE  /\ Each(s, m) \in Seq(V) /\ Len(Each(s, m)) = Len(s)
         /\ EachAppended(s, x, m)
<1>. DEFINE t == Append(s, x)  N == Len(s)  e == Each(s, m)
            u == Append(e, m[x])  w == Each(t, m)
<1>1. /\ N \in Nat /\ DOMAIN s = 1 .. N /\ m[x] \in V
      /\ \A k \in 1 .. N : s[k] \in S /\ m[s[k]] \in V
  OBVIOUS
<1>2. /\ DOMAIN t = 1 .. N + 1 /\ t[N + 1] = x
      /\ \A k \in 1 .. N : t[k] = s[k]
  BY AppendProperties
<1>. HIDE DEF t
<1>3. e = [k \in 1 .. N |-> m[s[k]]] /\ w = [k \in 1 .. N + 1 |-> m[t[k]]]
  BY <1>1, <1>2 DEF Each
<1>. HIDE DEF e, w, N
<1>4. e \in Seq(V) /\ Len(e) = N
  BY <1>1, <1>3
<1>5. /\ u \in Seq(V) /\ Len(u) = N + 1 /\ u[N + 1] = m[x]
      /\ \A k \in 1 .. N : u[k] = e[k]
  BY <1>1, <1>4, AppendProperties
<1>. HIDE DEF u
<1>6. u = [k \in 1 .. N + 1 |-> u[k]]
  BY <1>5
<1>7. \A k \in 1 .. N + 1 : u[k] = m[t[k]]
  <2>1. \A k \in 1 .. N + 1 : k \in 1 .. N \/ k = N + 1
    BY <1>1
  <2>. QED BY <1>2, <1>3, <1>5, <2>1
<1>8. w = u
  BY <1>3, <1>6, <1>7
<1>. QED BY <1>4, <1>8 DEF t, u, e, w, N, EachAppended

\* No element, no image.
LEMMA EachNone == \A m : Each(<<>>, m) = <<>>
  BY DEF Each

\* No row, no failure, no line.
LEMMA FailureTextNone == FailureText(<<>>) = <<>>
<1>. DEFINE z == [i \in DOMAIN <<>> |-> IsFailure(<<>>[i])]
            parts == [k \in DOMAIN <<>> |-> FailureLines(<<>>[k])]
<1>1. Found(<<>>) = Kept(<<>>, z)
  BY DEF Found
<1>2. z \in [1 .. 0 -> BOOLEAN]
  BY DEF IsFailure
<1>. HIDE DEF z
<1>3. Found(<<>>) = <<>>
  BY <1>1, <1>2, KeptNone
<1>4. FailureText(<<>>) = Joined(parts)
  BY <1>3 DEF FailureText
<1>5. parts = <<>>
  OBVIOUS
<1>. HIDE DEF parts
<1>. QED BY <1>4, <1>5, JoinedNone

\* The failing files and tests that are told of are those that have a name.
Columns(R, V, file, name) ==
  /\ file \in [R -> V] /\ \A r \in R : file[r] = r.file
  /\ name \in [R -> V] /\ \A r \in R : name[r] = r.name

\* What the failures tell is the columns, without the gaps.
LEMMA FailuresTold ==
  ASSUME NEW R, NEW z \in Seq(R), NEW V, NEW file, NEW name, Columns(R, V, file, name)
  PROVE  /\ Told(FailureText(z), "file") = GivenNames(Each(z, file))
         /\ Told(FailureText(z), "test") = GivenNames(Each(z, name))
<1>. DEFINE Same(s) == /\ Told(FailureText(s), "file") = GivenNames(Each(s, file))
                       /\ Told(FailureText(s), "test") = GivenNames(Each(s, name))
            Holds == {s \in Seq(R) : Same(s)}
<1>0. /\ file \in [R -> V] /\ \A r \in R : file[r] = r.file
      /\ name \in [R -> V] /\ \A r \in R : name[r] = r.name
  BY DEF Columns
<1>1. <<>> \in Holds
  <2>1. <<>> \in Seq(R)
    OBVIOUS
  <2>2. Same(<<>>)
    BY FailureTextNone, ToldNone, EachNone, GivenNone
  <2>. HIDE DEF Same
  <2>. QED BY <2>1, <2>2
<1>2. ASSUME NEW s \in Seq(R), NEW r \in R, s \in Holds PROVE Append(s, r) \in Holds
  <2>1. Append(s, r) \in Seq(R)
    BY AppendProperties
  <2>2. /\ \E S : FailureText(s) \in Seq(S)
        /\ FailureText(Append(s, r)) = FailureText(s) \o FailureLines(r)
    BY FailureTextMore
  <2>3. IsSeq(FailureText(s)) /\ IsSeq(FailureLines(r))
    BY <2>2, FailureTold DEF IsSeq
  <2>4. \A is : Told(FailureText(s) \o FailureLines(r), is) =
                  Told(FailureText(s), is) \o Told(FailureLines(r), is)
    BY <2>3, ToldConcat
  <2>5. ASSUME NEW is, NEW m \in [R -> V], Told(FailureLines(r), is) = Given(m[r]),
               Told(FailureText(s), is) = GivenNames(Each(s, m))
        PROVE  Told(FailureText(Append(s, r)), is) = GivenNames(Each(Append(s, r), m))
    <3>. DEFINE e == Each(s, m)  x == m[r]
    <3>0. m[r] \in V
      OBVIOUS
    <3>1. e \in Seq(V) /\ Each(Append(s, r), m) = Append(e, x) /\ x \in V
      <4>1. Each(s, m) \in Seq(V)
        BY ONLY m \in [R -> V], s \in Seq(R), r \in R, EachMore, Zenon
      <4>2. EachAppended(s, r, m)
        BY ONLY m \in [R -> V], s \in Seq(R), r \in R, EachMore, Zenon
      <4>. QED BY <3>0, <4>1, <4>2 DEF EachAppended
    <3>. HIDE DEF e, x
    <3>2. /\ GivenNames(e) \in Seq(V)
          /\ GivenNames(Append(e, x)) =
               IF x # None THEN Append(GivenNames(e), x) ELSE GivenNames(e)
      BY <3>1, GivenMore
    <3>3. GivenNames(e) \o Given(x) =
            IF x # None THEN Append(GivenNames(e), x) ELSE GivenNames(e)
      <4>. DEFINE g == GivenNames(e)
      <4>1. g \in Seq(V)
        BY <3>2
      <4>. HIDE DEF g
      <4>2. g \o <<>> = g /\ g \o <<x>> = Append(g, x)
        BY <4>1, <3>1
      <4>. QED BY <4>2 DEF Given, g
    <3>4. Told(FailureText(Append(s, r)), is) = GivenNames(e) \o Given(x)
      BY <2>2, <2>4, <2>5 DEF e, x
    <3>. QED BY <3>1, <3>2, <3>3, <3>4
  <2>6. /\ Told(FailureLines(r), "file") = Given(file[r])
        /\ Told(FailureLines(r), "test") = Given(name[r])
    BY <1>0, FailureTold
  <2>7. Same(s)
    BY <1>2
  <2>8. Same(Append(s, r))
    BY <1>0, <2>5, <2>6, <2>7
  <2>. HIDE DEF Same
  <2>. QED BY <2>1, <2>8
<1>. HIDE DEF Holds
<1>3. Seq(R) \subseteq Holds
  BY <1>1, <1>2, SeqUpTo
<1>. QED BY <1>3 DEF Holds

\* Every failing test is listed under its file, if every failure is one of a test
\* printed under its file.
LEMMA FailuresListed ==
  ASSUME NEW R, NEW z \in Seq(R), NEW text,
         \A r \in R : r.name # None => r.file # None /\ PrintedUnder(text, r.file, r.name)
  PROVE  Listed(FailureText(z), text)
<1>. DEFINE Holds == {s \in Seq(R) : Listed(FailureText(s), text)}
<1>1. <<>> \in Holds
  <2>1. <<>> \in Seq(R) /\ Len(<<>>) = 0
    OBVIOUS
  <2>2. Listed(<<>>, text)
    BY <2>1, ListedNothing
  <2>. QED BY <2>1, <2>2, FailureTextNone
<1>2. ASSUME NEW s \in Seq(R), NEW r \in R, s \in Holds PROVE Append(s, r) \in Holds
  <2>1. Append(s, r) \in Seq(R)
    BY AppendProperties
  <2>2. /\ \E S : FailureText(s) \in Seq(S)
        /\ FailureText(Append(s, r)) = FailureText(s) \o FailureLines(r)
    BY FailureTextMore
  <2>3. IsSeq(FailureText(s)) /\ IsSeq(FailureLines(r))
    BY <2>2, FailureTold DEF IsSeq
  <2>4. Listed(FailureLines(r), text)
    BY ListedFailure
  <2>5. Listed(FailureText(s), text)
    BY <1>2
  <2>6. Listed(FailureText(Append(s, r)), text)
    BY <2>2, <2>3, <2>4, <2>5, ListedConcat
  <2>. QED BY <2>1, <2>6
<1>. HIDE DEF Holds
<1>3. Seq(R) \subseteq Holds
  BY <1>1, <1>2, SeqUpTo
<1>. QED BY <1>3 DEF Holds

\* Names that are not given change nothing at the end.
LEMMA PaddedNames ==
  ASSUME NEW V, NEW s \in Seq(V), NEW n \in Nat, n >= Len(s), NEW p,
         p = [k \in 1 .. n |-> IF k \in DOMAIN s THEN s[k] ELSE None]
  PROVE  GivenNames(p) = GivenNames(s)
<1>. DEFINE W == V \cup {None}
            L == Len(s)
            D == n - L
            pad(m) == [k \in 1 .. m |-> IF k \in DOMAIN s THEN s[k] ELSE None]
            T == {d \in 0 .. D : GivenNames(pad(L + d)) = GivenNames(s)}
<1>1. /\ L \in Nat /\ DOMAIN s = 1 .. L /\ s = [k \in 1 .. L |-> s[k]]
      /\ \A k \in 1 .. L : s[k] \in V
  OBVIOUS
<1>. HIDE DEF L
<1>2. \A m \in Nat : pad(m) \in Seq(W) /\ Len(pad(m)) = m /\ None \in W
  <2>1. ASSUME NEW m \in Nat PROVE pad(m) \in Seq(W) /\ Len(pad(m)) = m
    <3>1. pad(m) \in [1 .. m -> W]
      BY <1>1
    <3>. HIDE DEF pad, W
    <3>. QED BY <3>1
  <2>. QED BY <2>1
<1>3. D \in Nat
  BY <1>1 DEF L
<1>4. pad(L) = s
  BY <1>1
<1>5. 0 \in T
  <2>1. L + 0 = L /\ 0 \in 0 .. D
    BY <1>1, <1>3
  <2>. HIDE DEF pad
  <2>. QED BY <1>4, <2>1
<1>6. ASSUME NEW d \in 1 .. D, d - 1 \in T PROVE d \in T
  <2>. DEFINE m == L + (d - 1)
  <2>1. m \in Nat /\ L + d = m + 1 /\ m + 1 \in Nat /\ m + 1 \notin 1 .. L
    BY <1>1, <1>3
  <2>. HIDE DEF m
  <2>2. pad(m) \in Seq(W) /\ Len(pad(m)) = m /\ None \in W
        /\ pad(m + 1) \in Seq(W) /\ Len(pad(m + 1)) = m + 1
    BY <1>2, <2>1
  <2>3. /\ \A k \in 1 .. m : pad(m + 1)[k] = pad(m)[k]
        /\ pad(m + 1)[m + 1] = None
    <3>1. \A a \in Nat : \A k \in 1 .. a : pad(a)[k] = IF k \in 1 .. L THEN s[k] ELSE None
      BY <1>1
    <3>. HIDE DEF pad
    <3>2. m + 1 \in 1 .. m + 1 /\ \A k \in 1 .. m : k \in 1 .. m + 1
      BY <2>1
    <3>. QED BY <2>1, <3>1, <3>2
  <2>. HIDE DEF pad, W
  <2>4. Append(pad(m), None) = pad(m + 1)
    <3>. DEFINE u == Append(pad(m), None)  v == pad(m + 1)
    <3>1. /\ u \in Seq(W) /\ Len(u) = m + 1 /\ u[m + 1] = None
          /\ \A k \in 1 .. m : u[k] = pad(m)[k]
      BY <2>1, <2>2, AppendProperties
    <3>2. \A k \in 1 .. m + 1 : k \in 1 .. m \/ k = m + 1
      BY <2>1
    <3>. HIDE DEF u
    <3>3. \A k \in 1 .. m + 1 : u[k] = v[k]
      BY <2>3, <3>1, <3>2
    <3>4. u = v
      BY <2>2, <3>1, <3>3, SeqEqual
    <3>. QED BY <3>4 DEF u
  <2>5. GivenNames(Append(pad(m), None)) = GivenNames(pad(m))
    BY <2>2, GivenMore
  <2>6. GivenNames(pad(m)) = GivenNames(s)
    BY <1>6 DEF m
  <2>7. GivenNames(pad(L + d)) = GivenNames(s)
    BY <2>1, <2>4, <2>5, <2>6
  <2>8. d \in 0 .. D
    BY <1>3
  <2>. QED BY <2>7, <2>8
<1>. HIDE DEF T, pad, D
<1>7. D \in T
  <2>1. 0 .. D \subseteq T
    BY <1>3, <1>5, <1>6, UpTo
  <2>. QED BY <1>3, <2>1
<1>8. GivenNames(pad(L + D)) = GivenNames(s)
  BY <1>7 DEF T
<1>9. L + D = n
  BY <1>1, <1>3 DEF D
<1>. QED BY <1>8, <1>9 DEF pad

\* If every failing file names one test, then the i-th file and the i-th test
\* belong together.
LEMMA OneByOne ==
  ASSUME NEW text, IsSeq(text), OneTestPerFile(text)
  PROVE  \A i \in 1 .. Len(Told(text, "named")) :
           /\ i \in 1 .. Len(Told(text, "FAIL"))
           /\ PrintedUnder(text, Told(text, "FAIL")[i], Told(text, "named")[i])
<1>1. PICK S : text \in Seq(S)
  BY DEF IsSeq
<1>. DEFINE N == Len(text)
            V == {c.name : c \in S}
            F(n) == Told(FirstOf(text, n), "FAIL")
            M(n) == Told(FirstOf(text, n), "named")
            open(n) == n > 0 /\ text[n].is = "FAIL"
            Good(n) == /\ Len(F(n)) = Len(M(n)) + (IF open(n) THEN 1 ELSE 0)
                       /\ open(n) => F(n)[Len(F(n))] = text[n].name
                       /\ \A i \in 1 .. Len(M(n)) : PrintedUnder(text, F(n)[i], M(n)[i])
            T == {n \in 0 .. N : Good(n)}
<1>2. N \in Nat /\ DOMAIN text = 1 .. N /\ \A n \in 1 .. N : text[n] \in S
  BY <1>1
<1>3. /\ FirstOf(text, 0) = <<>> /\ FirstOf(text, N) = text
      /\ \A n \in 1 .. N : Append(FirstOf(text, n - 1), text[n]) = FirstOf(text, n)
  BY <1>1, FirstLines
<1>4. \A n \in 0 .. N : FirstOf(text, n) \in Seq(S)
  <2>1. \A n \in 0 .. N : n \in Nat
    BY <1>2
  <2>. QED BY <1>1, <2>1, EndsOf
<1>5. \A n \in 0 .. N : F(n) \in Seq(V) /\ M(n) \in Seq(V)
  BY <1>4, ToldNames
<1>6. \A n \in 1 .. N :
        /\ F(n) = IF text[n].is = "FAIL" THEN Append(F(n - 1), text[n].name) ELSE F(n - 1)
        /\ M(n) = IF text[n].is = "named" THEN Append(M(n - 1), text[n].name) ELSE M(n - 1)
  <2>1. ASSUME NEW n \in 1 .. N, NEW is
        PROVE  Told(FirstOf(text, n), is) =
                 IF text[n].is = is THEN Append(Told(FirstOf(text, n - 1), is), text[n].name)
                 ELSE Told(FirstOf(text, n - 1), is)
    <3>. DEFINE t == FirstOf(text, n - 1)  x == text[n]
    <3>1. n - 1 \in 0 .. N
      BY <1>2
    <3>2. t \in Seq(S) /\ x \in S /\ FirstOf(text, n) = Append(t, x)
      BY <1>2, <1>3, <1>4, <3>1
    <3>. HIDE DEF t, x
    <3>3. Told(Append(t, x), is) =
            IF x.is = is THEN Append(Told(t, is), x.name) ELSE Told(t, is)
      BY ONLY <3>2, ToldOneMore
    <3>. QED BY <3>2, <3>3 DEF t, x
  <2>. QED BY <2>1
<1>. HIDE DEF F, M
<1>7. /\ \A n \in 1 .. N : text[n].is = "FAIL" => n < N /\ text[n + 1].is = "named"
      /\ \A n \in 1 .. N : text[n].is = "named" => n > 1 /\ text[n - 1].is = "FAIL"
  BY <1>2 DEF OneTestPerFile
<1>8. 0 \in T
  <2>1. F(0) = <<>> /\ M(0) = <<>> /\ Len(<<>>) = 0
    BY <1>3, ToldNone DEF F, M
  <2>2. ~open(0)
    OBVIOUS
  <2>3. Good(0)
    BY <2>1, <2>2
  <2>. QED BY <1>2, <2>3
<1>9. ASSUME NEW n \in 1 .. N, n - 1 \in T PROVE n \in T
  <2>. DEFINE name == text[n].name  f == F(n - 1)  m == M(n - 1)
  <2>1. /\ n \in 0 .. N /\ n - 1 \in 0 .. N /\ n > 0 /\ n \in Nat
        /\ n - 1 > 0 => n - 1 \in 1 .. N /\ (n - 1) + 1 = n
    BY <1>2
  <2>2. /\ f \in Seq(V) /\ m \in Seq(V) /\ Len(f) \in Nat /\ Len(m) \in Nat
        /\ name \in V
    BY <1>2, <1>5, <2>1
  <2>3. /\ Len(f) = Len(m) + (IF open(n - 1) THEN 1 ELSE 0)
        /\ open(n - 1) => f[Len(f)] = text[n - 1].name
        /\ \A i \in 1 .. Len(m) : PrintedUnder(text, f[i], m[i])
    BY <1>9
  <2>4. open(n - 1) => text[n].is = "named"
    BY <1>7, <2>1
  <2>5. text[n].is = "named" => open(n - 1)
    BY <1>7, <2>1
  <2>6. /\ F(n) = IF text[n].is = "FAIL" THEN Append(f, name) ELSE f
        /\ M(n) = IF text[n].is = "named" THEN Append(m, name) ELSE m
    BY <1>6
  <2>. HIDE DEF V
  <2>7. CASE text[n].is = "FAIL"
    <3>1. ~open(n - 1) /\ open(n)
      BY <2>1, <2>4, <2>7
    <3>2. Len(f) = Len(m)
      BY <2>2, <2>3, <3>1
    <3>3. /\ Len(Append(f, name)) = Len(f) + 1 /\ Append(f, name)[Len(f) + 1] = name
          /\ \A i \in 1 .. Len(f) : Append(f, name)[i] = f[i]
      BY <2>2, AppendProperties
    <3>4. F(n) = Append(f, name) /\ M(n) = m
      BY <2>6, <2>7
    <3>5. Good(n)
      <4>. HIDE DEF f, m, open, name
      <4>1. Len(F(n)) = Len(M(n)) + 1 /\ F(n)[Len(F(n))] = name
        BY <3>2, <3>3, <3>4
      <4>2. \A i \in 1 .. Len(M(n)) : PrintedUnder(text, F(n)[i], M(n)[i])
        BY <2>3, <3>2, <3>3, <3>4
      <4>. QED BY <3>1, <4>1, <4>2 DEF name
    <3>. HIDE DEF Good
    <3>. QED BY <2>1, <3>5
  <2>8. CASE text[n].is = "named"
    <3>1. open(n - 1) /\ ~open(n)
      BY <2>5, <2>8
    <3>2. Len(f) = Len(m) + 1 /\ f[Len(f)] = text[n - 1].name
      BY <2>3, <3>1
    <3>3. /\ Len(Append(m, name)) = Len(m) + 1 /\ Append(m, name)[Len(m) + 1] = name
          /\ \A i \in 1 .. Len(m) : Append(m, name)[i] = m[i]
      BY <2>2, AppendProperties
    <3>4. F(n) = f /\ M(n) = Append(m, name)
      BY <2>6, <2>8
    <3>5. PrintedUnder(text, f[Len(f)], name)
      <4>1. n \in 2 .. Len(text) /\ text[n - 1].is = "FAIL"
        BY <1>2, <2>1, <3>1
      <4>. QED BY <2>8, <3>2, <4>1 DEF PrintedUnder
    <3>6. Good(n)
      <4>. HIDE DEF f, m, open, name
      <4>1. Len(F(n)) = Len(M(n))
        BY <3>2, <3>3, <3>4
      <4>2. ASSUME NEW i \in 1 .. Len(M(n)) PROVE PrintedUnder(text, F(n)[i], M(n)[i])
        <5>1. i \in 1 .. Len(m) \/ i = Len(m) + 1
          BY <2>2, <3>3, <3>4
        <5>. QED BY <2>3, <3>2, <3>3, <3>4, <3>5, <5>1
      <4>3. Len(F(n)) \in Nat
        BY <2>2, <3>4
      <4>. QED BY <3>1, <4>1, <4>2, <4>3
    <3>. HIDE DEF Good
    <3>. QED BY <2>1, <3>6
  <2>9. CASE text[n].is \notin {"FAIL", "named"}
    <3>1. ~open(n - 1) /\ ~open(n)
      BY <2>4, <2>9
    <3>2. F(n) = f /\ M(n) = m
      BY <2>6, <2>9
    <3>3. Good(n)
      BY <2>3, <3>1, <3>2
    <3>. HIDE DEF Good
    <3>. QED BY <2>1, <3>3
  <2>. QED BY <2>7, <2>8, <2>9
<1>10. N \in T
  <2>. HIDE DEF T
  <2>1. 0 .. N \subseteq T
    BY <1>2, <1>8, <1>9, UpTo
  <2>. QED BY <1>2, <2>1
<1>11. F(N) = Told(text, "FAIL") /\ M(N) = Told(text, "named")
  BY <1>3 DEF F, M
<1>12. Len(F(N)) \in Nat /\ Len(M(N)) \in Nat /\ Len(F(N)) >= Len(M(N))
  <2>1. Len(F(N)) \in Nat /\ Len(M(N)) \in Nat
    BY <1>2, <1>5
  <2>. QED BY <1>10, <2>1
<1>. QED BY <1>10, <1>11, <1>12

\* The failures listed are those of the output that have a name.
LEMMA TestFailures ==
  ASSUME NEW text, IsText(text)
  PROVE  LET failures == ParseFailedTests(text)
             lines == Joined([k \in DOMAIN failures |-> FailureLines(failures[k])])
         IN  /\ Told(lines, "file") = GivenNames(Told(text, "FAIL"))
             /\ Told(lines, "test") = GivenNames(Told(text, "named"))
             /\ OneTestPerFile(text) => Listed(lines, text)
<1>. DEFINE files == Told(text, "FAIL")
            named == Told(text, "named")
            expected == Told(text, "expected")
            at_(seq, i) == IF i \in DOMAIN seq THEN seq[i] ELSE None
            n == Max({Len(files), Len(named), 1})
            entry(i) == [file |-> at_(files, i), name |-> at_(named, i),
                         message |-> at_(expected, i)]
            zipped == [i \in 1 .. n |-> entry(i)]
            failures == ParseFailedTests(text)
            lines == Joined([k \in DOMAIN failures |-> FailureLines(failures[k])])
            S == ToSet(text)
            R == {entry(i) : i \in 1 .. n}
            V == {r.file : r \in R} \cup {r.name : r \in R}
                   \cup {c.name : c \in S} \cup {None}
            file == [r \in R |-> r.file]
            name == [r \in R |-> r.name]
<1>1. text \in Seq(S) /\ IsSeq(text) /\ DOMAIN text = 1 .. Len(text) /\ Len(text) \in Nat
  BY SeqIsSeq DEF IsText
<1>2. /\ files \in Seq({c.name : c \in S}) /\ named \in Seq({c.name : c \in S})
      /\ Len(files) \in Nat /\ Len(named) \in Nat
      /\ DOMAIN files = 1 .. Len(files) /\ DOMAIN named = 1 .. Len(named)
  <2>. DEFINE N == {c.name : c \in S}
  <2>1. files \in Seq(N) /\ named \in Seq(N)
    BY <1>1, ToldNames
  <2>. HIDE DEF files, named
  <2>. QED BY <2>1
<1>3. failures = Found(zipped)
  BY DEF ParseFailedTests, Found, IsFailure, Told
<1>. HIDE DEF S, files, named, expected
<1>4. n \in Nat /\ n >= Len(files) /\ n >= Len(named)
  <2>. DEFINE T == {Len(files), Len(named), 1}
              m == Len(files) + Len(named) + 1
  <2>1. T \in SUBSET (0 .. m) /\ T # {} /\ m \in Nat
    BY <1>2
  <2>2. Len(files) \in T /\ Len(named) \in T
    OBVIOUS
  <2>. HIDE DEF T, m
  <2>3. Max(T) \in T /\ \A x \in T : Max(T) >= x
    BY <2>1, MaxPosition
  <2>4. \A x \in 0 .. m : x \in Nat
    OBVIOUS
  <2>5. Max(T) \in Nat /\ Max(T) >= Len(files) /\ Max(T) >= Len(named)
    BY <2>1, <2>2, <2>3, <2>4
  <2>. QED BY <2>5 DEF T
<1>. HIDE DEF n
<1>5. zipped \in Seq(R) /\ Len(zipped) = n /\ DOMAIN zipped = 1 .. n
      /\ \A i \in 1 .. n : zipped[i] = entry(i)
  <2>1. zipped \in [1 .. n -> R]
    OBVIOUS
  <2>. HIDE DEF entry, R
  <2>. QED BY <1>4, <2>1
<1>6. lines = FailureText(zipped)
  <2>. HIDE DEF failures, zipped
  <2>. QED BY <1>3 DEF FailureText
<1>7. /\ file \in [R -> V] /\ \A r \in R : file[r] = r.file
      /\ name \in [R -> V] /\ \A r \in R : name[r] = r.name
  <2>. HIDE DEF R
  <2>. QED OBVIOUS
<1>8. /\ Each(zipped, file) = [k \in 1 .. n |-> IF k \in DOMAIN files THEN files[k] ELSE None]
      /\ Each(zipped, name) = [k \in 1 .. n |-> IF k \in DOMAIN named THEN named[k] ELSE None]
  <2>1. \A k \in 1 .. n : /\ entry(k) \in R
                          /\ entry(k).file = at_(files, k) /\ entry(k).name = at_(named, k)
    OBVIOUS
  <2>2. \A k \in 1 .. n : /\ file[zipped[k]] = at_(files, k)
                          /\ name[zipped[k]] = at_(named, k)
    <3>. HIDE DEF entry, file, name, R, zipped
    <3>. QED BY <1>5, <1>7, <2>1
  <2>. HIDE DEF zipped, file, name
  <2>. QED BY <1>5, <2>2 DEF Each
<1>9. /\ GivenNames(Each(zipped, file)) = GivenNames(files)
      /\ GivenNames(Each(zipped, name)) = GivenNames(named)
  <2>. DEFINE N == {c.name : c \in S}
  <2>. HIDE DEF zipped, file, name, N
  <2>1. files \in Seq(N) /\ named \in Seq(N)
    BY <1>2 DEF N
  <2>. QED BY <1>4, <1>8, <2>1, PaddedNames
<1>10. /\ Told(FailureText(zipped), "file") = GivenNames(Each(zipped, file))
       /\ Told(FailureText(zipped), "test") = GivenNames(Each(zipped, name))
  <2>1. Columns(R, V, file, name)
    BY <1>7 DEF Columns
  <2>2. zipped \in Seq(R)
    BY <1>5
  <2>. HIDE DEF zipped, file, name, R, V
  <2>. QED BY ONLY <2>1, <2>2, FailuresTold
<1>11. ASSUME OneTestPerFile(text) PROVE Listed(FailureText(zipped), text)
  <2>1. ASSUME NEW i \in 1 .. n, entry(i).name # None
        PROVE  entry(i).file # None /\ PrintedUnder(text, entry(i).file, entry(i).name)
    <3>1. entry(i).file = at_(files, i) /\ entry(i).name = at_(named, i)
      OBVIOUS
    <3>2. i \in 1 .. Len(named) /\ entry(i).name = named[i]
      BY <1>2, <2>1, <3>1
    <3>3. i \in 1 .. Len(files) /\ PrintedUnder(text, files[i], named[i])
      BY <1>1, <1>11, <3>2, OneByOne DEF files, named
    <3>4. entry(i).file = files[i]
      BY <1>2, <3>1, <3>3
    <3>5. PICK k \in 2 .. Len(text) : text[k - 1].is = "FAIL" /\ text[k - 1].name = files[i]
      BY <3>3 DEF PrintedUnder
    <3>6. k - 1 \in DOMAIN text
      BY <1>1
    <3>7. files[i] # None
      BY <3>5, <3>6 DEF IsText
    <3>. HIDE DEF entry
    <3>. QED BY <3>2, <3>3, <3>4, <3>7
  <2>2. \A r \in R : r.name # None => r.file # None /\ PrintedUnder(text, r.file, r.name)
    <3>. HIDE DEF entry
    <3>. QED BY <2>1
  <2>. HIDE DEF zipped, R
  <2>. QED BY <1>5, <2>2, FailuresListed
<1>. HIDE DEF zipped, file, name, lines
<1>12. /\ Told(lines, "file") = GivenNames(files)
       /\ Told(lines, "test") = GivenNames(named)
       /\ OneTestPerFile(text) => Listed(lines, text)
  BY <1>6, <1>9, <1>10, <1>11
<1>. QED BY <1>12 DEF files, named, lines

-----------------------------------------------------------------------------
(* Summaries.                                                              *)

\* Lines that tell nothing of these kinds.
Silent(s, kinds) == \E S : s \in Seq(S) /\ \A c \in S : c.is \notin kinds

\* Silent lines tell nothing.
LEMMA SilentProperties ==
  ASSUME NEW s, NEW kinds, Silent(s, kinds)
  PROVE  /\ IsSeq(s)
         /\ \A k \in 1 .. Len(s) : s[k].is \notin kinds
         /\ \A is \in kinds : Told(s, is) = <<>>
<1>1. PICK S : s \in Seq(S) /\ \A c \in S : c.is \notin kinds
  BY DEF Silent
<1>2. IsSeq(s)
  BY <1>1, SeqIsSeq
<1>3. \A k \in 1 .. Len(s) : s[k].is \notin kinds
  BY <1>1
<1>4. ASSUME NEW is \in kinds PROVE Told(s, is) = <<>>
  <2>1. \A k \in 1 .. Len(s) : s[k].is # is
    BY <1>3
  <2>. QED BY <1>2, <2>1, ToldNothing
<1>. QED BY <1>2, <1>3, <1>4

\* Lines of other kinds are silent.
LEMMA SilentBy ==
  ASSUME NEW S, NEW s \in Seq(S), NEW kinds, \A c \in S : c.is \notin kinds
  PROVE  Silent(s, kinds)
  BY DEF Silent

\* Silent lines, one after the other, are silent.
LEMMA SilentConcat ==
  ASSUME NEW a, NEW b, NEW kinds, Silent(a, kinds), Silent(b, kinds)
  PROVE  Silent(a \o b, kinds)
<1>1. PICK A : a \in Seq(A) /\ \A c \in A : c.is \notin kinds
  BY DEF Silent
<1>2. PICK B : b \in Seq(B) /\ \A c \in B : c.is \notin kinds
  BY DEF Silent
<1>. DEFINE S == A \cup B
<1>3. a \in Seq(S) /\ b \in Seq(S) /\ \A c \in S : c.is \notin kinds
  BY <1>1, <1>2
<1>. HIDE DEF S
<1>4. a \o b \in Seq(S)
  BY <1>3, ConcatProperties
<1>. QED BY <1>3, <1>4, SilentBy

\* So are one or two lines of other kinds.
LEMMA SilentLines ==
  ASSUME NEW kinds
  PROVE  /\ Silent(<<>>, kinds)
         /\ \A a : a.is \notin kinds => Silent(<<a>>, kinds)
         /\ \A a, b : a.is \notin kinds /\ b.is \notin kinds => Silent(<<a, b>>, kinds)
<1>1. Silent(<<>>, kinds)
  <2>. DEFINE S == {}
  <2>1. <<>> \in Seq(S) /\ \A c \in S : c.is \notin kinds
    OBVIOUS
  <2>. HIDE DEF S
  <2>. QED BY <2>1, SilentBy
<1>2. ASSUME NEW a, a.is \notin kinds PROVE Silent(<<a>>, kinds)
  <2>. DEFINE S == {a}
  <2>1. <<a>> \in Seq(S) /\ \A c \in S : c.is \notin kinds
    BY <1>2
  <2>. HIDE DEF S
  <2>. QED BY <2>1, SilentBy
<1>3. ASSUME NEW a, NEW b, a.is \notin kinds, b.is \notin kinds PROVE Silent(<<a, b>>, kinds)
  <2>. DEFINE S == {a, b}
  <2>1. <<a, b>> \in Seq(S) /\ \A c \in S : c.is \notin kinds
    BY <1>3
  <2>. HIDE DEF S
  <2>. QED BY <2>1, SilentBy
<1>. QED BY <1>1, <1>2, <1>3

\* Silent lines before and after a text change nothing of what it tells.
TellsAs(a, b, kinds) == \A is \in kinds : Told(a, is) = Told(b, is)

\* So a text tells the same with silent lines before or after it.
LEMMA ToldAmong ==
  ASSUME NEW a, NEW b, NEW kinds, Silent(a, kinds), IsSeq(b)
  PROVE  TellsAs(a \o b, b, kinds) /\ TellsAs(b \o a, b, kinds)
<1>. SUFFICES ASSUME NEW is \in kinds
              PROVE  Told(a \o b, is) = Told(b, is) /\ Told(b \o a, is) = Told(b, is)
  BY DEF TellsAs
<1>1. IsSeq(a) /\ Told(a, is) = <<>>
  BY SilentProperties
<1>2. /\ Told(a \o b, is) = Told(a, is) \o Told(b, is)
      /\ Told(b \o a, is) = Told(b, is) \o Told(a, is)
  <2>0. IsSeq(a)
    BY <1>1
  <2>1. Told(a \o b, is) = Told(a, is) \o Told(b, is)
    BY ONLY <2>0, IsSeq(b), ToldConcat
  <2>2. Told(b \o a, is) = Told(b, is) \o Told(a, is)
    BY ONLY <2>0, IsSeq(b), ToldConcat
  <2>. QED BY <2>1, <2>2
<1>3. PICK S : Told(b, is) \in Seq(S)
  <2>1. PICK S : b \in Seq(S)
    BY DEF IsSeq
  <2>. QED BY <2>1, ToldNames
<1>4. <<>> \o Told(b, is) = Told(b, is) /\ Told(b, is) \o <<>> = Told(b, is)
  BY <1>3
<1>. QED BY <1>1, <1>2, <1>4

\* What every summary has is silent about failures and errors.
Telling == {"file", "test", "error"}

\* So say the lines of the status, the command, the exit and the size.
LEMMA SilentCommon ==
  ASSUME NEW item, NEW is, is \notin Telling
  PROVE  /\ \A name, cost : Line(is, name, cost).is \notin Telling
         /\ \A n : Count(is, n).is \notin Telling
         /\ \A a, b : Counts(a, b).is \notin Telling
         /\ Command(item).is \notin Telling
         /\ Silent(ExitLines(item), Telling)
         /\ OriginalLine(item).is \notin Telling
         /\ Ellipsis.is \notin Telling
<1>1. /\ \A name, cost : Line(is, name, cost).is = is
      /\ \A n : Count(is, n).is = is
      /\ \A a, b : Counts(a, b).is = "counts"
      /\ \A name : Line("exit", name, 1).is = "exit"
      /\ Ellipsis.is = "..."
  BY DEF Line, Count, Counts, Ellipsis
<1>2. Command(item).is = "command"
  BY DEF Command, Line
<1>3. OriginalLine(item).is = "original"
  BY DEF OriginalLine, Count
<1>4. Silent(ExitLines(item), Telling)
  <2>1. \A name : Line("exit", name, 1).is \notin Telling
    BY <1>1 DEF Telling
  <2>. QED BY <2>1, SilentLines DEF ExitLines
<1>. QED BY <1>1, <1>2, <1>3, <1>4 DEF Telling

\* A test run's summary tells of the failures found in the output.
LEMMA TestSummaryTells ==
  ASSUME NEW item, IsText(ToolText(item))
  PROVE  LET text == ToolText(item) full == TestSummary(item)
         IN  /\ Told(full, "file") = GivenNames(Told(text, "FAIL"))
             /\ Told(full, "test") = GivenNames(Told(text, "named"))
             /\ OneTestPerFile(text) => Listed(full, text)
<1>. DEFINE text == ToolText(item)
            counts == TestCounts(text)
            failures == ParseFailedTests(text)
            paths == Distinct(Names(LinesThat(text, {"FAIL", "PASS"})))
            relevant == IF \E k \in DOMAIN failures : failures[k].file # None THEN <<>>
                        ELSE FirstOf(paths, MaxNames)
            p1 == <<Line("status", TestStatus(item), 1), Command(item)>>
            p2 == ExitLines(item)
            p3 == <<Counts(counts.passed, Or(counts.failed, Len(failures)))>>
            p4 == Joined([k \in DOMAIN failures |-> FailureLines(failures[k])])
            p5 == [k \in DOMAIN relevant |-> Line("relevant", relevant[k], 1)]
            p6 == <<OriginalLine(item)>>
            full == p1 \o p2 \o p3 \o p4 \o p5 \o p6
<1>1. TestSummary(item) = full
  BY DEF TestSummary
<1>2. /\ Told(p4, "file") = GivenNames(Told(text, "FAIL"))
      /\ Told(p4, "test") = GivenNames(Told(text, "named"))
      /\ OneTestPerFile(text) => Listed(p4, text)
  BY TestFailures
<1>3. Costed(text)
  BY TextIsCosted
<1>4. /\ "status" \notin Telling /\ "relevant" \notin Telling
  BY DEF Telling
<1>5. Silent(p1, Telling) /\ Silent(p2, Telling) /\ Silent(p3, Telling) /\ Silent(p6, Telling)
  BY <1>4, SilentCommon, SilentLines
<1>6. IsSeq(failures)
  BY <1>3, FailuresAreSome
<1>7. Silent(p5, Telling)
  <2>1. IsSeq(relevant)
    <3>1. IsSeq(paths)
      BY <1>3, CostedLinesThat, CostedIsSeq, SeqNames, SeqDistinct
    <3>2. IsSeq(<<>>)
      BY CostedNone, CostedIsSeq
    <3>3. MaxNames \in Nat
      BY BoundsAssumption
    <3>. HIDE DEF paths, failures
    <3>. QED BY <3>1, <3>2, <3>3, SeqFirst
  <2>. HIDE DEF relevant
  <2>2. Len(relevant) \in Nat /\ DOMAIN relevant = 1 .. Len(relevant)
    BY <2>1, SeqLength
  <2>. DEFINE S == {Line("relevant", relevant[k], 1) : k \in 1 .. Len(relevant)}
  <2>3. p5 \in [1 .. Len(relevant) -> S]
    BY <2>2
  <2>4. \A c \in S : c.is \notin Telling
    BY <1>4, SilentCommon
  <2>. HIDE DEF p5, S
  <2>5. p5 \in Seq(S)
    BY <2>2, <2>3
  <2>. QED BY <2>4, <2>5, SilentBy
<1>8. IsSeq(p4)
  <2>. DEFINE parts == [k \in DOMAIN failures |-> FailureLines(failures[k])]
  <2>. HIDE DEF failures
  <2>1. Len(failures) \in Nat /\ DOMAIN failures = 1 .. Len(failures)
    BY <1>6, SeqLength
  <2>2. /\ parts = [k \in 1 .. Len(failures) |-> parts[k]]
        /\ \A k \in 1 .. Len(failures) : Costed(parts[k])
    BY <2>1, CostedFailure
  <2>. HIDE DEF parts
  <2>3. Costed(Joined(parts))
    BY <2>1, <2>2, CostedEachJoined
  <2>. QED BY <2>3, CostedIsSeq DEF parts
<1>. HIDE DEF p1, p2, p3, p4, p5, p6
<1>. DEFINE a == p1 \o p2 \o p3
<1>9. Silent(a, Telling) /\ IsSeq(a)
  BY <1>5, SilentConcat, SilentProperties
<1>. HIDE DEF a
<1>10. IsSeq(a \o p4) /\ IsSeq(a \o p4 \o p5)
  BY <1>7, <1>8, <1>9, SeqConcat, SilentProperties
<1>11. \A is \in Telling : Told(a \o p4 \o p5 \o p6, is) = Told(p4, is)
  <2>. DEFINE b == a \o p4  c == b \o p5
  <2>1. TellsAs(b, p4, Telling)
    BY <1>8, <1>9, ToldAmong
  <2>. HIDE DEF b
  <2>2. TellsAs(c, b, Telling)
    BY <1>7, <1>10, ToldAmong DEF b
  <2>. HIDE DEF c
  <2>3. TellsAs(c \o p6, c, Telling)
    BY <1>5, <1>10, ToldAmong DEF b, c
  <2>4. TellsAs(c \o p6, p4, Telling)
    BY <2>1, <2>2, <2>3 DEF TellsAs
  <2>. QED BY <2>4 DEF TellsAs, b, c
<1>12. ASSUME Listed(p4, text) PROVE Listed(a \o p4 \o p5 \o p6, text)
  <2>1. \A s : Silent(s, Telling) => IsSeq(s) /\ Listed(s, text)
    <3>1. ASSUME NEW s, Silent(s, Telling) PROVE IsSeq(s) /\ Listed(s, text)
      <4>1. IsSeq(s) /\ \A k \in 1 .. Len(s) : s[k].is # "test"
        BY <3>1, SilentProperties DEF Telling
      <4>. QED BY <4>1, ListedNothing
    <3>. QED BY <3>1
  <2>. HIDE DEF text
  <2>2. Listed(a \o p4, text)
    BY <1>8, <1>9, <1>12, <2>1, ListedConcat
  <2>3. Listed(a \o p4 \o p5, text)
    BY <1>7, <1>10, <2>1, <2>2, ListedConcat
  <2>. QED BY <1>5, <1>10, <2>1, <2>3, ListedConcat
<1>13. full = a \o p4 \o p5 \o p6 /\ "file" \in Telling /\ "test" \in Telling
  BY DEF a, Telling
<1>. HIDE DEF full, text
<1>14. /\ Told(full, "file") = GivenNames(Told(text, "FAIL"))
       /\ Told(full, "test") = GivenNames(Told(text, "named"))
       /\ OneTestPerFile(text) => Listed(full, text)
  BY <1>2, <1>11, <1>12, <1>13
<1>. QED BY <1>1, <1>14 DEF text

\* The lines that are of some kinds, of a text.
LEMMA LinesThatAre ==
  ASSUME NEW S, NEW s \in Seq(S), NEW is
  PROVE  LinesThat(s, is) \in Seq({c \in S : c.is \in is})
<1>. DEFINE E == {c \in S : c.is \in is}
            Holds == {t \in Seq(S) : LinesThat(t, is) \in Seq(E)}
<1>1. <<>> \in Holds
  <2>. DEFINE z == [k \in DOMAIN <<>> |-> <<>>[k].is \in is]
  <2>1. LinesThat(<<>>, is) = Kept(<<>>, z)
    BY DEF LinesThat
  <2>2. z \in [1 .. 0 -> BOOLEAN]
    OBVIOUS
  <2>. HIDE DEF z
  <2>3. LinesThat(<<>>, is) = <<>>
    BY <2>1, <2>2, KeptNone
  <2>4. <<>> \in Seq(S) /\ <<>> \in Seq(E)
    OBVIOUS
  <2>. QED BY <2>3, <2>4
<1>2. ASSUME NEW t \in Seq(S), NEW x \in S, t \in Holds PROVE Append(t, x) \in Holds
  <2>1. LinesThat(Append(t, x), is) =
          IF x.is \in is THEN Append(LinesThat(t, is), x) ELSE LinesThat(t, is)
    BY ONLY t \in Seq(S), x \in S, ToldMore
  <2>2. LinesThat(t, is) \in Seq(E) /\ (x.is \in is => x \in E)
    BY <1>2
  <2>. DEFINE l == LinesThat(t, is)
  <2>3. l \in Seq(E)
    BY <2>2
  <2>. HIDE DEF l, E
  <2>4. x \in E => Append(l, x) \in Seq(E)
    BY <2>3
  <2>5. LinesThat(Append(t, x), is) \in Seq(E)
    BY <2>1, <2>2, <2>3, <2>4 DEF l
  <2>6. Append(t, x) \in Seq(S)
    BY AppendProperties
  <2>. QED BY <2>5, <2>6
<1>. HIDE DEF Holds
<1>3. Seq(S) \subseteq Holds
  BY <1>1, <1>2, SeqUpTo
<1>. QED BY <1>3 DEF Holds

\* A text all of whose lines are is tells all its names.
LEMMA ToldAll ==
  ASSUME NEW S, NEW s \in Seq(S), NEW is, \A c \in S : c.is = is
  PROVE  Told(s, is) = Names(s)
<1>. DEFINE Holds == {t \in Seq(S) : Told(t, is) = Names(t)}
<1>1. <<>> \in Holds
  <2>1. <<>> \in Seq(S) /\ Names(<<>>) = <<>>
    BY DEF Names
  <2>. QED BY <2>1, ToldNone
<1>2. ASSUME NEW t \in Seq(S), NEW x \in S, t \in Holds PROVE Append(t, x) \in Holds
  <2>1. Told(Append(t, x), is) =
          IF x.is = is THEN Append(Told(t, is), x.name) ELSE Told(t, is)
    BY ONLY t \in Seq(S), x \in S, ToldOneMore
  <2>2. Names(Append(t, x)) = Append(Names(t), x.name)
    BY ONLY t \in Seq(S), x \in S, NamesMore
  <2>3. x.is = is /\ Told(t, is) = Names(t) /\ Append(t, x) \in Seq(S)
    BY <1>2, AppendProperties
  <2>. QED BY <2>1, <2>2, <2>3
<1>. HIDE DEF Holds
<1>3. Seq(S) \subseteq Holds
  BY <1>1, <1>2, SeqUpTo
<1>. QED BY <1>3 DEF Holds

\* The names of the lines that are kept are the names that are kept.
NamesKept(s) ==
  \A p \in [1 .. Len(s) -> BOOLEAN] : Names(Kept(s, p)) = Kept(Names(s), p)

\* What is kept of one element more, for an element that is kept or left.
Longer(q, p, n) ==
  /\ q \in [1 .. n + 1 -> BOOLEAN] /\ p \in [1 .. n -> BOOLEAN]
  /\ \A k \in 1 .. n : q[k] = p[k]
KeptMore(s, x, q, p) ==
  Kept(Append(s, x), q) = IF q[Len(s) + 1] THEN Append(Kept(s, p), x) ELSE Kept(s, p)

\* So it is of every text.
LEMMA KeptLonger ==
  ASSUME NEW S, NEW s \in Seq(S), NEW x \in S, NEW q, NEW p, Longer(q, p, Len(s))
  PROVE  KeptMore(s, x, q, p)
<1>1. /\ q \in [1 .. Len(s) + 1 -> BOOLEAN] /\ p \in [1 .. Len(s) -> BOOLEAN]
      /\ \A k \in 1 .. Len(s) : q[k] = p[k]
  BY DEF Longer
<1>2. Kept(Append(s, x), q) =
        IF q[Len(s) + 1] THEN Append(Kept(s, p), x) ELSE Kept(s, p)
  BY ONLY <1>1, s \in Seq(S), x \in S, KeptOneMore
<1>. QED BY <1>2 DEF KeptMore

\* So it is of one line more.
LEMMA NamesKeptMore ==
  ASSUME NEW S, NEW s \in Seq(S), NEW x \in S,
         NEW N, NEW m \in Seq(N), NEW y \in N,
         Names(s) = m, x.name = y, Len(m) = Len(s),
         Names(Append(s, x)) = Append(m, y), NamesKept(s)
  PROVE  NamesKept(Append(s, x))
<1>1. Len(Append(s, x)) = Len(s) + 1 /\ Len(s) \in Nat
  BY AppendProperties
<1>2. SUFFICES ASSUME NEW q \in [1 .. Len(s) + 1 -> BOOLEAN]
               PROVE  Names(Kept(Append(s, x), q)) = Kept(Append(m, y), q)
  BY <1>1 DEF NamesKept
<1>3. PICK p \in [1 .. Len(s) -> BOOLEAN] : Longer(q, p, Len(s))
  <2>. DEFINE p == [k \in 1 .. Len(s) |-> q[k]]
  <2>1. p \in [1 .. Len(s) -> BOOLEAN] /\ \A k \in 1 .. Len(s) : q[k] = p[k]
    BY <1>1
  <2>. HIDE DEF p
  <2>. QED BY <2>1 DEF Longer
<1>4. KeptMore(s, x, q, p)
  BY <1>3, KeptLonger
<1>5. Longer(q, p, Len(m))
  BY <1>3
<1>6. KeptMore(m, y, q, p)
  BY <1>5, KeptLonger
<1>7. Names(Kept(s, p)) = Kept(m, p)
  BY DEF NamesKept
<1>8. PICK l \in Seq(S) : l = Kept(s, p)
  BY KeptSelects
<1>9. Names(Append(l, x)) = Append(Names(l), x.name)
  BY ONLY l \in Seq(S), x \in S, NamesMore
<1>. QED BY <1>4, <1>6, <1>7, <1>8, <1>9 DEF KeptMore

\* It is so of every text.
LEMMA NamesOfKept ==
  ASSUME NEW S, NEW s \in Seq(S)
  PROVE  NamesKept(s)
<1>. DEFINE Holds == {t \in Seq(S) : NamesKept(t)}
<1>1. <<>> \in Holds
  <2>1. <<>> \in Seq(S) /\ Names(<<>>) = <<>> /\ Len(<<>>) = 0
    BY DEF Names
  <2>2. ASSUME NEW p \in [1 .. Len(<<>>) -> BOOLEAN]
        PROVE  Names(Kept(<<>>, p)) = Kept(Names(<<>>), p)
    <3>1. p \in [1 .. 0 -> BOOLEAN]
      BY <2>1
    <3>2. Kept(<<>>, p) = <<>>
      BY <3>1, KeptNone
    <3>. QED BY <2>1, <3>2
  <2>. QED BY <2>1, <2>2 DEF NamesKept
<1>2. ASSUME NEW t \in Seq(S), NEW x \in S, t \in Holds PROVE Append(t, x) \in Holds
  <2>. DEFINE N == {c.name : c \in S}
  <2>1. Names(Append(t, x)) = Append(Names(t), x.name) /\ Len(Names(t)) = Len(t)
        /\ Names(t) \in Seq(N) /\ x.name \in N
    BY ONLY t \in Seq(S), x \in S, NamesMore
  <2>. HIDE DEF N
  <2>2. PICK m \in Seq(N) : m = Names(t)
    BY <2>1
  <2>3. PICK y \in N : y = x.name
    BY <2>1
  <2>4. NamesKept(t)
    BY <1>2
  <2>5. NamesKept(Append(t, x))
    BY <2>1, <2>2, <2>3, <2>4, NamesKeptMore
  <2>. QED BY <2>5, AppendProperties
<1>. HIDE DEF Holds
<1>3. Seq(S) \subseteq Holds
  BY <1>1, <1>2, SeqUpTo
<1>. QED BY <1>3 DEF Holds

\* The errors a summary has are those of the output, each once, by what it says.
LEMMA ErrorsTold ==
  ASSUME NEW S, NEW text \in Seq(S)
  PROVE  /\ Told(ExtractBuildErrors(text), "error") = Distinct(Told(text, "error"))
         /\ IsSeq(ExtractBuildErrors(text))
<1>. DEFINE E == {c \in S : c.is \in {"error"}}
            e == LinesThat(text, {"error"})
            p == [k \in DOMAIN e |-> \A j \in 1 .. k - 1 : e[j].name # e[k].name]
            names == Names(e)
            q == [k \in DOMAIN names |-> \A j \in 1 .. k - 1 : names[j] # names[k]]
<1>1. e \in Seq(E)
  BY LinesThatAre
<1>2. \A c \in E : c.is = "error"
  OBVIOUS
<1>. HIDE DEF E, e
<1>3. Len(e) \in Nat /\ DOMAIN e = 1 .. Len(e)
  BY <1>1
<1>4. DOMAIN names = 1 .. Len(e) /\ \A k \in 1 .. Len(e) : names[k] = e[k].name
  BY <1>3 DEF Names
<1>5. p = q
  <2>1. ASSUME NEW k \in 1 .. Len(e), NEW j \in 1 .. k - 1
        PROVE  names[j] # names[k] <=> e[j].name # e[k].name
    <3>1. j \in 1 .. Len(e)
      BY <1>3
    <3>. QED BY <1>4, <3>1
  <2>2. \A k \in 1 .. Len(e) :
          (\A j \in 1 .. k - 1 : names[j] # names[k])
          = (\A j \in 1 .. k - 1 : e[j].name # e[k].name)
    BY <2>1
  <2>. HIDE DEF names
  <2>. QED BY <1>3, <1>4, <2>2
<1>6. p \in [1 .. Len(e) -> BOOLEAN]
  BY <1>3
<1>. HIDE DEF p, q
<1>7. Names(Kept(e, p)) = Kept(names, p)
  BY <1>1, <1>6, NamesOfKept DEF NamesKept
<1>8. Kept(e, p) \in Seq(E)
  BY <1>1, <1>6, KeptSelects
<1>. DEFINE x == Kept(e, p)
<1>9. x \in Seq(E)
  BY <1>8
<1>. HIDE DEF x
<1>10. Told(x, "error") = Names(x)
  BY ONLY <1>2, <1>9, ToldAll
<1>11. ExtractBuildErrors(text) = x /\ Distinct(names) = Kept(names, q)
  BY DEF ExtractBuildErrors, Distinct, e, p, q, x
<1>12. names = Told(text, "error")
  BY DEF Told, e
<1>. QED BY <1>5, <1>7, <1>9, <1>10, <1>11, <1>12, SeqIsSeq DEF x

\* What a build says of its end and the original size is no error.
LEMMA SilentEnd ==
  ASSUME NEW S, NEW text \in Seq(S)
  PROVE  /\ Silent(FirstOf(LinesThat(text, {"warnings"}), 1), Telling)
         /\ Silent(LastRelevantLines(text), Telling)
<1>1. Silent(FirstOf(LinesThat(text, {"warnings"}), 1), Telling)
  <2>. DEFINE E == {c \in S : c.is \in {"warnings"}}  w == LinesThat(text, {"warnings"})
  <2>1. w \in Seq(E)
    BY LinesThatAre
  <2>2. \A c \in E : c.is \notin Telling
    BY DEF Telling
  <2>. HIDE DEF E, w
  <2>3. FirstOf(w, 1) \in Seq(E)
    BY <2>1, EndsOf
  <2>. QED BY <2>2, <2>3, SilentBy DEF w
<1>2. Silent(LastRelevantLines(text), Telling)
  <2>. DEFINE kinds == {"failed", "fails", "succeeded", "warnings"}
              E == {c \in S : c.is \in kinds}
              l == LinesThat(LastOf(text, LastLines), kinds)
              p == [k \in DOMAIN l |-> \A j \in 1 .. k - 1 : l[j] # l[k]]
  <2>1. LastOf(text, LastLines) \in Seq(S)
    BY EndsOf, BoundsAssumption
  <2>2. l \in Seq(E)
    <3>. DEFINE t == LastOf(text, LastLines)
    <3>1. t \in Seq(S)
      BY <2>1
    <3>. HIDE DEF t, kinds
    <3>2. LinesThat(t, kinds) \in Seq({c \in S : c.is \in kinds})
      BY <3>1, LinesThatAre
    <3>. QED BY <3>2 DEF t
  <2>3. \A c \in E : c.is \notin Telling
    BY DEF Telling
  <2>4. LastRelevantLines(text) = Kept(l, p)
    BY DEF LastRelevantLines, Distinct
  <2>. HIDE DEF l, E
  <2>5. p \in [1 .. Len(l) -> BOOLEAN]
    BY <2>2
  <2>. HIDE DEF p
  <2>6. Kept(l, p) \in Seq(E)
    BY <2>2, <2>5, KeptSelects
  <2>. QED BY <2>3, <2>4, <2>6, SilentBy
<1>. QED BY <1>1, <1>2

\* A build's summary tells of the errors of the output.
LEMMA BuildSummaryTells ==
  ASSUME NEW item, IsText(ToolText(item))
  PROVE  Told(BuildSummary(item), "error") = Distinct(Told(ToolText(item), "error"))
<1>. DEFINE text == ToolText(item)
            errors == ExtractBuildErrors(text)
            p1 == <<Line("status", BuildStatus(item), 1), Command(item)>>
            p2 == ExitLines(item)
            p3 == <<Count("errors", Len(errors))>>
            p4 == errors
            p5 == FirstOf(LinesThat(text, {"warnings"}), 1)
            p6 == LastRelevantLines(text)
            p7 == <<OriginalLine(item)>>
            full == p1 \o p2 \o p3 \o p4 \o p5 \o p6 \o p7
<1>1. BuildSummary(item) = full
  BY DEF BuildSummary
<1>2. text \in Seq(ToSet(text))
  BY DEF IsText
<1>3. Told(p4, "error") = Distinct(Told(text, "error")) /\ IsSeq(p4)
  BY <1>2, ErrorsTold
<1>4. "status" \notin Telling /\ "errors" \notin Telling /\ "error" \in Telling
  BY DEF Telling
<1>5. Silent(p1, Telling) /\ Silent(p2, Telling) /\ Silent(p3, Telling) /\ Silent(p7, Telling)
  BY <1>4, SilentCommon, SilentLines
<1>6. Silent(p5, Telling) /\ Silent(p6, Telling)
  BY <1>2, SilentEnd
<1>. HIDE DEF p1, p2, p3, p4, p5, p6, p7
<1>. DEFINE a == p1 \o p2 \o p3
<1>7. Silent(a, Telling) /\ IsSeq(a)
  BY <1>5, SilentConcat, SilentProperties
<1>. HIDE DEF a
<1>. DEFINE b == a \o p4  c == b \o p5  d == c \o p6
<1>8. TellsAs(b, p4, Telling) /\ IsSeq(b)
  BY <1>3, <1>7, ToldAmong, SeqConcat
<1>. HIDE DEF b
<1>9. TellsAs(c, b, Telling) /\ IsSeq(c)
  BY <1>6, <1>8, ToldAmong, SeqConcat, SilentProperties
<1>. HIDE DEF c
<1>10. TellsAs(d, c, Telling) /\ IsSeq(d)
  BY <1>6, <1>9, ToldAmong, SeqConcat, SilentProperties
<1>. HIDE DEF d
<1>11. TellsAs(d \o p7, d, Telling)
  BY <1>5, <1>10, ToldAmong
<1>12. Told(d \o p7, "error") = Told(p4, "error")
  BY <1>4, <1>8, <1>9, <1>10, <1>11 DEF TellsAs
<1>13. full = d \o p7
  BY DEF a, b, c, d
<1>. HIDE DEF full
<1>. QED BY <1>1, <1>3, <1>12, <1>13 DEF text

\* What compressItem writes for a strategy other than the two ends: a header, and
\* what the strategy tells, whose end may be cut off.
Header(item) == <<Line("header", StrategyOf(item), 1)>>
CutAfter(full, m) == Append(FirstOf(full, m), Ellipsis)

\* So compressItem writes it.
LEMMA WrittenSummary ==
  ASSUME NEW item, IsText(Content(item)), IsText(ToolText(item)),
         StrategyOf(item) # "head_tail", NEW content, content = CompressItem(item).content
  PROVE  /\ IsSeq(Full(item))
         /\ \/ content = Header(item) \o Full(item)
            \/ \E m \in 1 .. Len(Full(item)) - 1 :
                 content = Header(item) \o CutAfter(Full(item), m)
<1>. DEFINE fit == FitToTokenBudget(Full(item), Target(item))
<1>1. Ends(Full(item)) /\ Target(item) \in Int
  BY FullEnds
<1>2. \/ fit = Full(item)
      \/ \E m \in 1 .. Len(Full(item)) - 1 : fit = CutAfter(Full(item), m)
  <2>1. Costed(Full(item))
    BY <1>1 DEF Ends
  <2>. DEFINE full == Full(item)  target == Target(item)
  <2>2. Costed(full) /\ target \in Int
    BY <1>1, <2>1
  <2>. HIDE DEF full, target
  <2>. QED BY <2>2, Fits DEF full, target, CutAfter
<1>3. IsSeq(Full(item))
  BY <1>1, CostedIsSeq DEF Ends
<1>4. content = Header(item) \o fit
  BY DEF CompressItem, WrapStructured, Header
<1>. QED BY <1>2, <1>3, <1>4

\* A text whose end was cut off tells what its first lines tell.
LEMMA CutTells ==
  ASSUME NEW full, IsSeq(full), NEW m \in 1 .. Len(full) - 1, NEW text
  PROVE  /\ IsSeq(CutAfter(full, m))
         /\ TellsAs(CutAfter(full, m), FirstOf(full, m), Telling)
         /\ Listed(full, text) => Listed(CutAfter(full, m), text)
         /\ \A header : IsCut(<<header>> \o CutAfter(full, m))
<1>. DEFINE kept == FirstOf(full, m)  cut == CutAfter(full, m)  e == <<Ellipsis>>
<1>1. Len(full) \in Nat /\ m \in Nat /\ m \in 0 .. Len(full)
  BY SeqLength
<1>2. IsSeq(kept)
  BY <1>1, SeqFirst
<1>3. Silent(e, Telling) /\ IsSeq(e)
  <2>1. Ellipsis.is \notin Telling
    BY DEF Ellipsis, Line, Telling
  <2>. QED BY <2>1, SilentLines, SilentProperties
<1>4. cut = kept \o e
  <2>1. PICK S : kept \in Seq(S)
    BY <1>2 DEF IsSeq
  <2>. DEFINE D == S \cup {Ellipsis}
  <2>. HIDE DEF kept
  <2>2. kept \in Seq(D) /\ Ellipsis \in D
    BY <2>1
  <2>. HIDE DEF D
  <2>3. Append(kept, Ellipsis) = kept \o <<Ellipsis>>
    BY <2>2
  <2>. QED BY <2>3 DEF CutAfter, kept
<1>5. IsSeq(cut) /\ TellsAs(cut, kept, Telling)
  <2>. HIDE DEF kept, cut, e
  <2>. QED BY <1>2, <1>3, <1>4, SeqConcat, ToldAmong
<1>6. ASSUME Listed(full, text) PROVE Listed(cut, text)
  <2>1. Listed(kept, text)
    BY <1>1, <1>6, ListedFirst
  <2>2. Listed(e, text)
    <3>1. \A k \in 1 .. Len(e) : e[k].is # "test"
      BY <1>3, SilentProperties DEF Telling
    <3>. HIDE DEF e
    <3>. QED BY <3>1, ListedNothing
  <2>. HIDE DEF kept, cut, e
  <2>. QED BY <1>2, <1>3, <1>4, <2>1, <2>2, ListedConcat
<1>7. ASSUME NEW header PROVE IsCut(<<header>> \o cut)
  <2>1. PICK S : cut \in Seq(S) /\ kept \in Seq(S)
    BY <1>2, <1>5, SeqBoth
  <2>2. Len(cut) \in Nat /\ Len(cut) >= 1 /\ cut[Len(cut)] = Ellipsis
    <3>. DEFINE D == S \cup {Ellipsis}
    <3>1. kept \in Seq(D) /\ Ellipsis \in D
      BY <2>1
    <3>2. cut = Append(kept, Ellipsis)
      BY DEF CutAfter
    <3>. HIDE DEF kept, cut, D
    <3>. QED BY <3>1, <3>2, AppendProperties
  <2>. DEFINE h == <<header>>  u == h \o cut  D == S \cup {header}
  <2>3. h \in Seq(D) /\ cut \in Seq(D) /\ Len(h) = 1
    <3>1. h \in Seq(D) /\ Len(h) = 1
      OBVIOUS
    <3>. HIDE DEF cut
    <3>2. cut \in Seq(D)
      BY <2>1
    <3>. QED BY <3>1, <3>2
  <2>. HIDE DEF h, D, cut
  <2>4. /\ Len(u) = Len(h) + Len(cut)
        /\ \A i \in 1 .. Len(h) + Len(cut) :
             u[i] = IF i <= Len(h) THEN h[i] ELSE cut[i - Len(h)]
    BY <2>3, ConcatProperties
  <2>. HIDE DEF u
  <2>5. Len(u) = 1 + Len(cut) /\ u[1 + Len(cut)] = cut[Len(cut)]
    <3>1. 1 + Len(cut) \in 1 .. Len(h) + Len(cut) /\ ~(1 + Len(cut) <= Len(h))
          /\ (1 + Len(cut)) - Len(h) = Len(cut)
      BY <2>2, <2>3
    <3>. QED BY <2>3, <2>4, <3>1
  <2>6. Last(u) = Ellipsis
    BY <2>2, <2>5 DEF Last
  <2>. QED BY <2>6 DEF IsCut, u, h
<1>. QED BY <1>5, <1>6, <1>7

\* What stands in the context of what a strategy tells.
Keeps(a, b, cut) == IsPrefix(a, b) /\ (cut \/ a = b)

\* What is written keeps what is told, up to a cut.
LEMMA SummaryKeeps ==
  ASSUME NEW item, IsText(Content(item)), IsText(ToolText(item)),
         StrategyOf(item) # "head_tail", NEW content, content = CompressItem(item).content,
         NEW text
  PROVE  /\ \A is \in Telling : Keeps(Told(content, is), Told(Full(item), is), IsCut(content))
         /\ Listed(Full(item), text) => Listed(content, text)
<1>. DEFINE full == Full(item)  h == Header(item)
<1>1. IsSeq(full)
  BY WrittenSummary
<1>2. \/ content = h \o full
      \/ \E m \in 1 .. Len(full) - 1 : content = h \o CutAfter(full, m)
  BY WrittenSummary
<1>3. Silent(h, Telling) /\ IsSeq(h) /\ Listed(h, text)
  <2>1. Line("header", StrategyOf(item), 1).is \notin Telling
    BY DEF Line, Telling
  <2>2. Silent(h, Telling) /\ IsSeq(h)
    BY <2>1, SilentLines, SilentProperties DEF Header
  <2>3. \A k \in 1 .. Len(h) : h[k].is # "test"
    BY <2>2, SilentProperties DEF Telling
  <2>. HIDE DEF h
  <2>. QED BY <2>2, <2>3, ListedNothing
<1>4. \E header : h = <<header>>
  BY DEF Header
<1>. HIDE DEF full, h
<1>5. CASE content = h \o full
  <2>1. TellsAs(content, full, Telling)
    BY <1>1, <1>3, <1>5, ToldAmong
  <2>2. ASSUME NEW is \in Telling
        PROVE  Keeps(Told(content, is), Told(full, is), IsCut(content))
    <3>1. Told(content, is) = Told(full, is)
      BY <2>1 DEF TellsAs
    <3>2. PICK S : Told(full, is) \in Seq(S)
      <4>1. PICK S : full \in Seq(S)
        BY <1>1 DEF IsSeq
      <4>. QED BY <4>1, ToldNames
    <3>3. Len(Told(full, is)) \in Nat
      BY <3>2
    <3>. QED BY <3>1, <3>3 DEF Keeps, IsPrefix
  <2>3. ASSUME Listed(full, text) PROVE Listed(content, text)
    BY <1>1, <1>3, <1>5, <2>3, ListedConcat
  <2>. QED BY <2>2, <2>3 DEF full
<1>6. ASSUME NEW m \in 1 .. Len(full) - 1, content = h \o CutAfter(full, m)
      PROVE  /\ \A is \in Telling : Keeps(Told(content, is), Told(full, is), IsCut(content))
             /\ Listed(full, text) => Listed(content, text)
  <2>. DEFINE cut == CutAfter(full, m)
  <2>1. /\ IsSeq(cut) /\ TellsAs(cut, FirstOf(full, m), Telling)
        /\ Listed(full, text) => Listed(cut, text)
        /\ IsCut(content)
    BY <1>1, <1>4, <1>6, CutTells
  <2>. HIDE DEF cut
  <2>2. content = h \o cut
    BY <1>6 DEF cut
  <2>3. TellsAs(content, cut, Telling)
    BY <1>3, <2>1, <2>2, ToldAmong
  <2>4. ASSUME NEW is \in Telling PROVE IsPrefix(Told(content, is), Told(full, is))
    <3>1. Told(content, is) = Told(FirstOf(full, m), is)
      BY <2>1, <2>3 DEF TellsAs
    <3>2. m \in 0 .. Len(full)
      BY <1>1, SeqLength
    <3>3. IsPrefix(Told(FirstOf(full, m), is), Told(full, is))
      BY <1>1, <3>2, ToldPrefix
    <3>. QED BY <3>1, <3>3
  <2>5. ASSUME Listed(full, text) PROVE Listed(content, text)
    BY <1>3, <2>1, <2>2, <2>5, ListedConcat
  <2>. QED BY <2>1, <2>4, <2>5 DEF Keeps
<1>. QED BY <1>2, <1>5, <1>6 DEF full

\* compress/test.ts and compress/build.ts: a summary names the failing files and
\* tests of a test run, and the errors of a build, that the output names, in its
\* order, and all of them unless it was cut; a failing test is listed under the
\* file it was printed under.
THEOREM SummariesTellTheOutputTheorem == Spec => []SummariesTellTheOutput
<1>1. MaterializeInv => SummariesTellTheOutput
  <2>. SUFFICES ASSUME MaterializeInv, NEW s \in Summaries
                PROVE
         LET text == ToolText(s[1])
             told(is) == Names(LinesThat(s[2], {is}))
             printed(is) == GivenNames(Names(LinesThat(text, {is})))
             complete(a, b) == IsPrefix(a, b) /\ (IsCut(s[2]) \/ a = b)
         IN  CASE StrategyOf(s[1]) = "test_summary" ->
                    /\ complete(told("file"), printed("FAIL"))
                    /\ complete(told("test"), printed("named"))
                    /\ OneTestPerFile(text) =>
                         \A k \in 1 .. Len(s[2]) : s[2][k].is = "test" =>
                           /\ k > 1 /\ s[2][k - 1].is = "file"
                           /\ PrintedUnder(text, s[2][k - 1].name, s[2][k].name)
               [] StrategyOf(s[1]) = "error_extract" ->
                    complete(told("error"), Distinct(Names(LinesThat(text, {"error"}))))
               [] OTHER -> TRUE
    BY DEF SummariesTellTheOutput
  <2>1. PICK item \in Items : s = <<item, CompressItem(item).content>>
    BY SummaryWritten
  <2>2. IsText(Content(item)) /\ IsText(ToolText(item))
    BY <2>1, ItemsAssumption
  <2>. DEFINE content == CompressItem(item).content  text == ToolText(item)
  <2>3. s[1] = item /\ s[2] = content
    BY <2>1
  <2>. HIDE DEF content
  <2>4. "file" \in Telling /\ "test" \in Telling /\ "error" \in Telling
    BY DEF Telling
  <2>5. ASSUME StrategyOf(item) = "test_summary"
        PROVE  /\ Keeps(Told(content, "file"), GivenNames(Told(text, "FAIL")), IsCut(content))
               /\ Keeps(Told(content, "test"), GivenNames(Told(text, "named")), IsCut(content))
               /\ OneTestPerFile(text) => Listed(content, text)
    <3>1. Full(item) = TestSummary(item) /\ StrategyOf(item) # "head_tail"
      BY <2>5 DEF Full
    <3>2. /\ Told(Full(item), "file") = GivenNames(Told(text, "FAIL"))
          /\ Told(Full(item), "test") = GivenNames(Told(text, "named"))
          /\ OneTestPerFile(text) => Listed(Full(item), text)
      BY <2>2, <3>1, TestSummaryTells
    <3>. HIDE DEF text
    <3>3. /\ \A is \in Telling : Keeps(Told(content, is), Told(Full(item), is), IsCut(content))
          /\ Listed(Full(item), text) => Listed(content, text)
      BY <2>2, <3>1, SummaryKeeps DEF content
    <3>. QED BY <2>4, <3>2, <3>3
  <2>6. ASSUME StrategyOf(item) = "error_extract"
        PROVE  Keeps(Told(content, "error"), Distinct(Told(text, "error")), IsCut(content))
    <3>1. Full(item) = BuildSummary(item) /\ StrategyOf(item) # "head_tail"
      BY <2>6 DEF Full
    <3>2. Told(Full(item), "error") = Distinct(Told(text, "error"))
      BY <2>2, <3>1, BuildSummaryTells
    <3>. HIDE DEF text
    <3>3. \A is \in Telling : Keeps(Told(content, is), Told(Full(item), is), IsCut(content))
      BY <2>2, <3>1, SummaryKeeps DEF content
    <3>. QED BY <2>4, <3>2, <3>3
  <2>7. CASE StrategyOf(item) = "test_summary"
    BY <2>3, <2>5, <2>7 DEF Keeps, Told, Listed
  <2>8. CASE StrategyOf(item) = "error_extract"
    BY <2>3, <2>6, <2>8 DEF Keeps, Told
  <2>9. CASE StrategyOf(item) \notin {"test_summary", "error_extract"}
    BY <2>3, <2>9
  <2>. QED BY <2>7, <2>8, <2>9
<1>. QED BY <1>1, MaterializeInvariant, PTL
=============================================================================
