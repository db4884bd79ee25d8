------------------------- MODULE Negotiation_proofs -------------------------
(***************************************************************************)
(* What the codec negotiation and the produce requests guarantee for every *)
(* pair of documents libwebrtc and the router can announce, of any length. *)
(***************************************************************************)
EXTENDS Negotiation, WellFoundedInduction, TLAPS

\* A non-empty set of numbers has a least one.
LEMMA LeastNat ==
    ASSUME NEW S \in SUBSET Nat, S # {}
    PROVE  \E v \in S : \A w \in S : v <= w
<1>1. PICK v \in S : \A w \in S : ~(<<w, v>> \in OpToRel(<, Nat))
  BY WFMin, NatLessThanWellFounded
<1>2. \A w \in S : w < v => <<w, v>> \in OpToRel(<, Nat)
  BY DEF OpToRel
<1>3. \A w \in S : ~(w < v)
  BY <1>1, <1>2, Zenon
<1>4. v \in Nat /\ \A w \in S : w \in Nat
  OBVIOUS
<1>5. \A w \in S : v <= w
  BY <1>3, <1>4
<1> QED BY <1>5

\* find_if finds an element that is there, and the first one.
LEMMA FirstOfIsFirst ==
    ASSUME NEW S \in SUBSET Nat, S # {}
    PROVE  FirstOf(S) \in S /\ \A w \in S : FirstOf(S) <= w
<1>1. \E v \in S : \A w \in S : v <= w
  BY LeastNat
<1> QED BY <1>1 DEF FirstOf, Min

\* Induction on a set of numbers.
LEMMA UpTo ==
    ASSUME NEW N \in Nat, NEW T, 0 \in T, \A n \in 0 .. N - 1 : n \in T => n + 1 \in T
    PROVE  0 .. N \subseteq T
<1> SUFFICES ASSUME NEW m \in 0 .. N, m \notin T PROVE FALSE
  OBVIOUS
<1> DEFINE S == {n \in 0 .. N : n \notin T}
<1>1. S \in SUBSET Nat /\ S # {}
  OBVIOUS
<1>2. PICK n \in S : \A j \in S : n <= j
  BY <1>1, LeastNat
<1>3. n \in 1 .. N
  OBVIOUS
<1>4. n - 1 \in 0 .. N - 1 /\ n - 1 \notin S
  BY <1>2, <1>3
<1>5. n - 1 \in T /\ n \notin T
  BY <1>4
<1>6. (n - 1) + 1 = n
  BY <1>3
<1> QED BY <1>4, <1>5, <1>6

-----------------------------------------------------------------------------
(***************************************************************************)
(* A loop over an array that builds a value, as a function of the round:   *)
(* such functions exist, so the recursive definitions of Keep and          *)
(* FlattenSeq have the value their equations say.                          *)
(***************************************************************************)
Rounds(N, V) == [1 .. N -> [V -> V]]

IsLoop(f, N, V, first, round) ==
    f \in [0 .. N -> V] /\ f[0] = first /\ \A i \in 1 .. N : f[i] = round[i][f[i - 1]]

\* Every loop ends, each round with one value.
LEMMA LoopExists ==
    ASSUME NEW N \in Nat, NEW V, NEW first \in V, NEW round \in Rounds(N, V)
    PROVE  \E f : IsLoop(f, N, V, first, round)
<1> DEFINE T == {n \in 0 .. N : \E f : IsLoop(f, n, V, first, round)}
<1>1. 0 \in T
  <2>1. IsLoop([i \in 0 .. 0 |-> first], 0, V, first, round)
    BY DEF IsLoop
  <2>2. \E f : IsLoop(f, 0, V, first, round)
    BY <2>1, Zenon
  <2> QED BY <2>2
<1>2. ASSUME NEW n \in 0 .. N - 1, n \in T PROVE n + 1 \in T
  <2>1. PICK f : IsLoop(f, n, V, first, round)
    BY <1>2
  <2> DEFINE g == [i \in 0 .. n + 1 |-> IF i = n + 1 THEN round[n + 1][f[n]] ELSE f[i]]
  <2>2. /\ f \in [0 .. n -> V] /\ f[0] = first
        /\ \A i \in 1 .. n : f[i] = round[i][f[i - 1]]
    BY <2>1 DEF IsLoop
  <2>3. g \in [0 .. n + 1 -> V]
    <3>1. round[n + 1] \in [V -> V] /\ f[n] \in V
      BY <2>2 DEF Rounds
    <3> QED BY <2>2, <3>1
  <2>4. g[0] = first
    BY <2>2
  <2>5. ASSUME NEW i \in 1 .. n + 1 PROVE g[i] = round[i][g[i - 1]]
    BY <2>2
  <2>6. IsLoop(g, n + 1, V, first, round)
    <3> HIDE DEF g
    <3> QED BY <2>3, <2>4, <2>5 DEF IsLoop
  <2>7. \E h : IsLoop(h, n + 1, V, first, round)
    <3> HIDE DEF g
    <3> QED BY <2>6, Zenon
  <2> QED BY <2>7
<1> HIDE DEF T
<1>3. N \in T
  BY <1>1, <1>2, UpTo
<1> QED BY <1>3 DEF T

\* Keep is the value its loop ends with.
LEMMA KeepLoop ==
    ASSUME NEW V, NEW s \in Seq(V), NEW T
    PROVE  \E f \in [0 .. Len(s) -> Seq(V)] :
              /\ Keep(s, T) = f[Len(s)] /\ f[0] = << >>
              /\ \A n \in 1 .. Len(s) :
                    f[n] = IF s[n] \in T THEN Append(f[n - 1], s[n]) ELSE f[n - 1]
<1> DEFINE N     == Len(s)
           W     == Seq(V)
           round == [n \in 1 .. N |-> [v \in W |-> IF s[n] \in T THEN Append(v, s[n]) ELSE v]]
           F(f)  == [n \in 0 .. N |->
                        IF n = 0 THEN << >>
                        ELSE IF s[n] \in T THEN Append(f[n - 1], s[n]) ELSE f[n - 1]]
           kept  == CHOOSE f : f = F(f)
<1>1. round \in Rounds(N, W) /\ << >> \in W /\ N \in Nat
  BY DEF Rounds
<1>2. PICK f : IsLoop(f, N, W, << >>, round)
  <2> HIDE DEF N, W, round
  <2> QED BY <1>1, LoopExists, Zenon
<1>3. f \in [0 .. N -> W] /\ f[0] = << >> /\ \A i \in 1 .. N : f[i] = round[i][f[i - 1]]
  <2> HIDE DEF N, W, round
  <2> QED BY <1>2 DEF IsLoop
<1>4. \A i \in 1 .. N : f[i] = IF s[i] \in T THEN Append(f[i - 1], s[i]) ELSE f[i - 1]
  <2> TAKE i \in 1 .. N
  <2>1. i - 1 \in 0 .. N /\ N \in Nat
    OBVIOUS
  <2>2. f[i - 1] \in W /\ f[i] = round[i][f[i - 1]]
    <3> HIDE DEF N, W, round
    <3> QED BY <1>3, <2>1
  <2>3. \A v \in W : round[i][v] = IF s[i] \in T THEN Append(v, s[i]) ELSE v
    OBVIOUS
  <2> HIDE DEF W, round
  <2> QED BY <2>2, <2>3
<1>5. f = F(f)
  <2>1. \A n \in 0 .. N : f[n] = F(f)[n]
    <3> TAKE n \in 0 .. N
    <3>1. CASE n = 0
      BY <1>3, <3>1
    <3>2. CASE n \in 1 .. N
      <4>1. F(f)[n] = IF s[n] \in T THEN Append(f[n - 1], s[n]) ELSE f[n - 1]
        BY <3>2
      <4> QED BY <1>4, <3>2, <4>1
    <3> QED BY <1>1, <3>1, <3>2
  <2>2. f = [n \in 0 .. N |-> f[n]] /\ F(f) = [n \in 0 .. N |-> F(f)[n]]
    BY <1>3
  <2> HIDE DEF F
  <2> QED BY <2>1, <2>2
<1>6. kept = F(kept)
  <2> HIDE DEF F
  <2> QED BY <1>5
<1>7. Keep(s, T) = kept[N]
  BY DEF Keep
<1>8. kept[0] = << >>
  <2>1. F(kept)[0] = << >>
    <3> HIDE DEF kept
    <3> QED BY <1>1
  <2> HIDE DEF F, kept
  <2> QED BY <1>6, <2>1
<1>9. \A n \in 1 .. N : kept[n] = IF s[n] \in T THEN Append(kept[n - 1], s[n]) ELSE kept[n - 1]
  <2>1. \A n \in 1 .. N : F(kept)[n] = IF s[n] \in T THEN Append(kept[n - 1], s[n])
                                       ELSE kept[n - 1]
    BY <1>1
  <2>2. \A n \in 1 .. N : kept[n] = F(kept)[n]
    <3> HIDE DEF F
    <3> QED BY <1>6
  <2> HIDE DEF F, kept
  <2> QED BY <2>1, <2>2
<1>10. kept \in [0 .. N -> W]
  <2>1. DOMAIN F(kept) = 0 .. N /\ F(kept) = [n \in DOMAIN F(kept) |-> F(kept)[n]]
    OBVIOUS
  <2>2. DOMAIN kept = 0 .. N /\ kept = [n \in DOMAIN kept |-> kept[n]]
    <3> HIDE DEF F
    <3> QED BY <1>6, <2>1
  <2> DEFINE I == {n \in 0 .. N : kept[n] \in W}
  <2>3. 0 \in I
    <3> HIDE DEF kept
    <3>1. kept[0] \in W /\ 0 \in 0 .. N
      BY <1>1, <1>8
    <3> QED BY <3>1
  <2>4. ASSUME NEW n \in 0 .. N - 1, n \in I PROVE n + 1 \in I
    <3> HIDE DEF kept
    <3>1. n + 1 \in 1 .. N /\ (n + 1) - 1 = n /\ kept[n] \in Seq(V)
      BY <2>4, <1>1
    <3>2. kept[n + 1] = IF s[n + 1] \in T THEN Append(kept[n], s[n + 1]) ELSE kept[n]
      BY <3>1, <1>9
    <3>3. s[n + 1] \in V
      BY <3>1
    <3>4. kept[n + 1] \in Seq(V)
      BY <3>1, <3>2, <3>3
    <3> QED BY <3>1, <3>4
  <2>5. 0 .. N \subseteq I
    <3> HIDE DEF I
    <3> QED BY <1>1, <2>3, <2>4, UpTo
  <2> HIDE DEF kept
  <2> QED BY <2>2, <2>5
<1> HIDE DEF kept
<1> QED BY <1>7, <1>8, <1>9, <1>10

\* Keep returns elements of s that are in T, and every one of them.
LEMMA KeepFacts ==
    ASSUME NEW V, NEW s \in Seq(V), NEW T
    PROVE  /\ Keep(s, T) \in Seq(V)
           /\ \A j \in DOMAIN Keep(s, T) :
                 Keep(s, T)[j] \in T /\ \E i \in DOMAIN s : Keep(s, T)[j] = s[i]
           /\ \A i \in DOMAIN s :
                 s[i] \in T => \E j \in DOMAIN Keep(s, T) : Keep(s, T)[j] = s[i]
<1> DEFINE N == Len(s)
<1>1. PICK f \in [0 .. N -> Seq(V)] :
         /\ Keep(s, T) = f[N] /\ f[0] = << >>
         /\ \A n \in 1 .. N : f[n] = IF s[n] \in T THEN Append(f[n - 1], s[n]) ELSE f[n - 1]
  BY KeepLoop
<1>2. N \in Nat /\ DOMAIN s = 1 .. N /\ \A n \in 1 .. N : s[n] \in V
  OBVIOUS
<1> DEFINE From(n) == \A j \in 1 .. Len(f[n]) :
                         f[n][j] \in T /\ \E i \in 1 .. n : f[n][j] = s[i]
           All(n)  == \A i \in 1 .. n : s[i] \in T => \E j \in 1 .. Len(f[n]) : f[n][j] = s[i]
           I == {n \in 0 .. N : From(n) /\ All(n)}
<1>3. 0 \in I
  BY <1>1, <1>2
<1>4. ASSUME NEW n \in 0 .. N - 1, n \in I PROVE n + 1 \in I
  <2> DEFINE u == f[n]
             w == f[n + 1]
             c == s[n + 1]
  <2>1. u \in Seq(V) /\ w \in Seq(V) /\ c \in V /\ n \in Nat /\ n + 1 \in 0 .. N
    BY <1>2
  <2>2. w = IF c \in T THEN Append(u, c) ELSE u
    <3>1. n + 1 \in 1 .. N /\ (n + 1) - 1 = n
      BY <1>2
    <3> QED BY <1>1, <3>1
  <2>3. \A j \in 1 .. Len(u) : u[j] \in T /\ \E i \in 1 .. n : u[j] = s[i]
    BY <1>4
  <2>4. \A i \in 1 .. n : s[i] \in T => \E j \in 1 .. Len(u) : u[j] = s[i]
    BY <1>4
  <2>5. \A j \in 1 .. Len(w) : w[j] \in T /\ \E i \in 1 .. n + 1 : w[j] = s[i]
    <3> HIDE DEF u, w, N
    <3>1. CASE c \notin T
      BY <2>1, <2>2, <2>3, <3>1
    <3>2. CASE c \in T
      <4>1. \A j \in 1 .. Len(w) : (j = Len(u) + 1 /\ w[j] = c)
                                \/ (j \in 1 .. Len(u) /\ w[j] = u[j])
        BY <2>1, <2>2, <3>2
      <4>2. n + 1 \in 1 .. n + 1 /\ \A i \in 1 .. n : i \in 1 .. n + 1
        BY <2>1
      <4> QED BY <2>3, <3>2, <4>1, <4>2
    <3> QED BY <3>1, <3>2
  <2>6. \A i \in 1 .. n + 1 : s[i] \in T => \E j \in 1 .. Len(w) : w[j] = s[i]
    <3> TAKE i \in 1 .. n + 1
    <3> HAVE s[i] \in T
    <3> HIDE DEF u, w, N
    <3>1. CASE i = n + 1
      <4>1. w = Append(u, c) /\ Len(w) \in 1 .. Len(w) /\ w[Len(w)] = c
        BY <2>1, <2>2, <3>1
      <4> QED BY <3>1, <4>1
    <3>2. CASE i \in 1 .. n
      <4>1. PICK j \in 1 .. Len(u) : u[j] = s[i]
        BY <2>4, <3>2
      <4>2. j \in 1 .. Len(w) /\ w[j] = u[j]
        BY <2>1, <2>2, <4>1
      <4> QED BY <4>1, <4>2
    <3> QED BY <2>1, <3>1, <3>2
  <2>7. From(n + 1) /\ All(n + 1)
    BY <2>5, <2>6
  <2> HIDE DEF From, All
  <2> QED BY <2>1, <2>7
<1>5. N \in I
  <2> HIDE DEF I
  <2>1. 0 .. N \subseteq I
    BY <1>2, <1>3, <1>4, UpTo
  <2> QED BY <1>2, <2>1
<1>6. From(N) /\ All(N)
  BY <1>5
<1>7. f[N] \in Seq(V) /\ DOMAIN f[N] = 1 .. Len(f[N])
  BY <1>2
<1> DEFINE kept == f[N]
<1>8. kept = Keep(s, T) /\ kept \in Seq(V) /\ DOMAIN kept = 1 .. Len(kept)
  BY <1>1, <1>7
<1>9. \A j \in 1 .. Len(kept) : kept[j] \in T /\ \E i \in DOMAIN s : kept[j] = s[i]
  BY <1>2, <1>6
<1>10. \A i \in DOMAIN s : s[i] \in T => \E j \in 1 .. Len(kept) : kept[j] = s[i]
  BY <1>2, <1>6
<1> HIDE DEF kept
<1>11. /\ \A j \in DOMAIN kept : kept[j] \in T /\ \E i \in DOMAIN s : kept[j] = s[i]
       /\ \A i \in DOMAIN s : s[i] \in T => \E j \in DOMAIN kept : kept[j] = s[i]
  BY <1>8, <1>9, <1>10
<1> QED BY ONLY <1>8, <1>11

\* A kept element is still there.
LEMMA KeepsMember ==
    ASSUME NEW V, NEW s \in Seq(V), NEW T, NEW i \in DOMAIN s, s[i] \in T
    PROVE  \E j \in DOMAIN Keep(s, T) : Keep(s, T)[j] = s[i]
BY KeepFacts

\* FlattenSeq is the value its loop ends with.
LEMMA FlattenLoop ==
    ASSUME NEW V, NEW ss \in Seq(Seq(V)), ss # << >>
    PROVE  \E f \in [1 .. Len(ss) -> Seq(V)] :
              /\ FlattenSeq(ss) = f[Len(ss)] /\ f[1] = ss[1]
              /\ \A n \in 2 .. Len(ss) : f[n] = f[n - 1] \o ss[n]
<1> DEFINE N     == Len(ss)
           W     == Seq(V)
           round == [n \in 1 .. N |-> [v \in W |-> v \o ss[n]]]
           F(f)  == [n \in 1 .. N |-> IF n = 1 THEN ss[n] ELSE f[n - 1] \o ss[n]]
           flatten == CHOOSE f : f = F(f)
<1>1. N \in Nat \ {0} /\ \A n \in 1 .. N : ss[n] \in W
  OBVIOUS
<1>2. round \in Rounds(N, W) /\ << >> \in W
  BY <1>1 DEF Rounds
<1>3. PICK g : IsLoop(g, N, W, << >>, round)
  <2> HIDE DEF N, W, round
  <2> QED BY <1>1, <1>2, LoopExists, Zenon
<1>4. \A n \in 1 .. N : g[n] = g[n - 1] \o ss[n]
  <2> TAKE n \in 1 .. N
  <2>1. g[n - 1] \in W /\ g[n] = round[n][g[n - 1]]
    <3> HIDE DEF W, round, N
    <3> QED BY <1>1, <1>3 DEF IsLoop
  <2>2. \A v \in W : round[n][v] = v \o ss[n]
    OBVIOUS
  <2> HIDE DEF W, round
  <2> QED BY <2>1, <2>2
<1>5. g[1] = ss[1]
  <2>1. g[1] = g[0] \o ss[1] /\ g[0] = << >> /\ ss[1] \in Seq(V)
    <3>1. 1 \in 1 .. N /\ 1 - 1 = 0
      BY <1>1
    <3> HIDE DEF N, round
    <3> QED BY <1>1, <1>3, <1>4, <3>1 DEF IsLoop
  <2> QED BY <2>1
<1> DEFINE f == [n \in 1 .. N |-> g[n]]
<1>6. f = F(f)
  <2>1. \A n \in 1 .. N : f[n] = F(f)[n]
    <3> TAKE n \in 1 .. N
    <3>1. CASE n = 1
      BY <1>5, <3>1
    <3>2. CASE n # 1
      <4>1. n - 1 \in 1 .. N
        BY <1>1, <3>2
      <4>2. F(f)[n] = f[n - 1] \o ss[n] /\ f[n - 1] = g[n - 1] /\ f[n] = g[n]
        BY <3>2, <4>1
      <4> QED BY <1>4, <4>2
    <3> QED BY <3>1, <3>2
  <2>2. f = [n \in 1 .. N |-> f[n]] /\ F(f) = [n \in 1 .. N |-> F(f)[n]]
    OBVIOUS
  <2> HIDE DEF F, f
  <2> QED BY <2>1, <2>2
<1>7. flatten = F(flatten)
  <2> HIDE DEF F, f
  <2> QED BY <1>6
<1>8. FlattenSeq(ss) = flatten[N]
  BY <1>1 DEF FlattenSeq
<1>9. flatten[1] = ss[1]
  <2>1. F(flatten)[1] = ss[1]
    <3> HIDE DEF flatten
    <3>1. 1 \in 1 .. N
      BY <1>1
    <3> HIDE DEF N
    <3> QED BY ONLY <3>1
  <2> HIDE DEF F, flatten
  <2> QED BY <1>7, <2>1
<1>10. \A n \in 2 .. N : flatten[n] = flatten[n - 1] \o ss[n]
  <2>1. \A n \in 2 .. N : F(flatten)[n] = flatten[n - 1] \o ss[n]
    <3> HIDE DEF flatten
    <3> TAKE n \in 2 .. N
    <3>1. n \in 1 .. N /\ n # 1
      BY <1>1
    <3> QED BY <3>1
  <2>2. \A n \in 2 .. N : flatten[n] = F(flatten)[n]
    <3> HIDE DEF F
    <3> QED BY <1>7
  <2> HIDE DEF F, flatten
  <2> QED BY <2>1, <2>2
<1>11. flatten \in [1 .. N -> W]
  <2>1. DOMAIN F(flatten) = 1 .. N /\ F(flatten) = [n \in DOMAIN F(flatten) |-> F(flatten)[n]]
    OBVIOUS
  <2>2. DOMAIN flatten = 1 .. N /\ flatten = [n \in DOMAIN flatten |-> flatten[n]]
    <3> HIDE DEF F
    <3> QED BY <1>7, <2>1
  <2> DEFINE I == {n \in 0 .. N : n = 0 \/ flatten[n] \in W}
  <2>3. 0 \in I
    BY <1>1
  <2>4. ASSUME NEW n \in 0 .. N - 1, n \in I PROVE n + 1 \in I
    <3> HIDE DEF flatten
    <3>1. n + 1 \in 1 .. N /\ ss[n + 1] \in Seq(V) /\ n + 1 \in 0 .. N
      BY <1>1
    <3>2. CASE n = 0
      BY <1>9, <3>1, <3>2
    <3>3. CASE n # 0
      <4>1. n + 1 \in 2 .. N /\ (n + 1) - 1 = n /\ flatten[n] \in Seq(V)
        BY <1>1, <2>4, <3>3
      <4>2. flatten[n + 1] = flatten[n] \o ss[n + 1]
        BY <1>10, <4>1
      <4>3. flatten[n + 1] \in Seq(V)
        BY <3>1, <4>1, <4>2
      <4> QED BY <3>1, <4>3
    <3> QED BY <3>2, <3>3
  <2>5. 0 .. N \subseteq I
    <3> HIDE DEF I, N
    <3> QED BY <1>1, <2>3, <2>4, UpTo
  <2>6. \A n \in 1 .. N : flatten[n] \in W
    <3> HIDE DEF flatten, W
    <3> TAKE n \in 1 .. N
    <3>1. n \in 0 .. N /\ n # 0
      BY <1>1
    <3>2. n \in I
      <4> HIDE DEF I
      <4> QED BY <2>5, <3>1
    <3> QED BY <3>1, <3>2
  <2> HIDE DEF flatten
  <2> QED BY <2>2, <2>6
<1> HIDE DEF flatten
<1> QED BY <1>8, <1>9, <1>10, <1>11

\* Every element of the flat sequence is one of a part.
LEMMA FlattenFrom ==
    ASSUME NEW V, NEW ss \in Seq(Seq(V))
    PROVE  /\ FlattenSeq(ss) \in Seq(V)
           /\ \A j \in DOMAIN FlattenSeq(ss) :
                 \E i \in DOMAIN ss : \E m \in DOMAIN ss[i] : FlattenSeq(ss)[j] = ss[i][m]
<1>1. CASE ss = << >>
  <2>1. FlattenSeq(ss) = << >>
    BY <1>1 DEF FlattenSeq
  <2> QED BY <2>1
<1>2. CASE ss # << >>
  <2> DEFINE N == Len(ss)
  <2>1. PICK f \in [1 .. N -> Seq(V)] :
           /\ FlattenSeq(ss) = f[N] /\ f[1] = ss[1]
           /\ \A n \in 2 .. N : f[n] = f[n - 1] \o ss[n]
    BY <1>2, FlattenLoop
  <2>2. N \in Nat \ {0} /\ DOMAIN ss = 1 .. N /\ \A n \in 1 .. N : ss[n] \in Seq(V)
    BY <1>2
  <2> DEFINE From(n) == \A j \in 1 .. Len(f[n]) :
                           \E i \in 1 .. N : \E m \in DOMAIN ss[i] : f[n][j] = ss[i][m]
             I == {n \in 0 .. N : n = 0 \/ From(n)}
  <2>3. 0 \in I
    BY <2>2
  <2>4. ASSUME NEW n \in 0 .. N - 1, n \in I PROVE n + 1 \in I
    <3>1. n + 1 \in 1 .. N /\ n + 1 \in 0 .. N /\ (n + 1) - 1 = n
      BY <2>2
    <3>2. CASE n = 0
      <4>1. f[1] \in Seq(V) /\ f[1] = ss[1] /\ 1 \in 1 .. N
        BY <2>1, <2>2
      <4>2. From(1)
        BY <4>1
      <4> HIDE DEF From, N
      <4> QED BY <3>1, <3>2, <4>2
    <3>3. CASE n # 0
      <4> DEFINE u == f[n]
                 w == f[n + 1]
                 t == ss[n + 1]
      <4>1. u \in Seq(V) /\ t \in Seq(V) /\ w = u \o t
        <5>1. n + 1 \in 2 .. N /\ n \in 1 .. N
          BY <3>1, <3>3, <2>2
        <5> QED BY <2>1, <2>2, <3>1, <5>1
      <4>2. \A j \in 1 .. Len(u) : \E i \in 1 .. N : \E m \in DOMAIN ss[i] : u[j] = ss[i][m]
        BY <2>4, <3>3
      <4>3. \A j \in 1 .. Len(w) : \/ j \in 1 .. Len(u) /\ w[j] = u[j]
                                   \/ j - Len(u) \in DOMAIN t /\ w[j] = t[j - Len(u)]
        <5> HIDE DEF u, w, t
        <5> QED BY <4>1
      <4>4. From(n + 1)
        <5> SUFFICES ASSUME NEW j \in 1 .. Len(w)
                     PROVE  \E i \in 1 .. N : \E m \in DOMAIN ss[i] : w[j] = ss[i][m]
          OBVIOUS
        <5>1. CASE j \in 1 .. Len(u) /\ w[j] = u[j]
          <6> HIDE DEF u, w, N
          <6> QED BY <4>2, <5>1
        <5>2. CASE j - Len(u) \in DOMAIN t /\ w[j] = t[j - Len(u)]
          <6> HIDE DEF u, w, N
          <6> QED BY <3>1, <5>2
        <5> QED BY <4>3, <5>1, <5>2
      <4> HIDE DEF From, N
      <4> QED BY <3>1, <4>4
    <3> QED BY <3>2, <3>3
  <2>5. From(N)
    <3>1. N \in I
      <4> HIDE DEF I, N
      <4>1. 0 .. N \subseteq I
        BY <2>2, <2>3, <2>4, UpTo
      <4> QED BY <2>2, <4>1
    <3> QED BY <2>2, <3>1
  <2> HIDE DEF N
  <2> DEFINE flat == f[N]
  <2>6. flat \in Seq(V) /\ DOMAIN flat = 1 .. Len(flat)
    <3>1. flat \in Seq(V)
      BY <2>1, <2>2
    <3> QED BY <3>1
  <2>7. \A j \in 1 .. Len(flat) : \E i \in DOMAIN ss : \E m \in DOMAIN ss[i] : flat[j] = ss[i][m]
    BY <2>2, <2>5
  <2>8. FlattenSeq(ss) = flat
    BY <2>1
  <2> HIDE DEF flat
  <2>9. \A j \in DOMAIN flat : \E i \in DOMAIN ss : \E m \in DOMAIN ss[i] : flat[j] = ss[i][m]
    BY <2>6, <2>7
  <2> QED BY ONLY <2>6, <2>8, <2>9
<1> QED BY <1>1, <1>2

\* The flat sequence starts with the first part, then comes the second.
LEMMA FlattenStart ==
    ASSUME NEW V, NEW ss \in Seq(Seq(V)), ss # << >>, \A i \in DOMAIN ss : ss[i] # << >>
    PROVE  LET w == FlattenSeq(ss)
           IN  /\ Len(ss) = 1 => w = ss[1]
               /\ Len(w) >= Len(ss[1]) /\ \A j \in DOMAIN ss[1] : w[j] = ss[1][j]
               /\ Len(ss) > 1 => Len(w) > Len(ss[1]) /\ w[Len(ss[1]) + 1] = ss[2][1]
<1> DEFINE N == Len(ss)
           M == Len(ss[1])
<1>1. PICK f \in [1 .. N -> Seq(V)] :
         /\ FlattenSeq(ss) = f[N] /\ f[1] = ss[1]
         /\ \A n \in 2 .. N : f[n] = f[n - 1] \o ss[n]
  BY FlattenLoop
<1>2. N \in Nat \ {0} /\ DOMAIN ss = 1 .. N /\ \A n \in 1 .. N : ss[n] \in Seq(V) /\ Len(ss[n]) > 0
  <2>1. N \in Nat \ {0} /\ DOMAIN ss = 1 .. N
    OBVIOUS
  <2>2. \A n \in 1 .. N : ss[n] \in Seq(V) /\ ss[n] # << >>
    <3>1. \A n \in DOMAIN ss : ss[n] \in Seq(V) /\ ss[n] # << >>
      OBVIOUS
    <3> QED BY <2>1, <3>1
  <2>3. \A t \in Seq(V) : t # << >> => Len(t) > 0
    OBVIOUS
  <2> HIDE DEF N
  <2> QED BY <2>1, <2>2, <2>3
<1>3. M \in Nat /\ ss[1] \in Seq(V) /\ DOMAIN ss[1] = 1 .. M
  BY <1>2
<1> DEFINE Starts(n) == /\ Len(f[n]) >= M /\ \A j \in 1 .. M : f[n][j] = ss[1][j]
                        /\ n > 1 => Len(f[n]) > M /\ f[n][M + 1] = ss[2][1]
           I == {n \in 0 .. N : n = 0 \/ Starts(n)}
<1>4. 0 \in I
  BY <1>2
<1>5. ASSUME NEW n \in 0 .. N - 1, n \in I PROVE n + 1 \in I
  <2>1. n + 1 \in 1 .. N /\ n + 1 \in 0 .. N /\ (n + 1) - 1 = n
    BY <1>2
  <2>2. CASE n = 0
    <3>1. Starts(1)
      BY <1>1, <1>3
    <3> HIDE DEF Starts, N
    <3> QED BY <2>1, <2>2, <3>1
  <2>3. CASE n # 0
    <3> DEFINE u == f[n]
               w == f[n + 1]
               t == ss[n + 1]
    <3>1. u \in Seq(V) /\ t \in Seq(V) /\ Len(t) > 0 /\ w = u \o t
      <4>1. n + 1 \in 2 .. N /\ n \in 1 .. N
        BY <2>1, <2>3, <1>2
      <4> QED BY <1>1, <1>2, <2>1, <4>1
    <3>2. Starts(n)
      BY <1>5, <2>3
    <3>3. Len(w) >= M /\ \A j \in 1 .. M : w[j] = ss[1][j]
      <4>1. Len(u) >= M /\ \A j \in 1 .. M : u[j] = ss[1][j]
        BY <3>2
      <4> HIDE DEF u, w, t, M
      <4> QED BY <1>3, <3>1, <4>1
    <3>4. Len(w) > M /\ w[M + 1] = ss[2][1]
      <4>1. CASE n = 1
        <5>1. u = ss[1] /\ t = ss[2] /\ Len(u) = M
          BY <1>1, <4>1
        <5>2. Len(w) = Len(u) + Len(t) /\ w[Len(u) + 1] = t[1]
              /\ Len(u) \in Nat /\ Len(t) \in Nat /\ Len(t) > 0
          <6> HIDE DEF u, w, t
          <6> QED BY <3>1
        <5> HIDE DEF u, w, t, M
        <5> QED BY <5>1, <5>2
      <4>2. CASE n > 1
        <5>1. Len(u) > M /\ u[M + 1] = ss[2][1]
          BY <3>2, <4>2
        <5> HIDE DEF u, w, t, M
        <5> QED BY <1>3, <3>1, <5>1
      <4> QED BY <1>2, <2>3, <4>1, <4>2
    <3>5. Starts(n + 1)
      BY <3>3, <3>4
    <3> HIDE DEF Starts, N
    <3> QED BY <2>1, <3>5
  <2> QED BY <2>2, <2>3
<1>6. Starts(N)
  <2>1. N \in I
    <3> HIDE DEF I, N
    <3>1. 0 .. N \subseteq I
      BY <1>2, <1>4, <1>5, UpTo
    <3> QED BY <1>2, <3>1
  <2> QED BY <1>2, <2>1
<1>7. N = 1 => f[N] = ss[1]
  BY <1>1
<1>8. N > 1 => Len(f[N]) > M /\ f[N][M + 1] = ss[2][1]
  BY <1>6
<1>9. Len(f[N]) >= M /\ \A j \in 1 .. M : f[N][j] = ss[1][j]
  BY <1>6
<1> HIDE DEF N, M
<1> QED BY <1>1, <1>3, <1>7, <1>8, <1>9 DEF N, M

-----------------------------------------------------------------------------
(***************************************************************************)
(* The documents.                                                          *)
(***************************************************************************)

\* A complete codec and header extension, and entries of the extended capabilities.
Codec == [kind : Kinds, name : Texts, pt : Nat, rate : Nat, channels : Nat, par : Pars,
          fb : Seq(Texts)]

HeaderExt == [kind : Kinds, uri : Texts, id : Nat, direction : Directions]

Entry == [kind : Kinds, name : Texts, rate : Nat, channels : Nat,
          localPt : Nat, localRtx : Nat \cup {NoPt}, remotePt : Nat, remoteRtx : Nat \cup {NoPt},
          localPar : Pars, remotePar : Pars, fb : Seq(Texts)]

ExtEntry == [kind : Kinds, uri : Texts, sendId : Nat, recvId : Nat, direction : Directions]

\* A setting of H264 or VP9 is on such a codec only.
PlainPar(name, par) ==
    /\ name # "h264" => par.mode = 0 /\ par.profile = NoProfile /\ par.level = 0
    /\ name # "vp9" => par.vp9 = 0

\* The same codec, except for the level, the feedback and the options.
SameCodec(c, d) ==
    /\ c.kind = d.kind /\ c.name = d.name /\ c.pt = d.pt
    /\ c.rate = d.rate /\ c.channels = d.channels
    /\ c.par.apt = d.par.apt /\ c.par.mode = d.par.mode /\ c.par.profile = d.par.profile
    /\ c.par.asym = d.par.asym /\ c.par.vp9 = d.par.vp9

Announced == IsDocument(native) /\ RtxInItsLine(native) /\ IsDocument(router)

Validated == ValidCapabilities(Received) /\ ValidCapabilities(native)

\* Nothing was negotiated (yet).
Before == pc = "load" \/ (pc = "threw" /\ ~Validated)

\* The working documents are the announced ones, except for levels.
NativeOk ==
    /\ local.codecs \in Seq(Codec) /\ Len(local.codecs) = Len(native.codecs)
    /\ \A j \in DOMAIN native.codecs :
          /\ SameCodec(local.codecs[j], NativeCodec(j))
          /\ local.codecs[j].par.level <= NativeCodec(j).par.level

RouterOk ==
    /\ remote.codecs \in Seq(Codec) /\ Len(remote.codecs) = Len(router.codecs)
    /\ \A n \in DOMAIN router.codecs :
          /\ SameCodec(remote.codecs[n], RouterCodec(n))
          /\ pc = "codecs" /\ n >= k => remote.codecs[n].par.level = RouterCodec(n).par.level

ExtsOk == /\ DOMAIN local = {"codecs", "exts"} /\ DOMAIN remote = {"codecs", "exts"}
          /\ local.exts \in Seq(HeaderExt) /\ remote.exts \in Seq(HeaderExt)
          /\ \A j \in DOMAIN local.exts : local.exts[j].uri \in Offered(local.exts[j].kind)

Nothing == /\ local = NoCaps /\ remote = NoCaps
           /\ codecs = << >> /\ exts = << >> /\ pairs = << >>

DocsOk == IF Before THEN Nothing
          ELSE Validated /\ NativeOk /\ RouterOk /\ ExtsOk

IndexOk ==
    /\ pc \in Pcs
    /\ pc = "codecs" => k \in 1 .. Len(remote.codecs) + 1
    /\ pc = "rtx" => k \in 1 .. Len(codecs) + 1
    /\ pc = "exts" => k \in 1 .. Len(remote.exts) + 1
    /\ pc \notin {"codecs", "rtx", "exts"} => k = 1

\* An entry, made of the native and the router codec of a pair: the first native
\* codec that is compatible, the settings agreed on, and an RTX libwebrtc offered.
HasRtx(e) ==
    e.localRtx # NoPt =>
        \E j \in DOMAIN native.codecs :
            LET c == NativeCodec(j)
            IN  c.kind = e.kind /\ IsRtx(c) /\ c.pt = e.localRtx /\ c.par.apt = e.localPt

Agreed(e) ==
    /\ e.localPar.mode = e.remotePar.mode /\ e.localPar.profile = e.remotePar.profile
    /\ e.localPar.level = e.remotePar.level /\ e.localPar.vp9 = e.remotePar.vp9

LevelOk(p, e) ==
    e.name = "h264" =>
        /\ e.localPar.level = e.remotePar.level
        /\ e.localPar.level <= NativeCodec(p[1]).par.level
        /\ \/ e.localPar.level <= RouterCodec(p[2]).par.level
           \/ NativeCodec(p[1]).par.asym = 1 /\ RouterCodec(p[2]).par.asym = 1

EntryOf(p, e) ==
    /\ p[1] \in DOMAIN native.codecs /\ p[2] \in DOMAIN router.codecs
    /\ p[1] = FirstOf(Compatible(p[2]))
    /\ e.kind = NativeCodec(p[1]).kind /\ e.name = NativeCodec(p[1]).name /\ ~IsRtx(e)
    /\ e.localPt = native.codecs[p[1]].pt /\ e.remotePt = router.codecs[p[2]].pt
    /\ PlainPar(e.name, e.localPar) /\ e.localPar.vp9 = 0 /\ Agreed(e) /\ LevelOk(p, e)
    /\ HasRtx(e) /\ (e.localRtx = NoPt <=> e.remoteRtx = NoPt)

EntriesOk == /\ codecs \in Seq(Entry) /\ pairs \in Seq(Nat \X Nat) /\ Len(pairs) = Len(codecs)
             /\ \A n \in DOMAIN codecs : EntryOf(pairs[n], codecs[n])

ExtEntriesOk == /\ exts \in Seq(ExtEntry)
                /\ \A j \in DOMAIN exts : exts[j].uri \in Offered(exts[j].kind)

\* The pairs found in the first rounds, in order.
Found(bound) == {n \in DOMAIN router.codecs :
                    n <= bound /\ ~IsRtx(router.codecs[n]) /\ Compatible(n) # {}}

Bound == IF pc = "codecs" THEN k - 1 ELSE Len(router.codecs)

OrderOk ==
    ~Before =>
        /\ \A n \in 1 .. Len(pairs) - 1 : pairs[n][2] < pairs[n + 1][2]
        /\ {pairs[n][2] : n \in DOMAIN pairs} = Found(Bound)

\* What publish makes of the extended capabilities, for a kind.
SendOf(kind)   == LET p == getSendingRtpParameters(kind, x)
                  IN  [p EXCEPT !.codecs = reduceCodecs(@)]
RemoteOf(kind) == LET p == getSendingRemoteRtpParameters(kind, x)
                  IN  [p EXCEPT !.codecs = reduceCodecs(@)]
LineOf(kind)   == AnswerLine(RemoteOf(kind), Offered(kind))
OwnOf(kind)    == OfferOptions(SendOf(kind), LineOf(kind))

Joined == pc \in {"joined", "parameters", "answer", "produce", "done"} \/ (pc = "threw" /\ Validated)

JoinOk == IF Joined THEN /\ recv = getRecvRtpCapabilities(x)
                         /\ canProduce = [kind \in Kinds |-> canSend(kind, x)]
          ELSE recv = NoCaps /\ canProduce = [kind \in Kinds |-> FALSE]

\* A kind's m-line and request, once there, are the ones its entries give.
KindOk(kind) ==
    /\ \/ answers[kind] = NoCaps
       \/ Joined /\ canProduce[kind] /\ answers[kind] = LineOf(kind)
    /\ \/ built[kind] = << >> /\ produced[kind] = << >>
       \/ /\ Joined /\ canProduce[kind] /\ answers[kind] = LineOf(kind)
          /\ built[kind] = OwnOf(kind).codecs
          /\ produced[kind] = Through(ProduceFields, built[kind])

HalfOk ==
    /\ withAudio \in BOOLEAN /\ half \in Kinds
    /\ pc = "answer" => send = SendOf(half) /\ sendRemote = RemoteOf(half)
    /\ pc = "produce" => /\ canProduce[half] /\ answers[half] = LineOf(half)
                         /\ send = OwnOf(half)
    /\ pc \in {"parameters", "answer", "produce"} =>
          (half = "audio" => withAudio) /\ (half = "video" /\ withAudio => built["audio"] # << >>)
    /\ pc = "done" => built["video"] # << >> /\ (withAudio => built["audio"] # << >>)
    /\ pc = "threw" /\ Validated => ~canProduce["video"] \/ (withAudio /\ ~canProduce["audio"])

PublishOk == /\ HalfOk
             /\ DOMAIN built = Kinds /\ DOMAIN produced = Kinds /\ DOMAIN answers = Kinds
             /\ \A kind \in Kinds : KindOk(kind)

Inv == /\ Announced /\ IndexOk /\ DocsOk /\ EntriesOk /\ ExtEntriesOk /\ OrderOk
       /\ JoinOk /\ PublishOk

-----------------------------------------------------------------------------
(***************************************************************************)
(* The documents, when load_capabilities has validated them.               *)
(***************************************************************************)

\* The default parameters.
LEMMA NoParType == NoPar \in Pars /\ \A name : PlainPar(name, NoPar)
<1>1. NoProfile \in Texts
  BY TextsAssumption DEF NoProfile
<1> QED BY <1>1 DEF NoPar, Pars, NoPt, PlainPar

\* A field map keeps parameters or leaves their defaults.
LEMMA KeptFacts ==
    ASSUME NEW fields, NEW par \in Pars
    PROVE  /\ Kept(fields, par) \in Pars
           /\ Kept(fields, par).opts = par.opts \cap fields
           /\ \A f \in {"apt", "mode", "profile", "level", "asym", "vp9"} :
                 Kept(fields, par)[f] = IF f \in fields THEN par[f] ELSE NoPar[f]
<1> DEFINE q == Kept(fields, par)
<1>1. NoPar \in Pars
  BY NoParType
<1>2. DOMAIN NoPar = {"apt", "mode", "profile", "level", "asym", "vp9", "opts"}
  BY DEF NoPar
<1>3. q = [f \in DOMAIN NoPar |-> IF f = "opts" THEN par.opts \cap fields
                                   ELSE IF f \in fields THEN par[f] ELSE NoPar[f]]
  BY DEF Kept
<1>4. q.opts = par.opts \cap fields
  BY <1>2, <1>3
<1>5. \A f \in {"apt", "mode", "profile", "level", "asym", "vp9"} :
         q[f] = IF f \in fields THEN par[f] ELSE NoPar[f]
  BY <1>2, <1>3
<1> DEFINE r == [apt |-> q.apt, mode |-> q.mode, profile |-> q.profile, level |-> q.level,
                 asym |-> q.asym, vp9 |-> q.vp9, opts |-> q.opts]
<1>6. q = r
  <2>1. DOMAIN q = DOMAIN r /\ \A f \in DOMAIN r : q[f] = r[f]
    <3>1. DOMAIN q = DOMAIN NoPar
      BY <1>3
    <3>2. DOMAIN r = {"apt", "mode", "profile", "level", "asym", "vp9", "opts"}
      OBVIOUS
    <3>3. \A f \in {"apt", "mode", "profile", "level", "asym", "vp9", "opts"} : q[f] = r[f]
      <4> HIDE DEF q
      <4> QED OBVIOUS
    <3> HIDE DEF q, r
    <3> QED BY <1>2, <3>1, <3>2, <3>3
  <2>2. q = [f \in DOMAIN q |-> q[f]]
    BY <1>3
  <2>3. r = [f \in DOMAIN r |-> r[f]]
    OBVIOUS
  <2> HIDE DEF q, r
  <2> QED BY <2>1, <2>2, <2>3
<1>7. r \in Pars
  <2> HIDE DEF q
  <2> QED BY <1>1, <1>4, <1>5 DEF Pars
<1> HIDE DEF q, r
<1> QED BY <1>4, <1>5, <1>6, <1>7 DEF q

\* Validation returns complete codecs.
LEMMA CompleteCodecType ==
    ASSUME NEW c, IsCodec(c), ValidCodec(c)
    PROVE  CompleteCodec(c) \in Codec /\ PlainPar(c.name, CompleteCodec(c).par)
<1>1. NoPar \in Pars /\ PlainPar(c.name, NoPar)
  BY NoParType
<1>2. Given(c, "par", NoPar) \in Pars /\ PlainPar(c.name, Given(c, "par", NoPar))
  BY <1>1 DEF IsCodec, Given, PlainPar
<1>3. Given(c, "fb", << >>) \in Seq(Texts)
  BY DEF IsCodec, Given
<1>4. (IF c.kind = "audio" THEN Given(c, "channels", 1) ELSE NoChannels) \in Nat
  BY DEF IsCodec, Given, NoChannels
<1>5. c.kind \in Kinds /\ c.name \in Texts /\ c.pt \in Nat /\ c.rate \in Nat
  BY DEF IsCodec, ValidCodec
<1> QED BY <1>2, <1>3, <1>4, <1>5 DEF CompleteCodec, Codec

\* What validateRtpHeaderExtension completes is a header extension.
LEMMA CompleteExtType ==
    ASSUME NEW e, IsExt(e), ValidExt(e)
    PROVE  CompleteExt(e) \in HeaderExt
<1>1. Given(e, "direction", "sendrecv") \in Directions
  BY DEF IsExt, Given, Directions
<1> QED BY <1>1 DEF IsExt, ValidExt, CompleteExt, HeaderExt

\* The field map of the router's capabilities drops the VP9 profile.
LEMMA ReceivedCodec ==
    ASSUME Announced, NEW n \in DOMAIN router.codecs
    PROVE  /\ DOMAIN Received.codecs = DOMAIN router.codecs
           /\ IsCodec(Received.codecs[n])
           /\ SameCodec(CompleteCodec(Received.codecs[n]), RouterCodec(n))
           /\ CompleteCodec(Received.codecs[n]).par.level = RouterCodec(n).par.level
<1> DEFINE r == router.codecs[n]
           t == Received.codecs[n]
           p == Given(r, "par", NoPar)
           q == Given(t, "par", NoPar)
<1>1. Received.codecs = Through(RouterFields, router.codecs)
  BY DEF Received, Announced, IsDocument
<1>2. DOMAIN Received.codecs = DOMAIN router.codecs
  BY <1>1 DEF Through
<1>3. t = IF "par" \in DOMAIN r THEN [r EXCEPT !.par = Kept(RouterFields, @)] ELSE r
  BY <1>1 DEF Through
<1>4. IsCodec(r)
  BY DEF Announced, IsDocument
<1>5. /\ DOMAIN t = DOMAIN r /\ \A f \in DOMAIN r : f # "par" => t[f] = r[f]
      /\ "par" \in DOMAIN r => t.par = Kept(RouterFields, r.par)
  <2> HIDE DEF r, t
  <2> QED BY <1>3
<1>6. "par" \in DOMAIN r =>
         /\ r.par \in Pars /\ t.par \in Pars
         /\ t.par.apt = r.par.apt /\ t.par.mode = r.par.mode /\ t.par.profile = r.par.profile
         /\ t.par.level = r.par.level /\ t.par.asym = r.par.asym /\ t.par.vp9 = 0
  <2> HAVE "par" \in DOMAIN r
  <2>1. r.par \in Pars
    BY <1>4 DEF IsCodec
  <2> HIDE DEF r, t
  <2> QED BY <1>5, <2>1, KeptFacts DEF RouterFields, NoPar
<1>7. IsCodec(t)
  <2> HIDE DEF r, t
  <2> QED BY <1>4, <1>5, <1>6 DEF IsCodec
<1>8. /\ q.apt = p.apt /\ q.mode = p.mode /\ q.profile = p.profile
      /\ q.level = p.level /\ q.asym = p.asym /\ q.vp9 = 0
  <2> HIDE DEF r, t
  <2> QED BY <1>5, <1>6 DEF Given, NoPar
<1>9. p \in Pars
  <2> HIDE DEF r, t
  <2> QED BY <1>6, NoParType DEF Given
<1> DEFINE b == CompleteCodec(r)
<1>10. /\ RouterCodec(n).kind = r.kind /\ RouterCodec(n).name = r.name
       /\ RouterCodec(n).pt = r.pt /\ RouterCodec(n).rate = r.rate
       /\ RouterCodec(n).channels = b.channels
       /\ RouterCodec(n).par = [p EXCEPT !.vp9 = 0]
  <2> HIDE DEF r
  <2> QED BY DEF RouterCodec, CompleteCodec, r
<1>11. CompleteCodec(t).channels = b.channels
  <2> HIDE DEF r, t
  <2> QED BY <1>4, <1>5 DEF CompleteCodec, Given, IsCodec
<1>12. t.kind = r.kind /\ t.name = r.name /\ t.pt = r.pt
  <2> HIDE DEF r, t
  <2> QED BY <1>4, <1>5 DEF IsCodec
<1>13. t.rate = r.rate
  <2>1. CASE "rate" \in DOMAIN r
    <3> HIDE DEF r, t
    <3> QED BY <1>5, <2>1
  <2>2. CASE "rate" \notin DOMAIN r
    <3> HIDE DEF r, t
    <3> QED BY <1>3, <2>2
  <2> QED BY <2>1, <2>2
<1>14. CompleteCodec(t).par = q
  BY DEF CompleteCodec
<1> HIDE DEF r, t, p, q, b
<1>15. [p EXCEPT !.vp9 = 0].vp9 = 0 /\ \A f \in {"apt", "mode", "profile", "level", "asym"} :
          [p EXCEPT !.vp9 = 0][f] = p[f]
  BY <1>9 DEF Pars
<1>16. SameCodec(CompleteCodec(t), RouterCodec(n))
       /\ CompleteCodec(t).par.level = RouterCodec(n).par.level
  <2>1. /\ CompleteCodec(t).kind = t.kind /\ CompleteCodec(t).name = t.name
        /\ CompleteCodec(t).pt = t.pt /\ CompleteCodec(t).rate = t.rate
    BY DEF CompleteCodec
  <2> QED BY <2>1, <1>8, <1>10, <1>11, <1>12, <1>13, <1>14, <1>15 DEF SameCodec
<1> QED BY <1>2, <1>7, <1>16 DEF t

\* Arrays, and the maps that keep an array's indices.
LEMMA ArrayFacts ==
    ASSUME NEW s, IsArray(s)
    PROVE  Len(s) \in Nat /\ DOMAIN s = 1 .. Len(s)
BY DEF IsArray

\* A function over a prefix of the numbers is a sequence.
LEMMA MapType ==
    ASSUME NEW V, NEW n \in Nat, NEW f \in [1 .. n -> V]
    PROVE  f \in Seq(V) /\ Len(f) = n /\ DOMAIN f = 1 .. n
OBVIOUS

\* What load_capabilities works on once both documents are valid.
LEMMA Loaded ==
    ASSUME Announced, Validated
    PROVE  LET l == CompleteCapabilities(native)
               r == CompleteCapabilities(Received)
           IN  /\ l.codecs \in Seq(Codec) /\ Len(l.codecs) = Len(native.codecs)
               /\ \A j \in DOMAIN native.codecs : l.codecs[j] = NativeCodec(j)
               /\ r.codecs \in Seq(Codec) /\ Len(r.codecs) = Len(router.codecs)
               /\ \A n \in DOMAIN router.codecs :
                     /\ SameCodec(r.codecs[n], RouterCodec(n))
                     /\ r.codecs[n].par.level = RouterCodec(n).par.level
               /\ l.exts \in Seq(HeaderExt) /\ r.exts \in Seq(HeaderExt)
               /\ \A j \in DOMAIN l.exts : l.exts[j].uri \in Offered(l.exts[j].kind)
<1> DEFINE l == CompleteCapabilities(native)
           r == CompleteCapabilities(Received)
<1>1. /\ Len(native.codecs) \in Nat /\ DOMAIN native.codecs = 1 .. Len(native.codecs)
      /\ Len(router.codecs) \in Nat /\ DOMAIN router.codecs = 1 .. Len(router.codecs)
      /\ Len(native.exts) \in Nat /\ DOMAIN native.exts = 1 .. Len(native.exts)
      /\ Len(router.exts) \in Nat /\ DOMAIN router.exts = 1 .. Len(router.exts)
  BY ArrayFacts DEF Announced, IsDocument
<1>2. /\ l.codecs = [j \in DOMAIN native.codecs |-> NativeCodec(j)]
      /\ l.exts = [j \in DOMAIN native.exts |-> CompleteExt(native.exts[j])]
  BY DEF CompleteCapabilities, NativeCodec
<1>3. /\ r.codecs = [n \in DOMAIN router.codecs |-> CompleteCodec(Received.codecs[n])]
      /\ r.exts = [j \in DOMAIN router.exts |-> CompleteExt(router.exts[j])]
  <2>1. DOMAIN Received.codecs = DOMAIN router.codecs
    BY DEF Received, Through, Announced, IsDocument
  <2>2. Received.exts = router.exts
    BY DEF Received, Announced, IsDocument
  <2> QED BY <2>1, <2>2 DEF CompleteCapabilities
<1>4. \A j \in DOMAIN native.codecs : NativeCodec(j) \in Codec
  BY CompleteCodecType DEF NativeCodec, Announced, IsDocument, Validated, ValidCapabilities
<1>5. \A n \in DOMAIN router.codecs :
         /\ CompleteCodec(Received.codecs[n]) \in Codec
         /\ SameCodec(CompleteCodec(Received.codecs[n]), RouterCodec(n))
         /\ CompleteCodec(Received.codecs[n]).par.level = RouterCodec(n).par.level
  <2> TAKE n \in DOMAIN router.codecs
  <2>1. IsCodec(Received.codecs[n]) /\ n \in DOMAIN Received.codecs
    BY ReceivedCodec
  <2>2. ValidCodec(Received.codecs[n])
    BY <2>1 DEF Validated, ValidCapabilities
  <2> QED BY <2>1, <2>2, ReceivedCodec, CompleteCodecType
<1>6. \A j \in DOMAIN native.exts : CompleteExt(native.exts[j]) \in HeaderExt
  BY CompleteExtType DEF Announced, IsDocument, Validated, ValidCapabilities
<1>7. \A j \in DOMAIN router.exts : CompleteExt(router.exts[j]) \in HeaderExt
  <2>1. Received.exts = router.exts
    BY DEF Received, Announced, IsDocument
  <2> QED BY <2>1, CompleteExtType DEF Announced, IsDocument, Validated, ValidCapabilities
<1>8. \A j \in DOMAIN l.exts : l.exts[j].uri \in Offered(l.exts[j].kind)
  <2> TAKE j \in DOMAIN l.exts
  <2>1. j \in DOMAIN native.exts /\ l.exts[j] = CompleteExt(native.exts[j])
    BY <1>2
  <2>2. l.exts[j].uri = native.exts[j].uri /\ l.exts[j].kind = native.exts[j].kind
    BY <2>1 DEF CompleteExt
  <2> HIDE DEF l
  <2> QED BY <2>1, <2>2 DEF Offered
<1>9. l.codecs \in Seq(Codec) /\ Len(l.codecs) = Len(native.codecs)
  <2> HIDE DEF l
  <2>1. l.codecs \in [1 .. Len(native.codecs) -> Codec]
    BY <1>1, <1>2, <1>4
  <2> QED BY <1>1, <2>1, MapType
<1>10. r.codecs \in Seq(Codec) /\ Len(r.codecs) = Len(router.codecs)
  <2> HIDE DEF r
  <2>1. r.codecs \in [1 .. Len(router.codecs) -> Codec]
    BY <1>1, <1>3, <1>5
  <2> QED BY <1>1, <2>1, MapType
<1>11. l.exts \in Seq(HeaderExt)
  <2>1. l.exts \in [1 .. Len(native.exts) -> HeaderExt]
    BY <1>1, <1>2, <1>6
  <2> QED BY <1>1, <2>1, MapType
<1>12. r.exts \in Seq(HeaderExt)
  <2>1. r.exts \in [1 .. Len(router.exts) -> HeaderExt]
    BY <1>1, <1>3, <1>7
  <2> QED BY <1>1, <2>1, MapType
<1>13. \A j \in DOMAIN native.codecs : l.codecs[j] = NativeCodec(j)
  BY <1>2
<1>14. \A n \in DOMAIN router.codecs : r.codecs[n] = CompleteCodec(Received.codecs[n])
  BY <1>3
<1> HIDE DEF l, r
<1> QED BY <1>5, <1>8, <1>9, <1>10, <1>11, <1>12, <1>13, <1>14 DEF l, r

\* Formats compare what the words say.
LEMMA FormatFacts ==
    ASSUME NEW c, NEW d
    PROVE  Format(c) = Format(d) <=>
              /\ c.kind = d.kind /\ c.name = d.name /\ c.rate = d.rate /\ c.channels = d.channels
              /\ c.name = "h264" => c.par.mode = d.par.mode /\ c.par.profile = d.par.profile
              /\ c.name = "vp9" => c.par.vp9 = d.par.vp9
<1> DEFINE F(e) == IF e.name = "h264" THEN <<e.par.mode, e.par.profile>>
                   ELSE IF e.name = "vp9" THEN <<e.par.vp9>> ELSE << >>
<1>1. Format(c) = <<c.kind, c.name, c.rate, c.channels, F(c)>>
      /\ Format(d) = <<d.kind, d.name, d.rate, d.channels, F(d)>>
  BY DEF Format
<1>2. c.name = d.name =>
         (F(c) = F(d) <=> /\ c.name = "h264" => c.par.mode = d.par.mode
                                                  /\ c.par.profile = d.par.profile
                          /\ c.name = "vp9" => c.par.vp9 = d.par.vp9)
  <2> HAVE c.name = d.name
  <2>1. CASE c.name = "h264"
    BY <2>1
  <2>2. CASE c.name = "vp9"
    BY <2>2
  <2>3. CASE c.name # "h264" /\ c.name # "vp9"
    BY <2>3
  <2> QED BY <2>1, <2>2, <2>3
<1> HIDE DEF F
<1>3. Format(c) = Format(d) <=> /\ c.kind = d.kind /\ c.name = d.name /\ c.rate = d.rate
                                /\ c.channels = d.channels /\ F(c) = F(d)
  BY <1>1
<1> QED BY <1>2, <1>3

\* The levels the loop wrote do not change what matches.
LEMMA MatchesCompatible ==
    ASSUME Announced, NativeOk, RouterOk, NEW n \in DOMAIN router.codecs
    PROVE  Matches(n) = Compatible(n) /\ Matches(n) \subseteq DOMAIN native.codecs
<1>1. DOMAIN local.codecs = DOMAIN native.codecs
  BY ArrayFacts DEF Announced, IsDocument, NativeOk
<1>2. \A j \in DOMAIN native.codecs :
         MatchCodecs(local.codecs[j], remote.codecs[n])
            <=> Format(NativeCodec(j)) = Format(RouterCodec(n)) /\ Known(NativeCodec(j))
  <2> TAKE j \in DOMAIN native.codecs
  <2> DEFINE a == local.codecs[j]
             b == remote.codecs[n]
             c == NativeCodec(j)
             d == RouterCodec(n)
  <2>1. SameCodec(a, c) /\ SameCodec(b, d)
    BY DEF NativeOk, RouterOk
  <2> HIDE DEF a, b, c, d
  <2>2. MatchCodecs(a, b) <=>
           /\ c.kind = d.kind /\ c.name = d.name /\ c.rate = d.rate /\ c.channels = d.channels
           /\ c.name = "h264" => /\ c.par.mode = d.par.mode /\ c.par.profile # NoProfile
                                 /\ c.par.profile = d.par.profile
           /\ c.name = "vp9" => c.par.vp9 = d.par.vp9
    BY <2>1 DEF SameCodec, MatchCodecs, SameProfile
  <2>3. MatchCodecs(a, b) <=> Format(c) = Format(d) /\ Known(c)
    BY <2>2, FormatFacts DEF Known
  <2> QED BY <2>3 DEF a, b, c, d
<1> QED BY <1>1, <1>2 DEF Matches, Compatible

-----------------------------------------------------------------------------
(***************************************************************************)
(* The matching loop.                                                      *)
(***************************************************************************)

\* Writing a level changes nothing else, and only an H264 codec.
LEMMA WithLevelFacts ==
    ASSUME NEW c \in Codec, NEW level \in Nat
    PROVE  LET d == WithLevel(c, level)
           IN  /\ d \in Codec /\ SameCodec(d, c) /\ d.fb = c.fb
               /\ d.par.level = IF c.name = "h264" THEN level ELSE c.par.level
<1>1. CASE c.name = "h264"
  BY <1>1 DEF WithLevel, Codec, Pars, SameCodec
<1>2. CASE c.name # "h264"
  BY <1>2 DEF WithLevel, Codec, Pars, SameCodec
<1> QED BY <1>1, <1>2

\* The codecs as announced.
LEMMA AnnouncedCodecs ==
    ASSUME Announced, Validated
    PROVE  /\ \A j \in DOMAIN native.codecs :
                 /\ NativeCodec(j) \in Codec /\ NativeCodec(j).pt = native.codecs[j].pt
                 /\ PlainPar(NativeCodec(j).name, NativeCodec(j).par)
           /\ \A n \in DOMAIN router.codecs :
                 /\ RouterCodec(n).name = router.codecs[n].name
                 /\ RouterCodec(n).pt = router.codecs[n].pt
                 /\ RouterCodec(n).par.level \in Nat /\ RouterCodec(n).par.vp9 = 0
                 /\ PlainPar(RouterCodec(n).name, RouterCodec(n).par)
<1>1. ASSUME NEW j \in DOMAIN native.codecs
      PROVE  /\ NativeCodec(j) \in Codec /\ NativeCodec(j).pt = native.codecs[j].pt
             /\ PlainPar(NativeCodec(j).name, NativeCodec(j).par)
  <2>1. NativeCodec(j).name = native.codecs[j].name /\ NativeCodec(j).pt = native.codecs[j].pt
    BY DEF NativeCodec, CompleteCodec
  <2>2. /\ CompleteCodec(native.codecs[j]) \in Codec
        /\ PlainPar(native.codecs[j].name, CompleteCodec(native.codecs[j]).par)
    BY CompleteCodecType DEF Announced, IsDocument, Validated, ValidCapabilities
  <2> QED BY <2>1, <2>2 DEF NativeCodec
<1>2. ASSUME NEW n \in DOMAIN router.codecs
      PROVE  /\ RouterCodec(n).name = router.codecs[n].name
             /\ RouterCodec(n).pt = router.codecs[n].pt
             /\ RouterCodec(n).par.level \in Nat /\ RouterCodec(n).par.vp9 = 0
             /\ PlainPar(RouterCodec(n).name, RouterCodec(n).par)
  <2> DEFINE t == CompleteCodec(Received.codecs[n])
             d == RouterCodec(n)
  <2>1. /\ n \in DOMAIN Received.codecs /\ IsCodec(Received.codecs[n])
        /\ SameCodec(t, d) /\ t.par.level = d.par.level
    BY ReceivedCodec
  <2>2. ValidCodec(Received.codecs[n])
    BY <2>1 DEF Validated, ValidCapabilities
  <2>3. t \in Codec /\ PlainPar(Received.codecs[n].name, t.par)
    BY <2>1, <2>2, CompleteCodecType
  <2>4. Received.codecs[n].name = t.name
    BY DEF CompleteCodec
  <2>5. d.name = router.codecs[n].name /\ d.pt = router.codecs[n].pt
    BY DEF RouterCodec, CompleteCodec
  <2>6. d.par.vp9 = 0
    <3>1. CompleteCodec(router.codecs[n]).par \in Pars
      <4>1. IsCodec(router.codecs[n])
        BY DEF Announced, IsDocument
      <4> QED BY <4>1, NoParType DEF CompleteCodec, Given, IsCodec
    <3> QED BY <3>1 DEF RouterCodec, CompleteCodec, Pars
  <2> HIDE DEF t, d
  <2>7. d.par.level \in Nat
    BY <2>1, <2>3 DEF Codec, Pars
  <2>8. PlainPar(d.name, d.par)
    BY <2>1, <2>3, <2>4 DEF SameCodec, PlainPar
  <2> QED BY <2>5, <2>6, <2>7, <2>8 DEF d
<1> QED BY <1>1, <1>2

\* A round that finds a match: both codecs, changed, and the entry made of them.
LEMMA MatchedEntry ==
    ASSUME Announced, Validated, NativeOk, RouterOk, pc = "codecs", k \in DOMAIN router.codecs,
           ~IsRtx(remote.codecs[k]), Matches(k) # {}
    PROVE  LET j     == FirstOf(Matches(k))
               level == AnswerLevel(local.codecs[j], remote.codecs[k])
               a     == WithLevel(local.codecs[j], level)
               b     == WithLevel(remote.codecs[k], level)
           IN  /\ j \in DOMAIN native.codecs
               /\ a \in Codec /\ SameCodec(a, NativeCodec(j))
               /\ a.par.level <= NativeCodec(j).par.level
               /\ b \in Codec /\ SameCodec(b, RouterCodec(k))
               /\ ExtendedCodec(a, b) \in Entry /\ EntryOf(<<j, k>>, ExtendedCodec(a, b))
<1> DEFINE j     == FirstOf(Matches(k))
           u     == local.codecs[j]
           v     == remote.codecs[k]
           c     == NativeCodec(j)
           d     == RouterCodec(k)
           level == AnswerLevel(u, v)
           a     == WithLevel(u, level)
           b     == WithLevel(v, level)
           e     == ExtendedCodec(a, b)
<1>1. /\ Matches(k) = Compatible(k) /\ Matches(k) \subseteq DOMAIN native.codecs
      /\ DOMAIN native.codecs = 1 .. Len(native.codecs) /\ Len(native.codecs) \in Nat
      /\ DOMAIN local.codecs = DOMAIN native.codecs /\ DOMAIN remote.codecs = DOMAIN router.codecs
  BY MatchesCompatible, ArrayFacts DEF Announced, IsDocument, NativeOk, RouterOk
<1>2. j \in Matches(k) /\ j \in DOMAIN native.codecs /\ j = FirstOf(Compatible(k))
  BY <1>1, FirstOfIsFirst
<1>3. u \in Codec /\ v \in Codec
  <2> HIDE DEF j
  <2> QED BY <1>1, <1>2 DEF NativeOk, RouterOk
<1>4. /\ SameCodec(u, c) /\ u.par.level <= c.par.level
      /\ SameCodec(v, d) /\ v.par.level = d.par.level
  <2>1. Len(router.codecs) \in Nat /\ DOMAIN router.codecs = 1 .. Len(router.codecs)
    BY ArrayFacts DEF Announced, IsDocument
  <2> HIDE DEF j
  <2> QED BY <1>2, <2>1 DEF NativeOk, RouterOk
<1>5. /\ c \in Codec /\ c.pt = native.codecs[j].pt /\ PlainPar(c.name, c.par)
      /\ d.name = router.codecs[k].name /\ d.pt = router.codecs[k].pt
      /\ PlainPar(d.name, d.par) /\ d.par.level \in Nat
  <2> HIDE DEF j
  <2> QED BY <1>2, AnnouncedCodecs
<1>6. MatchCodecs(u, v)
  BY <1>2 DEF Matches
<1> HIDE DEF j, u, v, c, d
<1>7. /\ level \in Nat /\ level <= u.par.level
      /\ level <= v.par.level \/ (u.par.asym = 1 /\ v.par.asym = 1)
  <2>1. u.par \in Pars /\ v.par \in Pars
    BY <1>3 DEF Codec
  <2>2. u.par.level \in Nat /\ v.par.level \in Nat
    BY <2>1 DEF Pars
  <2> QED BY <2>2 DEF AnswerLevel
<1> HIDE DEF level
<1>8. /\ a \in Codec /\ SameCodec(a, u) /\ b \in Codec /\ SameCodec(b, v)
      /\ a.par.level = IF u.name = "h264" THEN level ELSE u.par.level
      /\ b.par.level = IF v.name = "h264" THEN level ELSE v.par.level
  BY <1>3, <1>7, WithLevelFacts
<1>9. SameCodec(a, c) /\ SameCodec(b, d)
  <2> HIDE DEF a, b
  <2> QED BY <1>4, <1>8 DEF SameCodec
<1>10. u.par.level \in Nat /\ c.par.level \in Nat /\ a.par.level <= c.par.level
  <2> HIDE DEF a, b
  <2>1. u.par.level \in Nat /\ c.par.level \in Nat
    BY <1>3, <1>5 DEF Codec, Pars
  <2> QED BY <2>1, <1>4, <1>7, <1>8
<1>11. /\ a.kind = b.kind /\ a.name = b.name
       /\ a.name = "h264" => a.par.mode = b.par.mode /\ a.par.profile = b.par.profile
       /\ a.name = "vp9" => a.par.vp9 = b.par.vp9
  <2> HIDE DEF a, b
  <2> QED BY <1>6, <1>8 DEF MatchCodecs, SameProfile, SameCodec
<1>12. PlainPar(a.name, a.par) /\ PlainPar(b.name, b.par)
  <2> HIDE DEF a, b
  <2>1. a.name # "h264" => a.par.level = 0
    <3> HAVE a.name # "h264"
    <3>1. c.par.level = 0 /\ a.par.level \in Nat
      BY <1>5, <1>8, <1>9 DEF SameCodec, PlainPar, Codec, Pars
    <3> QED BY <3>1, <1>10
  <2>2. b.name # "h264" => b.par.level = 0
    BY <1>4, <1>5, <1>8, <1>9 DEF SameCodec, PlainPar
  <2> QED BY <2>1, <2>2, <1>5, <1>9 DEF SameCodec, PlainPar
<1> HIDE DEF a, b
<1>13. e.fb \in Seq(Texts)
  BY <1>8, KeepFacts DEF ExtendedCodec, reduceRtcpFeedback, Codec
<1>14. /\ e.kind = a.kind /\ e.name = a.name /\ e.localPt = a.pt /\ e.remotePt = b.pt
       /\ e.localPar = a.par /\ e.remotePar = b.par /\ e.localRtx = NoPt /\ e.remoteRtx = NoPt
  BY DEF ExtendedCodec
<1>15. e \in Entry
  BY <1>8, <1>13 DEF ExtendedCodec, Entry, Codec
<1> HIDE DEF e
<1>16. Agreed(e)
  <2>1. a.name # "h264" => a.par.mode = b.par.mode /\ a.par.profile = b.par.profile
                           /\ a.par.level = b.par.level
    BY <1>11, <1>12 DEF PlainPar
  <2>2. a.name # "vp9" => a.par.vp9 = b.par.vp9
    BY <1>11, <1>12 DEF PlainPar
  <2>3. a.name = "h264" => a.par.level = b.par.level
    BY <1>8, <1>11 DEF SameCodec
  <2> QED BY <2>1, <2>2, <2>3, <1>11, <1>14 DEF Agreed
<1>17. LevelOk(<<j, k>>, e)
  <2> SUFFICES ASSUME a.name = "h264"
               PROVE  /\ a.par.level = b.par.level /\ a.par.level <= c.par.level
                      /\ a.par.level <= d.par.level \/ (c.par.asym = 1 /\ d.par.asym = 1)
    BY <1>14 DEF LevelOk, c, d
  <2>1. u.name = "h264" /\ v.name = "h264"
    BY <1>8, <1>11 DEF SameCodec
  <2> QED BY <2>1, <1>4, <1>7, <1>8, <1>10 DEF SameCodec
<1>18. ~IsRtx(e)
  BY <1>8, <1>11, <1>14 DEF IsRtx, SameCodec, v
<1>19. EntryOf(<<j, k>>, e)
  <2>1. e.kind = c.kind /\ e.name = c.name /\ e.localPt = c.pt /\ e.remotePt = d.pt
    BY <1>9, <1>14 DEF SameCodec
  <2>2. HasRtx(e) /\ (e.localRtx = NoPt <=> e.remoteRtx = NoPt)
    BY <1>14 DEF HasRtx
  <2>3. PlainPar(e.name, e.localPar) /\ e.localPar.vp9 = 0
    <3>1. d.par.vp9 = 0 /\ b.par.vp9 = d.par.vp9
      BY <1>9, AnnouncedCodecs DEF SameCodec, d
    <3> QED BY <3>1, <1>12, <1>14, <1>16 DEF Agreed
  <2> QED BY <2>1, <2>2, <2>3, <1>2, <1>5, <1>16, <1>17, <1>18 DEF EntryOf, c
<1> QED BY <1>2, <1>8, <1>9, <1>10, <1>15, <1>19 DEF a, b, c, d, e, level, u, v, j

-----------------------------------------------------------------------------
(***************************************************************************)
(* The steps.                                                              *)
(***************************************************************************)

\* The documents as announced never change.
LEMMA DocsSame ==
    ASSUME UNCHANGED docs
    PROVE  /\ (Announced' <=> Announced) /\ (Validated' <=> Validated)
           /\ \A n : NativeCodec(n)' = NativeCodec(n) /\ RouterCodec(n)' = RouterCodec(n)
           /\ \A n : Compatible(n)' = Compatible(n)
           /\ \A kind : Offered(kind)' = Offered(kind)
           /\ \A p, e : EntryOf(p, e)' <=> EntryOf(p, e)
           /\ \A bound : Found(bound)' = Found(bound)
<1>1. native' = native /\ router' = router
  BY DEF docs
<1>2. (Announced' <=> Announced) /\ (Validated' <=> Validated)
  BY <1>1 DEF Announced, Validated, Received
<1>3. \A n : NativeCodec(n)' = NativeCodec(n) /\ RouterCodec(n)' = RouterCodec(n)
  BY <1>1 DEF NativeCodec, RouterCodec
<1>4. \A n : Compatible(n)' = Compatible(n)
  BY <1>1, <1>3 DEF Compatible
<1>5. \A kind : Offered(kind)' = Offered(kind)
  BY <1>1 DEF Offered
<1>6. \A e : HasRtx(e)' <=> HasRtx(e)
  BY <1>1, <1>3 DEF HasRtx
<1>7. \A p, e : LevelOk(p, e)' <=> LevelOk(p, e)
  BY <1>3 DEF LevelOk
<1>8. \A p, e : EntryOf(p, e)' <=> EntryOf(p, e)
  BY <1>1, <1>3, <1>4, <1>6, <1>7 DEF EntryOf
<1>9. \A bound : Found(bound)' = Found(bound)
  BY <1>1, <1>4 DEF Found
<1> QED BY <1>2, <1>3, <1>4, <1>5, <1>8, <1>9

\* Before the join, nothing is received, joined or published.
LEMMA EarlyStep ==
    ASSUME JoinOk, PublishOk, ~Joined, UNCHANGED <<recv, canProduce, pub>>,
           \/ pc' \in {"load", "codecs", "rtx", "exts", "loaded"}
           \/ pc' = "threw" /\ ~Validated'
    PROVE  JoinOk' /\ PublishOk'
<1>1. ~Joined'
  BY DEF Joined
<1>2. /\ recv' = recv /\ canProduce' = canProduce /\ withAudio' = withAudio /\ half' = half
      /\ built' = built /\ produced' = produced /\ answers' = answers
  BY DEF pub
<1>3. JoinOk'
  BY <1>1, <1>2 DEF JoinOk
<1>4. HalfOk'
  BY <1>2 DEF PublishOk, HalfOk
<1>5. ASSUME NEW kind \in Kinds PROVE KindOk(kind)'
  <2>1. answers[kind] = NoCaps /\ built[kind] = << >> /\ produced[kind] = << >>
    BY DEF PublishOk, KindOk
  <2> QED BY <1>2, <2>1 DEF KindOk
<1> QED BY <1>2, <1>3, <1>4, <1>5 DEF PublishOk

\* load_capabilities.
LEMMA LoadStep == ASSUME Inv, Load PROVE Inv'
<1> USE DEF Load
<1>1. UNCHANGED docs /\ Before /\ ~Joined /\ pc = "load"
  BY DEF Before, Joined
<1>2. Nothing /\ k = 1
  BY <1>1 DEF Inv, DocsOk, IndexOk
<1>3. Announced' /\ (Validated' <=> Validated)
  BY <1>1, DocsSame DEF Inv
<1>4. CASE Validated
  <2>1. /\ pc' = "codecs" /\ local' = CompleteCapabilities(native)
        /\ remote' = CompleteCapabilities(Received) /\ k' = 1
    BY <1>2, <1>4 DEF Validated
  <2>2. IndexOk'
    <3>1. remote'.codecs \in Seq(Codec)
      BY <1>4, <2>1, Loaded DEF Inv
    <3> QED BY <2>1, <3>1 DEF IndexOk, Pcs
  <2>3. ~Before' /\ native' = native /\ router' = router
    BY <2>1, <1>1 DEF Before, docs
  <2>4. NativeOk'
    <3> DEFINE l == CompleteCapabilities(native)
    <3>1. /\ l.codecs \in Seq(Codec) /\ Len(l.codecs) = Len(native.codecs)
          /\ \A j \in DOMAIN native.codecs : l.codecs[j] = NativeCodec(j)
      BY <1>4, Loaded DEF Inv
    <3> HIDE DEF l
    <3>2. \A j \in DOMAIN native.codecs : NativeCodec(j) \in Codec
      BY <1>4, AnnouncedCodecs DEF Inv
    <3>3. \A j \in DOMAIN native.codecs :
             SameCodec(l.codecs[j], NativeCodec(j)) /\ l.codecs[j].par.level <= NativeCodec(j).par.level
      <4> TAKE j \in DOMAIN native.codecs
      <4>1. l.codecs[j] = NativeCodec(j)
        BY <3>1
      <4>2. NativeCodec(j).par.level \in Nat
        BY <3>2 DEF Codec, Pars
      <4> QED BY <4>1, <4>2 DEF SameCodec
    <3>4. local' = l
      BY <2>1 DEF l
    <3> QED BY <1>1, <2>3, <3>1, <3>3, <3>4, DocsSame DEF NativeOk
  <2>5. RouterOk'
    <3> DEFINE r == CompleteCapabilities(Received)
    <3>1. /\ r.codecs \in Seq(Codec) /\ Len(r.codecs) = Len(router.codecs)
          /\ \A n \in DOMAIN router.codecs :
                /\ SameCodec(r.codecs[n], RouterCodec(n))
                /\ r.codecs[n].par.level = RouterCodec(n).par.level
      BY <1>4, Loaded DEF Inv
    <3>2. remote' = r
      BY <2>1
    <3> HIDE DEF r
    <3> QED BY <1>1, <2>3, <3>1, <3>2, DocsSame DEF RouterOk
  <2>6. ExtsOk'
    <3> DEFINE l == CompleteCapabilities(native)
               r == CompleteCapabilities(Received)
    <3>1. /\ l.exts \in Seq(HeaderExt) /\ r.exts \in Seq(HeaderExt)
          /\ \A j \in DOMAIN l.exts : l.exts[j].uri \in Offered(l.exts[j].kind)
      BY <1>4, Loaded DEF Inv
    <3>2. local' = l /\ remote' = r
      BY <2>1
    <3>3. DOMAIN l = {"codecs", "exts"} /\ DOMAIN r = {"codecs", "exts"}
      BY DEF CompleteCapabilities
    <3> HIDE DEF l, r
    <3> QED BY <1>1, <3>1, <3>2, <3>3, DocsSame DEF ExtsOk
  <2>7. DocsOk'
    BY <1>3, <1>4, <2>3, <2>4, <2>5, <2>6 DEF DocsOk
  <2>8. codecs' = << >> /\ pairs' = << >> /\ exts' = << >>
    BY <1>2 DEF Nothing
  <2>9. EntriesOk' /\ ExtEntriesOk'
    BY <2>8 DEF EntriesOk, ExtEntriesOk
  <2>10. OrderOk'
    <3>1. Found(0) = {}
      BY ArrayFacts DEF Found, Inv, Announced, IsDocument
    <3>2. Found(Bound)' = {}
      <4>1. Bound' = 0
        BY <2>1 DEF Bound
      <4> QED BY <1>1, <3>1, <4>1, DocsSame DEF Found
    <3>3. {pairs'[n][2] : n \in DOMAIN pairs'} = {}
      BY <2>8
    <3> QED BY <2>8, <3>2, <3>3 DEF OrderOk
  <2>11. JoinOk' /\ PublishOk'
    BY <1>1, <2>1, EarlyStep DEF Inv
  <2> QED BY <1>3, <2>2, <2>7, <2>9, <2>10, <2>11 DEF Inv
<1>5. CASE ~Validated
  <2>1. pc' = "threw" /\ local' = local /\ remote' = remote /\ k' = k
        /\ codecs' = codecs /\ exts' = exts /\ pairs' = pairs
    BY <1>5 DEF Validated
  <2>2. Before'
    BY <1>3, <1>5, <2>1 DEF Before
  <2>3. IndexOk' /\ DocsOk' /\ OrderOk'
    BY <1>2, <2>1, <2>2 DEF IndexOk, Pcs, DocsOk, Nothing, OrderOk
  <2>4. EntriesOk' /\ ExtEntriesOk'
    BY <1>2, <2>1 DEF Nothing, EntriesOk, ExtEntriesOk
  <2>5. JoinOk' /\ PublishOk'
    BY <1>1, <1>3, <1>5, <2>1, EarlyStep DEF Inv
  <2> QED BY <1>3, <2>3, <2>4, <2>5 DEF Inv
<1> QED BY <1>4, <1>5

\* What is known while a loop runs.
LEMMA Working ==
    ASSUME Inv, ~Before
    PROVE  /\ Announced /\ Validated /\ NativeOk /\ RouterOk /\ ExtsOk
           /\ Len(native.codecs) \in Nat /\ DOMAIN native.codecs = 1 .. Len(native.codecs)
           /\ Len(router.codecs) \in Nat /\ DOMAIN router.codecs = 1 .. Len(router.codecs)
           /\ DOMAIN local.codecs = DOMAIN native.codecs
           /\ DOMAIN remote.codecs = DOMAIN router.codecs
           /\ \A n \in DOMAIN router.codecs : IsRtx(remote.codecs[n]) <=> IsRtx(router.codecs[n])
           /\ DOMAIN codecs = 1 .. Len(codecs) /\ DOMAIN pairs = 1 .. Len(codecs)
           /\ Len(codecs) \in Nat
<1>1. Announced /\ Validated /\ NativeOk /\ RouterOk /\ ExtsOk
  BY DEF Inv, DocsOk
<1>2. /\ Len(native.codecs) \in Nat /\ DOMAIN native.codecs = 1 .. Len(native.codecs)
      /\ Len(router.codecs) \in Nat /\ DOMAIN router.codecs = 1 .. Len(router.codecs)
  BY <1>1, ArrayFacts DEF Announced, IsDocument
<1>3. DOMAIN local.codecs = DOMAIN native.codecs /\ DOMAIN remote.codecs = DOMAIN router.codecs
  BY <1>1, <1>2 DEF NativeOk, RouterOk
<1>4. \A n \in DOMAIN router.codecs : IsRtx(remote.codecs[n]) <=> IsRtx(router.codecs[n])
  BY <1>1, AnnouncedCodecs DEF RouterOk, SameCodec, IsRtx
<1>5. DOMAIN codecs = 1 .. Len(codecs) /\ DOMAIN pairs = 1 .. Len(codecs) /\ Len(codecs) \in Nat
  BY DEF Inv, EntriesOk
<1> QED BY <1>1, <1>2, <1>3, <1>4, <1>5

\* A round in which remote codec k finds no match, or is an RTX.
LEMMA UnmatchedStep ==
    ASSUME Inv, pc = "codecs", k \in 1 .. Len(remote.codecs), k' = k + 1,
           IsRtx(remote.codecs[k]) \/ Matches(k) = {},
           UNCHANGED <<local, codecs, pairs, remote, pc, docs, exts, recv, joined, canProduce, pub>>
    PROVE  Inv'
<1>1. ~Before /\ ~Joined /\ UNCHANGED docs /\ native' = native /\ router' = router
  BY DEF Before, Joined, docs
<1>2. /\ Announced /\ Validated /\ NativeOk /\ RouterOk /\ ExtsOk
      /\ Len(router.codecs) \in Nat /\ DOMAIN router.codecs = 1 .. Len(router.codecs)
      /\ k \in DOMAIN router.codecs /\ (IsRtx(remote.codecs[k]) <=> IsRtx(router.codecs[k]))
      /\ Len(remote.codecs) = Len(router.codecs)
  BY <1>1, Working DEF RouterOk
<1>3. Announced' /\ Validated' /\ ~Before'
  BY <1>1, <1>2, DocsSame DEF Before
<1>4. IndexOk'
  BY <1>2 DEF IndexOk, Inv
<1>5. NativeOk' /\ ExtsOk'
  BY <1>1, <1>2, DocsSame DEF NativeOk, ExtsOk
<1>6. RouterOk'
  BY <1>1, <1>2, DocsSame DEF RouterOk
<1>7. EntriesOk' /\ ExtEntriesOk'
  BY <1>1, DocsSame DEF Inv, EntriesOk, ExtEntriesOk
<1>8. OrderOk'
  <2>1. Found(k) = Found(k - 1)
    <3>1. k \notin Found(k)
      BY <1>2, MatchesCompatible DEF Found
    <3> QED BY <1>2, <3>1 DEF Found
  <2>2. Bound = k - 1 /\ Bound' = k
    BY <1>2 DEF Bound
  <2>3. Found(Bound)' = Found(Bound)
    <3>1. Found(Bound)' = Found(k)
      BY <1>1, <2>2, DocsSame DEF Found
    <3> QED BY <2>1, <2>2, <3>1
  <2> QED BY <1>1, <2>3 DEF Inv, OrderOk
<1>9. JoinOk' /\ PublishOk'
  BY <1>1, EarlyStep DEF Inv
<1> QED BY <1>3, <1>4, <1>5, <1>6, <1>7, <1>8, <1>9 DEF Inv, DocsOk

\* A round that appends an entry.
LEMMA MatchedStep ==
    ASSUME Inv, MatchCodec, ~IsRtx(remote.codecs[k]), Matches(k) # {}
    PROVE  Inv'
<1> DEFINE j     == FirstOf(Matches(k))
           level == AnswerLevel(local.codecs[j], remote.codecs[k])
           a     == WithLevel(local.codecs[j], level)
           b     == WithLevel(remote.codecs[k], level)
           e     == ExtendedCodec(a, b)
<1>1. /\ ~Before /\ ~Joined /\ UNCHANGED docs /\ native' = native /\ router' = router
      /\ pc = "codecs" /\ pc' = "codecs" /\ k' = k + 1 /\ exts' = exts
      /\ UNCHANGED <<recv, canProduce, pub>>
  BY DEF Before, Joined, docs, MatchCodec
<1>2. /\ Announced /\ Validated /\ NativeOk /\ RouterOk /\ ExtsOk
      /\ Len(native.codecs) \in Nat /\ DOMAIN native.codecs = 1 .. Len(native.codecs)
      /\ Len(router.codecs) \in Nat /\ DOMAIN router.codecs = 1 .. Len(router.codecs)
      /\ DOMAIN local.codecs = DOMAIN native.codecs
      /\ DOMAIN remote.codecs = DOMAIN router.codecs
      /\ ~IsRtx(router.codecs[k]) /\ Len(remote.codecs) = Len(router.codecs)
      /\ k \in 1 .. Len(router.codecs)
  <2>1. k \in 1 .. Len(remote.codecs) /\ RouterOk
    BY <1>1, Working DEF Inv, IndexOk, MatchCodec
  <2> QED BY <1>1, <2>1, Working DEF RouterOk
<1>3. /\ j \in DOMAIN native.codecs
      /\ a \in Codec /\ SameCodec(a, NativeCodec(j)) /\ a.par.level <= NativeCodec(j).par.level
      /\ b \in Codec /\ SameCodec(b, RouterCodec(k))
      /\ e \in Entry /\ EntryOf(<<j, k>>, e)
  BY <1>1, <1>2, MatchedEntry
<1>4. /\ local' = [local EXCEPT !.codecs[j] = a] /\ remote' = [remote EXCEPT !.codecs[k] = b]
      /\ codecs' = Append(codecs, e) /\ pairs' = Append(pairs, <<j, k>>)
  BY DEF MatchCodec
<1> HIDE DEF j, level, a, b, e
<1>5. /\ local'.codecs = [local.codecs EXCEPT ![j] = a] /\ local'.exts = local.exts
      /\ remote'.codecs = [remote.codecs EXCEPT ![k] = b] /\ remote'.exts = remote.exts
      /\ DOMAIN local' = DOMAIN local /\ DOMAIN remote' = DOMAIN remote
  BY <1>2, <1>4 DEF ExtsOk
<1>6. Announced' /\ Validated' /\ ~Before'
  BY <1>1, <1>2, DocsSame DEF Before
<1>7. NativeOk'
  <2>1. local'.codecs \in Seq(Codec) /\ Len(local'.codecs) = Len(native.codecs)
    BY <1>2, <1>3, <1>5 DEF NativeOk
  <2>2. ASSUME NEW i \in DOMAIN native.codecs
        PROVE  SameCodec(local'.codecs[i], NativeCodec(i))
               /\ local'.codecs[i].par.level <= NativeCodec(i).par.level
    <3>1. CASE i = j
      BY <1>2, <1>3, <1>5, <3>1
    <3>2. CASE i # j
      <4>1. local'.codecs[i] = local.codecs[i]
        BY <1>2, <1>5, <3>2
      <4> QED BY <1>2, <4>1 DEF NativeOk
    <3> QED BY <3>1, <3>2
  <2> QED BY <1>1, <2>1, <2>2, DocsSame DEF NativeOk
<1>8. RouterOk'
  <2>1. remote'.codecs \in Seq(Codec) /\ Len(remote'.codecs) = Len(router.codecs)
    BY <1>2, <1>3, <1>5 DEF RouterOk
  <2>2. ASSUME NEW i \in DOMAIN router.codecs
        PROVE  SameCodec(remote'.codecs[i], RouterCodec(i))
               /\ (i >= k + 1 => remote'.codecs[i].par.level = RouterCodec(i).par.level)
    <3>1. CASE i = k
      BY <1>2, <1>3, <1>5, <3>1
    <3>2. CASE i # k
      <4>1. remote'.codecs[i] = remote.codecs[i] /\ (i >= k + 1 => i >= k)
        BY <1>2, <1>5, <3>2
      <4> QED BY <1>1, <1>2, <4>1 DEF RouterOk
    <3> QED BY <3>1, <3>2
  <2> QED BY <1>1, <2>1, <2>2, DocsSame DEF RouterOk
<1>9. ExtsOk'
  BY <1>1, <1>2, <1>5, DocsSame DEF ExtsOk
<1>10. IndexOk'
  <2>1. Len(remote'.codecs) = Len(router.codecs)
    BY <1>1, <1>8 DEF RouterOk
  <2> QED BY <1>1, <1>2, <2>1 DEF IndexOk, Pcs
<1>11. /\ codecs \in Seq(Entry) /\ pairs \in Seq(Nat \X Nat) /\ Len(pairs) = Len(codecs)
       /\ \A n \in DOMAIN codecs : EntryOf(pairs[n], codecs[n])
  BY DEF Inv, EntriesOk
<1>12. <<j, k>> \in Nat \X Nat
  BY <1>2, <1>3
<1>13. EntriesOk'
  <2>1. /\ codecs' \in Seq(Entry) /\ pairs' \in Seq(Nat \X Nat)
        /\ Len(pairs') = Len(codecs') /\ Len(codecs') = Len(codecs) + 1
    BY <1>3, <1>4, <1>11, <1>12
  <2>2. ASSUME NEW n \in DOMAIN codecs' PROVE EntryOf(pairs'[n], codecs'[n])
    <3>1. CASE n \in 1 .. Len(codecs)
      <4>1. pairs'[n] = pairs[n] /\ codecs'[n] = codecs[n] /\ n \in DOMAIN codecs
        BY <1>3, <1>4, <1>11, <1>12, <3>1
      <4> QED BY <1>11, <4>1
    <3>2. CASE n = Len(codecs) + 1
      <4>1. pairs'[n] = <<j, k>> /\ codecs'[n] = e
        BY <1>3, <1>4, <1>11, <1>12, <3>2
      <4> QED BY <1>3, <4>1
    <3> QED BY <1>11, <2>1, <3>1, <3>2
  <2> QED BY <1>1, <2>1, <2>2, DocsSame DEF EntriesOk
<1>14. ExtEntriesOk'
  BY <1>1, DocsSame DEF Inv, ExtEntriesOk
<1>15. OrderOk'
  <2> DEFINE N == Len(pairs)
             S == {pairs[n][2] : n \in DOMAIN pairs}
  <2>1. /\ \A n \in 1 .. N - 1 : pairs[n][2] < pairs[n + 1][2]
        /\ S = Found(k - 1)
    BY <1>1 DEF Inv, OrderOk, Bound
  <2>2. /\ N \in Nat /\ DOMAIN pairs = 1 .. N /\ Len(pairs') = N + 1 /\ DOMAIN pairs' = 1 .. N + 1
        /\ pairs'[N + 1] = <<j, k>> /\ \A n \in 1 .. N : pairs'[n] = pairs[n]
    BY <1>4, <1>11, <1>12
  <2>3. \A n \in 1 .. N : pairs[n][2] \in Nat /\ pairs[n][2] <= k - 1
    <3>1. \A n \in 1 .. N : pairs[n][2] \in S
      BY <2>2
    <3>2. \A n \in Found(k - 1) : n \in Nat /\ n <= k - 1
      BY <1>2 DEF Found
    <3> HIDE DEF S
    <3> QED BY <2>1, <3>1, <3>2
  <2>4. ASSUME NEW n \in 1 .. N PROVE pairs'[n][2] < pairs'[n + 1][2]
    <3>1. CASE n = N
      BY <1>2, <2>2, <2>3, <3>1
    <3>2. CASE n \in 1 .. N - 1
      <4>1. n + 1 \in 1 .. N
        BY <2>2, <3>2
      <4> QED BY <2>1, <2>2, <3>2, <4>1
    <3> QED BY <2>2, <3>1, <3>2
  <2>5. {pairs'[n][2] : n \in DOMAIN pairs'} = S \cup {k}
    <3> HIDE DEF N
    <3>1. S = {pairs[n][2] : n \in 1 .. N}
      BY <2>2
    <3> HIDE DEF S
    <3>2. N + 1 \in DOMAIN pairs' /\ pairs'[N + 1][2] = k
      BY <2>2
    <3>3. \A n \in DOMAIN pairs' : n = N + 1 \/ n \in 1 .. N
      BY <2>2
    <3>4. \A n \in 1 .. N : n \in DOMAIN pairs' /\ pairs'[n][2] = pairs[n][2]
      BY <2>2
    <3> QED BY <3>1, <3>2, <3>3, <3>4
  <2>6. Found(k) = Found(k - 1) \cup {k}
    <3>1. Compatible(k) # {}
      BY <1>2, MatchesCompatible
    <3> QED BY <1>2, <3>1 DEF Found
  <2>7. Bound' = k /\ Found(Bound)' = Found(k)
    <3>1. Bound' = k
      BY <1>1, <1>2 DEF Bound
    <3> QED BY <1>1, <3>1, DocsSame DEF Found
  <2>8. \A n \in 1 .. Len(pairs') - 1 : pairs'[n][2] < pairs'[n + 1][2]
    BY <2>2, <2>4
  <2> HIDE DEF S
  <2>9. {pairs'[n][2] : n \in DOMAIN pairs'} = Found(Bound)'
    BY <2>1, <2>5, <2>6, <2>7
  <2> QED BY <2>8, <2>9 DEF OrderOk
<1>16. JoinOk' /\ PublishOk'
  BY <1>1, EarlyStep DEF Inv
<1> QED BY <1>6, <1>7, <1>8, <1>9, <1>10, <1>13, <1>14, <1>15, <1>16 DEF Inv, DocsOk

\* A round of the matching loop.
LEMMA MatchCodecStep == ASSUME Inv, MatchCodec PROVE Inv'
<1>1. CASE IsRtx(remote.codecs[k]) \/ Matches(k) = {}
  <2>1. k \in 1 .. Len(remote.codecs)
    BY DEF MatchCodec, Inv, IndexOk
  <2> QED BY <1>1, <2>1, UnmatchedStep DEF MatchCodec
<1>2. CASE ~IsRtx(remote.codecs[k]) /\ Matches(k) # {}
  BY <1>2, MatchedStep
<1> QED BY <1>1, <1>2

\* Once the matching loop is over, nothing writes into the documents.
LEMMA DocsStep ==
    ASSUME Inv, ~Before, ~Before', pc' # "codecs", UNCHANGED <<docs, local, remote, pairs>>,
           pc = "codecs" => k > Len(remote.codecs)
    PROVE  Announced' /\ DocsOk' /\ OrderOk'
<1>1. /\ Announced /\ Validated /\ NativeOk /\ RouterOk /\ ExtsOk
      /\ Len(router.codecs) \in Nat /\ native' = native /\ router' = router
  BY Working DEF docs
<1>2. Announced' /\ Validated' /\ NativeOk' /\ RouterOk' /\ ExtsOk'
  BY <1>1, DocsSame DEF NativeOk, RouterOk, ExtsOk
<1>3. Bound = Len(router.codecs) /\ Bound' = Len(router.codecs)
  BY <1>1 DEF Bound, Inv, IndexOk, RouterOk
<1>4. Found(Bound)' = Found(Bound)
  BY <1>3, DocsSame DEF Found
<1>5. OrderOk'
  BY <1>4 DEF OrderOk, Inv
<1> QED BY <1>2, <1>5 DEF DocsOk

\* The RTX found for an entry is one of its codec's m-line.
LEMMA RtxFound ==
    ASSUME Inv, ~Before, NEW n \in DOMAIN codecs,
           RtxOf(local.codecs, codecs[n].localPt) # {},
           RtxOf(remote.codecs, codecs[n].remotePt) # {}
    PROVE  LET p == local.codecs[FirstOf(RtxOf(local.codecs, codecs[n].localPt))].pt
               q == remote.codecs[FirstOf(RtxOf(remote.codecs, codecs[n].remotePt))].pt
               e == [codecs[n] EXCEPT !.localRtx = p, !.remoteRtx = q]
           IN  e \in Entry /\ EntryOf(pairs[n], e)
<1> DEFINE l == RtxOf(local.codecs, codecs[n].localPt)
           r == RtxOf(remote.codecs, codecs[n].remotePt)
           p == local.codecs[FirstOf(l)].pt
           q == remote.codecs[FirstOf(r)].pt
           d == codecs[n]
           e == [d EXCEPT !.localRtx = p, !.remoteRtx = q]
<1>1. /\ Announced /\ Validated /\ NativeOk /\ RouterOk
      /\ DOMAIN native.codecs = 1 .. Len(native.codecs)
      /\ DOMAIN router.codecs = 1 .. Len(router.codecs)
      /\ DOMAIN local.codecs = DOMAIN native.codecs
      /\ DOMAIN remote.codecs = DOMAIN router.codecs
  BY Working
<1>2. d \in Entry /\ EntryOf(pairs[n], d)
  BY DEF Inv, EntriesOk
<1>3. FirstOf(l) \in l /\ FirstOf(r) \in r
  <2>1. l \in SUBSET Nat /\ r \in SUBSET Nat
    BY <1>1 DEF RtxOf
  <2> HIDE DEF l, r
  <2> QED BY <2>1, FirstOfIsFirst DEF l, r
<1> DEFINE i == FirstOf(l)
           m == FirstOf(r)
<1>4. /\ i \in DOMAIN native.codecs /\ IsRtx(local.codecs[i]) /\ local.codecs[i].par.apt = d.localPt
      /\ m \in DOMAIN router.codecs
  BY <1>1, <1>3 DEF RtxOf
<1> HIDE DEF i, m
<1>5. local.codecs[i] \in Codec /\ remote.codecs[m] \in Codec
  BY <1>1, <1>4 DEF NativeOk, RouterOk
<1>6. p \in Nat /\ q \in Nat
  BY <1>5 DEF Codec, i, m
<1>7. SameCodec(local.codecs[i], NativeCodec(i))
  BY <1>1, <1>4 DEF NativeOk
<1>8. /\ IsRtx(NativeCodec(i)) /\ NativeCodec(i).pt = p /\ NativeCodec(i).par.apt = d.localPt
  BY <1>4, <1>7 DEF SameCodec, IsRtx, i
<1> HIDE DEF p, q, d, l, r
<1>9. /\ e \in Entry /\ e.localRtx = p /\ e.remoteRtx = q
      /\ e.kind = d.kind /\ e.name = d.name /\ e.localPt = d.localPt /\ e.remotePt = d.remotePt
      /\ e.localPar = d.localPar /\ e.remotePar = d.remotePar
  BY <1>2, <1>6 DEF Entry
<1> HIDE DEF e
<1>10. NativeCodec(i).kind = e.kind
  <2> DEFINE j == pairs[n][1]
  <2>1. /\ j \in DOMAIN native.codecs /\ d.localPt = native.codecs[j].pt
        /\ d.kind = NativeCodec(j).kind
    BY <1>2 DEF EntryOf
  <2> HIDE DEF j
  <2>2. native.codecs[i].kind = native.codecs[j].kind
    <3>1. IsRtx(native.codecs[i]) /\ CompleteCodec(native.codecs[i]).par.apt = native.codecs[j].pt
      BY <1>8, <2>1 DEF NativeCodec, CompleteCodec, IsRtx
    <3> QED BY <1>1, <1>4, <2>1, <3>1 DEF Announced, RtxInItsLine
  <2>3. NativeCodec(i).kind = native.codecs[i].kind /\ NativeCodec(j).kind = native.codecs[j].kind
    BY DEF NativeCodec, CompleteCodec
  <2> QED BY <1>9, <2>1, <2>2, <2>3
<1>11. HasRtx(e)
  BY <1>4, <1>8, <1>9, <1>10 DEF HasRtx
<1>12. e.localRtx # NoPt /\ e.remoteRtx # NoPt
  BY <1>6, <1>9 DEF NoPt
<1>13. Agreed(e) /\ LevelOk(pairs[n], e) /\ ~IsRtx(e) /\ PlainPar(e.name, e.localPar)
  BY <1>2, <1>9 DEF EntryOf, Agreed, LevelOk, IsRtx
<1>14. EntryOf(pairs[n], e)
  BY <1>2, <1>9, <1>11, <1>12, <1>13 DEF EntryOf
<1> QED BY <1>9, <1>14 DEF e, d, p, q, l, r

\* A round of the RTX loop gives an entry RTX on both sides or on none.
LEMMA MatchRtxStep == ASSUME Inv, MatchRtx PROVE Inv'
<1>1. /\ ~Before /\ ~Before' /\ ~Joined /\ UNCHANGED <<docs, local, remote, pairs>>
      /\ pc = "rtx" /\ pc' = "rtx" /\ k' = k + 1 /\ exts' = exts
      /\ UNCHANGED <<recv, canProduce, pub>>
  BY DEF MatchRtx, Before, Joined
<1>2. /\ codecs \in Seq(Entry) /\ pairs \in Seq(Nat \X Nat) /\ Len(pairs) = Len(codecs)
      /\ \A n \in DOMAIN codecs : EntryOf(pairs[n], codecs[n])
      /\ k \in 1 .. Len(codecs) /\ k \in DOMAIN codecs
  BY <1>1 DEF Inv, EntriesOk, IndexOk, MatchRtx
<1>3. Announced' /\ DocsOk' /\ OrderOk'
  BY <1>1, DocsStep
<1>4. JoinOk' /\ PublishOk'
  BY <1>1, EarlyStep DEF Inv
<1>5. ExtEntriesOk'
  BY <1>1, DocsSame DEF Inv, ExtEntriesOk
<1> DEFINE l == RtxOf(local.codecs, codecs[k].localPt)
           r == RtxOf(remote.codecs, codecs[k].remotePt)
           p == local.codecs[FirstOf(l)].pt
           q == remote.codecs[FirstOf(r)].pt
           e == IF l = {} \/ r = {} THEN codecs[k]
                ELSE [codecs[k] EXCEPT !.localRtx = p, !.remoteRtx = q]
<1>6. e \in Entry /\ EntryOf(pairs[k], e)
  <2>1. CASE l = {} \/ r = {}
    BY <1>2, <2>1
  <2>2. CASE ~(l = {} \/ r = {})
    BY <1>1, <1>2, <2>2, RtxFound
  <2> QED BY <2>1, <2>2
<1>7. codecs' = [codecs EXCEPT ![k] = e]
  <2>1. CASE l = {} \/ r = {}
    <3>1. codecs' = codecs
      BY <2>1 DEF MatchRtx
    <3> QED BY <1>2, <2>1, <3>1
  <2>2. CASE ~(l = {} \/ r = {})
    <3>1. codecs' = [codecs EXCEPT ![k].localRtx = p, ![k].remoteRtx = q]
      BY <2>2 DEF MatchRtx
    <3> HIDE DEF l, r, p, q
    <3> QED BY <1>2, <2>2, <3>1
  <2> QED BY <2>1, <2>2
<1> HIDE DEF e
<1>8. codecs' \in Seq(Entry) /\ Len(codecs') = Len(codecs)
      /\ \A n \in DOMAIN codecs' : EntryOf(pairs[n], codecs'[n])
  BY <1>2, <1>6, <1>7
<1>9. EntriesOk'
  BY <1>1, <1>2, <1>8, DocsSame DEF EntriesOk
<1>10. IndexOk'
  BY <1>1, <1>2, <1>8 DEF IndexOk, Pcs
<1> QED BY <1>3, <1>4, <1>5, <1>9, <1>10 DEF Inv

\* A round over the header extensions adds one libwebrtc offered.
LEMMA MatchExtStep == ASSUME Inv, MatchExt PROVE Inv'
<1>1. /\ ~Before /\ ~Before' /\ ~Joined /\ UNCHANGED <<docs, local, remote, pairs>>
      /\ pc = "exts" /\ pc' = "exts" /\ k' = k + 1 /\ codecs' = codecs
      /\ UNCHANGED <<recv, canProduce, pub>>
  BY DEF MatchExt, Before, Joined
<1>2. ExtsOk /\ exts \in Seq(ExtEntry) /\ \A j \in DOMAIN exts : exts[j].uri \in Offered(exts[j].kind)
  BY <1>1, Working DEF Inv, ExtEntriesOk
<1>3. Announced' /\ DocsOk' /\ OrderOk'
  BY <1>1, DocsStep
<1>4. JoinOk' /\ PublishOk'
  BY <1>1, EarlyStep DEF Inv
<1>5. EntriesOk'
  BY <1>1, DocsSame DEF Inv, EntriesOk
<1>6. k \in 1 .. Len(remote.exts) /\ k \in DOMAIN remote.exts /\ Len(remote.exts) \in Nat
  BY <1>1, <1>2 DEF Inv, IndexOk, MatchExt, ExtsOk
<1>7. IndexOk'
  BY <1>1, <1>6 DEF IndexOk, Pcs
<1>8. ExtEntriesOk'
  <2> DEFINE r == remote.exts[k]
             found == {j \in DOMAIN local.exts : MatchHeaderExtensions(local.exts[j], r)}
             e == [kind |-> r.kind, uri |-> r.uri, sendId |-> local.exts[FirstOf(found)].id,
                   recvId |-> r.id, direction |-> Flipped(r.direction)]
  <2>1. exts' = IF found = {} THEN exts ELSE Append(exts, e)
    BY DEF MatchExt
  <2>2. CASE found = {}
    BY <1>1, <1>2, <2>1, <2>2, DocsSame DEF ExtEntriesOk
  <2>3. CASE found # {}
    <3> DEFINE j == FirstOf(found)
    <3>1. found \in SUBSET Nat
      BY <1>2 DEF ExtsOk
    <3>2. j \in found
      <4> HIDE DEF found
      <4> QED BY <2>3, <3>1, FirstOfIsFirst
    <3>3. /\ j \in DOMAIN local.exts /\ local.exts[j].kind = r.kind /\ local.exts[j].uri = r.uri
      BY <3>2 DEF MatchHeaderExtensions
    <3>4. local.exts[j] \in HeaderExt /\ r \in HeaderExt
      <4> HIDE DEF j
      <4> QED BY <1>2, <1>6, <3>3 DEF ExtsOk
    <3>5. r.uri \in Offered(r.kind)
      <4> HIDE DEF j, r
      <4> QED BY <1>2, <3>3 DEF ExtsOk
    <3>6. e \in ExtEntry /\ e.uri \in Offered(e.kind)
      <4>1. Flipped(r.direction) \in Directions
        BY <3>4 DEF HeaderExt, Flipped, Directions
      <4> HIDE DEF r, found
      <4> QED BY <3>4, <3>5, <4>1 DEF HeaderExt, ExtEntry
    <3> HIDE DEF e
    <3>7. exts' = Append(exts, e)
      BY <2>1, <2>3
    <3>8. exts' \in Seq(ExtEntry)
      BY <1>2, <3>6, <3>7
    <3>9. \A n \in DOMAIN exts' : exts'[n].uri \in Offered(exts'[n].kind)
      <4> TAKE n \in DOMAIN exts'
      <4>1. CASE n \in DOMAIN exts
        <5>1. exts'[n] = exts[n]
          BY <1>2, <3>6, <3>7, <4>1
        <5> QED BY <1>2, <4>1, <5>1
      <4>2. CASE n \notin DOMAIN exts
        <5>1. exts'[n] = e
          BY <1>2, <3>6, <3>7, <4>2
        <5> QED BY <3>6, <5>1
      <4> QED BY <4>1, <4>2
    <3> QED BY <1>1, <3>8, <3>9, DocsSame DEF ExtEntriesOk
  <2> QED BY <2>2, <2>3
<1> QED BY <1>3, <1>4, <1>5, <1>7, <1>8 DEF Inv

\* The next loop starts at the first element of what it runs over.
LEMMA LoopEndStep == ASSUME Inv, LoopEnd PROVE Inv'
<1>1. /\ pc \in {"codecs", "rtx", "exts"} /\ pc' \in {"rtx", "exts", "loaded"} /\ k' = 1
      /\ pc = "codecs" => k > Len(remote.codecs)
  BY DEF LoopEnd, NextLoop
<1>2. /\ ~Before /\ ~Before' /\ ~Joined
      /\ UNCHANGED <<docs, local, remote, pairs, codecs, exts, recv, canProduce, pub>>
  BY <1>1 DEF Before, Joined, LoopEnd
<1>3. Announced' /\ DocsOk' /\ OrderOk'
  BY <1>1, <1>2, DocsStep
<1>4. JoinOk' /\ PublishOk'
  BY <1>1, <1>2, EarlyStep DEF Inv
<1>5. EntriesOk' /\ ExtEntriesOk'
  BY <1>2, DocsSame DEF Inv, EntriesOk, ExtEntriesOk
<1>6. IndexOk'
  <2>1. Len(codecs) \in Nat /\ Len(remote.exts) \in Nat
    BY <1>2, Working DEF ExtsOk
  <2> QED BY <1>1, <1>2, <2>1 DEF IndexOk, Pcs
<1> QED BY <1>3, <1>4, <1>5, <1>6 DEF Inv

-----------------------------------------------------------------------------
(***************************************************************************)
(* What is published for a kind, from the first of its entries.            *)
(***************************************************************************)

\* An entry of the kind, with what is known of every entry.
GoodEntry(e, kind) ==
    /\ e \in Entry /\ e.kind = kind /\ ~IsRtx(e)
    /\ PlainPar(e.name, e.localPar) /\ e.localPar.vp9 = 0 /\ Agreed(e) /\ HasRtx(e)
    /\ \E j \in DOMAIN native.codecs : /\ NativeCodec(j).kind = kind
                                       /\ NativeCodec(j).name = e.name
                                       /\ NativeCodec(j).pt = e.localPt

\* The entries of a kind have what every entry has.
LEMMA OfKindFacts ==
    ASSUME Announced, Validated, EntriesOk, NEW kind
    PROVE  /\ OfKind(kind, x) \in Seq(Entry)
           /\ \A j \in DOMAIN OfKind(kind, x) : GoodEntry(OfKind(kind, x)[j], kind)
<1> DEFINE T == {e \in Range(codecs) : e.kind = kind}
           cs == OfKind(kind, x)
<1>1. codecs \in Seq(Entry) /\ \A n \in DOMAIN codecs : EntryOf(pairs[n], codecs[n])
  BY DEF EntriesOk
<1>2. cs = Keep(codecs, T)
  BY DEF OfKind, x
<1>3. cs \in Seq(Entry) /\ \A j \in DOMAIN cs : cs[j] \in T /\ \E i \in DOMAIN codecs : cs[j] = codecs[i]
  <2> HIDE DEF T, cs
  <2> QED BY <1>1, <1>2, KeepFacts
<1>4. ASSUME NEW j \in DOMAIN cs PROVE GoodEntry(cs[j], kind)
  <2> DEFINE e == cs[j]
  <2>1. PICK i \in DOMAIN codecs : e = codecs[i]
    BY <1>3
  <2>2. e \in T
    BY <1>3
  <2>3. e.kind = kind
    <3> HIDE DEF e
    <3> QED BY <2>2
  <2> HIDE DEF cs, T
  <2>4. e \in Entry /\ EntryOf(pairs[i], e)
    BY <1>1, <1>3, <2>1
  <2> HIDE DEF e
  <2> DEFINE a == pairs[i][1]
  <2>5. /\ a \in DOMAIN native.codecs
        /\ NativeCodec(a).kind = kind /\ NativeCodec(a).name = e.name
        /\ NativeCodec(a).pt = e.localPt
    BY <2>3, <2>4, AnnouncedCodecs DEF EntryOf
  <2> HIDE DEF a
  <2>6. \E m \in DOMAIN native.codecs : /\ NativeCodec(m).kind = kind
                                         /\ NativeCodec(m).name = e.name
                                         /\ NativeCodec(m).pt = e.localPt
    BY <2>5
  <2>7. GoodEntry(e, kind)
    BY <2>3, <2>4, <2>6 DEF GoodEntry, EntryOf
  <2> QED BY <2>7 DEF e
<1> HIDE DEF cs
<1> QED BY <1>3, <1>4 DEF cs

\* Codecs cs are those of entry e under its local payload types: the media codec
\* and, when there is one, its RTX.
Describes(cs, e) ==
    /\ cs \in Seq(Codec) /\ Len(cs) = (IF e.localRtx = NoPt THEN 1 ELSE 2)
    /\ cs[1].kind = e.kind /\ cs[1].name = e.name /\ cs[1].pt = e.localPt
    /\ e.localRtx # NoPt => /\ cs[2].kind = e.kind /\ IsRtx(cs[2])
                            /\ cs[2].pt = e.localRtx /\ cs[2].par.apt = e.localPt

HasSettings(c, par) == /\ c.par.mode = par.mode /\ c.par.profile = par.profile
                       /\ c.par.level = par.level /\ c.par.vp9 = par.vp9

\* A codec and its RTX.
LEMMA WithRtxType ==
    ASSUME NEW e \in Entry, NEW pt \in Nat, NEW rtx \in Nat \cup {NoPt}, NEW par \in Pars
    PROVE  /\ WithRtx(e, pt, rtx, par) \in Seq(Codec) /\ WithRtx(e, pt, rtx, par) # << >>
           /\ Len(WithRtx(e, pt, rtx, par)) = IF rtx = NoPt THEN 1 ELSE 2
           /\ WithRtx(e, pt, rtx, par)[1] = MediaCodec(e, pt, par)
           /\ rtx # NoPt => WithRtx(e, pt, rtx, par)[2] = RtxCodec(e, rtx, pt)
<1>1. MediaCodec(e, pt, par) \in Codec
  BY DEF MediaCodec, Entry, Codec
<1>2. rtx # NoPt => RtxCodec(e, rtx, pt) \in Codec
  <2>1. [NoPar EXCEPT !.apt = pt] \in Pars
    BY NoParType DEF Pars
  <2>2. "rtx" \in Texts /\ NoChannels \in Nat
    BY TextsAssumption DEF NoChannels
  <2> QED BY <2>1, <2>2 DEF RtxCodec, Entry, Codec
<1> QED BY <1>1, <1>2 DEF WithRtx

\* send_rtp_param: the first entry of the kind, or a null.
LEMMA SendOfFacts ==
    ASSUME Announced, Validated, EntriesOk, NEW kind
    PROVE  LET cs == OfKind(kind, x)
           IN  /\ SendOf(kind).exts = SendingExts(kind, x) /\ DOMAIN SendOf(kind) = {"codecs", "exts"}
               /\ cs = << >> => SendOf(kind).codecs = << NullCodec >>
               /\ cs # << >> => /\ Describes(SendOf(kind).codecs, cs[1])
                                /\ HasSettings(SendOf(kind).codecs[1], cs[1].localPar)
                                /\ SendOf(kind).codecs[1] # NullCodec
<1> DEFINE cs == OfKind(kind, x)
           e  == cs[1]
           w  == IF cs = << >> THEN << >> ELSE WithRtx(e, e.localPt, e.localRtx, e.localPar)
<1>1. /\ SendOf(kind).codecs = reduceCodecs(w) /\ SendOf(kind).exts = SendingExts(kind, x)
      /\ DOMAIN SendOf(kind) = {"codecs", "exts"}
  BY DEF SendOf, getSendingRtpParameters
<1> HIDE DEF cs
<1>2. CASE cs = << >>
  BY <1>1, <1>2 DEF reduceCodecs, cs
<1>3. CASE cs # << >>
  <2>1. e \in Entry /\ ~IsRtx(e)
    <3>1. cs \in Seq(Entry) /\ 1 \in DOMAIN cs
      BY <1>3, OfKindFacts DEF cs
    <3> QED BY <3>1, OfKindFacts DEF cs, GoodEntry
  <2> HIDE DEF e
  <2>2. e.localPt \in Nat /\ e.localRtx \in Nat \cup {NoPt} /\ e.localPar \in Pars
    BY <2>1 DEF Entry
  <2>3. w = WithRtx(e, e.localPt, e.localRtx, e.localPar)
    BY <1>3
  <2> HIDE DEF w
  <2>4. /\ w \in Seq(Codec) /\ w # << >>
        /\ Len(w) = (IF e.localRtx = NoPt THEN 1 ELSE 2)
        /\ w[1] = MediaCodec(e, e.localPt, e.localPar)
        /\ e.localRtx # NoPt => w[2] = RtxCodec(e, e.localRtx, e.localPt)
    <3>1. /\ WithRtx(e, e.localPt, e.localRtx, e.localPar) \in Seq(Codec) /\ WithRtx(e, e.localPt, e.localRtx, e.localPar) # << >>
          /\ Len(WithRtx(e, e.localPt, e.localRtx, e.localPar)) = IF e.localRtx = NoPt THEN 1 ELSE 2
          /\ WithRtx(e, e.localPt, e.localRtx, e.localPar)[1] = MediaCodec(e, e.localPt, e.localPar)
          /\ e.localRtx # NoPt => WithRtx(e, e.localPt, e.localRtx, e.localPar)[2] = RtxCodec(e, e.localRtx, e.localPt)
      BY ONLY <2>1, <2>2, WithRtxType
    <3> QED BY ONLY <2>3, <3>1
  <2>5. e.localRtx # NoPt => IsRtx(w[2]) /\ w[2].kind = e.kind /\ w[2].pt = e.localRtx
                             /\ w[2].par.apt = e.localPt
    BY <2>4 DEF RtxCodec, IsRtx, NoPar
  <2>6. /\ w[1].kind = e.kind /\ w[1].name = e.name /\ w[1].pt = e.localPt
        /\ w[1].par = e.localPar
    BY <2>4 DEF MediaCodec
  <2>7. reduceCodecs(w) = w
    <3>1. CASE e.localRtx = NoPt
      BY <2>4, <3>1 DEF reduceCodecs
    <3>2. CASE e.localRtx # NoPt
      <4>1. Len(w) = 2 /\ IsRtx(w[2]) /\ SubSeq(w, 1, 2) = w
        BY <2>4, <2>5, <3>2
      <4> QED BY <2>4, <4>1 DEF reduceCodecs
    <3> QED BY <3>1, <3>2
  <2>8. Describes(w, e) /\ HasSettings(w[1], e.localPar)
    BY <2>4, <2>5, <2>6 DEF Describes, HasSettings
  <2>9. w[1] # NullCodec
    BY <2>2, <2>6 DEF NullCodec, NoPt
  <2> QED BY <1>1, <1>3, <2>7, <2>8, <2>9 DEF e, cs
<1> QED BY <1>2, <1>3

\* Erasing feedback leaves the rest of a codec.
LEMMA EraseFacts ==
    ASSUME NEW c \in Codec, NEW erased
    PROVE  LET d == [c EXCEPT !.fb = Keep(@, Range(@) \ erased)]
           IN  /\ d \in Codec /\ d.kind = c.kind /\ d.name = c.name /\ d.pt = c.pt /\ d.par = c.par
               /\ \A i \in DOMAIN d.fb : d.fb[i] \notin erased
<1> DEFINE T == Range(c.fb) \ erased
           f == Keep(c.fb, T)
           d == [c EXCEPT !.fb = f]
<1>1. f \in Seq(Texts) /\ \A i \in DOMAIN f : f[i] \in T
  <2>1. c.fb \in Seq(Texts)
    BY DEF Codec
  <2> HIDE DEF T
  <2> QED BY <2>1, KeepFacts
<1>2. \A i \in DOMAIN f : f[i] \notin erased
  BY <1>1
<1> HIDE DEF f
<1>3. d \in Codec /\ d.kind = c.kind /\ d.name = c.name /\ d.pt = c.pt /\ d.par = c.par /\ d.fb = f
  BY <1>1 DEF Codec
<1> QED BY <1>2, <1>3 DEF f

\* send_remote_rtp_param describes the same entry, although its function goes
\* through all of the kind: what comes after is cut off by reduceCodecs.
LEMMA RemoteOfFacts ==
    ASSUME Announced, Validated, EntriesOk, NEW kind
    PROVE  LET cs == OfKind(kind, x)
               rc == RemoteOf(kind).codecs
           IN  /\ RemoteOf(kind).exts = SendingExts(kind, x)
               /\ cs = << >> => rc = << NullCodec >>
               /\ cs # << >> =>
                     /\ Describes(rc, cs[1]) /\ HasSettings(rc[1], cs[1].remotePar)
                     /\ rc[1] # NullCodec
                     /\ \A j \in DOMAIN rc : \A i \in DOMAIN rc[j].fb :
                           rc[j].fb[i] \notin ErasedFeedback(SendingExts(kind, x))
<1> DEFINE cs == OfKind(kind, x)
           e  == cs[1]
           erased == ErasedFeedback(SendingExts(kind, x))
           ss == [j \in DOMAIN cs |-> WithRtx(cs[j], cs[j].localPt, cs[j].localRtx, cs[j].remotePar)]
           all == FlattenSeq(ss)
           er == [j \in DOMAIN all |-> [all[j] EXCEPT !.fb = Keep(@, Range(@) \ erased)]]
           rc == reduceCodecs(er)
<1>1. RemoteOf(kind).codecs = rc /\ RemoteOf(kind).exts = SendingExts(kind, x)
  BY DEF RemoteOf, getSendingRemoteRtpParameters
<1> HIDE DEF erased
<1>2. cs \in Seq(Entry) /\ \A j \in DOMAIN cs : GoodEntry(cs[j], kind)
  BY OfKindFacts
<1> HIDE DEF cs
<1>3. CASE cs = << >>
  <2>1. ss = << >>
    BY <1>3
  <2>2. all = << >>
    BY <2>1 DEF FlattenSeq
  <2>3. er = << >>
    <3> HIDE DEF all
    <3> QED BY <2>2
  <2>4. rc = << NullCodec >>
    <3> HIDE DEF er
    <3> QED BY <2>3 DEF reduceCodecs
  <2> HIDE DEF rc
  <2> QED BY <1>1, <1>3, <2>4 DEF cs
<1>4. CASE cs # << >>
  <2>1. Len(cs) \in Nat \ {0} /\ DOMAIN cs = 1 .. Len(cs) /\ 1 \in DOMAIN cs
    BY <1>2, <1>4
  <2>2. ASSUME NEW j \in DOMAIN cs
        PROVE  /\ ss[j] \in Seq(Codec) /\ ss[j] # << >>
               /\ Len(ss[j]) = (IF cs[j].localRtx = NoPt THEN 1 ELSE 2)
               /\ ss[j][1] = MediaCodec(cs[j], cs[j].localPt, cs[j].remotePar)
               /\ cs[j].localRtx # NoPt => ss[j][2] = RtxCodec(cs[j], cs[j].localRtx, cs[j].localPt)
    <3>1. cs[j] \in Entry
      BY <1>2, <2>2 DEF GoodEntry
    <3>2. ss[j] = WithRtx(cs[j], cs[j].localPt, cs[j].localRtx, cs[j].remotePar)
      BY <2>2
    <3> DEFINE c == cs[j]
               w == ss[j]
    <3> HIDE DEF ss, c
    <3>3. c \in Entry /\ c.localPt \in Nat /\ c.localRtx \in Nat \cup {NoPt} /\ c.remotePar \in Pars
      BY <3>1 DEF Entry, c
    <3>4. w = WithRtx(c, c.localPt, c.localRtx, c.remotePar)
      BY <3>2 DEF c
    <3> HIDE DEF w
    <3>5. /\ w \in Seq(Codec) /\ w # << >>
          /\ Len(w) = (IF c.localRtx = NoPt THEN 1 ELSE 2)
          /\ w[1] = MediaCodec(c, c.localPt, c.remotePar)
          /\ c.localRtx # NoPt => w[2] = RtxCodec(c, c.localRtx, c.localPt)
      <4>1. /\ WithRtx(c, c.localPt, c.localRtx, c.remotePar) \in Seq(Codec) /\ WithRtx(c, c.localPt, c.localRtx, c.remotePar) # << >>
            /\ Len(WithRtx(c, c.localPt, c.localRtx, c.remotePar)) = IF c.localRtx = NoPt THEN 1 ELSE 2
            /\ WithRtx(c, c.localPt, c.localRtx, c.remotePar)[1] = MediaCodec(c, c.localPt, c.remotePar)
            /\ c.localRtx # NoPt => WithRtx(c, c.localPt, c.localRtx, c.remotePar)[2] = RtxCodec(c, c.localRtx, c.localPt)
        BY ONLY <3>3, WithRtxType
      <4> QED BY ONLY <3>4, <4>1
    <3> QED BY <3>5 DEF c, w
  <2>3. ss \in Seq(Seq(Codec)) /\ Len(ss) = Len(cs) /\ DOMAIN ss = DOMAIN cs /\ ss # << >>
    <3>1. ss \in [1 .. Len(cs) -> Seq(Codec)]
      <4>1. DOMAIN ss = 1 .. Len(cs) /\ ss = [j \in DOMAIN ss |-> ss[j]]
        BY <2>1
      <4> HIDE DEF ss
      <4> QED BY <2>1, <2>2, <4>1
    <3> HIDE DEF ss
    <3> QED BY <2>1, <3>1
  <2> HIDE DEF ss
  <2>4. /\ Len(ss) = 1 => all = ss[1]
        /\ Len(all) >= Len(ss[1]) /\ \A j \in DOMAIN ss[1] : all[j] = ss[1][j]
        /\ Len(ss) > 1 => Len(all) > Len(ss[1]) /\ all[Len(ss[1]) + 1] = ss[2][1]
    <3>1. \A i \in DOMAIN ss : ss[i] # << >>
      BY <2>2, <2>3
    <3> QED BY <2>3, <3>1, FlattenStart
  <2>5. all \in Seq(Codec)
    BY <2>3, FlattenFrom
  <2> HIDE DEF all
  <2>6. Len(all) \in Nat /\ DOMAIN all = 1 .. Len(all) /\ \A j \in DOMAIN all : all[j] \in Codec
    BY <2>5
  <2>7. ASSUME NEW j \in DOMAIN all
        PROVE  /\ er[j] \in Codec /\ er[j].kind = all[j].kind /\ er[j].name = all[j].name
               /\ er[j].pt = all[j].pt /\ er[j].par = all[j].par
               /\ \A i \in DOMAIN er[j].fb : er[j].fb[i] \notin erased
    <3>1. er[j] = [all[j] EXCEPT !.fb = Keep(@, Range(@) \ erased)]
      BY <2>7
    <3> DEFINE c == all[j]
               d == er[j]
    <3> HIDE DEF er, c
    <3>2. c \in Codec
      BY <2>6, <2>7 DEF c
    <3>3. d = [c EXCEPT !.fb = Keep(@, Range(@) \ erased)]
      BY <3>1 DEF c
    <3> HIDE DEF d
    <3>4. /\ d \in Codec /\ d.kind = c.kind /\ d.name = c.name /\ d.pt = c.pt /\ d.par = c.par
          /\ \A i \in DOMAIN d.fb : d.fb[i] \notin erased
      BY <3>2, <3>3, EraseFacts
    <3> QED BY <3>4 DEF c, d
  <2>8. er \in Seq(Codec) /\ Len(er) = Len(all)
    <3>1. er \in [1 .. Len(all) -> Codec]
      <4>1. DOMAIN er = 1 .. Len(all) /\ er = [j \in DOMAIN er |-> er[j]]
        BY <2>6
      <4> HIDE DEF er
      <4> QED BY <2>6, <2>7, <4>1
    <3> HIDE DEF er
    <3> QED BY <2>6, <3>1
  <2> HIDE DEF er
  <2>9. e \in Entry /\ ~IsRtx(e) /\ e.localPt \in Nat /\ e.localRtx \in Nat \cup {NoPt}
    BY <1>2, <2>1 DEF GoodEntry, Entry
  <2>10. /\ Len(er) >= 1
         /\ er[1].kind = e.kind /\ er[1].name = e.name /\ er[1].pt = e.localPt
         /\ er[1].par = e.remotePar
    <3>1. Len(ss[1]) \in {1, 2} /\ DOMAIN ss[1] = 1 .. Len(ss[1]) /\ ss[1] \in Seq(Codec)
      <4>1. ss[1] \in Seq(Codec) /\ Len(ss[1]) \in {1, 2}
        BY <2>1, <2>2
      <4> QED BY <4>1
    <3>2. 1 \in DOMAIN all /\ all[1] = ss[1][1] /\ 1 \in DOMAIN ss[1]
      <4>1. 1 \in DOMAIN ss[1]
        <5>1. 1 \in 1 .. Len(ss[1])
          <6>1. Len(ss[1]) = 1 \/ Len(ss[1]) = 2
            BY ONLY <3>1, Zenon
          <6> HIDE DEF ss
          <6> QED BY ONLY <6>1, SMT
        <5> QED BY ONLY <3>1, <5>1, Zenon
      <4>2. Len(all) >= Len(ss[1]) /\ all[1] = ss[1][1]
        BY <2>4, <4>1
      <4> QED BY <2>6, <3>1, <4>1, <4>2
    <3>3. ss[1][1] = MediaCodec(e, e.localPt, e.remotePar)
      BY <2>1, <2>2
    <3>4. /\ all[1].kind = e.kind /\ all[1].name = e.name /\ all[1].pt = e.localPt
          /\ all[1].par = e.remotePar
      BY <3>2, <3>3 DEF MediaCodec
    <3> QED BY <2>6, <2>7, <2>8, <3>2, <3>4
  <2>11. rc \in Seq(Codec) /\ Len(rc) = (IF e.localRtx = NoPt THEN 1 ELSE 2) /\ rc[1] = er[1]
         /\ (e.localRtx # NoPt => /\ Len(er) >= 2 /\ rc[2] = er[2] /\ er[2].kind = e.kind /\ IsRtx(er[2])
                                  /\ er[2].pt = e.localRtx /\ er[2].par.apt = e.localPt)
    <3>1. CASE e.localRtx = NoPt
      <4>1. Len(er) > 1 => ~IsRtx(er[2])
        <5> HAVE Len(er) > 1
        <5>1. Len(ss[1]) = 1
          BY <2>1, <2>2, <3>1
        <5>2. Len(ss) > 1
          BY <2>1, <2>3, <2>4, <2>8, <5>1
        <5>3. 2 \in DOMAIN cs /\ all[2] = ss[2][1] /\ 2 \in DOMAIN all
          BY <2>1, <2>3, <2>4, <2>6, <2>8, <5>1, <5>2
        <5>4. ss[2][1] = MediaCodec(cs[2], cs[2].localPt, cs[2].remotePar) /\ ~IsRtx(cs[2])
          BY <1>2, <2>2, <5>3 DEF GoodEntry
        <5>5. all[2].name = cs[2].name
          BY <5>3, <5>4 DEF MediaCodec
        <5> QED BY <2>7, <5>3, <5>4, <5>5 DEF IsRtx
      <4>2. rc = << er[1] >>
        BY <2>8, <2>10, <3>1, <4>1 DEF reduceCodecs
      <4>3. er[1] \in Codec
        BY <2>8, <2>10
      <4> HIDE DEF rc
      <4> QED BY <3>1, <4>2, <4>3
    <3>2. CASE e.localRtx # NoPt
      <4>1. Len(ss[1]) = 2 /\ ss[1][2] = RtxCodec(e, e.localRtx, e.localPt) /\ ss[1] \in Seq(Codec)
        BY <2>1, <2>2, <3>2
      <4>2. 2 \in DOMAIN all /\ all[2] = ss[1][2] /\ Len(all) >= 2
        BY <2>4, <2>6, <4>1
      <4>3. /\ all[2].kind = e.kind /\ all[2].name = "rtx" /\ all[2].pt = e.localRtx
            /\ all[2].par.apt = e.localPt
        BY <4>1, <4>2 DEF RtxCodec, NoPar
      <4>4. /\ er[2].kind = e.kind /\ IsRtx(er[2]) /\ er[2].pt = e.localRtx
            /\ er[2].par.apt = e.localPt /\ Len(er) >= 2
        BY <2>7, <2>8, <4>2, <4>3 DEF IsRtx
      <4>5. rc = SubSeq(er, 1, 2)
        BY <2>8, <4>4 DEF reduceCodecs
      <4>6. /\ SubSeq(er, 1, 2) \in Seq(Codec) /\ Len(SubSeq(er, 1, 2)) = 2
            /\ SubSeq(er, 1, 2)[1] = er[1] /\ SubSeq(er, 1, 2)[2] = er[2]
        BY <2>8, <4>4
      <4> HIDE DEF rc
      <4> QED BY <3>2, <4>4, <4>5, <4>6
    <3> QED BY <3>1, <3>2
  <2> HIDE DEF rc, e
  <2>12. er[1] \in Codec /\ (e.localRtx # NoPt => er[2] \in Codec)
    BY <2>8, <2>10, <2>11
  <2>13. Describes(rc, e) /\ HasSettings(rc[1], e.remotePar)
    BY <2>10, <2>11, <2>12 DEF Describes, HasSettings
  <2>14. rc[1] # NullCodec
    BY <2>9, <2>10, <2>11 DEF NullCodec, NoPt
  <2>15. \A j \in DOMAIN rc : \A i \in DOMAIN rc[j].fb : rc[j].fb[i] \notin erased
    <3>1. \A j \in DOMAIN rc : j \in DOMAIN all /\ rc[j] = er[j]
      BY <2>6, <2>8, <2>10, <2>11
    <3> QED BY <2>7, <3>1
  <2> QED BY <1>1, <1>4, <2>13, <2>14, <2>15 DEF e, cs, erased
<1> QED BY <1>3, <1>4

\* What does not change when options are added to a codec's parameters.
SameUpToOptions(d, c) ==
    /\ d.kind = c.kind /\ d.name = c.name /\ d.pt = c.pt /\ d.fb = c.fb
    /\ d.par.apt = c.par.apt /\ HasSettings(d, c.par)

\* Adding options to a codec changes nothing a property looks at.
LEMMA OptionsFacts ==
    ASSUME NEW c \in Codec, NEW T \in SUBSET Texts
    PROVE  LET d == [c EXCEPT !.par.opts = @ \cup T]
           IN  d \in Codec /\ SameUpToOptions(d, c)
<1> DEFINE d == [c EXCEPT !.par.opts = @ \cup T]
<1>1. c.par \in Pars /\ c.par.opts \in SUBSET Texts
  BY DEF Codec, Pars
<1> DEFINE o == c.par.opts \cup T
<1>2. o \in SUBSET Texts
  BY <1>1
<1>3. d = [c EXCEPT !.par = [c.par EXCEPT !.opts = o]]
  BY <1>1 DEF Codec
<1> HIDE DEF o, d
<1>4. /\ [c.par EXCEPT !.opts = o] \in Pars
      /\ \A f \in {"apt", "mode", "profile", "level", "vp9"} :
            [c.par EXCEPT !.opts = o][f] = c.par[f]
  BY <1>1, <1>2 DEF Pars
<1> DEFINE p == [c.par EXCEPT !.opts = o]
<1> HIDE DEF p
<1>5. p \in Pars /\ p.apt = c.par.apt /\ p.mode = c.par.mode /\ p.profile = c.par.profile
      /\ p.level = c.par.level /\ p.vp9 = c.par.vp9
  BY <1>4 DEF p
<1>6. d = [c EXCEPT !.par = p]
  BY <1>3 DEF p
<1>7. /\ d \in Codec /\ d.kind = c.kind /\ d.name = c.name /\ d.pt = c.pt /\ d.fb = c.fb
      /\ d.par = p
  BY <1>5, <1>6 DEF Codec
<1> QED BY <1>5, <1>7 DEF SameUpToOptions, HasSettings, d

\* ... so the codecs still describe the entry.
LEMMA StillDescribes ==
    ASSUME NEW cs, NEW e, Describes(cs, e), NEW f, DOMAIN f = DOMAIN cs,
           f = [j \in DOMAIN f |-> f[j]],
           \A j \in DOMAIN cs : f[j] \in Codec /\ SameUpToOptions(f[j], cs[j])
    PROVE  Describes(f, e) /\ HasSettings(f[1], cs[1].par)
<1>1. cs \in Seq(Codec) /\ Len(cs) = (IF e.localRtx = NoPt THEN 1 ELSE 2)
  BY DEF Describes
<1>2. DOMAIN cs = 1 .. Len(cs) /\ Len(cs) \in {1, 2}
  <2>1. Len(cs) \in {1, 2}
    <3>1. CASE e.localRtx = NoPt
      BY <1>1, <3>1
    <3>2. CASE e.localRtx # NoPt
      BY <1>1, <3>2
    <3> QED BY <3>1, <3>2
  <2>2. cs \in Seq(Codec)
    BY DEF Describes
  <2>3. DOMAIN cs = 1 .. Len(cs)
    BY <2>2
  <2> QED BY <2>1, <2>3
<1>3. f \in Seq(Codec) /\ Len(f) = Len(cs)
  <2>1. f \in [1 .. Len(cs) -> Codec]
    BY <1>2
  <2> QED BY <1>2, <2>1
<1>4. SameUpToOptions(f[1], cs[1]) /\ (Len(cs) = 2 => SameUpToOptions(f[2], cs[2]))
  BY <1>2
<1> QED BY <1>1, <1>3, <1>4 DEF Describes, SameUpToOptions, IsRtx

\* The m-line of a kind describes the first entry, with the remote settings.
LEMMA LineOfFacts ==
    ASSUME Announced, Validated, EntriesOk, NEW kind, OfKind(kind, x) # << >>
    PROVE  LET e  == OfKind(kind, x)[1]
               lc == LineOf(kind).codecs
           IN  /\ Describes(lc, e) /\ HasSettings(lc[1], e.remotePar)
               /\ \A j \in DOMAIN lc : \A i \in DOMAIN lc[j].fb :
                     lc[j].fb[i] \notin ErasedFeedback(SendingExts(kind, x))
<1> DEFINE rc == RemoteOf(kind).codecs
           lc == LineOf(kind).codecs
           e  == OfKind(kind, x)[1]
           erased == ErasedFeedback(SendingExts(kind, x))
<1>1. /\ Describes(rc, e) /\ HasSettings(rc[1], e.remotePar)
      /\ \A j \in DOMAIN rc : \A i \in DOMAIN rc[j].fb : rc[j].fb[i] \notin erased
  BY RemoteOfFacts
<1>2. lc = [j \in DOMAIN rc |-> [rc[j] EXCEPT !.par.opts = @ \cup AnswerOptions(rc[j])]]
  BY DEF LineOf, AnswerLine
<1> HIDE DEF rc, lc, e, erased
<1>3. \A c : AnswerOptions(c) \in SUBSET Texts
  BY TextsAssumption DEF AnswerOptions
<1>4. ASSUME NEW j \in DOMAIN rc PROVE lc[j] \in Codec /\ SameUpToOptions(lc[j], rc[j])
  <2> DEFINE c == rc[j]
             T == AnswerOptions(c)
             d == lc[j]
  <2>1. c \in Codec /\ T \in SUBSET Texts
    BY <1>1, <1>3 DEF Describes
  <2>2. d = [c EXCEPT !.par.opts = @ \cup T]
    BY <1>2
  <2> HIDE DEF c, T, d
  <2>3. d \in Codec /\ SameUpToOptions(d, c)
    BY <2>1, <2>2, OptionsFacts
  <2> QED BY <2>3 DEF c, d
<1>5. DOMAIN lc = DOMAIN rc /\ lc = [j \in DOMAIN lc |-> lc[j]]
  BY <1>2
<1>6. Describes(lc, e) /\ HasSettings(lc[1], rc[1].par)
  BY <1>1, <1>4, <1>5, StillDescribes
<1>7. HasSettings(lc[1], e.remotePar)
  BY <1>1, <1>6 DEF HasSettings
<1>8. \A j \in DOMAIN lc : \A i \in DOMAIN lc[j].fb : lc[j].fb[i] \notin erased
  BY <1>1, <1>4, <1>5 DEF SameUpToOptions
<1> QED BY <1>6, <1>7, <1>8 DEF e, lc, erased

\* The codecs built for a kind describe the first entry, with the local settings.
LEMMA OwnOfFacts ==
    ASSUME Announced, Validated, EntriesOk, NEW kind, OfKind(kind, x) # << >>
    PROVE  LET e   == OfKind(kind, x)[1]
               own == OwnOf(kind).codecs
           IN  Describes(own, e) /\ HasSettings(own[1], e.localPar)
<1> DEFINE sc  == SendOf(kind).codecs
           own == OwnOf(kind).codecs
           e   == OfKind(kind, x)[1]
           lc  == LineOf(kind).codecs
           Opus(c) == \E i \in DOMAIN lc : lc[i].name = "opus" /\ lc[i].pt = c.pt
           T == {"sprop-stereo", "usedtx"}
<1>1. Describes(sc, e) /\ HasSettings(sc[1], e.localPar) /\ DOMAIN SendOf(kind) = {"codecs", "exts"}
  BY SendOfFacts
<1>2. own = [j \in DOMAIN sc |-> IF Opus(sc[j]) THEN [sc[j] EXCEPT !.par.opts = @ \cup T] ELSE sc[j]]
  BY <1>1 DEF OwnOf, OfferOptions
<1>3. T \in SUBSET Texts
  BY TextsAssumption
<1> HIDE DEF sc, own, e, lc, T, Opus
<1>4. ASSUME NEW j \in DOMAIN sc PROVE own[j] \in Codec /\ SameUpToOptions(own[j], sc[j])
  <2> DEFINE c == sc[j]
             d == own[j]
  <2>1. c \in Codec
    BY <1>1 DEF Describes
  <2>2. d = IF Opus(c) THEN [c EXCEPT !.par.opts = @ \cup T] ELSE c
    BY <1>2
  <2> HIDE DEF c, d
  <2>3. d \in Codec /\ SameUpToOptions(d, c)
    <3>1. CASE Opus(c)
      BY <1>3, <2>1, <2>2, <3>1, OptionsFacts
    <3>2. CASE ~Opus(c)
      BY <2>1, <2>2, <3>2 DEF SameUpToOptions, HasSettings
    <3> QED BY <3>1, <3>2
  <2> QED BY <2>3 DEF c, d
<1>5. DOMAIN own = DOMAIN sc /\ own = [j \in DOMAIN own |-> own[j]]
  BY <1>2
<1>6. Describes(own, e) /\ HasSettings(own[1], sc[1].par)
  BY <1>1, <1>4, <1>5, StillDescribes
<1> QED BY <1>1, <1>6 DEF HasSettings, e, own

\* The header extensions of the m-line are those of the parameters: libwebrtc
\* offered them all.
LEMMA LineExts ==
    ASSUME Announced, Validated, EntriesOk, ExtEntriesOk, NEW kind,
           NEW i \in DOMAIN SendingExts(kind, x)
    PROVE  \E j \in DOMAIN LineOf(kind).exts : LineOf(kind).exts[j].uri = SendingExts(kind, x)[i].uri
<1> DEFINE T  == {e \in Range(exts) : e.kind = kind /\ e.direction \in {"sendrecv", "sendonly"}}
           es == SendingExts(kind, x)
           U  == {e \in Range(es) : e.uri \in Offered(kind)}
<1>1. exts \in Seq(ExtEntry) /\ \A j \in DOMAIN exts : exts[j].uri \in Offered(exts[j].kind)
  BY DEF ExtEntriesOk
<1>2. es = Keep(exts, T) /\ LineOf(kind).exts = Keep(es, U)
  <2>1. LineOf(kind).exts = Keep(RemoteOf(kind).exts,
                                  {e \in Range(RemoteOf(kind).exts) : e.uri \in Offered(kind)})
    BY DEF LineOf, AnswerLine
  <2>2. RemoteOf(kind).exts = es
    BY RemoteOfFacts
  <2> QED BY <2>1, <2>2 DEF SendingExts, x
<1>3. es \in Seq(ExtEntry) /\ \A j \in DOMAIN es : es[j] \in T /\ \E m \in DOMAIN exts : es[j] = exts[m]
  <2> HIDE DEF T, es
  <2> QED BY <1>1, <1>2, KeepFacts
<1> DEFINE d == es[i]
<1>4. d.kind = kind
  <2>1. d \in T
    BY <1>3
  <2> HIDE DEF d, es
  <2> QED BY <2>1
<1>5. d.uri \in Offered(kind)
  <2>1. PICK m \in DOMAIN exts : d = exts[m]
    BY <1>3
  <2> HIDE DEF d
  <2> QED BY <1>1, <1>4, <2>1
<1> HIDE DEF T, es
<1>6. d \in U
  <2>1. i \in DOMAIN es
    BY DEF es
  <2>2. d \in Range(es)
    BY <2>1 DEF Range
  <2> QED BY <1>5, <2>2
<1> HIDE DEF U
<1>7. \E j \in DOMAIN Keep(es, U) : Keep(es, U)[j] = es[i]
  <2>1. i \in DOMAIN es /\ es \in Seq(ExtEntry) /\ es[i] \in U
    BY <1>3, <1>6 DEF es
  <2> HIDE DEF d
  <2> QED BY ONLY <2>1, KeepsMember
<1> QED BY <1>2, <1>7 DEF es

\* What a produced kind needs, for a kind that has an entry.
LEMMA KindAgrees ==
    ASSUME Announced, Validated, EntriesOk, ExtEntriesOk, NEW kind \in Kinds,
           OfKind(kind, x) # << >>
    PROVE  LET own  == OwnOf(kind).codecs
               line == LineOf(kind)
               sent == Through(ProduceFields, own)
           IN  /\ own # << >> /\ Len(own) \in 0 .. 2 /\ Len(line.codecs) \in 0 .. 2
               /\ SameCodecs(kind, line, own)
               /\ RtxFollows(line.codecs) /\ RtxFollows(sent)
               /\ OneEstimator(line)
               /\ Decisive(line.codecs[1]) = Decisive(own[1])
               /\ own[1].name # "h264" => Decisive(sent[1]) = Decisive(own[1])
<1> DEFINE own  == OwnOf(kind).codecs
           line == LineOf(kind)
           lc   == line.codecs
           sent == Through(ProduceFields, own)
           e    == OfKind(kind, x)[1]
           es   == SendingExts(kind, x)
           erased == ErasedFeedback(es)
<1>1. GoodEntry(e, kind)
  <2> DEFINE cs == OfKind(kind, x)
  <2>1. cs \in Seq(Entry) /\ cs # << >> /\ \A j \in DOMAIN cs : GoodEntry(cs[j], kind)
    BY OfKindFacts
  <2> HIDE DEF cs
  <2>2. 1 \in DOMAIN cs
    BY <2>1
  <2>3. GoodEntry(cs[1], kind)
    BY <2>1, <2>2
  <2> QED BY <2>3 DEF cs
<1>2. Describes(own, e) /\ HasSettings(own[1], e.localPar)
  BY OwnOfFacts
<1>3. /\ Describes(lc, e) /\ HasSettings(lc[1], e.remotePar)
      /\ \A j \in DOMAIN lc : \A i \in DOMAIN lc[j].fb : lc[j].fb[i] \notin erased
  BY LineOfFacts
<1>4. \A i \in DOMAIN es : \E j \in DOMAIN line.exts : line.exts[j].uri = es[i].uri
  BY LineExts
<1> HIDE DEF own, line, e, es
<1>5. /\ e \in Entry /\ e.kind = kind /\ e.name # "rtx" /\ PlainPar(e.name, e.localPar)
      /\ e.localPar.vp9 = 0 /\ Agreed(e) /\ HasRtx(e)
  BY <1>1 DEF GoodEntry, IsRtx
<1>6. /\ own \in Seq(Codec) /\ lc \in Seq(Codec) /\ Len(own) = Len(lc) /\ Len(own) \in {1, 2}
      /\ DOMAIN own = 1 .. Len(own) /\ DOMAIN lc = 1 .. Len(lc)
      /\ Len(own) = 2 <=> e.localRtx # NoPt
  <2>1. own \in Seq(Codec) /\ Len(own) = (IF e.localRtx = NoPt THEN 1 ELSE 2)
    BY <1>2 DEF Describes
  <2>2. lc \in Seq(Codec) /\ Len(lc) = (IF e.localRtx = NoPt THEN 1 ELSE 2)
    BY <1>3 DEF Describes
  <2>3. DOMAIN own = 1 .. Len(own) /\ DOMAIN lc = 1 .. Len(lc)
    BY <2>1, <2>2
  <2> HIDE DEF lc
  <2>4. CASE e.localRtx = NoPt
    BY <2>1, <2>2, <2>3, <2>4
  <2>5. CASE e.localRtx # NoPt
    BY <2>1, <2>2, <2>3, <2>5
  <2> QED BY <2>4, <2>5
<1> HIDE DEF lc
<1>7. /\ own[1].kind = kind /\ own[1].name = e.name /\ own[1].pt = e.localPt
      /\ lc[1].kind = kind /\ lc[1].name = e.name /\ lc[1].pt = e.localPt
      /\ Len(own) = 2 =>
            /\ own[2].kind = kind /\ own[2].name = "rtx" /\ own[2].pt = e.localRtx
            /\ own[2].par.apt = e.localPt
            /\ lc[2].kind = kind /\ lc[2].name = "rtx" /\ lc[2].pt = e.localRtx
            /\ lc[2].par.apt = e.localPt
  BY <1>2, <1>3, <1>5, <1>6 DEF Describes, IsRtx
<1>8. SameCodecs(kind, line, own)
  <2> DEFINE Native(c) == \E n \in DOMAIN native.codecs :
                             LET d == NativeCodec(n)
                             IN  /\ d.kind = kind /\ d.name = c.name /\ d.pt = c.pt
                                 /\ IsRtx(d) => d.par.apt = c.par.apt
  <2>1. Native(own[1])
    <3>1. PICK n \in DOMAIN native.codecs : /\ NativeCodec(n).kind = kind
                                            /\ NativeCodec(n).name = e.name
                                            /\ NativeCodec(n).pt = e.localPt
      BY <1>1 DEF GoodEntry
    <3> QED BY <1>5, <1>7, <3>1 DEF IsRtx
  <2>2. Len(own) = 2 => Native(own[2])
    <3> HAVE Len(own) = 2
    <3>1. PICK n \in DOMAIN native.codecs :
             /\ NativeCodec(n).kind = kind /\ IsRtx(NativeCodec(n))
             /\ NativeCodec(n).pt = e.localRtx /\ NativeCodec(n).par.apt = e.localPt
      BY <1>5, <1>6 DEF HasRtx
    <3> QED BY <1>7, <3>1 DEF IsRtx
  <2> HIDE DEF Native
  <2>3. ASSUME NEW j \in DOMAIN own
        PROVE  lc[j].name = own[j].name /\ lc[j].pt = own[j].pt /\ Native(own[j])
    <3>1. j = 1 \/ (j = 2 /\ Len(own) = 2)
      BY <1>6
    <3> QED BY <3>1, <1>7, <2>1, <2>2
  <2> QED BY <1>6, <2>3 DEF SameCodecs, Native, lc
<1>9. RtxFollows(lc)
  <2> SUFFICES ASSUME NEW j \in DOMAIN lc, IsRtx(lc[j]) PROVE j > 1 /\ lc[j].par.apt = lc[j - 1].pt
    BY DEF RtxFollows
  <2>1. j = 1 \/ (j = 2 /\ Len(own) = 2)
    BY <1>6
  <2>2. j # 1
    BY <1>5, <1>7 DEF IsRtx
  <2>3. j = 2 /\ j - 1 = 1
    BY <2>1, <2>2
  <2> QED BY <1>7, <2>1, <2>3
<1>10. ASSUME NEW j \in DOMAIN own
       PROVE  /\ sent[j].name = own[j].name /\ sent[j].pt = own[j].pt
              /\ sent[j].par.apt = own[j].par.apt
              /\ sent[j].par.mode = 0 /\ sent[j].par.profile = NoProfile
              /\ sent[j].par.level = 0 /\ sent[j].par.vp9 = 0
  <2> DEFINE c == own[j]
             q == Kept(ProduceFields, c.par)
             d == sent[j]
  <2>1. c \in Codec
    BY <1>6
  <2>2. d = [c EXCEPT !.par = q]
    <3>1. "par" \in DOMAIN c
      BY <2>1 DEF Codec
    <3> QED BY <3>1 DEF Through
  <2> HIDE DEF c, d, sent
  <2>3. c.par \in Pars
    BY <2>1 DEF Codec
  <2>4. /\ q.apt = c.par.apt /\ q.mode = 0 /\ q.profile = NoProfile /\ q.level = 0 /\ q.vp9 = 0
    <3>1. \A f \in {"apt", "mode", "profile", "level", "asym", "vp9"} :
             q[f] = IF f \in ProduceFields THEN c.par[f] ELSE NoPar[f]
      BY <2>3, KeptFacts
    <3> HIDE DEF q
    <3> QED BY <3>1 DEF ProduceFields, NoPar
  <2> HIDE DEF q
  <2>5. d.name = c.name /\ d.pt = c.pt /\ d.par = q
    BY <2>1, <2>2 DEF Codec
  <2> QED BY <2>4, <2>5 DEF c, d
<1>11. DOMAIN sent = DOMAIN own
  BY DEF Through
<1> HIDE DEF sent
<1>12. RtxFollows(sent)
  <2> SUFFICES ASSUME NEW j \in DOMAIN own, IsRtx(sent[j])
               PROVE  j > 1 /\ sent[j].par.apt = sent[j - 1].pt
    BY <1>11 DEF RtxFollows
  <2>1. j = 1 \/ (j = 2 /\ Len(own) = 2)
    BY <1>6
  <2>2. j # 1
    BY <1>5, <1>7, <1>10 DEF IsRtx
  <2>3. j = 2 /\ j - 1 = 1 /\ 1 \in DOMAIN own
    BY <1>6, <2>1, <2>2
  <2> QED BY <1>7, <1>10, <2>1, <2>3
<1>13. Decisive(lc[1]) = Decisive(own[1])
  BY <1>2, <1>3, <1>5 DEF Decisive, HasSettings, Agreed
<1>14. own[1].name # "h264" => Decisive(sent[1]) = Decisive(own[1])
  <2>1. 1 \in DOMAIN own
    BY <1>6
  <2> QED BY <2>1, <1>2, <1>5, <1>7, <1>10 DEF Decisive, HasSettings, PlainPar
<1>15. OneEstimator(line)
  <2> DEFINE uris   == {line.exts[j].uri : j \in DOMAIN line.exts}
             euris  == {es[j].uri : j \in DOMAIN es}
             fbs(j) == {lc[j].fb[i] : i \in DOMAIN lc[j].fb}
  <2>1. euris \subseteq uris
    BY <1>4
  <2>2. ASSUME NEW j \in DOMAIN lc PROVE \A f \in fbs(j) : f \notin erased
    BY <1>3, <2>2
  <2>3. erased = IF TransportCc \in euris THEN {"goog-remb"}
                 ELSE IF AbsSendTime \in euris THEN {"transport-cc"}
                 ELSE {"transport-cc", "goog-remb"}
    BY DEF ErasedFeedback
  <2> HIDE DEF uris, euris, fbs, erased
  <2>4. ASSUME NEW j \in DOMAIN lc
        PROVE  /\ ~ {"transport-cc", "goog-remb"} \subseteq fbs(j)
               /\ "transport-cc" \in fbs(j) => TransportCc \in uris
               /\ "goog-remb" \in fbs(j) => AbsSendTime \in uris
    BY <2>1, <2>2, <2>3, <2>4
  <2> QED BY <2>4 DEF OneEstimator, uris, fbs, lc
<1>16. own # << >> /\ Len(own) \in 0 .. 2 /\ Len(lc) \in 0 .. 2
  BY <1>6
<1> QED BY <1>8, <1>9, <1>12, <1>13, <1>14, <1>15, <1>16 DEF own, line, lc, sent

\* Every codec of recv_rtp_capabilities_ has a payload type.
LEMMA RecvFacts ==
    ASSUME EntriesOk
    PROVE  getRecvRtpCapabilities(x).codecs \in Seq(Codec)
<1> DEFINE ss == [j \in DOMAIN codecs |-> WithRtx(codecs[j], codecs[j].remotePt,
                                                   codecs[j].remoteRtx, codecs[j].localPar)]
<1>1. getRecvRtpCapabilities(x).codecs = FlattenSeq(ss)
  BY DEF getRecvRtpCapabilities, x
<1>2. codecs \in Seq(Entry) /\ Len(codecs) \in Nat /\ DOMAIN codecs = 1 .. Len(codecs)
  BY DEF EntriesOk
<1>3. ASSUME NEW j \in DOMAIN codecs PROVE ss[j] \in Seq(Codec)
  <2> DEFINE e == codecs[j]
             w == ss[j]
  <2>1. e \in Entry
    BY <1>2
  <2>2. w = WithRtx(e, e.remotePt, e.remoteRtx, e.localPar)
    OBVIOUS
  <2> HIDE DEF e, w
  <2>3. e.remotePt \in Nat /\ e.remoteRtx \in Nat \cup {NoPt} /\ e.localPar \in Pars
    BY <2>1 DEF Entry
  <2>4. w \in Seq(Codec)
    BY <2>1, <2>2, <2>3, WithRtxType
  <2> QED BY <2>4 DEF w
<1>4. ss \in [1 .. Len(codecs) -> Seq(Codec)]
  <2>1. DOMAIN ss = 1 .. Len(codecs) /\ ss = [j \in DOMAIN ss |-> ss[j]]
    BY <1>2
  <2> HIDE DEF ss
  <2> QED BY <1>2, <1>3, <2>1
<1>5. ss \in Seq(Seq(Codec))
  <2> HIDE DEF ss
  <2> QED BY <1>2, <1>4
<1> HIDE DEF ss
<1> QED BY <1>1, <1>5, FlattenFrom

-----------------------------------------------------------------------------
(***************************************************************************)
(* The join and the publish.                                               *)
(***************************************************************************)

\* What is published depends on the announced documents and the entries only.
LEMMA SameOf ==
    ASSUME UNCHANGED <<docs, codecs, exts>>
    PROVE  /\ x' = x
           /\ \A kind : /\ SendOf(kind)' = SendOf(kind) /\ RemoteOf(kind)' = RemoteOf(kind)
                        /\ LineOf(kind)' = LineOf(kind) /\ OwnOf(kind)' = OwnOf(kind)
<1>1. x' = x
  BY DEF x
<1>2. \A kind : SendOf(kind)' = SendOf(kind) /\ RemoteOf(kind)' = RemoteOf(kind)
  BY <1>1 DEF SendOf, RemoteOf
<1>3. \A kind : LineOf(kind)' = LineOf(kind)
  BY <1>2, DocsSame DEF LineOf
<1>4. \A kind : OwnOf(kind)' = OwnOf(kind)
  BY <1>2, <1>3 DEF OwnOf
<1> QED BY <1>1, <1>2, <1>3, <1>4

\* What publish does leaves the negotiated capabilities alone.
LEMMA LateStep ==
    ASSUME Inv, pc \in {"joined", "parameters", "answer", "produce", "done"},
           pc' \in {"parameters", "answer", "produce", "done", "threw"},
           UNCHANGED <<docs, local, remote, k, codecs, exts, pairs, recv, canProduce>>
    PROVE  /\ Announced' /\ IndexOk' /\ DocsOk' /\ EntriesOk' /\ ExtEntriesOk' /\ OrderOk'
           /\ JoinOk' /\ Joined /\ Joined' /\ Validated /\ Validated'
           /\ \A kind \in Kinds : canProduce[kind] <=> OfKind(kind, x) # << >>
<1>1. ~Before /\ Joined /\ k = 1 /\ Validated
  BY Working DEF Before, Joined, Inv, IndexOk
<1>2. Validated' /\ ~Before' /\ Joined'
  BY <1>1, DocsSame DEF Before, Joined
<1>3. Announced' /\ DocsOk' /\ OrderOk'
  BY <1>1, <1>2, DocsStep
<1>4. IndexOk'
  BY <1>1 DEF IndexOk, Pcs
<1>5. EntriesOk' /\ ExtEntriesOk'
  BY DocsSame DEF Inv, EntriesOk, ExtEntriesOk
<1>6. recv = getRecvRtpCapabilities(x) /\ canProduce = [kind \in Kinds |-> canSend(kind, x)]
  BY <1>1 DEF Inv, JoinOk
<1>7. JoinOk'
  BY <1>2, <1>6, SameOf DEF JoinOk
<1>8. \A kind \in Kinds : canProduce[kind] <=> OfKind(kind, x) # << >>
  BY <1>6 DEF canSend
<1> QED BY <1>1, <1>2, <1>3, <1>4, <1>5, <1>7, <1>8

\* The rest of load_capabilities, and join.
LEMMA JoinStep == ASSUME Inv, Join PROVE Inv'
<1>1. /\ ~Before /\ ~Before' /\ ~Joined /\ Joined' /\ pc = "loaded" /\ pc' = "joined"
      /\ UNCHANGED <<docs, local, remote, k, codecs, exts, pairs, pub>>
  BY DEF Join, Before, Joined
<1>2. Announced' /\ DocsOk' /\ OrderOk'
  BY <1>1, DocsStep
<1>3. IndexOk'
  BY <1>1 DEF Inv, IndexOk, Pcs
<1>4. EntriesOk' /\ ExtEntriesOk'
  BY <1>1, DocsSame DEF Inv, EntriesOk, ExtEntriesOk
<1>5. JoinOk'
  <2>1. recv' = getRecvRtpCapabilities(x) /\ canProduce' = [kind \in Kinds |-> canSend(kind, x)]
    BY DEF Join
  <2> QED BY <1>1, <2>1, SameOf DEF JoinOk
<1>6. PublishOk'
  <2>1. /\ withAudio' = withAudio /\ half' = half /\ built' = built /\ produced' = produced
        /\ answers' = answers
    BY <1>1 DEF pub
  <2>2. HalfOk'
    BY <1>1, <2>1 DEF Inv, PublishOk, HalfOk
  <2>3. ASSUME NEW kind \in Kinds PROVE KindOk(kind)'
    <3>1. answers[kind] = NoCaps /\ built[kind] = << >> /\ produced[kind] = << >>
      BY <1>1 DEF Inv, PublishOk, KindOk
    <3> QED BY <2>1, <3>1 DEF KindOk
  <2> QED BY <2>1, <2>2, <2>3 DEF Inv, PublishOk
<1> QED BY <1>2, <1>3, <1>4, <1>5, <1>6 DEF Inv

\* A kind that was not touched.
LEMMA KindStep ==
    ASSUME NEW kind, KindOk(kind), Joined', UNCHANGED <<docs, codecs, exts, canProduce>>,
           answers'[kind] = answers[kind], built'[kind] = built[kind],
           produced'[kind] = produced[kind]
    PROVE  KindOk(kind)'
BY SameOf DEF KindOk

\* The start of publish.
LEMMA PublishStep == ASSUME Inv, Publish PROVE Inv'
<1>1. /\ pc = "joined" /\ pc' = "parameters" /\ withAudio' \in BOOLEAN
      /\ half' = (IF withAudio' THEN "audio" ELSE "video")
      /\ UNCHANGED <<docs, local, remote, k, codecs, exts, pairs, recv, canProduce>>
      /\ built' = built /\ produced' = produced /\ answers' = answers
  BY DEF Publish
<1>2. /\ Announced' /\ IndexOk' /\ DocsOk' /\ EntriesOk' /\ ExtEntriesOk' /\ OrderOk' /\ JoinOk'
      /\ Joined'
  BY <1>1, LateStep
<1>3. HalfOk'
  BY <1>1 DEF HalfOk, Kinds
<1>4. \A kind \in Kinds : KindOk(kind)'
  BY <1>1, <1>2, KindStep DEF Inv, PublishOk
<1> QED BY <1>1, <1>2, <1>3, <1>4 DEF Inv, PublishOk

\* The two parameter documents of a kind.
LEMMA ParametersStep == ASSUME Inv, Parameters PROVE Inv'
<1>1. /\ pc = "parameters" /\ send' = SendOf(half) /\ sendRemote' = RemoteOf(half)
      /\ pc' = IF half = "video" /\ send'.codecs[1] = NullCodec THEN "threw" ELSE "answer"
      /\ UNCHANGED <<docs, local, remote, k, codecs, exts, pairs, recv, canProduce>>
      /\ withAudio' = withAudio /\ half' = half
      /\ built' = built /\ produced' = produced /\ answers' = answers
  BY DEF Parameters, SendOf, RemoteOf
<1>2. pc' \in {"answer", "threw"}
  BY <1>1
<1>3. /\ Announced' /\ IndexOk' /\ DocsOk' /\ EntriesOk' /\ ExtEntriesOk' /\ OrderOk' /\ JoinOk'
      /\ Joined' /\ Validated
      /\ \A kind \in Kinds : canProduce[kind] <=> OfKind(kind, x) # << >>
  BY <1>1, <1>2, LateStep
<1>4. pc' = "threw" => ~canProduce["video"]
  <2> HAVE pc' = "threw"
  <2>1. half = "video" /\ SendOf("video").codecs[1] = NullCodec
    BY <1>1
  <2>2. OfKind("video", x) = << >>
    BY <1>3, <2>1, SendOfFacts DEF Inv
  <2> QED BY <1>3, <2>2 DEF Kinds
<1>5. HalfOk
  BY DEF Inv, PublishOk
<1>6. HalfOk'
  <2>1. pc' = "answer" => send' = SendOf(half)' /\ sendRemote' = RemoteOf(half)'
    BY <1>1, SameOf
  <2> QED BY <1>1, <1>2, <1>4, <1>5, <2>1 DEF HalfOk
<1>7. \A kind \in Kinds : KindOk(kind)'
  BY <1>1, <1>3, KindStep DEF Inv, PublishOk
<1> QED BY <1>1, <1>3, <1>6, <1>7 DEF Inv, PublishOk

\* The m-line of a kind.
LEMMA AnswerStep == ASSUME Inv, Answer PROVE Inv'
<1>1. /\ pc = "answer" /\ withAudio' = withAudio /\ half' = half
      /\ UNCHANGED <<docs, local, remote, k, codecs, exts, pairs, recv, canProduce>>
      /\ built' = built /\ produced' = produced
      /\ pc' \in {"threw", "produce"}
  BY DEF Answer
<1>2. /\ Announced' /\ IndexOk' /\ DocsOk' /\ EntriesOk' /\ ExtEntriesOk' /\ OrderOk' /\ JoinOk'
      /\ Joined' /\ Validated
      /\ \A kind \in Kinds : canProduce[kind] <=> OfKind(kind, x) # << >>
  BY <1>1, LateStep
<1>3. /\ HalfOk /\ half \in Kinds /\ send = SendOf(half) /\ sendRemote = RemoteOf(half)
      /\ DOMAIN answers = Kinds /\ \A kind \in Kinds : KindOk(kind)
  BY <1>1 DEF Inv, PublishOk, HalfOk
<1>4. CASE sendRemote.codecs[1] = NullCodec
  <2>1. pc' = "threw" /\ answers' = answers
    BY <1>4 DEF Answer
  <2>2. ~canProduce[half]
    <3>1. OfKind(half, x) = << >>
      BY <1>2, <1>3, <1>4, RemoteOfFacts DEF Inv
    <3> QED BY <1>2, <1>3, <3>1
  <2>3. half = "audio" => withAudio
    BY <1>1, <1>3 DEF HalfOk
  <2>4. ~canProduce["video"] \/ (withAudio /\ ~canProduce["audio"])
    BY <1>3, <2>2, <2>3 DEF Kinds
  <2>5. HalfOk'
    BY <1>1, <1>3, <2>1, <2>4 DEF HalfOk
  <2>6. \A kind \in Kinds : KindOk(kind)'
    BY <1>1, <1>2, <1>3, <2>1, KindStep
  <2> QED BY <1>1, <1>2, <1>3, <2>1, <2>5, <2>6 DEF Inv, PublishOk
<1>5. CASE sendRemote.codecs[1] # NullCodec
  <2>1. /\ pc' = "produce" /\ answers' = [answers EXCEPT ![half] = LineOf(half)]
        /\ send' = OwnOf(half)
    BY <1>3, <1>5 DEF Answer, LineOf, OwnOf
  <2>2. canProduce[half]
    <3>1. OfKind(half, x) # << >>
      <4> SUFFICES ASSUME OfKind(half, x) = << >> PROVE FALSE
        OBVIOUS
      <4>1. RemoteOf(half).codecs = << NullCodec >>
        BY <1>2, RemoteOfFacts DEF Inv
      <4> QED BY <1>3, <1>5, <4>1
    <3> QED BY <1>2, <1>3, <3>1
  <2>3. /\ answers'[half] = LineOf(half) /\ DOMAIN answers' = Kinds
        /\ \A kind \in Kinds : kind # half => answers'[kind] = answers[kind]
    BY <1>3, <2>1
  <2>4. LineOf(half)' = LineOf(half) /\ OwnOf(half)' = OwnOf(half)
        /\ \A kind : LineOf(kind)' = LineOf(kind) /\ OwnOf(kind)' = OwnOf(kind)
    BY <1>1, SameOf
  <2>5. HalfOk'
    <3>1. canProduce'[half'] /\ answers'[half'] = LineOf(half)' /\ send' = OwnOf(half)'
      BY <1>1, <2>1, <2>2, <2>3, <2>4
    <3> QED BY <1>1, <1>3, <2>1, <3>1 DEF HalfOk
  <2>6. ASSUME NEW kind \in Kinds PROVE KindOk(kind)'
    <3>1. CASE kind = half
      <4>1. KindOk(half)
        BY <1>3
      <4>2. /\ Joined' /\ canProduce'[half] /\ answers'[half] = LineOf(half)
            /\ built' = built /\ produced' = produced
        BY <1>1, <1>2, <2>2, <2>3
      <4>3. /\ answers'[kind] = NoCaps \/ (Joined' /\ canProduce'[kind] /\ answers'[kind] = LineOf(kind))
            /\ \/ built'[kind] = << >> /\ produced'[kind] = << >>
               \/ /\ Joined' /\ canProduce'[kind] /\ answers'[kind] = LineOf(kind)
                  /\ built'[kind] = OwnOf(kind).codecs
                  /\ produced'[kind] = Through(ProduceFields, built'[kind])
        BY <3>1, <4>1, <4>2 DEF KindOk
      <4> QED BY <2>4, <4>3 DEF KindOk
    <3>2. CASE kind # half
      BY <1>1, <1>2, <1>3, <2>3, <3>2, KindStep
    <3> QED BY <3>1, <3>2
  <2> QED BY <1>1, <1>2, <1>3, <2>3, <2>5, <2>6 DEF Inv, PublishOk
<1> QED BY <1>4, <1>5

\* The produce request of a kind.
LEMMA ProduceStep == ASSUME Inv, Produce PROVE Inv'
<1>0. ValidParameters(send)
  <2>1. pc = "produce"
    BY DEF Produce
  <2>2. /\ HalfOk /\ half \in Kinds /\ canProduce[half] /\ send = OwnOf(half)
    BY <2>1 DEF Inv, PublishOk, HalfOk
  <2>3. ~Before /\ Joined
    BY <2>1 DEF Before, Joined
  <2>4. OfKind(half, x) # << >>
    BY <2>2, <2>3 DEF Inv, JoinOk, canSend
  <2>5. Describes(send.codecs, OfKind(half, x)[1])
    BY <2>2, <2>3, <2>4, Working, OwnOfFacts DEF Inv
  <2>6. send.codecs \in Seq(Codec)
    BY <2>5 DEF Describes
  <2>7. \A j \in DOMAIN send.codecs : send.codecs[j] \in Codec
    BY <2>6
  <2> QED BY <2>7 DEF ValidParameters, ValidCodec, Codec
<1>1. /\ pc = "produce" /\ withAudio' = withAudio
      /\ UNCHANGED <<docs, local, remote, k, codecs, exts, pairs, recv, canProduce>>
      /\ answers' = answers /\ send' = send
      /\ built' = [built EXCEPT ![half] = send.codecs]
      /\ produced' = [produced EXCEPT ![half] = Through(ProduceFields, send.codecs)]
      /\ half = "audio" => half' = "video" /\ pc' = "parameters"
      /\ half # "audio" => half' = half /\ pc' = "done"
  BY <1>0 DEF Produce, SentCodecs
<1>2. pc' \in {"parameters", "done"}
  BY <1>1
<1>3. /\ Announced' /\ IndexOk' /\ DocsOk' /\ EntriesOk' /\ ExtEntriesOk' /\ OrderOk' /\ JoinOk'
      /\ Joined' /\ Validated
      /\ \A kind \in Kinds : canProduce[kind] <=> OfKind(kind, x) # << >>
  BY <1>1, <1>2, LateStep
<1>4. /\ HalfOk /\ half \in Kinds /\ canProduce[half] /\ answers[half] = LineOf(half)
      /\ send = OwnOf(half)
      /\ DOMAIN built = Kinds /\ DOMAIN produced = Kinds /\ DOMAIN answers = Kinds
      /\ \A kind \in Kinds : KindOk(kind)
  BY <1>1 DEF Inv, PublishOk, HalfOk
<1>5. OwnOf(half).codecs # << >>
  BY <1>3, <1>4, KindAgrees DEF Inv
<1>6. /\ built'[half] = OwnOf(half).codecs /\ DOMAIN built' = Kinds
      /\ produced'[half] = Through(ProduceFields, built'[half]) /\ DOMAIN produced' = Kinds
      /\ \A kind \in Kinds : kind # half => /\ built'[kind] = built[kind]
                                            /\ produced'[kind] = produced[kind]
  BY <1>1, <1>4
<1>7. HalfOk'
  <2>1. CASE half = "audio"
    BY <1>1, <1>4, <1>5, <1>6, <2>1 DEF HalfOk, Kinds
  <2>2. CASE half = "video"
    <3>1. withAudio => built'["audio"] # << >>
      BY <1>1, <1>4, <1>6, <2>2 DEF HalfOk, Kinds
    <3> QED BY <1>1, <1>4, <1>5, <1>6, <2>2, <3>1 DEF HalfOk
  <2> QED BY <1>4, <2>1, <2>2 DEF Kinds
<1>8. ASSUME NEW kind \in Kinds PROVE KindOk(kind)'
  <2>1. CASE kind = half
    <3>1. LineOf(kind)' = LineOf(kind) /\ OwnOf(kind)' = OwnOf(kind)
      BY <1>1, SameOf
    <3>2. /\ Joined' /\ canProduce'[kind] /\ answers'[kind] = LineOf(kind)
          /\ built'[kind] = OwnOf(kind).codecs
          /\ produced'[kind] = Through(ProduceFields, built'[kind])
      BY <1>1, <1>3, <1>4, <1>6, <2>1
    <3> QED BY <3>1, <3>2 DEF KindOk
  <2>2. CASE kind # half
    BY <1>1, <1>3, <1>4, <1>6, <2>2, KindStep
  <2> QED BY <2>1, <2>2
<1> QED BY <1>1, <1>3, <1>4, <1>6, <1>7, <1>8 DEF Inv, PublishOk

-----------------------------------------------------------------------------
(***************************************************************************)
(* The invariant and what follows from it.                                 *)
(***************************************************************************)

\* The invariant holds of any two documents that can be announced.
LEMMA InitStep == ASSUME Init PROVE Inv
<1>1. /\ pc = "load" /\ Nothing /\ k = 1
      /\ recv = NoCaps /\ canProduce = [kind \in Kinds |-> FALSE]
      /\ withAudio = FALSE /\ half = "audio"
      /\ built = [kind \in Kinds |-> << >>] /\ produced = [kind \in Kinds |-> << >>]
      /\ answers = [kind \in Kinds |-> NoCaps]
  BY DEF Init, Nothing
<1>2. Announced
  BY InputsAssumption DEF Init, Announced
<1>3. IndexOk
  BY <1>1 DEF IndexOk, Pcs
<1>4. DocsOk /\ OrderOk
  BY <1>1 DEF DocsOk, OrderOk, Before
<1>5. EntriesOk /\ ExtEntriesOk
  <2>1. codecs = << >> /\ pairs = << >> /\ exts = << >>
    BY <1>1 DEF Nothing
  <2> QED BY <2>1 DEF EntriesOk, ExtEntriesOk
<1>6. JoinOk
  BY <1>1 DEF JoinOk, Joined
<1>7. PublishOk
  BY <1>1 DEF PublishOk, HalfOk, KindOk, Kinds
<1> QED BY <1>2, <1>3, <1>4, <1>5, <1>6, <1>7 DEF Inv

\* A step that changes nothing.
LEMMA StutterStep == ASSUME Inv, UNCHANGED vars PROVE Inv'
<1>1. /\ pc' = pc /\ k' = k /\ local' = local /\ remote' = remote
      /\ codecs' = codecs /\ exts' = exts /\ pairs' = pairs /\ recv' = recv
      /\ canProduce' = canProduce /\ withAudio' = withAudio /\ half' = half /\ send' = send
      /\ sendRemote' = sendRemote /\ built' = built /\ produced' = produced
      /\ answers' = answers /\ UNCHANGED docs
  BY DEF vars, pub
<1>2. (Before' <=> Before) /\ (Joined' <=> Joined) /\ (Validated' <=> Validated)
  BY <1>1, DocsSame DEF Before, Joined
<1>3. Announced' /\ IndexOk'
  BY <1>1, DocsSame DEF Inv, IndexOk
<1>4. DocsOk'
  BY <1>1, <1>2, DocsSame DEF Inv, DocsOk, NativeOk, RouterOk, ExtsOk, Nothing, docs
<1>5. EntriesOk' /\ ExtEntriesOk'
  BY <1>1, DocsSame DEF Inv, EntriesOk, ExtEntriesOk
<1>6. OrderOk'
  <2>1. Bound' = Bound
    BY <1>1 DEF Bound, docs
  <2>2. Found(Bound)' = Found(Bound)
    BY <1>1, <2>1, DocsSame DEF Found
  <2> QED BY <1>1, <1>2, <2>2 DEF Inv, OrderOk
<1>7. JoinOk'
  BY <1>1, <1>2, SameOf DEF Inv, JoinOk
<1>8. \A kind : LineOf(kind)' = LineOf(kind) /\ OwnOf(kind)' = OwnOf(kind)
                /\ SendOf(kind)' = SendOf(kind) /\ RemoteOf(kind)' = RemoteOf(kind)
  BY <1>1, SameOf
<1>9. HalfOk'
  BY <1>1, <1>2, <1>8 DEF Inv, PublishOk, HalfOk
<1>10. \A kind \in Kinds : KindOk(kind)'
  BY <1>1, <1>2, <1>8 DEF Inv, PublishOk, KindOk
<1> QED BY <1>1, <1>3, <1>4, <1>5, <1>6, <1>7, <1>9, <1>10 DEF Inv, PublishOk

\* The invariant of the negotiation: the working documents stay the announced
\* ones but for levels, entry n joins a router codec and its first compatible
\* native codec, and what publish builds is what the entries of its kind give.
THEOREM Inductive == Spec => []Inv
<1>1. Init => Inv
  BY InitStep
<1>2. Inv /\ [Next]_vars => Inv'
  BY LoadStep, MatchCodecStep, MatchRtxStep, MatchExtStep, LoopEndStep, JoinStep,
     PublishStep, ParametersStep, AnswerStep, ProduceStep, StutterStep DEF Next
<1> QED BY <1>1, <1>2, PTL DEF Spec

\* What the invariant says of a kind's m-line and request.
LEMMA KindFacts ==
    ASSUME Inv, NEW kind \in Kinds
    PROVE  /\ Len(built[kind]) \in 0 .. 2 /\ Len(answers[kind].codecs) \in 0 .. 2
           /\ built[kind] # << >> =>
                 /\ canProduce[kind]
                 /\ SameCodecs(kind, answers[kind], built[kind])
                 /\ RtxFollows(answers[kind].codecs) /\ RtxFollows(produced[kind])
                 /\ OneEstimator(answers[kind])
                 /\ Decisive(answers[kind].codecs[1]) = Decisive(built[kind][1])
                 /\ built[kind][1].name # "h264" =>
                       Decisive(produced[kind][1]) = Decisive(built[kind][1])
<1>1. KindOk(kind) /\ Announced /\ EntriesOk /\ ExtEntriesOk
  BY DEF Inv, PublishOk
<1>2. Joined /\ canProduce[kind] => Validated /\ OfKind(kind, x) # << >>
  <2> HAVE Joined /\ canProduce[kind]
  <2>1. ~Before
    BY DEF Joined, Before
  <2> QED BY <2>1, Working DEF Inv, JoinOk, canSend
<1>3. CASE Joined /\ canProduce[kind] /\ answers[kind] = LineOf(kind)
  <2>1. Validated /\ OfKind(kind, x) # << >>
    BY <1>2, <1>3
  <2>2. \/ built[kind] = << >>
        \/ built[kind] = OwnOf(kind).codecs /\ produced[kind] = Through(ProduceFields, built[kind])
    BY <1>1 DEF KindOk
  <2> QED BY <1>1, <1>3, <2>1, <2>2, KindAgrees
<1>4. CASE ~(Joined /\ canProduce[kind] /\ answers[kind] = LineOf(kind))
  <2>1. answers[kind] = NoCaps /\ built[kind] = << >>
    BY <1>1, <1>4 DEF KindOk
  <2> QED BY <2>1 DEF NoCaps
<1> QED BY <1>3, <1>4

\* The greatest of three sizes.
LEMMA MaxOfThree ==
    ASSUME NEW a \in Nat, NEW b \in Nat, NEW c \in Nat
    PROVE  LET m == Max({a, b, c}) IN m \in Nat /\ a <= m /\ b <= m /\ c <= m
<1>1. \E m \in {a, b, c} : \A n \in {a, b, c} : m >= n
  <2>1. CASE a >= b /\ a >= c
    BY <2>1
  <2>2. CASE b >= a /\ b >= c
    BY <2>2
  <2>3. CASE c >= a /\ c >= b
    BY <2>3
  <2> QED BY <2>1, <2>2, <2>3
<1> QED BY <1>1 DEF Max

\* The loops of getExtendedRtpCapabilities keep their iterators inside the arrays
\* they run over, every pair names a codec of each document, every codec of
\* recv_rtp_capabilities_ has a payload type, and an m-line and a produce request
\* have no codecs but one and its RTX.
THEOREM TypeCorrect == Spec => []TypeOK
<1>1. Inv => TypeOK
  <2> HAVE Inv
  <2>1. pc \in Pcs /\ half \in Kinds /\ withAudio \in BOOLEAN
    BY DEF Inv, IndexOk, PublishOk, HalfOk
  <2>2. canProduce \in [Kinds -> BOOLEAN]
    <3>1. canProduce = [kind \in Kinds |-> canProduce[kind]]
      BY DEF Inv, JoinOk
    <3>2. \A kind \in Kinds : canProduce[kind] \in BOOLEAN
      BY DEF Inv, JoinOk, canSend
    <3> QED BY <3>1, <3>2, Zenon
  <2>3. Len(remote.codecs) \in Nat /\ Len(codecs) \in Nat /\ Len(remote.exts) \in Nat
    <3>1. CASE Before
      BY <3>1 DEF Inv, DocsOk, Nothing, NoCaps
    <3>2. CASE ~Before
      BY <3>2, Working DEF RouterOk, ExtsOk
    <3> QED BY <3>1, <3>2
  <2>4. k \in 1 .. Max({Len(remote.codecs), Len(codecs), Len(remote.exts)}) + 1
    <3> DEFINE a == Len(remote.codecs)
               b == Len(codecs)
               c == Len(remote.exts)
               m == Max({a, b, c})
    <3>1. m \in Nat /\ a <= m /\ b <= m /\ c <= m
      BY <2>3, MaxOfThree
    <3>2. k = 1 \/ k \in 1 .. a + 1 \/ k \in 1 .. b + 1 \/ k \in 1 .. c + 1
      BY DEF Inv, IndexOk
    <3>3. a \in Nat /\ b \in Nat /\ c \in Nat
      BY <2>3
    <3> HIDE DEF a, b, c, m
    <3>4. k \in 1 .. m + 1
      BY <3>1, <3>2, <3>3
    <3> QED BY <3>4 DEF a, b, c, m
  <2>5. /\ Len(pairs) = Len(codecs)
        /\ \A n \in DOMAIN pairs : /\ pairs[n][1] \in DOMAIN native.codecs
                                   /\ pairs[n][2] \in DOMAIN router.codecs
    <3>1. Len(pairs) = Len(codecs) /\ DOMAIN pairs = DOMAIN codecs
      BY DEF Inv, EntriesOk
    <3>2. \A n \in DOMAIN codecs : EntryOf(pairs[n], codecs[n])
      BY DEF Inv, EntriesOk
    <3> QED BY <3>1, <3>2 DEF EntryOf
  <2>6. \A j \in DOMAIN recv.codecs : recv.codecs[j].pt # NoPt
    <3>1. CASE Joined
      <4>1. recv.codecs \in Seq(Codec)
        BY <3>1, RecvFacts DEF Inv, JoinOk
      <4>2. \A j \in DOMAIN recv.codecs : recv.codecs[j] \in Codec
        BY <4>1
      <4> QED BY <4>2 DEF Codec, NoPt
    <3>2. CASE ~Joined
      BY <3>2 DEF Inv, JoinOk, NoCaps
    <3> QED BY <3>1, <3>2
  <2>7. \A kind \in Kinds : Len(built[kind]) \in 0 .. 2 /\ Len(answers[kind].codecs) \in 0 .. 2
    BY KindFacts
  <2> QED BY <2>1, <2>2, <2>4, <2>5, <2>6, <2>7 DEF TypeOK
<1> QED BY <1>1, Inductive, PTL

\* The matching loop of getExtendedRtpCapabilities writes levels into the very
\* documents it compares (matchCodecs with modify), and still its result is what
\* comparing the documents as announced gives: each router codec once, in order,
\* with its first compatible native codec and a level both sides can use.
THEOREM Matched == Spec => []MatchedAsAnnounced
<1>1. Inv => MatchedAsAnnounced
  <2> SUFFICES ASSUME Inv, pc \notin {"load", "codecs", "threw"} PROVE MatchedAsAnnounced
    BY DEF MatchedAsAnnounced
  <2>1. ~Before /\ Bound = Len(router.codecs)
    BY DEF Before, Bound
  <2>2. /\ \A n \in 1 .. Len(pairs) - 1 : pairs[n][2] < pairs[n + 1][2]
        /\ {pairs[n][2] : n \in DOMAIN pairs} = Found(Len(router.codecs))
    BY <2>1 DEF Inv, OrderOk
  <2>3. Found(Len(router.codecs)) =
            {n \in DOMAIN router.codecs : ~IsRtx(router.codecs[n]) /\ Compatible(n) # {}}
    BY <2>1, Working DEF Found
  <2>4. DOMAIN pairs = DOMAIN codecs /\ \A n \in DOMAIN codecs : EntryOf(pairs[n], codecs[n])
    BY <2>1, Working DEF Inv, EntriesOk
  <2>5. ASSUME NEW n \in DOMAIN pairs
        PROVE  /\ pairs[n][1] = FirstOf(Compatible(pairs[n][2]))
               /\ codecs[n].localPt = native.codecs[pairs[n][1]].pt
               /\ codecs[n].remotePt = router.codecs[pairs[n][2]].pt
               /\ OneLevel(n)
    BY <2>4 DEF EntryOf, LevelOk, OneLevel
  <2> QED BY <2>2, <2>3, <2>5 DEF MatchedAsAnnounced
<1> QED BY <1>1, Inductive, PTL

\* MediaControl::enable_audio and enable_video send the server parameters that
\* getSendingRtpParameters makes and give libwebrtc an m-line of those that
\* getSendingRemoteRtpParameters makes: they agree on codecs, RTX and settings,
\* and publish fails for no other reason than a document that does not validate
\* or a kind that cannot be produced.
THEOREM Publishes == Spec => []PublishAgrees
<1>1. Inv => PublishAgrees
  <2> HAVE Inv
  <2>1. pc = "done" => built["video"] # << >> /\ (withAudio => built["audio"] # << >>)
    BY DEF Inv, PublishOk, HalfOk
  <2>2. pc = "threw" => \/ ~ValidCapabilities(Received) \/ ~ValidCapabilities(native)
                        \/ ~canProduce["video"]
                        \/ withAudio /\ ~canProduce["audio"]
    BY DEF Inv, PublishOk, HalfOk, Validated
  <2> QED BY <2>1, <2>2, KindFacts DEF PublishAgrees
<1> QED BY <1>1, Inductive, PTL
=============================================================================
