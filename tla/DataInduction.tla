---------------------------- MODULE DataInduction ----------------------------
(***************************************************************************)
(* Induction over numbers and finite sets, for sets instead of predicates, *)
(* and what it says of two recursive operators the models use: FlattenSeq  *)
(* and SumFunction.  Everything rests on the strict subsets of a finite    *)
(* set being well founded.                                                 *)
(***************************************************************************)
EXTENDS SequencesExt, FiniteSetTheorems, TLAPS

LEMMA MinimalFiniteSet ==
  ASSUME NEW S, NEW W, W \subseteq FiniteSubsetsOf(S), W # {}
  PROVE  \E U \in W : \A V \in W : ~(V \subseteq U /\ V # U)
<1>1. PICK U \in W : \A V \in W : <<V, U>> \notin StrictSubsetOrdering(S)
  BY FS_StrictSubsetOrderingWellFounded, WFMin
<1>2. ASSUME NEW V \in W PROVE ~(V \subseteq U /\ V # U)
  <2>1. V \in SUBSET S /\ U \in SUBSET S
    BY DEF FiniteSubsetsOf
  <2>2. QED
    BY <1>1, <2>1 DEF StrictSubsetOrdering
<1>3. QED
  BY <1>2

\* Every non-empty set of natural numbers has a least element.
LEMMA LeastNumber ==
  ASSUME NEW T \in SUBSET Nat, T # {}
  PROVE  \E m \in T : \A k \in T : m <= k
<1> DEFINE W == {0 .. n : n \in T}
<1>1. W \subseteq FiniteSubsetsOf(Nat) /\ W # {}
  <2>1. ASSUME NEW n \in T PROVE 0 .. n \in FiniteSubsetsOf(Nat)
    BY FS_Interval DEF FiniteSubsetsOf
  <2>2. QED
    BY <2>1
<1>2. PICK U \in W : \A V \in W : ~(V \subseteq U /\ V # U)
  <2> HIDE DEF W
  <2>1. QED
    BY <1>1, MinimalFiniteSet
<1>3. PICK m \in T : U = 0 .. m
  OBVIOUS
<1>4. ASSUME NEW k \in T PROVE m <= k
  <2> SUFFICES ASSUME k < m PROVE FALSE
    OBVIOUS
  <2>1. 0 .. k \subseteq 0 .. m /\ m \in 0 .. m /\ m \notin 0 .. k
    OBVIOUS
  <2>2. 0 .. k \in W
    OBVIOUS
  <2>3. QED
    BY <1>2, <1>3, <2>1, <2>2
<1>5. QED
  BY <1>4

\* Induction: a set with 0 and with each successor of its members holds them all.
LEMMA NumberInduction ==
  ASSUME NEW T, 0 \in T, \A n \in Nat : n \in T => n + 1 \in T
  PROVE  Nat \subseteq T
<1> SUFFICES ASSUME Nat \ T # {} PROVE FALSE
  OBVIOUS
<1>1. PICK m \in Nat \ T : \A k \in Nat \ T : m <= k
  BY LeastNumber
<1>2. m - 1 \in Nat /\ m - 1 \notin Nat \ T
  BY <1>1
<1>3. QED
  BY <1>1, <1>2

\* The same from one finite set to the next element.
LEMMA SetInduction ==
  ASSUME NEW S, IsFiniteSet(S), NEW P, {} \in P,
         \A U \in SUBSET S : \A x \in S \ U : U \in P => U \cup {x} \in P
  PROVE  SUBSET S \subseteq P
<1> DEFINE W == (SUBSET S) \ P
<1> SUFFICES ASSUME W # {} PROVE FALSE
  OBVIOUS
<1>1. W \subseteq FiniteSubsetsOf(S)
  BY FS_FiniteSubsetsOfFinite
<1>2. PICK U \in W : \A V \in W : ~(V \subseteq U /\ V # U)
  <2> HIDE DEF W
  <2>1. QED
    BY <1>1, MinimalFiniteSet
<1>3. PICK x \in U : TRUE
  OBVIOUS
<1>4. U \ {x} \in P
  BY <1>2
<1>5. U = (U \ {x}) \cup {x} /\ U \ {x} \in SUBSET S /\ x \in S \ (U \ {x})
  OBVIOUS
<1>6. QED
  BY <1>4, <1>5

-----------------------------------------------------------------------------
(* FlattenSeq.                                                               *)

\* The function FlattenSeq recurs with: the first i sequences, concatenated.
IsFlattening(f, seqs, n) ==
  f = [i \in 1 .. n |-> IF i = 1 THEN seqs[i] ELSE f[i - 1] \o seqs[i]]

LEMMA FlatteningAt ==
  ASSUME NEW f, NEW seqs, NEW n, IsFlattening(f, seqs, n), NEW i \in 1 .. n
  PROVE  f[i] = IF i = 1 THEN seqs[i] ELSE f[i - 1] \o seqs[i]
<1> DEFINE body == [j \in 1 .. n |-> IF j = 1 THEN seqs[j] ELSE f[j - 1] \o seqs[j]]
<1>1. body[i] = IF i = 1 THEN seqs[i] ELSE f[i - 1] \o seqs[i]
  OBVIOUS
<1>2. f = body
  BY DEF IsFlattening
<1> HIDE DEF body
<1>3. f[i] = body[i]
  BY <1>2
<1>4. QED
  BY <1>1, <1>3

LEMMA FlatteningExists ==
  ASSUME NEW seqs, NEW n \in Nat
  PROVE  \E f : IsFlattening(f, seqs, n)
<1> DEFINE T == {m \in Nat : \E f : IsFlattening(f, seqs, m)}
<1>1. 0 \in T
  <2>1. IsFlattening([i \in 1 .. 0 |-> 0], seqs, 0)
    BY DEF IsFlattening
  <2>2. QED
    BY <2>1
<1>2. ASSUME NEW m \in Nat, m \in T PROVE m + 1 \in T
  <2>1. PICK f : IsFlattening(f, seqs, m)
    BY <1>2
  <2> DEFINE last == IF m = 0 THEN seqs[1] ELSE f[m] \o seqs[m + 1]
             g == [i \in 1 .. m + 1 |-> IF i = m + 1 THEN last ELSE f[i]]
  <2>2. ASSUME NEW i \in 1 .. m + 1
        PROVE  g[i] = IF i = 1 THEN seqs[i] ELSE g[i - 1] \o seqs[i]
    <3>1. CASE i = m + 1
      <4>1. CASE m = 0
        BY <3>1, <4>1
      <4>2. CASE m # 0
        <5>1. i - 1 \in 1 .. m + 1 /\ i - 1 # m + 1 /\ i - 1 = m /\ i # 1
          BY <3>1, <4>2
        <5>2. g[i] = f[m] \o seqs[i] /\ g[i - 1] = f[m]
          BY <3>1, <4>2, <5>1
        <5>3. QED
          BY <5>1, <5>2
      <4>3. QED
        BY <4>1, <4>2
    <3>2. CASE i # m + 1
      <4>1. i \in 1 .. m /\ f[i] = IF i = 1 THEN seqs[i] ELSE f[i - 1] \o seqs[i]
        BY <2>1, <3>2, FlatteningAt
      <4>2. i # 1 => i - 1 \in 1 .. m + 1 /\ i - 1 # m + 1
        BY <4>1
      <4>3. g[i] = f[i] /\ (i # 1 => g[i - 1] = f[i - 1])
        BY <3>2, <4>2
      <4>4. QED
        BY <4>1, <4>3
    <3>3. QED
      BY <3>1, <3>2
  <2>3. g = [i \in 1 .. m + 1 |-> IF i = 1 THEN seqs[i] ELSE g[i - 1] \o seqs[i]]
    <3> HIDE DEF last
    <3>1. g = [i \in 1 .. m + 1 |-> g[i]]
      OBVIOUS
    <3> HIDE DEF g
    <3>2. QED
      BY <2>2, <3>1
  <2>4. IsFlattening(g, seqs, m + 1)
    <3> HIDE DEF g
    <3>1. QED
      BY <2>3 DEF IsFlattening
  <2>5. QED
    <3> HIDE DEF g
    <3>1. QED
      BY <2>4
<1>3. Nat \subseteq T
  <2> HIDE DEF T
  <2>1. QED
    BY <1>1, <1>2, NumberInduction
<1>4. QED
  BY <1>3

\* Two such functions agree as far as they have the same sequences.
LEMMA FlatteningIsUnique ==
  ASSUME NEW f, NEW g, NEW s, NEW t, NEW n \in Nat, NEW m \in Nat, n <= m,
         IsFlattening(f, s, n), IsFlattening(g, t, m),
         \A i \in 1 .. n : s[i] = t[i]
  PROVE  \A i \in 1 .. n : f[i] = g[i]
<1> DEFINE T == {i \in Nat : i \in 1 .. n => f[i] = g[i]}
<1>1. 0 \in T
  OBVIOUS
<1>2. ASSUME NEW i \in Nat, i \in T PROVE i + 1 \in T
  <2> SUFFICES ASSUME i + 1 \in 1 .. n PROVE f[i + 1] = g[i + 1]
    OBVIOUS
  <2>1. /\ f[i + 1] = IF i + 1 = 1 THEN s[i + 1] ELSE f[(i + 1) - 1] \o s[i + 1]
        /\ g[i + 1] = IF i + 1 = 1 THEN t[i + 1] ELSE g[(i + 1) - 1] \o t[i + 1]
    <3>1. i + 1 \in 1 .. n /\ i + 1 \in 1 .. m
      OBVIOUS
    <3>2. QED
      BY <3>1, FlatteningAt
  <2>2. i + 1 # 1 => i \in 1 .. n /\ f[i] = g[i]
    BY <1>2
  <2>3. (i + 1) - 1 = i
    OBVIOUS
  <2>4. QED
    BY <2>1, <2>2, <2>3
<1>3. Nat \subseteq T
  <2> HIDE DEF T
  <2>1. QED
    BY <1>1, <1>2, NumberInduction
<1>4. QED
  BY <1>3

LEMMA FlattenSeqUnfolds ==
  ASSUME NEW seqs, Len(seqs) \in Nat \ {0}
  PROVE  \E f : IsFlattening(f, seqs, Len(seqs)) /\ FlattenSeq(seqs) = f[Len(seqs)]
<1> DEFINE f == CHOOSE h : h = [i \in 1 .. Len(seqs) |->
                                  IF i = 1 THEN seqs[i] ELSE h[i - 1] \o seqs[i]]
<1>1. FlattenSeq(seqs) = f[Len(seqs)]
  BY DEF FlattenSeq
<1>2. \E h : h = [i \in 1 .. Len(seqs) |-> IF i = 1 THEN seqs[i] ELSE h[i - 1] \o seqs[i]]
  BY FlatteningExists DEF IsFlattening
<1>3. f = [i \in 1 .. Len(seqs) |-> IF i = 1 THEN seqs[i] ELSE f[i - 1] \o seqs[i]]
  BY <1>2, Zenon
<1>4. IsFlattening(f, seqs, Len(seqs))
  <2> HIDE DEF f
  <2>1. QED
    BY <1>3 DEF IsFlattening
<1>5. QED
  <2> HIDE DEF f
  <2>1. QED
    BY <1>1, <1>4

\* One more sequence is one more concatenation.
LEMMA FlattenAppend ==
  ASSUME NEW S, NEW seqs \in Seq(Seq(S)), NEW e \in Seq(S)
  PROVE  FlattenSeq(Append(seqs, e)) = FlattenSeq(seqs) \o e
<1> DEFINE all == Append(seqs, e)
           n == Len(seqs)
<1>1. /\ n \in Nat /\ Len(all) = n + 1
      /\ all[n + 1] = e
      /\ \A i \in 1 .. n : all[i] = seqs[i]
  OBVIOUS
<1> HIDE DEF all
<1>2. PICK g : IsFlattening(g, all, n + 1) /\ FlattenSeq(all) = g[n + 1]
  BY <1>1, FlattenSeqUnfolds
<1>3. g[n + 1] = IF n + 1 = 1 THEN all[n + 1] ELSE g[(n + 1) - 1] \o all[n + 1]
  <2>1. n + 1 \in 1 .. n + 1
    BY <1>1
  <2>2. QED
    BY <1>2, <2>1, FlatteningAt
<1>4. CASE n = 0
  <2>1. FlattenSeq(seqs) = seqs /\ seqs = <<>>
    BY <1>4 DEF FlattenSeq
  <2>2. <<>> \o e = e
    OBVIOUS
  <2>3. FlattenSeq(all) = e
    BY <1>1, <1>2, <1>3, <1>4
  <2>4. QED
    BY <2>1, <2>2, <2>3 DEF all
<1>5. CASE n # 0
  <2>1. PICK f : IsFlattening(f, seqs, n) /\ FlattenSeq(seqs) = f[n]
    BY <1>1, <1>5, FlattenSeqUnfolds
  <2>2. f[n] = g[n]
    <3>1. \A i \in 1 .. n : f[i] = g[i]
      <4>1. n <= n + 1 /\ n + 1 \in Nat /\ \A i \in 1 .. n : seqs[i] = all[i]
        BY <1>1
      <4>2. n \in Nat /\ IsFlattening(f, seqs, n) /\ IsFlattening(g, all, n + 1)
        BY <1>1, <1>2, <2>1
      <4> HIDE DEF n
      <4>3. QED
        BY <4>1, <4>2, FlatteningIsUnique, SMTT(60)
    <3>2. QED
      BY <1>1, <1>5, <3>1
  <2>3. FlattenSeq(all) = g[n] \o e
    BY <1>1, <1>2, <1>3, <1>5
  <2>4. QED
    BY <2>1, <2>2, <2>3 DEF all
<1>6. QED
  BY <1>4, <1>5

-----------------------------------------------------------------------------
(* SumFunction.                                                              *)

\* F gives every subset of S the sum of f over it.
Additive(F, f, S) ==
  /\ F \in [SUBSET S -> Nat]
  /\ F[{}] = 0
  /\ \A U \in SUBSET S : \A x \in S \ U : F[U \cup {x}] = F[U] + f[x]

LEMMA AdditiveExists ==
  ASSUME NEW S, IsFiniteSet(S), NEW f, \A x \in S : f[x] \in Nat
  PROVE  \E F : Additive(F, f, S)
<1> DEFINE P == {U \in SUBSET S : \E F : Additive(F, f, U)}
<1>1. {} \in P
  <2>1. Additive([U \in SUBSET {} |-> 0], f, {})
    BY DEF Additive
  <2>2. QED
    BY <2>1
<1>2. ASSUME NEW U \in SUBSET S, NEW x \in S \ U, U \in P PROVE U \cup {x} \in P
  <2>1. PICK F : Additive(F, f, U)
    BY <1>2
  <2> DEFINE V == U \cup {x}
             G == [T \in SUBSET V |-> IF x \in T THEN F[T \ {x}] + f[x] ELSE F[T]]
  <2>2. \A T \in SUBSET V : T \ {x} \in SUBSET U /\ (x \notin T => T \in SUBSET U)
    OBVIOUS
  <2>3. G \in [SUBSET V -> Nat]
    <3>1. ASSUME NEW T \in SUBSET V
          PROVE  (IF x \in T THEN F[T \ {x}] + f[x] ELSE F[T]) \in Nat
      <4>1. f[x] \in Nat /\ F[T \ {x}] \in Nat /\ (x \notin T => F[T] \in Nat)
        BY <2>1, <2>2 DEF Additive
      <4>2. QED
        BY <4>1
    <3>2. QED
      BY <3>1
  <2>4. G[{}] = 0
    BY <2>1 DEF Additive
  <2>5. ASSUME NEW T \in SUBSET V, NEW y \in V \ T PROVE G[T \cup {y}] = G[T] + f[y]
    <3>1. T \cup {y} \in SUBSET V
      OBVIOUS
    <3>2. CASE y = x
      <4>1. (T \cup {y}) \ {x} = T /\ x \notin T /\ x \in T \cup {y}
        BY <3>2
      <4>2. G[T \cup {y}] = F[T] + f[x] /\ G[T] = F[T]
        BY <3>1, <4>1
      <4>3. QED
        BY <3>2, <4>2
    <3>3. CASE y # x
      <4>1. y \in U \ T
        BY <3>3
      <4>2. CASE x \in T
        <5>1. (T \cup {y}) \ {x} = (T \ {x}) \cup {y} /\ T \ {x} \in SUBSET U
          BY <3>3
        <5>2. F[(T \ {x}) \cup {y}] = F[T \ {x}] + f[y] /\ F[T \ {x}] \in Nat
          BY <2>1, <4>1, <5>1 DEF Additive
        <5>3. /\ G[T \cup {y}] = F[(T \ {x}) \cup {y}] + f[x]
              /\ G[T] = F[T \ {x}] + f[x]
          BY <3>1, <4>2, <5>1
        <5>4. f[x] \in Nat /\ f[y] \in Nat
          OBVIOUS
        <5> HIDE DEF G
        <5>5. QED
          BY <5>2, <5>3, <5>4
      <4>3. CASE x \notin T
        <5>1. F[T \cup {y}] = F[T] + f[y]
          BY <2>1, <2>2, <4>1, <4>3 DEF Additive
        <5>2. G[T \cup {y}] = F[T \cup {y}] /\ G[T] = F[T]
          BY <3>1, <3>3, <4>3
        <5>3. QED
          BY <5>1, <5>2
      <4>4. QED
        BY <4>2, <4>3
    <3>4. QED
      BY <3>2, <3>3
  <2>6. Additive(G, f, V)
    <3> HIDE DEF G
    <3>1. QED
      BY <2>3, <2>4, <2>5 DEF Additive
  <2>7. V \in SUBSET S
    OBVIOUS
  <2>8. QED
    <3> HIDE DEF G
    <3>1. QED
      BY <2>6, <2>7
<1>3. SUBSET S \subseteq P
  <2> HIDE DEF P
  <2>1. QED
    BY <1>1, <1>2, SetInduction
<1>4. QED
  BY <1>3

\* Sums agree on a subset where the functions do.
LEMMA AdditiveIsUnique ==
  ASSUME NEW S, IsFiniteSet(S), NEW f, NEW F, Additive(F, f, S),
         NEW U \in SUBSET S, NEW g, NEW G, Additive(G, g, U),
         \A x \in U : f[x] = g[x]
  PROVE  F[U] = G[U]
<1> DEFINE P == {T \in SUBSET U : F[T] = G[T]}
<1>1. {} \in P
  BY DEF Additive
<1>2. ASSUME NEW T \in SUBSET U, NEW x \in U \ T, T \in P PROVE T \cup {x} \in P
  <2>1. F[T \cup {x}] = F[T] + f[x] /\ G[T \cup {x}] = G[T] + g[x]
    BY DEF Additive
  <2>2. QED
    BY <1>2, <2>1
<1>3. IsFiniteSet(U)
  BY FS_Subset
<1>4. SUBSET U \subseteq P
  <2> HIDE DEF P
  <2>1. QED
    BY <1>1, <1>2, <1>3, SetInduction
<1>5. QED
  BY <1>4

\* SumFunction is that sum, in whatever order its CHOOSE takes the elements.
LEMMA SumFunctionIsAdditive ==
  ASSUME NEW S, IsFiniteSet(S), NEW f \in [S -> Nat], NEW F, Additive(F, f, S)
  PROVE  SumFunction(f) = F[S]
<1> DEFINE pick(U) == CHOOSE x \in U : TRUE
           Eqn(g) == g = [U \in SUBSET S |->
                           IF U = {} THEN 0 ELSE f[pick(U)] + g[U \ {pick(U)}]]
           sum == CHOOSE g : Eqn(g)
<1>1. SumFunction(f) = sum[S]
  BY DEF SumFunction, SumFunctionOnSet, FoldFunctionOnSet, MapThenFoldSet
<1>2. \A U \in SUBSET S : U # {} => pick(U) \in U
  OBVIOUS
<1> DEFINE value(g, U) == IF U = {} THEN 0 ELSE f[pick(U)] + g[U \ {pick(U)}]
<1>3. Eqn(F)
  <2>1. ASSUME NEW U \in SUBSET S PROVE F[U] = value(F, U)
    <3>1. CASE U = {}
      BY <3>1 DEF Additive
    <3>2. CASE U # {}
      <4>1. pick(U) \in U
        BY <1>2, <3>2
      <4> HIDE DEF pick
      <4>2. U \ {pick(U)} \in SUBSET S /\ pick(U) \in S \ (U \ {pick(U)})
        BY <4>1
      <4>3. (U \ {pick(U)}) \cup {pick(U)} = U
        BY <4>1
      <4>4. F[(U \ {pick(U)}) \cup {pick(U)}] = F[U \ {pick(U)}] + f[pick(U)]
        BY <4>2 DEF Additive
      <4>5. F[U \ {pick(U)}] \in Nat /\ f[pick(U)] \in Nat
        BY <4>2 DEF Additive
      <4>6. F[U] = F[U \ {pick(U)}] + f[pick(U)]
        BY <4>3, <4>4, Zenon
      <4>7. value(F, U) = f[pick(U)] + F[U \ {pick(U)}]
        BY <3>2
      <4>8. QED
        <5> HIDE DEF value
        <5>1. QED
          BY <4>5, <4>6, <4>7
    <3>3. QED
      BY <3>1, <3>2
  <2>2. F = [U \in SUBSET S |-> F[U]]
    BY DEF Additive
  <2>3. F = [U \in SUBSET S |-> value(F, U)]
    <3> HIDE DEF value
    <3>1. QED
      BY <2>1, <2>2
  <2>4. QED
    BY <2>3
<1>4. Eqn(sum)
  <2> HIDE DEF Eqn
  <2>1. QED
    BY <1>3, Zenon
<1>5. ASSUME NEW g, Eqn(g) PROVE \A U \in SUBSET S : g[U] = F[U]
  <2>1. ASSUME NEW h, Eqn(h), NEW U \in SUBSET S PROVE h[U] = value(h, U)
    <3> DEFINE body == [V \in SUBSET S |-> value(h, V)]
    <3>1. body[U] = value(h, U)
      OBVIOUS
    <3>2. h = body
      BY <2>1
    <3> HIDE DEF body, value
    <3>3. h[U] = body[U]
      BY <3>2
    <3>4. QED
      BY <3>1, <3>3
  <2> DEFINE W == {U \in SUBSET S : g[U] # F[U]}
  <2> SUFFICES ASSUME W # {} PROVE FALSE
    OBVIOUS
  <2>2. W \subseteq FiniteSubsetsOf(S)
    BY FS_FiniteSubsetsOfFinite
  <2>3. PICK U \in W : \A V \in W : ~(V \subseteq U /\ V # U)
    <3> HIDE DEF W
    <3>1. QED
      BY <2>2, MinimalFiniteSet
  <2>4. g[U] = value(g, U) /\ F[U] = value(F, U)
    <3> HIDE DEF Eqn, value
    <3>1. QED
      BY <1>3, <1>5, <2>1
  <2>5. CASE U = {}
    BY <2>4, <2>5
  <2>6. CASE U # {}
    <3>1. pick(U) \in U
      BY <1>2, <2>6
    <3> HIDE DEF pick
    <3>2. g[U \ {pick(U)}] = F[U \ {pick(U)}]
      BY <2>3, <3>1
    <3>3. QED
      BY <2>4, <2>6, <3>2
  <2>7. QED
    BY <2>5, <2>6
<1>6. QED
  BY <1>1, <1>4, <1>5

\* A sum over one element more is larger by its value.
LEMMA SumFunctionAdds ==
  ASSUME NEW S, IsFiniteSet(S), NEW x, x \notin S, NEW f \in [S \cup {x} -> Nat],
         NEW g \in [S -> Nat], \A y \in S : g[y] = f[y]
  PROVE  /\ SumFunction(g) \in Nat
         /\ SumFunction(f) = SumFunction(g) + f[x]
<1> DEFINE T == S \cup {x}
<1>1. IsFiniteSet(T)
  BY FS_AddElement
<1>2. PICK F : Additive(F, f, T)
  BY <1>1, AdditiveExists
<1>3. PICK G : Additive(G, g, S)
  BY AdditiveExists
<1>4. F[S] = G[S]
  <2>1. S \in SUBSET T
    OBVIOUS
  <2> HIDE DEF T
  <2>2. QED
    BY <1>1, <1>2, <1>3, <2>1, AdditiveIsUnique, SMTT(60)
<1>5. F[T] = F[S] + f[x]
  BY <1>2 DEF Additive
<1>6. SumFunction(f) = F[T] /\ SumFunction(g) = G[S]
  BY <1>1, <1>2, <1>3, SumFunctionIsAdditive
<1>7. G[S] \in Nat
  BY <1>3 DEF Additive
<1>8. QED
  BY <1>4, <1>5, <1>6, <1>7

LEMMA SumOfNothing == ASSUME NEW f \in [{} -> Nat] PROVE SumFunction(f) = 0
<1>1. IsFiniteSet({})
  BY FS_EmptySet
<1>2. PICK F : Additive(F, f, {})
  BY <1>1, AdditiveExists
<1>3. QED
  BY <1>1, <1>2, SumFunctionIsAdditive DEF Additive

=============================================================================
