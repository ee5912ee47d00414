--------------------------- MODULE TaskRulesProofs ---------------------------
(***************************************************************************)
(* What the calculations of TaskRules give, for every input that           *)
(* InputAssumption allows: ResultsAccepted and NothingLost.                 *)
(*                                                                         *)
(* A calculation goes through a sequence, forwards (FoldLeft) or from a    *)
(* place on (a recursive function).  Each is shown to take its steps, by a *)
(* lemma named ...Steps, or to be defined at all (DownExists); what holds  *)
(* after n steps is an operator of its own (Batched, Merged, MaskedTo,     *)
(* PiecesTo, NamesTo, Reported, Cut), which holds at first and is kept by  *)
(* every step; and so it holds at the end (UpTo, DownTo).  That is         *)
(* induction over data, for which Induction takes a set in the place of a  *)
(* predicate; it rests on the finite sets of numbers being well founded.   *)
(***************************************************************************)
EXTENDS TaskRules, FiniteSetTheorems, SequenceTheorems, WellFoundedInduction, TLAPS

(* A set of numbers that is not empty has a least one.                     *)
LEMMA LeastNumber ==
  ASSUME NEW T, T \subseteq Nat, T # {}
  PROVE  \E n \in T : \A m \in T : n <= m
<1> DEFINE Below(n) == 0 .. n - 1
           U == {Below(n) : n \in T}
<1>1. IsWellFoundedOn(StrictSubsetOrdering(Nat), FiniteSubsetsOf(Nat))
  BY FS_StrictSubsetOrderingWellFounded
<1>2. U # {} /\ U \subseteq FiniteSubsetsOf(Nat)
  <2>1. ASSUME NEW n \in T PROVE Below(n) \in FiniteSubsetsOf(Nat)
    <3>1. IsFiniteSet(Below(n)) /\ Below(n) \subseteq Nat
      BY FS_Interval
    <3> QED BY <3>1 DEF FiniteSubsetsOf
  <2> HIDE DEF Below
  <2> QED BY <2>1
<1>3. PICK u \in U : \A v \in U : <<v, u>> \notin StrictSubsetOrdering(Nat)
  <2> HIDE DEF U
  <2> QED BY <1>1, <1>2, WFMin, Zenon
<1>4. PICK n \in T : u = Below(n)
  OBVIOUS
<1>5. ASSUME NEW m \in T, m < n PROVE FALSE
  <2>1. Below(m) \in U /\ Below(m) \subseteq Below(n) /\ Below(m) # Below(n)
    BY <1>5
  <2>2. Below(m) \in SUBSET Nat /\ Below(n) \in SUBSET Nat
    OBVIOUS
  <2> HIDE DEF Below, U
  <2>3. <<Below(m), Below(n)>> \in StrictSubsetOrdering(Nat)
    BY <2>1, <2>2 DEF StrictSubsetOrdering
  <2> QED BY <1>3, <1>4, <2>1, <2>3
<1> QED BY <1>4, <1>5

(* Induction, with a set in the place of a predicate.                      *)
LEMMA Induction ==
  ASSUME NEW S, 0 \in S, \A n \in Nat : n \in S => n + 1 \in S
  PROVE  \A n \in Nat : n \in S
<1> SUFFICES ASSUME NEW m \in Nat, m \notin S PROVE FALSE
  OBVIOUS
<1> DEFINE T == {n \in Nat : n \notin S}
<1>1. PICK n \in T : \A k \in T : n <= k
  <2>1. T \subseteq Nat /\ T # {}
    OBVIOUS
  <2> HIDE DEF T
  <2> QED BY <2>1, LeastNumber
<1>2. n \in Nat \ {0} /\ n - 1 \in Nat /\ n - 1 \in S
  BY <1>1
<1> QED BY <1>1, <1>2

(* Induction up to N.                                                      *)
LEMMA UpTo ==
  ASSUME NEW N \in Nat, NEW S, 0 \in S, \A n \in 0 .. N - 1 : n \in S => n + 1 \in S
  PROVE  \A n \in 0 .. N : n \in S
<1> DEFINE T == {n \in Nat : n <= N => n \in S}
<1>1. 0 \in T
  OBVIOUS
<1>2. \A n \in Nat : n \in T => n + 1 \in T
  OBVIOUS
<1> HIDE DEF T
<1>3. \A n \in Nat : n \in T
  BY <1>1, <1>2, Induction
<1> QED BY <1>3 DEF T

(* The same from the end back.                                             *)
LEMMA DownTo ==
  ASSUME NEW lo \in Nat, NEW L \in Nat, NEW S,
         \A i \in lo .. L : (\A j \in i + 1 .. L : j \in S) => i \in S
  PROVE  \A i \in lo .. L : i \in S
<1> SUFFICES ASSUME NEW m \in lo .. L, m \notin S PROVE FALSE
  OBVIOUS
<1> DEFINE T == {L - i : i \in {i \in lo .. L : i \notin S}}
<1>1. T \subseteq Nat /\ T # {}
  OBVIOUS
<1>2. PICK n \in T : \A k \in T : n <= k
  <2> HIDE DEF T
  <2> QED BY <1>1, LeastNumber
<1>3. PICK i \in lo .. L : i \notin S /\ n = L - i
  BY <1>2
<1>4. ASSUME NEW j \in i + 1 .. L, j \notin S PROVE FALSE
  <2>1. j \in lo .. L /\ L - j \in T
    BY <1>4
  <2>2. L - j >= n
    BY <1>2, <2>1
  <2> QED BY <1>3, <1>4, <2>2
<1> QED BY <1>3, <1>4

(* The greatest of some of the first n numbers, as FoldLeft takes it.      *)
LEMMA MaxOf ==
  ASSUME NEW n \in Nat, NEW t, t \subseteq 1 .. n, t # {}
  PROVE  Max(t) \in t /\ \A m \in t : m <= Max(t)
<1> DEFINE U == {k \in Nat : \A m \in t : m <= k}
<1>1. U \subseteq Nat /\ U # {}
  BY DEF U
<1>2. PICK k \in U : \A l \in U : k <= l
  <2> HIDE DEF U
  <2> QED BY <1>1, LeastNumber
<1>3. k \in t
  <2> SUFFICES ASSUME k \notin t PROVE FALSE
    OBVIOUS
  <2>1. \A m \in t : m \in Nat /\ m < k
    BY <1>2
  <2>2. k \in Nat /\ k # 0 /\ k - 1 \in Nat /\ \A m \in t : m <= k - 1
    <3>1. PICK m \in t : TRUE
      OBVIOUS
    <3>2. k \in Nat /\ m \in Nat /\ m < k
      BY <2>1
    <3> QED BY <2>1, <3>2
  <2>3. k - 1 \in U
    BY <2>2
  <2> QED BY <1>2, <2>2, <2>3
<1>4. \A m \in t : k >= m
  BY <1>2
<1> QED BY <1>3, <1>4 DEF Max

(* Of all of them, it is the last.                                         *)
LEMMA MaxOfInterval == ASSUME NEW n \in Nat \ {0} PROVE Max(1 .. n) = n /\ (1 .. n) \ {n} = 1 .. n - 1
<1>1. 1 .. n \subseteq 1 .. n /\ 1 .. n # {}
  OBVIOUS
<1>2. Max(1 .. n) \in 1 .. n /\ \A m \in 1 .. n : m <= Max(1 .. n)
  BY <1>1, MaxOf
<1> QED BY <1>2

(* What FoldLeft asks of a function of sets of indices.                    *)
FoldOf(f, A, b, n, G) ==
  /\ f \in [SUBSET (1 .. n) -> A]
  /\ \A t \in SUBSET (1 .. n) : f[t] = IF t = {} THEN b ELSE G[<<Max(t), f[t \ {Max(t)}]>>]

(* There is such a function, built up from the first index to the last.    *)
LEMMA FoldExists ==
  ASSUME NEW A, NEW b \in A, NEW N \in Nat, NEW G \in [(1 .. N) \X A -> A]
  PROVE  \E f : FoldOf(f, A, b, N, G)
<1> DEFINE S == {n \in Nat : n <= N => \E f : FoldOf(f, A, b, n, G)}
<1>1. 0 \in S
  <2> DEFINE f == [t \in SUBSET (1 .. 0) |-> b]
  <2>1. FoldOf(f, A, b, 0, G)
    <3>1. SUBSET (1 .. 0) = {{}}
      OBVIOUS
    <3> QED BY <3>1 DEF FoldOf
  <2> QED BY <2>1
<1>2. ASSUME NEW n \in Nat, n \in S PROVE n + 1 \in S
  <2> SUFFICES ASSUME n + 1 <= N PROVE \E f : FoldOf(f, A, b, n + 1, G)
    OBVIOUS
  <2>1. PICK g : FoldOf(g, A, b, n, G)
    BY <1>2
  <2> DEFINE f == [t \in SUBSET (1 .. n + 1) |->
                     IF n + 1 \in t THEN G[<<n + 1, g[t \ {n + 1}]>>] ELSE g[t]]
  <2>2. ASSUME NEW t \in SUBSET (1 .. n + 1)
        PROVE  f[t] \in A /\ f[t] = IF t = {} THEN b ELSE G[<<Max(t), f[t \ {Max(t)}]>>]
    <3>1. CASE n + 1 \in t
      <4>1. t \ {n + 1} \in SUBSET (1 .. n) /\ t # {}
        BY <3>1
      <4>2. Max(t) = n + 1
        <5>1. t \subseteq 1 .. n + 1 /\ n + 1 \in Nat
          OBVIOUS
        <5>2. Max(t) \in t /\ \A m \in t : m <= Max(t)
          BY <4>1, <5>1, MaxOf
        <5>3. Max(t) \in 1 .. n + 1 /\ n + 1 <= Max(t)
          BY <3>1, <5>1, <5>2
        <5> QED BY <5>3
      <4>3. g[t \ {n + 1}] \in A
        BY <2>1, <4>1 DEF FoldOf
      <4>4. f[t \ {n + 1}] = g[t \ {n + 1}]
        BY <4>1
      <4>5. f[t] = G[<<n + 1, g[t \ {n + 1}]>>]
        BY <3>1
      <4> HIDE DEF f
      <4> QED BY <4>1, <4>2, <4>3, <4>4, <4>5
    <3>2. CASE n + 1 \notin t
      <4>1. t \in SUBSET (1 .. n) /\ f[t] = g[t]
        BY <3>2
      <4>2. CASE t = {}
        BY <2>1, <4>1, <4>2 DEF FoldOf
      <4>3. CASE t # {}
        <5>1. Max(t) \in t
          <6>1. t \subseteq 1 .. n
            BY <4>1
          <6> QED BY <4>3, <6>1, MaxOf
        <5>2. t \ {Max(t)} \in SUBSET (1 .. n) /\ n + 1 \notin t \ {Max(t)}
          BY <3>2, <4>1
        <5>3. f[t \ {Max(t)}] = g[t \ {Max(t)}]
          BY <5>2
        <5>4. g[t] = IF t = {} THEN b ELSE G[<<Max(t), g[t \ {Max(t)}]>>]
          BY <2>1, <4>1 DEF FoldOf
        <5>5. g[t] \in A
          BY <2>1, <4>1 DEF FoldOf
        <5> HIDE DEF f
        <5> QED BY <4>1, <5>3, <5>4, <5>5
      <4> QED BY <4>2, <4>3
    <3> QED BY <3>1, <3>2
  <2>3. f \in [SUBSET (1 .. n + 1) -> A]
    <3>1. f = [t \in SUBSET (1 .. n + 1) |-> f[t]]
      OBVIOUS
    <3> HIDE DEF f
    <3> QED BY <2>2, <3>1
  <2> HIDE DEF f
  <2> QED BY <2>2, <2>3 DEF FoldOf
<1> HIDE DEF S
<1>3. N \in S
  BY <1>1, <1>2, Induction
<1> QED BY <1>3 DEF S

ShapeOf(f, A, b, N, G) ==
  /\ f \in [SUBSET (1 .. N) -> A] /\ f[{}] = b
  /\ \A t \in SUBSET (1 .. N) :
       t # {} => f[t \ {Max(t)}] \in A /\ Max(t) \in 1 .. N /\ f[t] = G[<<Max(t), f[t \ {Max(t)}]>>]

(* What it gives for a set of indices, from what it gives without the last.*)
LEMMA FoldShape ==
  ASSUME NEW A, NEW b, NEW N \in Nat, NEW G, NEW f, FoldOf(f, A, b, N, G)
  PROVE  ShapeOf(f, A, b, N, G)
<1>1. f \in [SUBSET (1 .. N) -> A] /\ f[{}] = b
  BY DEF FoldOf
<1>2. ASSUME NEW t \in SUBSET (1 .. N), t # {}
      PROVE  f[t \ {Max(t)}] \in A /\ Max(t) \in 1 .. N /\ f[t] = G[<<Max(t), f[t \ {Max(t)}]>>]
  <2>1. Max(t) \in t
    BY <1>2, MaxOf
  <2>2. t \ {Max(t)} \in SUBSET (1 .. N)
    OBVIOUS
  <2> QED BY <1>1, <1>2, <2>1, <2>2 DEF FoldOf
<1> QED BY <1>1, <1>2 DEF ShapeOf

(* What FoldLeft computes, from left to right.                             *)
Iterates(iter, A, b, N, G) ==
  /\ iter[{}] = b
  /\ \A t \in SUBSET (1 .. N) :
       t # {} /\ iter[t \ {Max(t)}] \in A => iter[t] = G[<<Max(t), iter[t \ {Max(t)}]>>]

StepsOf(acc, A, b, N, G, last) ==
  /\ acc \in [0 .. N -> A] /\ acc[0] = b /\ acc[N] = last
  /\ \A n \in 1 .. N : acc[n] = G[<<n, acc[n - 1]>>]

(* So a fold goes through the indices in order.                            *)
LEMMA FoldSteps ==
  ASSUME NEW A, NEW b \in A, NEW N \in Nat, NEW G \in [(1 .. N) \X A -> A], NEW iter, Iterates(iter, A, b, N, G)
  PROVE  \E acc : StepsOf(acc, A, b, N, G, iter[1 .. N])
<1> DEFINE acc == [n \in 0 .. N |-> iter[1 .. n]]
<1>1. acc[0] = b
  <2>1. 1 .. 0 \in SUBSET (1 .. N) /\ 1 .. 0 = {} /\ 0 \in 0 .. N
    OBVIOUS
  <2> QED BY <2>1 DEF Iterates
<1>2. ASSUME NEW n \in 1 .. N, acc[n - 1] \in A PROVE acc[n] = G[<<n, acc[n - 1]>>] /\ acc[n] \in A
  <2>1. Max(1 .. n) = n /\ (1 .. n) \ {n} = 1 .. n - 1 /\ 1 .. n # {} /\ 1 .. n \in SUBSET (1 .. N)
    BY MaxOfInterval
  <2>2. n \in 0 .. N /\ n - 1 \in 0 .. N
    OBVIOUS
  <2>3. acc[n] = iter[1 .. n] /\ acc[n - 1] = iter[1 .. n - 1]
    BY <2>2
  <2> HIDE DEF acc
  <2>4. acc[n] = G[<<n, acc[n - 1]>>]
    BY <1>2, <2>1, <2>3 DEF Iterates
  <2> QED BY <1>2, <2>4
<1> DEFINE S == {n \in 0 .. N : acc[n] \in A}
<1>3. \A n \in 0 .. N : n \in S
  <2> HIDE DEF acc
  <2>1. 0 \in S
    BY <1>1
  <2>2. ASSUME NEW n \in 0 .. N - 1, n \in S PROVE n + 1 \in S
    <3>1. n + 1 \in 1 .. N /\ (n + 1) - 1 = n /\ acc[n] \in A
      BY <2>2
    <3>2. acc[n + 1] \in A
      BY <1>2, <3>1
    <3> QED BY <3>1, <3>2
  <2> HIDE DEF S
  <2> QED BY <2>1, <2>2, UpTo
<1>4. acc \in [0 .. N -> A] /\ acc[N] = iter[1 .. N]
  <2>1. N \in 0 .. N
    OBVIOUS
  <2>2. acc = [n \in 0 .. N |-> acc[n]] /\ acc[N] = iter[1 .. N]
    BY <2>1
  <2> HIDE DEF acc
  <2> QED BY <1>3, <2>2
<1>5. \A n \in 1 .. N : acc[n] = G[<<n, acc[n - 1]>>]
  <2> HIDE DEF acc
  <2>1. ASSUME NEW n \in 1 .. N PROVE n - 1 \in 0 .. N
    OBVIOUS
  <2> QED BY <1>2, <1>3, <2>1
<1> HIDE DEF acc
<1> QED BY <1>1, <1>4, <1>5 DEF StepsOf

(* A total adds up the elements in order.                                  *)
LEMMA TotalSteps ==
  ASSUME NEW seq \in Seq(Int)
  PROVE  \E acc \in [0 .. Len(seq) -> Int] :
           /\ acc[0] = 0 /\ Total(seq) = acc[Len(seq)]
           /\ \A n \in 1 .. Len(seq) : acc[n] = acc[n - 1] + seq[n]
<1> DEFINE N == Len(seq)
           D == SUBSET (1 .. N)
           Is(f) == f = [t \in D |-> IF t = {} THEN 0 ELSE f[t \ {Max(t)}] + seq[Max(t)]]
           iter == CHOOSE f : Is(f)
           G == [p \in (1 .. N) \X Int |-> p[2] + seq[p[1]]]
<1>1. N \in Nat /\ DOMAIN seq = 1 .. N /\ \A i \in 1 .. N : seq[i] \in Int
  OBVIOUS
<1>2. Total(seq) = iter[1 .. N]
  BY <1>1 DEF Total, FoldLeft, MapThenFoldSet
<1>3. G \in [(1 .. N) \X Int -> Int] /\ \A n \in 1 .. N, x \in Int : G[<<n, x>>] = x + seq[n]
  BY <1>1
<1>4. Is(iter)
  <2>1. PICK f : FoldOf(f, Int, 0, N, G)
    <3>1. 0 \in Int
      OBVIOUS
    <3> HIDE DEF G, N
    <3> QED BY <1>1, <1>3, <3>1, FoldExists
  <2>2. ShapeOf(f, Int, 0, N, G)
    <3> HIDE DEF G, N
    <3> QED BY <1>1, <2>1, FoldShape
  <2>3. \A t \in D : f[t] = IF t = {} THEN 0 ELSE f[t \ {Max(t)}] + seq[Max(t)]
    <3> HIDE DEF G, N
    <3> QED BY <1>3, <2>2 DEF ShapeOf
  <2>4. Is(f)
    <3>1. f \in [D -> Int]
      BY <2>2 DEF ShapeOf
    <3> HIDE DEF D
    <3> QED BY <2>3, <3>1
  <2> QED BY <2>4
<1>5. Iterates(iter, Int, 0, N, G)
  <2> HIDE DEF iter, G
  <2>1. iter[{}] = 0
    BY <1>4
  <2>2. ASSUME NEW t \in SUBSET (1 .. N), t # {}, iter[t \ {Max(t)}] \in Int
        PROVE  iter[t] = G[<<Max(t), iter[t \ {Max(t)}]>>]
    <3>1. Max(t) \in 1 .. N
      BY <1>1, <2>2, MaxOf
    <3>2. iter[t] = iter[t \ {Max(t)}] + seq[Max(t)]
      BY <1>4, <2>2
    <3> QED BY <1>3, <2>2, <3>1, <3>2
  <2> QED BY <2>1, <2>2 DEF Iterates
<1>6. PICK acc : StepsOf(acc, Int, 0, N, G, iter[1 .. N])
  <2>1. 0 \in Int
    OBVIOUS
  <2> HIDE DEF iter, G, N
  <2> QED BY <1>1, <1>3, <1>5, <2>1, FoldSteps
<1>7. \A n \in 1 .. N : acc[n] = acc[n - 1] + seq[n]
  <2> HIDE DEF G
  <2>1. ASSUME NEW n \in 1 .. N PROVE n - 1 \in 0 .. N
    BY <1>1
  <2> QED BY <1>3, <1>6, <2>1 DEF StepsOf
<1> QED BY <1>2, <1>6, <1>7 DEF StepsOf
-----------------------------------------------------------------------------
(* A function that is defined from the end of an interval back.            *)
DownOf(f, A, lo, L, next, base, G) ==
  /\ f \in [lo .. L -> A]
  /\ \A i \in lo .. L : f[i] = IF next[i] \in i + 1 .. L THEN G[<<i, f[next[i]]>>] ELSE base[i]

(* A function may be defined at a place from what it is behind it, up to   *)
(* the end.                                                                *)
LEMMA DownExists ==
  ASSUME NEW A, NEW lo \in Nat, NEW L \in Nat, NEW next, NEW base \in [lo .. L -> A],
         NEW G \in [(lo .. L) \X A -> A]
  PROVE  \E f : DownOf(f, A, lo, L, next, base, G)
<1> DEFINE S == {k \in Nat : k <= L + 1 - lo => \E f : DownOf(f, A, L + 1 - k, L, next, base, G)}
<1>1. 0 \in S
  <2> DEFINE f == [i \in L + 1 .. L |-> base[i]]
  <2>1. L + 1 .. L = {}
    OBVIOUS
  <2>2. DownOf(f, A, L + 1, L, next, base, G)
    BY <2>1 DEF DownOf
  <2> QED BY <2>2
<1>2. ASSUME NEW k \in Nat, k \in S PROVE k + 1 \in S
  <2> SUFFICES ASSUME k + 1 <= L + 1 - lo PROVE \E f : DownOf(f, A, L + 1 - (k + 1), L, next, base, G)
    OBVIOUS
  <2>1. PICK g : DownOf(g, A, L + 1 - k, L, next, base, G)
    BY <1>2
  <2> DEFINE m == L - k
             at == IF next[m] \in m + 1 .. L THEN G[<<m, g[next[m]]>>] ELSE base[m]
             f == [i \in m .. L |-> IF i = m THEN at ELSE g[i]]
  <2>2. m \in lo .. L /\ m + 1 = L + 1 - k /\ m = L + 1 - (k + 1)
    OBVIOUS
  <2>3. at \in A
    BY <2>1, <2>2 DEF DownOf
  <2>4. ASSUME NEW i \in m .. L
        PROVE  f[i] \in A /\ f[i] = IF next[i] \in i + 1 .. L THEN G[<<i, f[next[i]]>>] ELSE base[i]
    <3>1. \A j \in m + 1 .. L : f[j] = g[j] /\ j # m
      BY <2>2
    <3>2. CASE i = m
      <4>1. f[i] = at
        BY <3>2
      <4> HIDE DEF f
      <4> QED BY <2>3, <3>1, <3>2, <4>1
    <3>3. CASE i # m
      <4>1. f[i] = g[i] /\ i \in m + 1 .. L /\ \A j \in i + 1 .. L : j \in m + 1 .. L
        BY <2>2, <3>3
      <4>2. g[i] \in A /\ g[i] = IF next[i] \in i + 1 .. L THEN G[<<i, g[next[i]]>>] ELSE base[i]
        BY <2>1, <2>2, <4>1 DEF DownOf
      <4> HIDE DEF f
      <4> QED BY <3>1, <4>1, <4>2
    <3> QED BY <3>2, <3>3
  <2>5. f \in [m .. L -> A]
    <3>1. f = [i \in m .. L |-> f[i]]
      OBVIOUS
    <3> HIDE DEF f
    <3> QED BY <2>4, <3>1
  <2> HIDE DEF f
  <2>6. DownOf(f, A, m, L, next, base, G)
    BY <2>4, <2>5 DEF DownOf
  <2> QED BY <2>2, <2>6
<1>3. CASE lo <= L + 1
  <2>1. L + 1 - lo \in Nat /\ L + 1 - (L + 1 - lo) = lo
    BY <1>3
  <2> HIDE DEF S
  <2>2. L + 1 - lo \in S
    BY <1>1, <1>2, <2>1, Induction
  <2> QED BY <2>1, <2>2 DEF S
<1>4. CASE lo > L + 1
  <2>1. lo .. L = {}
    BY <1>4
  <2> QED BY <2>1 DEF DownOf
<1> QED BY <1>3, <1>4
-----------------------------------------------------------------------------
(* What a calculation was started on, and what it gives.                   *)
Has(t, inputs, r) == task = t => input \in inputs /\ (done => result = r)
Computed ==
  /\ done \in BOOLEAN
  /\ Has("cards", CardRuns, Cards(input))
  /\ Has("ibans", IbanRuns, Ibans(input))
  /\ Has("entities", WordRuns, Entities(input.words, input.joiners, input.wanted, input.least))
  /\ Has("redact", CandidateSets,
         [spans |-> Merge(input.spans), text |-> Masked(input.length, Merge(input.spans))])
  /\ Has("chunk", Texts, ChunkText(input.text, input.chars, input.overlap))
  /\ Has("batch", Sizes, Batches(input.sizes, input.most, input.bytes))
  /\ Has("snippet", Shown, Snippet(input.n, input.match, input.most, None))
  /\ Has("submit", Requests, [tool   |-> ToolSubmits(input.query, input.texts, input.topK),
                               client |-> ClientSubmits(input.query, input.texts, input.topK)])
  /\ Has("keep", Requests, KeptCandidates(input.query, input.texts))
  /\ Has("progress", Loads, Reports(input.total, input.batch))
  /\ Has("rank", Scores, Rankings(input.scores, input.topK))
  /\ Has("embed", Vectors, HashingVector(input.words, input.whole, input.buckets))
  /\ Has("answer", Answers, Answer(input.status, input.progress))

(* A result is what the calculation gives for an input of its kind.        *)
LEMMA Computes == Spec => []Computed
<1>1. Init => Computed
  BY DEF Init, Computed, Has
<1>2. Computed /\ [Next]_vars => Computed'
  <2> SUFFICES ASSUME Computed, [Next]_vars PROVE Computed'
    OBVIOUS
  <2>1. CASE UNCHANGED vars
    BY <2>1 DEF vars, Computed, Has
  <2>2. CASE FindCards
    BY <2>2 DEF FindCards, Runs, Computed, Has
  <2>3. CASE FindIbans
    BY <2>3 DEF FindIbans, Runs, Computed, Has
  <2>4. CASE FindEntities
    BY <2>4 DEF FindEntities, Runs, Computed, Has
  <2>5. CASE Redact
    BY <2>5 DEF Redact, Runs, Computed, Has
  <2>6. CASE CutText
    BY <2>6 DEF CutText, Runs, Computed, Has
  <2>7. CASE CutBatches
    BY <2>7 DEF CutBatches, Runs, Computed, Has
  <2>8. CASE ShowSnippet
    BY <2>8 DEF ShowSnippet, Runs, Computed, Has
  <2>9. CASE Submit
    BY <2>9 DEF Submit, Runs, Computed, Has
  <2>10. CASE Keep
    BY <2>10 DEF Keep, Runs, Computed, Has
  <2>11. CASE Report
    BY <2>11 DEF Report, Runs, Computed, Has
  <2>12. CASE Rank
    BY <2>12 DEF Rank, Runs, Computed, Has
  <2>13. CASE Embed
    BY <2>13 DEF Embed, Runs, Computed, Has
  <2>14. CASE AnswerJob
    BY <2>14 DEF AnswerJob, Runs, Computed, Has
  <2> QED BY <2>1, <2>2, <2>3, <2>4, <2>5, <2>6, <2>7, <2>8, <2>9, <2>10, <2>11, <2>12, <2>13, <2>14 DEF Next
<1> QED BY <1>1, <1>2, PTL DEF Spec
-----------------------------------------------------------------------------
(* A start that is cut to the two ends of what may be shown.               *)
LEMMA Clamped ==
  ASSUME NEW c \in Int, NEW d \in Int, NEW e \in Int, NEW f,
         f = IF c <= 0 THEN 0 ELSE c, (c = d /\ c <= e) \/ (c = e /\ c <= d)
  PROVE  /\ f \in Nat
         /\ (f = 0 /\ (d <= 0 \/ e <= 0)) \/ (f = d /\ f <= e) \/ (f = e /\ f <= d)
OBVIOUS

(* A snippet fits, and shows the word that matched.                        *)
LEMMA SnippetsShow == ASSUME Computed PROVE MatchShows
<1> SUFFICES ASSUME Of("snippet") PROVE
      /\ result.size <= input.most \/ result.size = input.n
      /\ input.match # None => input.match \in result.start .. result.end - 1
  BY DEF MatchShows
<1> DEFINE n     == input.n
           match == input.match
           most  == input.most
           d     == match - most \div 3
           e     == n - most + 1
           S     == {d, e}
           start == IF match = None THEN 0 ELSE Greatest({0, Least(S)})
<1>1. result = Snippet(n, match, most, None) /\ input \in Shown
  BY DEF Computed, Has, Of
<1>2. most \in Nat /\ most >= 4 /\ n \in Nat /\ (match # None => match \in 0 .. n - 1)
  BY <1>1, InputAssumption
<1>3. CASE n <= most
  BY <1>1, <1>2, <1>3 DEF Snippet
<1>4. CASE n > most
  <2>1. ASSUME match # None
        PROVE  start \in Nat /\ ((start = 0 /\ (d <= 0 \/ e <= 0)) \/ (start = d /\ start <= e) \/ (start = e /\ start <= d))
    <3>1. match - most \div 3 \in Int /\ n - most + 1 \in Int
      BY <1>2, <2>1
    <3>2. Least(S) \in S /\ \A y \in S : Least(S) <= y
      <4>1. \E x \in S : \A y \in S : x <= y
        <5>1. CASE match - most \div 3 <= n - most + 1
          BY <3>1, <5>1
        <5>2. CASE n - most + 1 <= match - most \div 3
          BY <3>1, <5>2
        <5> QED BY <3>1, <5>1, <5>2
      <4> HIDE DEF S
      <4> QED BY <4>1 DEF Least
    <3>3. Greatest({0, Least(S)}) = IF Least(S) <= 0 THEN 0 ELSE Least(S)
      BY <3>1, <3>2 DEF Greatest
    <3>4. start = Greatest({0, Least(S)}) /\ Least(S) \in Int
      BY <2>1, <3>1, <3>2
    <3>5. \/ Least(S) = match - most \div 3 /\ Least(S) <= n - most + 1
          \/ Least(S) = n - most + 1 /\ Least(S) <= match - most \div 3
      BY <3>2
    <3> DEFINE c == Least(S)
    <3>6. c \in Int /\ d \in Int /\ e \in Int /\ start = (IF c <= 0 THEN 0 ELSE c)
          /\ ((c = d /\ c <= e) \/ (c = e /\ c <= d))
      BY <3>1, <3>3, <3>4, <3>5
    <3>7. start \in Nat /\ ((start = 0 /\ (d <= 0 \/ e <= 0)) \/ (start = d /\ start <= e) \/ (start = e /\ start <= d))
      <4> HIDE DEF start, c, d, e
      <4> QED BY <3>6, Clamped
    <3> HIDE DEF start, d, e
    <3> QED BY <3>7
  <2> DEFINE prefix == IF start > 0 THEN 1 ELSE 0
             window == most - prefix
  <2>2. result = IF start + window >= n THEN [start |-> start, end |-> n, size |-> prefix + n - start]
                 ELSE [start |-> start, end |-> start + window - 1, size |-> prefix + window]
    BY <1>1, <1>2, <1>4 DEF Snippet
  <2>3. start \in Nat
    BY <2>1
  <2> HIDE DEF start
  <2>4. CASE match = None
    <3>1. start = 0
      BY <2>4 DEF start
    <3> QED BY <1>2, <1>4, <2>2, <2>4, <3>1
  <2>5. CASE match # None
    BY <1>2, <1>4, <2>1, <2>2, <2>3, <2>5
  <2> QED BY <2>4, <2>5
<1> QED BY <1>2, <1>3, <1>4

-----------------------------------------------------------------------------
(* Where each element is at most another's, so is the total.               *)
LEMMA TotalAtMost ==
  ASSUME NEW a \in Seq(Int), NEW b \in Seq(Int), Len(a) = Len(b), \A i \in 1 .. Len(a) : a[i] <= b[i]
  PROVE  Total(a) <= Total(b) /\ Total(a) \in Int /\ Total(b) \in Int
<1> DEFINE N == Len(a)
<1>1. N \in Nat /\ (\A i \in 1 .. N : a[i] \in Int) /\ (\A i \in 1 .. N : b[i] \in Int)
  OBVIOUS
<1>2. PICK x \in [0 .. N -> Int] : x[0] = 0 /\ Total(a) = x[N] /\ \A n \in 1 .. N : x[n] = x[n - 1] + a[n]
  BY TotalSteps
<1>3. PICK y \in [0 .. N -> Int] : y[0] = 0 /\ Total(b) = y[N] /\ \A n \in 1 .. N : y[n] = y[n - 1] + b[n]
  BY TotalSteps
<1> DEFINE S == {n \in Nat : n <= N => x[n] <= y[n]}
<1>4. 0 \in S
  BY <1>2, <1>3
<1>5. ASSUME NEW n \in Nat, n \in S PROVE n + 1 \in S
  <2> SUFFICES ASSUME n + 1 <= N PROVE x[n + 1] <= y[n + 1]
    OBVIOUS
  <2>1. n \in 0 .. N /\ n + 1 \in 1 .. N /\ (n + 1) - 1 = n
    BY <1>1
  <2>2. x[n + 1] = x[n] + a[n + 1] /\ y[n + 1] = y[n] + b[n + 1] /\ x[n] <= y[n]
    BY <1>1, <1>2, <1>3, <1>5, <2>1
  <2>3. x[n] \in Int /\ y[n] \in Int /\ a[n + 1] \in Int /\ b[n + 1] \in Int /\ a[n + 1] <= b[n + 1]
    BY <1>1, <2>1
  <2> QED BY <2>2, <2>3
<1> HIDE DEF S
<1>6. N \in S
  BY <1>1, <1>4, <1>5, Induction
<1> QED BY <1>1, <1>2, <1>3, <1>6 DEF S

(* The total of one element.                                               *)
LEMMA TotalOfOne == ASSUME NEW seq \in Seq(Int), Len(seq) = 1 PROVE Total(seq) = seq[1]
<1>1. PICK x \in [0 .. 1 -> Int] : x[0] = 0 /\ Total(seq) = x[1] /\ \A n \in 1 .. 1 : x[n] = x[n - 1] + seq[n]
  BY TotalSteps
<1>2. seq[1] \in Int /\ 1 \in 1 .. 1 /\ 1 - 1 = 0
  OBVIOUS
<1>3. x[1] = x[0] + seq[1]
  BY <1>1, <1>2
<1> QED BY <1>1, <1>2, <1>3

(* The characters and bytes of texts.                                      *)
Text == [chars : Nat, bytes : Nat, blank : BOOLEAN]
(* Characters and bytes of a list of texts.                                *)
LEMMA Counted ==
  ASSUME NEW texts \in Seq(Text)
  PROVE  /\ CharsOf(texts) \in Int /\ BytesOf(texts) \in Int
         /\ (\A i \in 1 .. Len(texts) : texts[i].chars <= texts[i].bytes) => CharsOf(texts) <= BytesOf(texts)
         /\ Len(texts) = 1 => CharsOf(texts) = texts[1].chars /\ BytesOf(texts) = texts[1].bytes
<1> DEFINE c == [i \in DOMAIN texts |-> texts[i].chars]
           b == [i \in DOMAIN texts |-> texts[i].bytes]
<1>1. DOMAIN texts = 1 .. Len(texts) /\ Len(texts) \in Nat /\ \A i \in 1 .. Len(texts) : texts[i] \in Text
  OBVIOUS
<1>2. c \in Seq(Int) /\ b \in Seq(Int) /\ Len(c) = Len(texts) /\ Len(b) = Len(texts)
  BY <1>1 DEF Text
<1>3. \A i \in 1 .. Len(texts) : c[i] = texts[i].chars /\ b[i] = texts[i].bytes
  BY <1>1
<1>4. CharsOf(texts) = Total(c) /\ BytesOf(texts) = Total(b)
  BY DEF CharsOf, BytesOf
<1> HIDE DEF c, b
<1>5. Total(c) \in Int /\ Total(b) \in Int
  <2>1. (\A i \in 1 .. Len(c) : c[i] <= c[i]) /\ \A i \in 1 .. Len(b) : b[i] <= b[i]
    BY <1>1, <1>2
  <2>2. Total(c) \in Int
    BY <1>2, <2>1, TotalAtMost
  <2>3. Total(b) \in Int
    BY <1>2, <2>1, TotalAtMost
  <2> QED BY <2>2, <2>3
<1>6. ASSUME \A i \in 1 .. Len(texts) : texts[i].chars <= texts[i].bytes PROVE Total(c) <= Total(b)
  <2>1. Len(c) = Len(b) /\ \A i \in 1 .. Len(c) : c[i] <= b[i]
    BY <1>2, <1>3, <1>6
  <2> QED BY <1>2, <2>1, TotalAtMost
<1>7. ASSUME Len(texts) = 1 PROVE Total(c) = texts[1].chars /\ Total(b) = texts[1].bytes
  <2>1. Total(c) = c[1] /\ Total(b) = b[1]
    BY <1>2, <1>7, TotalOfOne
  <2> QED BY <1>3, <1>7, <2>1
<1> QED BY <1>4, <1>5, <1>6, <1>7

(* What a client submits, the worker accepts.                              *)
LEMMA SubmitsAccepted == ASSUME Computed PROVE SubmitsFit
<1> SUFFICES ASSUME Of("submit") PROVE SubmitsFit
  BY DEF SubmitsFit
<1> DEFINE q     == input.query
           texts == input.texts
           k     == input.topK
<1>1. result = [tool |-> ToolSubmits(q, texts, k), client |-> ClientSubmits(q, texts, k)] /\ input \in Requests
  BY DEF Computed, Has, Of
<1>2. texts \in Seq(Text) /\ k \in Nat /\ \A t \in {q} \cup Range(texts) : t \in Text /\ t.chars <= t.bytes
  BY <1>1, InputAssumption DEF Text
<1>3. q \in Text /\ q.chars <= q.bytes /\ q.chars \in Nat /\ q.bytes \in Nat
      /\ Len(texts) \in Nat /\ DOMAIN texts = 1 .. Len(texts)
  BY <1>2 DEF Text
<1>4. \A i \in 1 .. Len(texts) : texts[i] \in Range(texts) /\ texts[i].chars <= texts[i].bytes
  BY <1>2, <1>3 DEF Range
<1>5. CharsOf(texts) \in Int /\ BytesOf(texts) \in Int /\ CharsOf(texts) <= BytesOf(texts)
  BY <1>2, <1>4, Counted
<1>6. MaxTotal \in Nat /\ MaxTexts \in Nat
  BY InputAssumption
<1> HIDE DEF q, texts, k
<1>7. ToolSubmits(q, texts, k) => Valid(q, texts, Asked(k, texts))
  BY <1>2, <1>3, <1>6 DEF ToolSubmits, Valid, TextValid, Asked
<1>8. ClientSubmits(q, texts, k) /\ (\A t \in {q} \cup Range(texts) : t.chars <= MaxField) => Valid(q, texts, k)
  <2> SUFFICES ASSUME ClientSubmits(q, texts, k), \A t \in {q} \cup Range(texts) : t.chars <= MaxField
               PROVE  Valid(q, texts, k)
    OBVIOUS
  <2>1. q.chars + CharsOf(texts) <= MaxTotal
    BY <1>3, <1>5, <1>6 DEF ClientSubmits
  <2>2. TextValid(q) /\ \A i \in DOMAIN texts : TextValid(texts[i])
    BY <1>3, <1>4 DEF ClientSubmits, TextValid
  <2> QED BY <2>1, <2>2 DEF ClientSubmits, Valid
<1> QED BY <1>1, <1>7, <1>8 DEF SubmitsFit, q, texts, k

(* A text of half a request's bytes leaves room for another.               *)
LEMMA Halves ==
  ASSUME NEW a \in Nat, NEW b \in Nat, NEW m \in Nat, NEW n \in Nat
  PROVE  /\ a <= m /\ b <= m /\ 2 * m <= n => a + b <= n
         /\ 2 * a < n /\ 2 * b < n => a + b + 1 <= n
OBVIOUS

(* The candidates kept fit into a request, with the query.                 *)
LEMMA KeptAccepted == ASSUME Computed PROVE KeptFit
<1> SUFFICES ASSUME Of("keep"), input.topK >= 1, TextValid(input.query), input.texts # <<>>,
                    \A t \in Range(input.texts) : TextValid(t)
             PROVE  /\ Len(result) <= MaxTexts => Valid(input.query, result, Asked(input.topK, result))
                    /\ input.query.bytes + BytesOf(result) + Len(result) <= RequestBytes
  BY DEF KeptFit
<1> DEFINE q     == input.query
           texts == input.texts
           k     == input.topK
           fits(n) == /\ q.chars + CharsOf(SubSeq(texts, 1, n)) <= MaxTotal
                      /\ q.bytes + BytesOf(SubSeq(texts, 1, n)) + n <= RequestBytes
           kept == CHOOSE n \in 0 .. Len(texts) : fits(n) /\ \A j \in n + 1 .. Len(texts) : ~fits(j)
<1>1. result = KeptCandidates(q, texts) /\ input \in Requests
  BY DEF Computed, Has, Of
<1>2. texts \in Seq(Text) /\ k \in Nat
      /\ \A t \in {q} \cup Range(texts) : t \in Text /\ (t.chars <= MaxField => 2 * t.bytes < RequestBytes)
  BY <1>1, InputAssumption DEF Text
<1>3. result = SubSeq(texts, 1, kept)
  BY <1>1 DEF KeptCandidates
<1>4. MaxTotal \in Nat /\ MaxTexts \in Nat /\ MaxField \in Nat /\ RequestBytes \in Nat /\ 2 * MaxField <= MaxTotal
  BY InputAssumption
<1>5. Len(texts) \in Nat /\ Len(texts) >= 1 /\ DOMAIN texts = 1 .. Len(texts)
  BY <1>2
<1>6. \A i \in 1 .. Len(texts) : texts[i] \in Text /\ TextValid(texts[i]) /\ 2 * texts[i].bytes < RequestBytes
  <2> SUFFICES ASSUME NEW i \in 1 .. Len(texts)
               PROVE  texts[i] \in Text /\ TextValid(texts[i]) /\ 2 * texts[i].bytes < RequestBytes
    OBVIOUS
  <2>1. texts[i] \in Range(texts)
    BY <1>5 DEF Range
  <2> QED BY <1>2, <2>1 DEF TextValid
<1>7. ASSUME NEW n \in 1 .. Len(texts)
      PROVE  /\ SubSeq(texts, 1, n) \in Seq(Text) /\ Len(SubSeq(texts, 1, n)) = n
             /\ \A i \in 1 .. n : SubSeq(texts, 1, n)[i] = texts[i]
  <2>1. n \in Int /\ \A i \in 1 .. n : texts[i] \in Text
    BY <1>5, <1>6
  <2> QED BY <1>5, <2>1, SubSeqProperties
<1>8. q \in Text /\ q.chars \in Nat /\ q.bytes \in Nat /\ q.chars <= MaxField /\ 2 * q.bytes < RequestBytes
  BY <1>2 DEF Text, TextValid
<1>9. fits(1)
  <2> DEFINE s == SubSeq(texts, 1, 1)
  <2>1. s \in Seq(Text) /\ Len(s) = 1 /\ s[1] = texts[1]
    BY <1>5, <1>7
  <2>2. CharsOf(s) = texts[1].chars /\ BytesOf(s) = texts[1].bytes
    BY <2>1, Counted
  <2>3. texts[1] \in Text /\ texts[1].chars <= MaxField /\ 2 * texts[1].bytes < RequestBytes
    BY <1>5, <1>6 DEF TextValid
  <2>4. texts[1].chars \in Nat /\ texts[1].bytes \in Nat
    BY <2>3 DEF Text
  <2> HIDE DEF s
  <2>5. q.chars + CharsOf(s) <= MaxTotal
    <3>1. q.chars \in Nat /\ q.chars <= MaxField /\ texts[1].chars <= MaxField
      BY <1>8, <2>3
    <3> HIDE DEF q
    <3> QED BY <1>4, <2>2, <2>4, <3>1, Halves
  <2>6. q.bytes + BytesOf(s) + 1 <= RequestBytes
    <3>1. q.bytes \in Nat /\ 2 * q.bytes < RequestBytes /\ 2 * texts[1].bytes < RequestBytes
      BY <1>8, <2>3
    <3> HIDE DEF q
    <3> QED BY <1>4, <2>2, <2>4, <3>1, Halves
  <2> QED BY <2>5, <2>6 DEF s
<1> HIDE DEF q, texts, k, fits
<1>10. kept \in 1 .. Len(texts) /\ fits(kept)
  <2> DEFINE good == {n \in 1 .. Len(texts) : fits(n)}
             most == Max(good)
  <2>1. good \subseteq 1 .. Len(texts) /\ good # {}
    BY <1>5, <1>9
  <2>2. most \in good /\ \A m \in good : m <= most
    <3> HIDE DEF good
    <3> QED BY <1>5, <2>1, MaxOf
  <2>3. most \in 0 .. Len(texts) /\ most >= 1 /\ fits(most) /\ \A j \in most + 1 .. Len(texts) : ~fits(j)
    <3>1. most \in 1 .. Len(texts) /\ fits(most)
      BY <2>2
    <3> HIDE DEF most
    <3>2. ASSUME NEW j \in most + 1 .. Len(texts), fits(j) PROVE FALSE
      <4>1. j \in good /\ j > most
        BY <1>5, <3>1, <3>2
      <4> QED BY <1>5, <2>2, <3>1, <4>1
    <3> QED BY <1>5, <3>1, <3>2
  <2>4. kept \in 0 .. Len(texts) /\ fits(kept) /\ \A j \in kept + 1 .. Len(texts) : ~fits(j)
    <3> HIDE DEF most
    <3> QED BY <2>3
  <2>5. kept # 0
    <3> SUFFICES ASSUME kept = 0 PROVE FALSE
      OBVIOUS
    <3> HIDE DEF kept
    <3>1. 1 \in kept + 1 .. Len(texts)
      BY <1>5
    <3> QED BY <1>9, <2>4, <3>1
  <2> HIDE DEF kept
  <2> QED BY <1>5, <2>4, <2>5
<1> HIDE DEF kept
<1>11. result \in Seq(Text) /\ Len(result) = kept /\ \A i \in 1 .. kept : result[i] = texts[i]
  BY <1>3, <1>7, <1>10
<1>12. q.chars + CharsOf(result) <= MaxTotal /\ q.bytes + BytesOf(result) + Len(result) <= RequestBytes
  BY <1>3, <1>10, <1>11 DEF fits
<1>13. \A i \in DOMAIN result : TextValid(result[i])
  BY <1>5, <1>6, <1>10, <1>11
<1>14. Len(result) <= MaxTexts => Valid(q, result, Asked(k, result))
  <2>1. k \in Nat /\ k >= 1 /\ Len(result) \in Nat /\ Len(result) >= 1
    BY <1>2, <1>5, <1>10, <1>11 DEF k
  <2>2. TextValid(q)
    BY DEF q
  <2> QED BY <1>4, <1>12, <1>13, <2>1, <2>2 DEF Valid, Asked
<1> QED BY <1>12, <1>14 DEF q, k

(* A vector is not zero: the whole text as one word is not.                *)
LEMMA VectorsAccepted == ASSUME Computed PROVE VectorsFit
<1> SUFFICES ASSUME Of("embed") PROVE ~Zero(result)
  BY DEF VectorsFit
<1> DEFINE w == input.whole
           B == input.buckets
           v == SignedCounts(<<w>>, B)
<1>1. result = HashingVector(input.words, w, B) /\ input \in Vectors
  BY DEF Computed, Has, Of
<1>2. w \in B \X {1, -1}
  BY <1>1, InputAssumption
<1>3. v[w[1]] # 0 /\ w[1] \in DOMAIN v
  <2> DEFINE seq == [i \in DOMAIN <<w>> |-> IF <<w>>[i][1] = w[1] THEN <<w>>[i][2] ELSE 0]
  <2>1. w[1] \in B /\ w[2] \in {1, -1}
    BY <1>2
  <2>2. seq \in Seq(Int) /\ Len(seq) = 1 /\ seq[1] = w[2]
    BY <2>1
  <2>3. v[w[1]] = Total(seq)
    BY <2>1 DEF SignedCounts
  <2> HIDE DEF seq
  <2> QED BY <2>1, <2>2, <2>3, TotalOfOne DEF SignedCounts
<1>4. ~Zero(v)
  BY <1>3 DEF Zero
<1> HIDE DEF v
<1>5. result = v \/ ~Zero(result)
  BY <1>1 DEF HashingVector, v
<1> QED BY <1>4, <1>5
-----------------------------------------------------------------------------
(* The range that BestRange names is one of those it chooses from.         *)
LEMMA BestIsOne ==
  ASSUME NEW groups, NEW S \in SUBSET CardRanges(groups), S # {}, DOMAIN groups = 1 .. Len(groups), Len(groups) \in Nat
  PROVE  BestRange(groups, S) \in S
<1> DEFINE size(x) == Len(DigitsOf(groups, x))
           short(r) == MaxDigits - size(r)
           T == {short(r) : r \in S}
<1>1. \A r \in S : size(r) \in MinDigits .. MaxDigits /\ r[1] \in Nat
  BY DEF CardRanges
<1>2. MaxDigits \in Nat /\ MinDigits \in Nat
  BY InputAssumption
<1>3. \A r \in S : size(r) \in Nat /\ short(r) \in Nat
  BY <1>1, <1>2
<1>4. PICK t \in T : \A u \in T : t <= u
  <2>1. T \subseteq Nat /\ T # {}
    <3> HIDE DEF short
    <3> QED BY <1>3
  <2> HIDE DEF T
  <2> QED BY <2>1, LeastNumber
<1>5. PICK a \in S : \A q \in S : size(q) <= size(a)
  <2>1. PICK a \in S : t = short(a)
    BY <1>4
  <2>2. ASSUME NEW q \in S PROVE size(q) <= size(a)
    <3>1. short(q) \in T
      OBVIOUS
    <3>2. short(a) <= short(q)
      BY <1>4, <2>1, <3>1
    <3>3. size(a) \in Nat /\ size(q) \in Nat /\ MaxDigits - size(a) <= MaxDigits - size(q)
      BY <1>3, <3>2
    <3> HIDE DEF size
    <3> QED BY <1>2, <3>3
  <2> QED BY <2>2
<1> DEFINE U == {r[1] : r \in {r \in S : size(r) = size(a)}}
<1>6. PICK u \in U : \A v \in U : u <= v
  <2>1. U \subseteq Nat /\ U # {}
    <3> HIDE DEF size
    <3> QED BY <1>1
  <2> HIDE DEF U
  <2> QED BY <2>1, LeastNumber
<1>7. PICK r \in S : size(r) = size(a) /\ u = r[1]
  BY <1>6
<1>8. ASSUME NEW q \in S PROVE size(q) < size(r) \/ (size(q) = size(r) /\ r[1] <= q[1])
  <2>1. CASE size(q) = size(a)
    <3>1. q[1] \in U
      BY <2>1
    <3> QED BY <1>6, <1>7, <2>1, <3>1
  <2>2. CASE size(q) # size(a)
    <3>1. size(q) \in Nat /\ size(a) \in Nat /\ size(q) <= size(a)
      BY <1>3, <1>5
    <3> HIDE DEF size
    <3> QED BY <1>7, <2>2, <3>1
  <2> QED BY <2>1, <2>2
<1> HIDE DEF size
<1>9. \E x \in S : \A q \in S : size(q) < size(x) \/ (size(q) = size(x) /\ x[1] <= q[1])
  BY <1>8
<1> QED BY <1>9 DEF BestRange, size

(* The next card is looked for behind the last one.                        *)
LEMMA CardsStayApart == ASSUME Computed PROVE CardsApart
<1> SUFFICES ASSUME Of("cards") PROVE \A r, q \in result : r = q \/ r[2] < q[1] \/ q[2] < r[1]
  BY DEF CardsApart
<1> DEFINE groups == input
           n == Len(groups)
           P == (1 .. n) \X (1 .. n)
           S(c) == {r \in CardRanges(groups) : r[1] >= c}
           best(c) == BestRange(groups, S(c))
           Is(f) == f = [c \in 1 .. n + 1 |-> IF S(c) = {} THEN {} ELSE {best(c)} \cup f[best(c)[2] + 1]]
           from == CHOOSE f : Is(f)
<1>1. result = Cards(groups) /\ input \in CardRuns
  BY DEF Computed, Has, Of
<1>2. groups \in Seq(Seq(0 .. 9))
  BY <1>1, InputAssumption
<1>3. n \in Nat /\ DOMAIN groups = 1 .. n
  BY <1>2
<1>4. result = from[1]
  BY <1>1 DEF Cards
<1>5. ASSUME NEW c \in 1 .. n + 1, S(c) # {}
      PROVE  best(c) \in P /\ best(c)[1] >= c /\ best(c)[2] >= best(c)[1] /\ best(c)[2] + 1 \in c + 1 .. n + 1
  <2>1. best(c) \in S(c)
    <3>1. S(c) \in SUBSET CardRanges(groups)
      OBVIOUS
    <3> HIDE DEF S, groups
    <3> QED BY <1>3, <1>5, <3>1, BestIsOne
  <2>2. best(c) \in P /\ best(c)[1] >= c /\ best(c)[1] <= best(c)[2]
    <3> HIDE DEF best
    <3> QED BY <1>3, <2>1 DEF CardRanges
  <2> HIDE DEF best, groups
  <2> QED BY <1>3, <2>2
<1> HIDE DEF S, best, groups
<1>6. Is(from)
  <2> DEFINE A == SUBSET P
             next == [c \in 1 .. n + 1 |-> IF S(c) = {} THEN c ELSE best(c)[2] + 1]
             base == [c \in 1 .. n + 1 |-> {}]
             G == [p \in (1 .. n + 1) \X A |-> IF S(p[1]) = {} THEN {} ELSE {best(p[1])} \cup p[2]]
  <2>1. base \in [1 .. n + 1 -> A]
    OBVIOUS
  <2>2. G \in [(1 .. n + 1) \X A -> A]
    <3>1. ASSUME NEW p \in (1 .. n + 1) \X A PROVE (IF S(p[1]) = {} THEN {} ELSE {best(p[1])} \cup p[2]) \in A
      BY <1>5
    <3> QED BY <3>1
  <2>3. PICK f : DownOf(f, A, 1, n + 1, next, base, G)
    <3>1. 1 \in Nat /\ n + 1 \in Nat
      BY <1>3
    <3> HIDE DEF A, next, base, G
    <3> QED BY <2>1, <2>2, <3>1, DownExists
  <2>4. ASSUME NEW c \in 1 .. n + 1 PROVE f[c] = IF S(c) = {} THEN {} ELSE {best(c)} \cup f[best(c)[2] + 1]
    <3>1. f[c] = IF next[c] \in c + 1 .. n + 1 THEN G[<<c, f[next[c]]>>] ELSE base[c]
      BY <2>3 DEF DownOf
    <3>2. CASE S(c) = {}
      <4>1. next[c] = c /\ c \notin c + 1 .. n + 1 /\ base[c] = {}
        BY <1>3, <3>2
      <4> QED BY <3>1, <3>2, <4>1
    <3>3. CASE S(c) # {}
      <4>1. next[c] = best(c)[2] + 1 /\ next[c] \in c + 1 .. n + 1 /\ next[c] \in 1 .. n + 1
        BY <1>3, <1>5, <3>3
      <4>2. f[next[c]] \in A
        BY <2>3, <4>1 DEF DownOf
      <4>3. G[<<c, f[next[c]]>>] = {best(c)} \cup f[next[c]]
        BY <3>3, <4>2
      <4> QED BY <3>1, <3>3, <4>1, <4>3
    <3> QED BY <3>2, <3>3
  <2>5. f = [c \in 1 .. n + 1 |-> f[c]]
    BY <2>3 DEF DownOf
  <2>6. Is(f)
    BY <2>4, <2>5
  <2> QED BY <2>6
<1>7. ASSUME NEW c \in 1 .. n + 1
      PROVE  from[c] = IF S(c) = {} THEN {} ELSE {best(c)} \cup from[best(c)[2] + 1]
  <2> HIDE DEF from
  <2> QED BY <1>6
<1> DEFINE apart(r, q) == r = q \/ r[2] < q[1] \/ q[2] < r[1]
           T == {c \in 1 .. n + 1 :
                   /\ \A r \in from[c] : r \in P /\ r[1] >= c
                   /\ \A r, q \in from[c] : apart(r, q)}
<1> HIDE DEF from
<1>8. ASSUME NEW c \in 1 .. n + 1, \A d \in c + 1 .. n + 1 : d \in T PROVE c \in T
  <2>1. CASE S(c) = {}
    BY <1>7, <2>1
  <2>2. CASE S(c) # {}
    <3> DEFINE b == best(c)
               d == b[2] + 1
    <3>1. b \in P /\ b[1] >= c /\ b[2] >= b[1] /\ d \in c + 1 .. n + 1
      BY <1>5, <2>2
    <3>2. from[c] = {b} \cup from[d]
      BY <1>7, <2>2
    <3>3. d \in T
      BY <1>8, <3>1
    <3>4. \A r \in from[d] : r \in P /\ r[1] >= d
      BY <3>3
    <3>5. \A r, q \in from[d] : apart(r, q)
      BY <3>3
    <3>6. \A r \in from[d] : apart(b, r) /\ apart(r, b) /\ r[1] >= c
      BY <1>3, <3>1, <3>4
    <3> HIDE DEF b, d, apart
    <3>7. \A r \in from[c] : r \in P /\ r[1] >= c
      BY <3>1, <3>2, <3>4, <3>6
    <3>8. apart(b, b)
      BY DEF apart
    <3>9. \A r, q \in from[c] : apart(r, q)
      BY <3>2, <3>5, <3>6, <3>8
    <3> QED BY <3>7, <3>9
  <2> QED BY <2>1, <2>2
<1>9. 1 \in T
  <2>1. 1 \in Nat /\ n + 1 \in Nat /\ 1 \in 1 .. n + 1
    BY <1>3
  <2> HIDE DEF T
  <2>2. \A c \in 1 .. n + 1 : c \in T
    BY <1>8, <2>1, DownTo
  <2> QED BY <2>1, <2>2
<1> QED BY <1>4, <1>9
-----------------------------------------------------------------------------
(* An IBAN is one whose checksum holds, and the first of a run is found.   *)
LEMMA IbansStay == ASSUME Computed PROVE IbansHold
<1> SUFFICES ASSUME Of("ibans") PROVE
      /\ result \subseteq input.valid
      /\ (\E j \in Taken(input, 1) : <<1, j>> \in input.valid) => \E r \in result : r[1] = 1
  BY DEF IbansHold
<1> DEFINE run == input
           n == Len(run.sizes)
           P == (1 .. n) \X (1 .. n)
           taken(i) == Taken(run, i)
           longest(S) == CHOOSE j \in S : \A k \in S : k <= j
           good(i) == {j \in taken(i) : <<i, j>> \in run.valid}
           found(i) == IF good(i) = {} THEN {} ELSE {<<i, longest(good(i))>>}
           Is(f) == f = [i \in 1 .. n + 1 |->
                           IF i > n THEN {} ELSE IF taken(i) = {} THEN f[i + 1]
                           ELSE found(i) \cup f[longest(taken(i)) + 1]]
           from == CHOOSE f : Is(f)
<1>1. result = Ibans(run) /\ input \in IbanRuns
  BY DEF Computed, Has, Of
<1>2. n \in Nat
  BY <1>1, InputAssumption
<1>3. result = from[1]
  BY <1>1 DEF Ibans
<1>4. ASSUME NEW i \in 1 .. n PROVE taken(i) \subseteq i .. n /\ good(i) \subseteq taken(i)
  BY DEF Taken
<1>5. ASSUME NEW i \in 1 .. n, NEW S, S \subseteq i .. n, S # {} PROVE longest(S) \in S
  <2>1. S \subseteq 1 .. n
    BY <1>2, <1>5
  <2>2. \E j \in S : \A k \in S : k <= j
    BY <1>2, <1>5, <2>1, MaxOf
  <2> QED BY <2>2
<1> HIDE DEF taken, longest
<1>6. ASSUME NEW i \in 1 .. n, taken(i) # {}
      PROVE  longest(taken(i)) + 1 \in i + 1 .. n + 1
  <2>1. longest(taken(i)) \in i .. n
    BY <1>4, <1>5, <1>6
  <2> QED BY <1>2, <2>1
<1>7. ASSUME NEW i \in 1 .. n PROVE found(i) \subseteq run.valid /\ found(i) \in SUBSET P
  <2>1. CASE good(i) # {}
    <3>1. longest(good(i)) \in good(i)
      <4>1. good(i) \subseteq i .. n
        BY <1>4
      <4> HIDE DEF good
      <4> QED BY <1>5, <2>1, <4>1
    <3>2. longest(good(i)) \in 1 .. n /\ <<i, longest(good(i))>> \in run.valid
      BY <1>2, <1>4, <3>1
    <3> HIDE DEF good
    <3> QED BY <2>1, <3>2
  <2> QED BY <2>1
<1> DEFINE next == [i \in 1 .. n + 1 |-> IF i > n THEN i ELSE IF taken(i) = {} THEN i + 1 ELSE longest(taken(i)) + 1]
<1>8. \A i \in 1 .. n : next[i] \in i + 1 .. n + 1
  <2> HIDE DEF run
  <2> QED BY <1>2, <1>6
<1> HIDE DEF found
<1>9. Is(from)
  <2> DEFINE A == SUBSET P
             base == [i \in 1 .. n + 1 |-> {}]
             G == [p \in (1 .. n + 1) \X A |->
                     IF p[1] > n THEN {} ELSE IF taken(p[1]) = {} THEN p[2] ELSE found(p[1]) \cup p[2]]
  <2>1. base \in [1 .. n + 1 -> A]
    OBVIOUS
  <2>2. G \in [(1 .. n + 1) \X A -> A]
    <3>1. ASSUME NEW p \in (1 .. n + 1) \X A
          PROVE  (IF p[1] > n THEN {} ELSE IF taken(p[1]) = {} THEN p[2] ELSE found(p[1]) \cup p[2]) \in A
      BY <1>2, <1>7
    <3> QED BY <3>1
  <2>3. PICK f : DownOf(f, A, 1, n + 1, next, base, G)
    <3>1. 1 \in Nat /\ n + 1 \in Nat
      BY <1>2
    <3> HIDE DEF A, next, base, G
    <3> QED BY <2>1, <2>2, <3>1, DownExists
  <2>4. ASSUME NEW i \in 1 .. n + 1
        PROVE  f[i] = IF i > n THEN {} ELSE IF taken(i) = {} THEN f[i + 1] ELSE found(i) \cup f[longest(taken(i)) + 1]
    <3>1. f[i] = IF next[i] \in i + 1 .. n + 1 THEN G[<<i, f[next[i]]>>] ELSE base[i]
      BY <2>3 DEF DownOf
    <3>2. CASE i > n
      <4>1. next[i] = i /\ base[i] = {}
        BY <3>2
      <4> HIDE DEF next, base, G
      <4> QED BY <1>2, <3>1, <3>2, <4>1
    <3>3. CASE i <= n
      <4>1. next[i] \in i + 1 .. n + 1 /\ next[i] \in 1 .. n + 1
        <5> HIDE DEF next
        <5> QED BY <1>2, <1>8, <3>3
      <4>2. f[next[i]] \in A
        <5> HIDE DEF next
        <5> QED BY <2>3, <4>1 DEF DownOf
      <4>3. G[<<i, f[next[i]]>>] = IF taken(i) = {} THEN f[next[i]] ELSE found(i) \cup f[next[i]]
        <5>1. \A x \in A : G[<<i, x>>] = IF taken(i) = {} THEN x ELSE found(i) \cup x
          <6> SUFFICES ASSUME NEW x \in A PROVE G[<<i, x>>] = IF taken(i) = {} THEN x ELSE found(i) \cup x
            OBVIOUS
          <6> DEFINE p == <<i, x>>
          <6>1. p \in (1 .. n + 1) \X A /\ p[1] = i /\ p[2] = x
            OBVIOUS
          <6> HIDE DEF p, A
          <6>2. G[p] = IF p[1] > n THEN {} ELSE IF taken(p[1]) = {} THEN p[2] ELSE found(p[1]) \cup p[2]
            BY <6>1
          <6> HIDE DEF G
          <6>3. G[p] = IF taken(i) = {} THEN x ELSE found(i) \cup x
            BY <1>2, <3>3, <6>1, <6>2
          <6> QED BY <6>3 DEF p
        <5> HIDE DEF next, G, A
        <5> QED BY <4>2, <5>1
      <4>4. next[i] = IF taken(i) = {} THEN i + 1 ELSE longest(taken(i)) + 1
        BY <1>2, <3>3
      <4> HIDE DEF next, base, G
      <4> QED BY <1>2, <3>1, <3>3, <4>1, <4>3, <4>4
    <3> QED BY <1>2, <3>2, <3>3
  <2>5. f = [i \in 1 .. n + 1 |-> f[i]]
    BY <2>3 DEF DownOf
  <2>6. Is(f)
    <3> HIDE DEF next
    <3> QED BY <2>4, <2>5
  <2> QED BY <2>6
<1>10. ASSUME NEW i \in 1 .. n + 1
       PROVE  from[i] = IF i > n THEN {} ELSE IF taken(i) = {} THEN from[i + 1]
                        ELSE found(i) \cup from[longest(taken(i)) + 1]
  <2> HIDE DEF from
  <2> QED BY <1>9
<1> HIDE DEF from, Is
<1> DEFINE T == {i \in 1 .. n + 1 : from[i] \subseteq run.valid}
<1>11. ASSUME NEW i \in 1 .. n + 1, \A j \in i + 1 .. n + 1 : j \in T PROVE i \in T
  <2>1. CASE i > n
    BY <1>10, <2>1
  <2>2. CASE i <= n
    <3>1. i \in 1 .. n /\ next[i] \in T
      <4> HIDE DEF next, T
      <4> QED BY <1>2, <1>8, <1>11, <2>2
    <3>2. from[i] = IF taken(i) = {} THEN from[next[i]] ELSE found(i) \cup from[next[i]]
      <4>1. next[i] = IF taken(i) = {} THEN i + 1 ELSE longest(taken(i)) + 1
        BY <1>2, <3>1
      <4>2. i \in 1 .. n + 1 /\ ~(i > n)
        BY <1>2, <3>1
      <4> HIDE DEF next
      <4> QED BY <1>10, <4>1, <4>2
    <3>3. found(i) \subseteq run.valid
      BY <1>7, <3>1
    <3> HIDE DEF next, run
    <3> QED BY <3>1, <3>2, <3>3
  <2> QED BY <1>2, <2>1, <2>2
<1>12. \A i \in 1 .. n + 1 : i \in T
  <2>1. 1 \in Nat /\ n + 1 \in Nat
    BY <1>2
  <2> HIDE DEF T
  <2> QED BY <1>11, <2>1, DownTo
<1>13. result \subseteq run.valid
  <2>1. 1 \in 1 .. n + 1
    BY <1>2
  <2> HIDE DEF run
  <2> QED BY <1>3, <1>12, <2>1
<1>14. ASSUME NEW j \in taken(1), <<1, j>> \in run.valid PROVE \E r \in result : r[1] = 1
  <2>1. 1 \in 1 .. n
    <3>1. taken(1) \subseteq 1 .. n
      BY DEF taken, Taken
    <3> QED BY <1>2, <1>14, <3>1
  <2>2. 1 \in 1 .. n + 1 /\ ~(1 > n) /\ taken(1) # {} /\ good(1) # {}
    BY <1>2, <1>14, <2>1
  <2>3. from[1] = found(1) \cup from[longest(taken(1)) + 1]
    BY <1>10, <2>2
  <2>4. found(1) = {<<1, longest(good(1))>>}
    BY <2>2 DEF found
  <2>5. <<1, longest(good(1))>> \in result
    BY <1>3, <2>3, <2>4
  <2>6. <<1, longest(good(1))>>[1] = 1
    OBVIOUS
  <2> HIDE DEF good
  <2> QED BY <2>5, <2>6
<1> QED BY <1>13, <1>14 DEF taken
-----------------------------------------------------------------------------
(* The least of a set of numbers is one of them.                           *)
LEMMA LeastOf == ASSUME NEW S \in SUBSET Nat, S # {} PROVE Least(S) \in S /\ \A y \in S : Least(S) <= y
<1>1. \E x \in S : \A y \in S : x <= y
  BY LeastNumber
<1> QED BY <1>1 DEF Least

(* So is the greatest, if there is one.                                    *)
LEMMA GreatestOf ==
  ASSUME NEW n \in Nat, NEW S \in SUBSET (0 .. n), S # {}
  PROVE  Greatest(S) \in S /\ \A y \in S : Greatest(S) >= y
<1> DEFINE T == {n - x : x \in S}
<1>1. PICK t \in T : \A u \in T : t <= u
  <2>1. T \subseteq Nat /\ T # {}
    <3>1. \A x \in S : n - x \in Nat
      OBVIOUS
    <3> QED BY <3>1
  <2> HIDE DEF T
  <2> QED BY <2>1, LeastNumber
<1>2. PICK x \in S : t = n - x
  BY <1>1
<1>3. \A y \in S : x >= y
  <2> SUFFICES ASSUME NEW y \in S PROVE x >= y
    OBVIOUS
  <2>1. n - y \in T
    OBVIOUS
  <2>2. x \in 0 .. n /\ y \in 0 .. n
    OBVIOUS
  <2> HIDE DEF T
  <2>3. n - x <= n - y
    BY <1>1, <1>2, <2>1
  <2> QED BY <2>2, <2>3
<1> QED BY <1>3 DEF Greatest

(* The text to cut.                                                        *)
LEMMA Skips ==
  ASSUME NEW text \in Seq({"s", "w"}), NEW i \in Int
  PROVE  /\ SkipSpace(text, i) \in 0 .. Len(text)
         /\ SkipSpace(text, i) = Len(text) \/ ~Space(text, SkipSpace(text, i))
         /\ i <= Len(text) => i <= SkipSpace(text, i)
         /\ \A j \in 0 .. Len(text) - 1 : i <= j /\ j < SkipSpace(text, i) => Space(text, j)
<1> DEFINE L == Len(text)
           S == {j \in 0 .. L - 1 : i <= j /\ ~Space(text, j)} \cup {L}
           k == Least(S)
<1>1. L \in Nat
  OBVIOUS
<1>2. S \in SUBSET Nat /\ S # {}
  BY <1>1
<1>3. k \in S /\ \A y \in S : k <= y
  <2> HIDE DEF S
  <2> QED BY <1>2, LeastOf
<1>4. SkipSpace(text, i) = k
  BY DEF SkipSpace
<1> HIDE DEF L, k
<1>5. \A j \in 0 .. L - 1 : i <= j /\ j < k => Space(text, j)
  <2> SUFFICES ASSUME NEW j \in 0 .. L - 1, i <= j, j < k, ~Space(text, j) PROVE FALSE
    OBVIOUS
  <2>1. j \in S /\ j \in Nat /\ k \in Nat
    BY <1>1, <1>3
  <2>2. k <= j
    BY <1>3, <2>1
  <2> QED BY <2>1, <2>2
<1>6. k \in 0 .. L /\ (k = L \/ ~Space(text, k)) /\ (i <= L => i <= k)
  BY <1>1, <1>3
<1> HIDE DEF S
<1> QED BY <1>4, <1>5, <1>6 DEF L

(* A chunk ends after its start, within its size, and only blanks follow it*)
(* before the cut.                                                         *)
LEMMA Ends ==
  ASSUME NEW text \in Seq({"s", "w"}), NEW chars \in Nat \ {0}, NEW start \in 0 .. Len(text) - 1
  PROVE  /\ ChunkEnd(text, chars, start) \in start .. Len(text)
         /\ ChunkEnd(text, chars, start) <= start + chars
         /\ ChunkEnd(text, chars, start) = start => Space(text, start)
         /\ start + chars >= Len(text) => \A j \in ChunkEnd(text, chars, start) .. Len(text) - 1 : Space(text, j)
<1> DEFINE L == Len(text)
           limit == start + chars
           cuts  == LastSpace(text, start + chars \div 2, limit)
           end   == IF limit >= L THEN L ELSE IF cuts # {} THEN Greatest(cuts) ELSE limit
           S == {start} \cup {j \in start + 1 .. end : ~Space(text, j - 1)}
           e == Greatest(S)
<1>1. L \in Nat /\ start \in Nat /\ start < L /\ limit \in Nat
  OBVIOUS
<1>2. ChunkEnd(text, chars, start) = e
  BY DEF ChunkEnd
<1>3. /\ end \in start .. L /\ end <= limit
      /\ end = start => Space(text, start)
      /\ limit >= L => end = L
  <2>1. CASE limit >= L
    BY <1>1, <2>1
  <2>2. CASE limit < L /\ cuts # {}
    <3>1. cuts \in SUBSET (0 .. limit) /\ \A j \in cuts : j >= start /\ j < L /\ Space(text, j)
      <4>1. chars \div 2 \in Nat
        OBVIOUS
      <4> QED BY <1>1, <4>1 DEF LastSpace
    <3>2. Greatest(cuts) \in cuts
      <4> HIDE DEF cuts, limit
      <4> QED BY <1>1, <2>2, <3>1, GreatestOf
    <3>3. end = Greatest(cuts)
      BY <1>1, <2>2
    <3> DEFINE g == Greatest(cuts)
    <3>4. g \in 0 .. limit /\ g >= start /\ g < L /\ Space(text, g)
      <4> HIDE DEF cuts, limit, L
      <4> QED BY <3>1, <3>2
    <3>5. end = g
      BY <3>3
    <3> HIDE DEF g, cuts, limit, end, L
    <3>6. end \in start .. L /\ end <= limit
      BY <1>1, <3>4, <3>5
    <3>7. end = start => Space(text, start)
      BY <3>4, <3>5
    <3> QED BY <1>1, <2>2, <3>6, <3>7
  <2>3. CASE limit < L /\ cuts = {}
    BY <1>1, <2>3
  <2> QED BY <1>1, <2>1, <2>2, <2>3
<1> HIDE DEF end, limit, L
<1>4. e \in S /\ \A y \in S : e >= y
  <2>1. S \in SUBSET (0 .. L) /\ S # {}
    BY <1>1, <1>3
  <2> HIDE DEF S
  <2> QED BY <1>1, <2>1, GreatestOf
<1> HIDE DEF e
<1>5. e \in start .. end
  BY <1>1, <1>3, <1>4
<1>6. ASSUME e = start PROVE Space(text, start)
  <2> SUFFICES ASSUME ~Space(text, start) PROVE FALSE
    OBVIOUS
  <2>1. start + 1 \in start + 1 .. end /\ (start + 1) - 1 = start
    BY <1>1, <1>3
  <2>2. start + 1 \in S
    BY <2>1
  <2>3. e >= start + 1
    BY <1>4, <2>2
  <2> QED BY <1>1, <1>6, <2>3
<1>7. ASSUME NEW j \in e .. end - 1 PROVE Space(text, j)
  <2> SUFFICES ASSUME ~Space(text, j) PROVE FALSE
    OBVIOUS
  <2>1. j + 1 \in start + 1 .. end /\ (j + 1) - 1 = j /\ e \in Int /\ j \in Int /\ e <= j
    BY <1>1, <1>3, <1>5
  <2>2. j + 1 \in S
    BY <2>1
  <2>3. e >= j + 1
    BY <1>4, <2>2
  <2> QED BY <2>1, <2>3
<1>8. e \in start .. L /\ e <= limit
  BY <1>1, <1>3, <1>5
<1> QED BY <1>2, <1>3, <1>6, <1>7, <1>8 DEF L, limit

(* The next chunk starts behind the last one's start and skips nothing but *)
(* blanks.                                                                 *)
LEMMA Follows ==
  ASSUME NEW text \in Seq({"s", "w"}), NEW overlap \in Nat, NEW start \in 0 .. Len(text) - 1,
         NEW end \in start .. Len(text), end = start => Space(text, start)
  PROVE  /\ Following(text, start, end, overlap) \in start + 1 .. Len(text)
         /\ \/ Following(text, start, end, overlap) = Len(text)
            \/ ~Space(text, Following(text, start, end, overlap))
         /\ \A j \in 0 .. Len(text) - 1 : end <= j /\ j < Following(text, start, end, overlap) => Space(text, j)
<1> DEFINE L == Len(text)
           i == end - overlap
           next == NextWord(text, i)
           h == HardStart(start, end, next, overlap)
           f == SkipSpace(text, h)
<1>1. L \in Nat /\ start \in Nat /\ start < L /\ end \in Nat /\ i \in Int /\ i <= end /\ end <= L /\ start <= end
  OBVIOUS
<1>2. next \in Int
  <2> DEFINE S == {j \in i .. L - 1 : Space(text, j)} \cup {L}
  <2>1. CASE 0 < i /\ i < L /\ ~Space(text, i - 1) /\ ~Space(text, i)
    <3>1. S \in SUBSET Nat /\ S # {}
      BY <1>1, <2>1
    <3>2. Least(S) \in Int
      <4>1. Least(S) \in S
        <5> HIDE DEF S
        <5> QED BY <3>1, LeastOf
      <4>2. Least(S) \in Nat
        <5> HIDE DEF S
        <5> QED BY <3>1, <4>1, Zenon
      <4> HIDE DEF S
      <4> DEFINE k == Least(S)
      <4>3. k \in Nat
        BY <4>2
      <4> HIDE DEF k
      <4>4. k \in Int
        BY <4>3
      <4> QED BY <4>4 DEF k
    <3>3. next = SkipSpace(text, Least(S))
      BY <2>1 DEF NextWord
    <3> HIDE DEF S
    <3>4. SkipSpace(text, Least(S)) \in 0 .. L
      BY <3>2, Skips
    <3> QED BY <1>1, <3>3, <3>4
  <2>2. CASE ~(0 < i /\ i < L /\ ~Space(text, i - 1) /\ ~Space(text, i))
    <3>1. next = SkipSpace(text, i)
      BY <2>2 DEF NextWord
    <3> HIDE DEF i
    <3>2. SkipSpace(text, i) \in 0 .. L
      BY <1>1, Skips
    <3> QED BY <1>1, <3>1, <3>2
  <2> QED BY <2>1, <2>2
<1> HIDE DEF next
<1>3. h \in start .. end /\ (h = start => end = start)
  BY <1>1, <1>2 DEF HardStart
<1>4. Following(text, start, end, overlap) = f
  BY DEF Following, next
<1> HIDE DEF h, i
<1>5. /\ f \in 0 .. L /\ (f = L \/ ~Space(text, f)) /\ (h <= L => h <= f)
      /\ \A j \in 0 .. L - 1 : h <= j /\ j < f => Space(text, j)
  <2>1. h \in Int
    BY <1>1, <1>3
  <2> QED BY <2>1, Skips
<1> HIDE DEF f, L
<1>6. f \in start + 1 .. L
  <2>1. h \in Int /\ f \in Int /\ start <= h /\ h <= f
    BY <1>1, <1>3, <1>5
  <2>2. f # start
    <3> SUFFICES ASSUME f = start PROVE FALSE
      OBVIOUS
    <3>1. h = start /\ end = start
      BY <1>1, <1>3, <2>1
    <3> QED BY <1>1, <1>5, <3>1
  <2> QED BY <1>1, <1>5, <2>1, <2>2
<1>7. \A j \in 0 .. L - 1 : end <= j /\ j < f => Space(text, j)
  BY <1>1, <1>3, <1>5
<1> QED BY <1>4, <1>5, <1>6, <1>7 DEF L
(* The chunks of a text from c on.                                         *)
Chunk(L) == [start : 0 .. L, end : 0 .. L]
Cut(text, chars, c, x) ==
  /\ x \in Seq(Chunk(Len(text)))
  /\ \A k \in 1 .. Len(x) : x[k].start >= c /\ x[k].end - x[k].start \in 1 .. chars
  /\ \A k, l \in 1 .. Len(x) : k < l => x[k].start < x[l].start
  /\ \A i \in 0 .. Len(text) - 1 :
       c <= i /\ ~Space(text, i) => \E k \in 1 .. Len(x) : x[k].start <= i /\ i < x[k].end

(* At the end of the text nothing is left to cut.                          *)
LEMMA CutOfNone == ASSUME NEW text \in Seq({"s", "w"}), NEW chars PROVE Cut(text, chars, Len(text), <<>>)
<1>1. Len(text) \in Nat /\ Len(<<>>) = 0 /\ <<>> \in Seq(Chunk(Len(text))) /\ 1 .. 0 = {}
  OBVIOUS
<1> HIDE DEF Chunk
<1> QED BY <1>1 DEF Cut

(* A chunk in front of a cut text makes a cut text.                        *)
LEMMA CutOfMore ==
  ASSUME NEW text \in Seq({"s", "w"}), NEW chars \in Nat, NEW c \in 0 .. Len(text) - 1,
         NEW e \in 0 .. Len(text), e - c \in 1 .. chars,
         NEW d \in c + 1 .. Len(text), NEW y, Cut(text, chars, d, y),
         \A j \in 0 .. Len(text) - 1 : e <= j /\ j < d => Space(text, j)
  PROVE  Cut(text, chars, c, <<[start |-> c, end |-> e]>> \o y)
<1> DEFINE L == Len(text)
           a == [start |-> c, end |-> e]
           x == <<a>> \o y
<1>1. L \in Nat /\ c \in 0 .. L /\ c \in Int /\ d \in Int /\ e \in Int /\ c < d
  OBVIOUS
<1>2. a \in Chunk(L) /\ a.start = c /\ a.end = e
  BY <1>1 DEF Chunk
<1>3. y \in Seq(Chunk(L))
  BY DEF Cut
<1> HIDE DEF a
<1>4. x \in Seq(Chunk(L)) /\ Len(x) = Len(y) + 1 /\ x[1] = a /\ \A k \in 1 .. Len(y) : x[k + 1] = y[k]
  <2> DEFINE B == Chunk(L)
  <2>1. a \in B /\ y \in Seq(B)
    BY <1>2, <1>3
  <2> HIDE DEF B
  <2>2. x \in Seq(B) /\ Len(x) = Len(y) + 1 /\ x[1] = a /\ \A k \in 1 .. Len(y) : x[k + 1] = y[k]
    BY <2>1
  <2> QED BY <2>2 DEF B
<1>5. Len(y) \in Nat
  BY <1>3
<1> HIDE DEF x
<1>6. \A k \in 1 .. Len(x) : k = 1 \/ (k - 1 \in 1 .. Len(y) /\ x[k] = y[k - 1])
  <2> SUFFICES ASSUME NEW k \in 1 .. Len(x), k # 1 PROVE k - 1 \in 1 .. Len(y) /\ x[k] = y[k - 1]
    OBVIOUS
  <2>1. k - 1 \in 1 .. Len(y) /\ (k - 1) + 1 = k
    BY <1>4, <1>5
  <2>2. x[(k - 1) + 1] = y[k - 1]
    BY <1>4, <2>1
  <2> QED BY <2>1, <2>2
<1>7. \A k \in 1 .. Len(y) :
        y[k].start >= d /\ y[k].start \in Int /\ y[k].end \in Int /\ y[k].end - y[k].start \in 1 .. chars
  <2>1. \A k \in 1 .. Len(y) : y[k] \in Chunk(L)
    BY <1>3
  <2> QED BY <2>1 DEF Cut, Chunk
<1>8. ASSUME NEW k \in 1 .. Len(x) PROVE x[k].start >= c /\ x[k].end - x[k].start \in 1 .. chars
  <2>1. CASE k = 1
    BY <1>1, <1>2, <1>4, <2>1
  <2>2. CASE k # 1
    <3>1. k - 1 \in 1 .. Len(y) /\ x[k] = y[k - 1]
      BY <1>6, <2>2
    <3> QED BY <1>1, <1>7, <3>1
  <2> QED BY <2>1, <2>2
<1>9. ASSUME NEW k \in 1 .. Len(x), NEW l \in 1 .. Len(x), k < l PROVE x[k].start < x[l].start
  <2>1. l - 1 \in 1 .. Len(y) /\ x[l] = y[l - 1]
    BY <1>6, <1>9
  <2>2. CASE k = 1
    <3>1. x[k].start = c
      BY <1>2, <1>4, <2>2
    <3>2. x[l].start \in Int /\ x[l].start >= d
      BY <1>7, <2>1
    <3> QED BY <1>1, <3>1, <3>2
  <2>3. CASE k # 1
    <3>1. k - 1 \in 1 .. Len(y) /\ x[k] = y[k - 1] /\ k - 1 < l - 1
      BY <1>6, <1>9, <2>3
    <3> QED BY <2>1, <3>1 DEF Cut
  <2> QED BY <2>2, <2>3
<1>10. ASSUME NEW i \in 0 .. L - 1, c <= i, ~Space(text, i)
       PROVE  \E k \in 1 .. Len(x) : x[k].start <= i /\ i < x[k].end
  <2>1. CASE i < e
    <3>1. 1 \in 1 .. Len(x)
      BY <1>4, <1>5
    <3> QED BY <1>2, <1>4, <1>10, <2>1, <3>1
  <2>2. CASE i >= e
    <3>1. i >= d
      BY <1>1, <1>10, <2>2
    <3>2. PICK k \in 1 .. Len(y) : y[k].start <= i /\ i < y[k].end
      BY <1>1, <1>10, <3>1 DEF Cut
    <3>3. k + 1 \in 1 .. Len(x) /\ x[k + 1] = y[k]
      BY <1>4, <1>5
    <3> QED BY <3>2, <3>3
  <2> QED BY <1>1, <2>1, <2>2
<1>11. Cut(text, chars, c, x)
  <2> HIDE DEF L
  <2> QED BY <1>4, <1>8, <1>9, <1>10 DEF Cut, L
<1> QED BY <1>11 DEF x, a

(* A text is cut from every place on.                                      *)
LEMMA TextsCut ==
  ASSUME NEW text \in Seq({"s", "w"}), NEW chars \in Nat \ {0}, NEW overlap \in Nat
  PROVE  Cut(text, chars, 0, ChunkText(text, chars, overlap))
<1> DEFINE L == Len(text)
           A == Seq(Chunk(L))
           e(c) == ChunkEnd(text, chars, c)
           d(c) == Following(text, c, e(c), overlap)
           a(c) == [start |-> c, end |-> e(c)]
           Is(f) == f = [c \in 0 .. L |->
                           IF c >= L THEN <<>>
                           ELSE <<a(c)>> \o IF c + chars >= L THEN <<>> ELSE f[d(c)]]
           from == CHOOSE f : Is(f)
           first == SkipSpace(text, 0)
<1>1. L \in Nat
  OBVIOUS
<1>2. ChunkText(text, chars, overlap) = from[first]
  BY DEF ChunkText
<1>3. ASSUME NEW c \in 0 .. L - 1
      PROVE  /\ e(c) \in c .. L /\ e(c) <= c + chars /\ (e(c) = c => Space(text, c))
             /\ c + chars >= L => \A j \in e(c) .. L - 1 : Space(text, j)
             /\ d(c) \in c + 1 .. L /\ (d(c) = L \/ ~Space(text, d(c)))
             /\ \A j \in 0 .. L - 1 : e(c) <= j /\ j < d(c) => Space(text, j)
             /\ a(c) \in Chunk(L)
  <2>1. /\ e(c) \in c .. L /\ e(c) <= c + chars /\ (e(c) = c => Space(text, c))
        /\ c + chars >= L => \A j \in e(c) .. L - 1 : Space(text, j)
    BY Ends
  <2> HIDE DEF e
  <2>2. /\ d(c) \in c + 1 .. L /\ (d(c) = L \/ ~Space(text, d(c)))
        /\ \A j \in 0 .. L - 1 : e(c) <= j /\ j < d(c) => Space(text, j)
    BY <2>1, Follows
  <2>3. a(c) \in Chunk(L)
    <3>1. c \in 0 .. L /\ e(c) \in 0 .. L
      BY <1>1, <2>1
    <3> QED BY <3>1 DEF Chunk
  <2> QED BY <2>1, <2>2, <2>3
<1> HIDE DEF e, d, a, L
<1>4. Is(from)
  <2> DEFINE next == [c \in 0 .. L |-> IF c >= L \/ c + chars >= L THEN c ELSE d(c)]
             base == [c \in 0 .. L |-> IF c >= L THEN <<>> ELSE <<a(c)>>]
             G == [p \in (0 .. L) \X A |-> IF p[1] >= L THEN <<>> ELSE <<a(p[1])>> \o p[2]]
  <2> HIDE DEF Chunk
  <2>1. base \in [0 .. L -> A]
    <3>1. ASSUME NEW c \in 0 .. L PROVE (IF c >= L THEN <<>> ELSE <<a(c)>>) \in A
      BY <1>1, <1>3
    <3> QED BY <3>1
  <2>2. G \in [(0 .. L) \X A -> A]
    <3>1. ASSUME NEW c \in 0 .. L, NEW x \in A PROVE (IF c >= L THEN <<>> ELSE <<a(c)>> \o x) \in A
      <4>1. CASE c >= L
        BY <4>1
      <4>2. CASE c < L
        <5>1. a(c) \in Chunk(L)
          BY <1>1, <1>3, <4>2
        <5>2. <<a(c)>> \o x \in A
          <6> DEFINE B == Chunk(L)
          <6>1. a(c) \in B /\ x \in Seq(B)
            BY <5>1
          <6> HIDE DEF B
          <6>2. <<a(c)>> \o x \in Seq(B)
            BY <6>1
          <6> QED BY <6>2 DEF B
        <5> QED BY <1>1, <4>2, <5>2
      <4> QED BY <1>1, <4>1, <4>2
    <3>2. ASSUME NEW p \in (0 .. L) \X A PROVE (IF p[1] >= L THEN <<>> ELSE <<a(p[1])>> \o p[2]) \in A
      <4>1. p[1] \in 0 .. L /\ p[2] \in A
        OBVIOUS
      <4> HIDE DEF A
      <4> QED BY <3>1, <4>1
    <3> HIDE DEF A
    <3> QED BY <3>2
  <2>3. PICK f : DownOf(f, A, 0, L, next, base, G)
    <3>1. 0 \in Nat
      OBVIOUS
    <3> HIDE DEF A, next, base, G
    <3> QED BY <1>1, <2>1, <2>2, <3>1, DownExists
  <2> HIDE DEF A
  <2>4. ASSUME NEW c \in 0 .. L
        PROVE  f[c] = IF c >= L THEN <<>> ELSE <<a(c)>> \o IF c + chars >= L THEN <<>> ELSE f[d(c)]
    <3>1. f[c] = IF next[c] \in c + 1 .. L THEN G[<<c, f[next[c]]>>] ELSE base[c]
      BY <2>3 DEF DownOf
    <3>2. CASE c >= L \/ c + chars >= L
      <4>1. next[c] = c /\ base[c] = (IF c >= L THEN <<>> ELSE <<a(c)>>) /\ c \notin c + 1 .. L
        BY <1>1, <3>2
      <4>2. <<a(c)>> \o <<>> = <<a(c)>>
        OBVIOUS
      <4> HIDE DEF next, base, G
      <4> QED BY <3>1, <3>2, <4>1, <4>2
    <3>3. CASE ~(c >= L \/ c + chars >= L)
      <4>1. c \in 0 .. L - 1 /\ next[c] = d(c)
        BY <1>1, <3>3
      <4>2. d(c) \in c + 1 .. L /\ d(c) \in 0 .. L
        BY <1>1, <1>3, <4>1
      <4>3. f[d(c)] \in A
        BY <2>3, <4>2 DEF DownOf
      <4>4. \A x \in A : G[<<c, x>>] = <<a(c)>> \o x
        <5> SUFFICES ASSUME NEW x \in A PROVE G[<<c, x>>] = <<a(c)>> \o x
          OBVIOUS
        <5> DEFINE p == <<c, x>>
        <5>1. p \in (0 .. L) \X A /\ p[1] = c /\ p[2] = x
          OBVIOUS
        <5> HIDE DEF p
        <5>2. G[p] = IF p[1] >= L THEN <<>> ELSE <<a(p[1])>> \o p[2]
          BY <5>1
        <5> HIDE DEF G
        <5>3. G[p] = <<a(c)>> \o x
          BY <3>3, <5>1, <5>2
        <5> QED BY <5>3 DEF p
      <4> HIDE DEF next, base, G
      <4> QED BY <3>1, <3>3, <4>1, <4>2, <4>3, <4>4
    <3> QED BY <3>2, <3>3
  <2>5. f = [c \in 0 .. L |-> f[c]]
    BY <2>3 DEF DownOf
  <2>6. Is(f)
    <3> HIDE DEF next, base, G
    <3> QED BY <2>4, <2>5
  <2> QED BY <2>6
<1>5. ASSUME NEW c \in 0 .. L
      PROVE  from[c] = IF c >= L THEN <<>> ELSE <<a(c)>> \o IF c + chars >= L THEN <<>> ELSE from[d(c)]
  <2> HIDE DEF from
  <2> QED BY <1>4
<1> HIDE DEF from, Is
<1> DEFINE T == {c \in 0 .. L : c = L \/ ~Space(text, c) => Cut(text, chars, c, from[c])}
<1>6. ASSUME NEW c \in 0 .. L, \A j \in c + 1 .. L : j \in T PROVE c \in T
  <2> SUFFICES ASSUME c = L \/ ~Space(text, c) PROVE Cut(text, chars, c, from[c])
    OBVIOUS
  <2>1. CASE c = L
    <3>1. from[c] = <<>>
      <4>1. c >= L
        BY <1>1, <2>1
      <4> QED BY <1>5, <4>1, Zenon
    <3> QED BY <2>1, <3>1, CutOfNone DEF L
  <2>2. CASE c # L
    <3>1. c \in 0 .. L - 1 /\ ~Space(text, c) /\ ~(c >= L)
      BY <1>1, <2>2
    <3>2. e(c) \in 0 .. L /\ e(c) - c \in 1 .. chars
      <4>1. e(c) \in c .. L /\ e(c) <= c + chars /\ e(c) # c
        BY <1>3, <3>1
      <4> QED BY <1>1, <3>1, <4>1
    <3>3. CASE c + chars >= L
      <4>1. from[c] = <<a(c)>> \o <<>>
        BY <1>5, <3>1, <3>3
      <4>2. Cut(text, chars, L, <<>>)
        BY CutOfNone DEF L
      <4>3. L \in c + 1 .. L /\ \A j \in 0 .. L - 1 : e(c) <= j /\ j < L => Space(text, j)
        <5>1. \A j \in e(c) .. L - 1 : Space(text, j)
          BY <1>3, <3>1, <3>3
        <5> QED BY <1>1, <3>1, <3>2, <5>1
      <4>4. chars \in Nat
        OBVIOUS
      <4>5. Cut(text, chars, c, <<[start |-> c, end |-> e(c)]>> \o <<>>)
        <5> HIDE DEF T
        <5> QED BY <3>1, <3>2, <4>2, <4>3, <4>4, CutOfMore DEF L
      <4> QED BY <4>1, <4>5 DEF a
    <3>4. CASE ~(c + chars >= L)
      <4>1. from[c] = <<a(c)>> \o from[d(c)]
        BY <1>5, <3>1, <3>4
      <4>2. /\ d(c) \in c + 1 .. L /\ (d(c) = L \/ ~Space(text, d(c)))
            /\ \A j \in 0 .. L - 1 : e(c) <= j /\ j < d(c) => Space(text, j)
        BY <1>3, <3>1
      <4>3. Cut(text, chars, d(c), from[d(c)])
        BY <1>6, <4>2
      <4>4. chars \in Nat
        OBVIOUS
      <4>5. Cut(text, chars, c, <<[start |-> c, end |-> e(c)]>> \o from[d(c)])
        <5> HIDE DEF T
        <5> QED BY <3>1, <3>2, <4>2, <4>3, <4>4, CutOfMore DEF L
      <4> QED BY <4>1, <4>5 DEF a
    <3> QED BY <3>3, <3>4
  <2> QED BY <2>1, <2>2
<1>7. /\ first \in 0 .. L /\ (first = L \/ ~Space(text, first))
      /\ \A j \in 0 .. L - 1 : 0 <= j /\ j < first => Space(text, j)
  <2>1. 0 \in Int
    OBVIOUS
  <2> QED BY <2>1, Skips DEF L
<1>8. Cut(text, chars, first, from[first])
  <2>1. 0 \in Nat
    OBVIOUS
  <2> HIDE DEF T, first
  <2>2. first \in T
    BY <1>1, <1>6, <1>7, <2>1, DownTo
  <2> QED BY <1>7, <2>2 DEF T
<1> HIDE DEF first
<1> DEFINE x == from[first]
<1> HIDE DEF x
<1>9. Cut(text, chars, first, x)
  BY <1>8 DEF x
<1>10. Cut(text, chars, 0, x)
  <2>1. \A k \in 1 .. Len(x) : x[k].start >= 0
    <3>1. x \in Seq(Chunk(L))
      BY <1>9 DEF Cut, L
    <3>2. \A k \in 1 .. Len(x) : x[k] \in Chunk(L)
      BY <3>1
    <3> QED BY <3>2 DEF Chunk
  <2>2. ASSUME NEW i \in 0 .. L - 1, ~Space(text, i)
        PROVE  \E k \in 1 .. Len(x) : x[k].start <= i /\ i < x[k].end
    <3>1. first <= i
      BY <1>1, <1>7, <2>2
    <3> QED BY <1>9, <2>2, <3>1 DEF Cut, L
  <2> QED BY <1>9, <2>1, <2>2 DEF Cut, L
<1> QED BY <1>2, <1>10 DEF x

(* Chunks are not empty, not too long, go on, and hold every word.         *)
LEMMA ChunksAccepted == ASSUME Computed PROVE ChunksFit /\ WordsStay
<1> SUFFICES ASSUME Of("chunk") PROVE ChunksFit /\ WordsStay
  BY DEF ChunksFit, WordsStay
<1> DEFINE text == input.text
           L == Len(text)
<1>1. result = ChunkText(text, input.chars, input.overlap) /\ input \in Texts
  BY DEF Computed, Has, Of
<1>2. text \in Seq({"s", "w"}) /\ input.chars \in Nat \ {0} /\ input.overlap \in Nat
  BY <1>1, InputAssumption
<1>3. Cut(text, input.chars, 0, result)
  BY <1>1, <1>2, TextsCut
<1>4. result \in Seq(Chunk(L)) /\ DOMAIN result = 1 .. Len(result)
  BY <1>3 DEF Cut
<1>5. \A k \in 1 .. Len(result) : result[k] \in Chunk(L)
  BY <1>4
<1> HIDE DEF text, L
<1>6. ASSUME NEW k \in DOMAIN result PROVE result[k].end <= L /\ result[k].end - result[k].start \in 1 .. input.chars
  <2>1. result[k].end <= L
    BY <1>2, <1>4, <1>5 DEF Chunk, L
  <2> QED BY <1>3, <1>4, <2>1 DEF Cut
<1>7. ASSUME NEW i \in 0 .. L - 1, ~Space(text, i) PROVE i \in Characters(Range(result))
  <2>1. PICK k \in 1 .. Len(result) : result[k].start <= i /\ i < result[k].end
    <3>1. 0 <= i
      BY <1>7
    <3> QED BY <1>3, <1>7, <3>1 DEF Cut, L
  <2>2. result[k].start \in Int /\ result[k].end \in Int /\ i \in Int
    BY <1>5 DEF Chunk
  <2>3. i \in result[k].start .. result[k].end - 1
    BY <2>1, <2>2
  <2>4. result[k] \in Range(result)
    BY <1>4 DEF Range
  <2> QED BY <2>3, <2>4 DEF Characters
<1>8. Increases([k \in DOMAIN result |-> result[k].start])
  BY <1>3, <1>4 DEF Increases, Cut
<1> QED BY <1>6, <1>7, <1>8 DEF ChunksFit, WordsStay, text, L
-----------------------------------------------------------------------------
(* A fold that starts anywhere goes through its steps.                     *)
LEMMA StepsExist ==
  ASSUME NEW A, NEW b \in A, NEW N \in Nat, NEW G \in [(1 .. N) \X A -> A]
  PROVE  \E acc : StepsOf(acc, A, b, N, G, acc[N])
<1>1. PICK f : FoldOf(f, A, b, N, G)
  BY FoldExists
<1>2. Iterates(f, A, b, N, G)
  <2>1. f[{}] = b
    BY <1>1 DEF FoldOf
  <2>2. ASSUME NEW t \in SUBSET (1 .. N), t # {} PROVE f[t] = G[<<Max(t), f[t \ {Max(t)}]>>]
    BY <1>1, <2>2 DEF FoldOf
  <2> QED BY <2>1, <2>2 DEF Iterates
<1>3. PICK acc : StepsOf(acc, A, b, N, G, f[1 .. N])
  BY <1>2, FoldSteps
<1> QED BY <1>3 DEF StepsOf

(* What FlattenSeq computes, from left to right.                           *)
FlatOf(acc, A, seqs) ==
  /\ acc \in [0 .. Len(seqs) -> Seq(A)] /\ acc[0] = <<>> /\ FlattenSeq(seqs) = acc[Len(seqs)]
  /\ \A n \in 1 .. Len(seqs) : acc[n] = acc[n - 1] \o seqs[n]

(* Flattening joins the sequences in order.                                *)
LEMMA FlattenSteps == ASSUME NEW A, NEW seqs \in Seq(Seq(A)) PROVE \E acc : FlatOf(acc, A, seqs)
<1> DEFINE N == Len(seqs)
           B == Seq(A)
           Is(f) == f = [i \in 1 .. N |-> IF i = 1 THEN seqs[i] ELSE f[i - 1] \o seqs[i]]
           flatten == CHOOSE f : Is(f)
           acc == [n \in 0 .. N |-> IF n = 0 THEN <<>> ELSE flatten[n]]
           G == [p \in (1 .. N) \X B |-> p[2] \o seqs[p[1]]]
<1>1. N \in Nat /\ \A i \in 1 .. N : seqs[i] \in B
  OBVIOUS
<1>2. FlattenSeq(seqs) = IF N = 0 THEN seqs ELSE flatten[N]
  BY DEF FlattenSeq
<1>3. <<>> \in B
  OBVIOUS
<1>4. ASSUME NEW x \in B, NEW y \in B PROVE x \o y \in B
  OBVIOUS
<1>5. ASSUME NEW y \in B PROVE <<>> \o y = y
  OBVIOUS
<1>6. N = 0 => seqs = <<>>
  OBVIOUS
<1> HIDE DEF N, B
<1>7. G \in [(1 .. N) \X B -> B]
  BY <1>1, <1>4
<1>8. Is(flatten)
  <2>1. PICK g : StepsOf(g, B, <<>>, N, G, g[N])
    <3> HIDE DEF G
    <3> QED BY <1>1, <1>3, <1>7, StepsExist
  <2> DEFINE f == [i \in 1 .. N |-> g[i]]
  <2>2. ASSUME NEW i \in 1 .. N PROVE f[i] = IF i = 1 THEN seqs[i] ELSE f[i - 1] \o seqs[i]
    <3>1. g[i] = G[<<i, g[i - 1]>>] /\ i - 1 \in 0 .. N /\ g[i - 1] \in B
      <4>1. i - 1 \in 0 .. N
        BY <1>1
      <4> HIDE DEF G
      <4> QED BY <2>1, <4>1 DEF StepsOf
    <3>2. G[<<i, g[i - 1]>>] = g[i - 1] \o seqs[i]
      BY <3>1
    <3>3. CASE i = 1
      <4>1. g[i - 1] = <<>>
        BY <2>1, <3>3 DEF StepsOf
      <4> HIDE DEF G
      <4> QED BY <1>1, <1>5, <3>1, <3>2, <3>3, <4>1
    <3>4. CASE i # 1
      <4>1. i - 1 \in 1 .. N
        BY <1>1, <3>4
      <4> HIDE DEF G
      <4> QED BY <3>1, <3>2, <3>4, <4>1
    <3> QED BY <3>3, <3>4
  <2>3. Is(f)
    <3>1. f = [i \in 1 .. N |-> f[i]]
      OBVIOUS
    <3> HIDE DEF f
    <3> QED BY <2>2, <3>1
  <2> HIDE DEF f
  <2> QED BY <2>3
<1>9. ASSUME NEW i \in 1 .. N PROVE flatten[i] = IF i = 1 THEN seqs[i] ELSE flatten[i - 1] \o seqs[i]
  <2> HIDE DEF flatten
  <2> QED BY <1>8
<1> HIDE DEF flatten
<1>10. acc[0] = <<>>
  BY <1>1
<1>11. ASSUME NEW n \in 1 .. N PROVE acc[n] = acc[n - 1] \o seqs[n]
  <2>1. acc[n] = flatten[n] /\ n - 1 \in 0 .. N
    BY <1>1
  <2>2. CASE n = 1
    <3>1. acc[n - 1] = <<>> /\ flatten[n] = seqs[n]
      BY <1>9, <1>10, <2>2
    <3> HIDE DEF acc
    <3> QED BY <1>1, <1>5, <2>1, <3>1
  <2>3. CASE n # 1
    <3>1. acc[n - 1] = flatten[n - 1]
      BY <2>1, <2>3
    <3> HIDE DEF acc
    <3> QED BY <1>9, <2>1, <2>3, <3>1
  <2> QED BY <2>2, <2>3
<1>12. acc = [n \in 0 .. N |-> acc[n]]
  OBVIOUS
<1>13. FlattenSeq(seqs) = acc[N]
  <2>1. N \in 0 .. N
    BY <1>1
  <2> QED BY <1>2, <1>6, <2>1
<1> DEFINE S == {n \in 0 .. N : acc[n] \in B}
<1> HIDE DEF acc
<1>14. \A n \in 0 .. N : n \in S
  <2>1. 0 \in S
    BY <1>1, <1>3, <1>10
  <2>2. ASSUME NEW n \in 0 .. N - 1, n \in S PROVE n + 1 \in S
    <3>1. n + 1 \in 1 .. N /\ (n + 1) - 1 = n /\ n + 1 \in 0 .. N
      BY <1>1
    <3>4. acc[n] \in B
      BY <2>2
    <3>2. acc[n + 1] = acc[n] \o seqs[n + 1]
      BY <1>11, <3>1
    <3>3. acc[n] \o seqs[n + 1] \in B
      BY <1>1, <1>4, <3>1, <3>4
    <3> QED BY <3>1, <3>2, <3>3
  <2> HIDE DEF S
  <2> QED BY <1>1, <2>1, <2>2, UpTo
<1>15. acc \in [0 .. N -> B]
  BY <1>12, <1>14
<1> QED BY <1>10, <1>11, <1>13, <1>15 DEF FlatOf, N, B

(* No sequences flatten to none.                                           *)
LEMMA FlattenNone == FlattenSeq(<<>>) = <<>>
BY DEF FlattenSeq

(* One more sequence is joined at the end.                                 *)
LEMMA FlattenAppend ==
  ASSUME NEW A, NEW seqs \in Seq(Seq(A)), NEW x \in Seq(A)
  PROVE  FlattenSeq(seqs) \in Seq(A) /\ FlattenSeq(Append(seqs, x)) = FlattenSeq(seqs) \o x
<1> DEFINE N == Len(seqs)
           more == Append(seqs, x)
<1>1. /\ N \in Nat /\ more \in Seq(Seq(A)) /\ Len(more) = N + 1 /\ more[N + 1] = x
      /\ \A n \in 1 .. N : more[n] = seqs[n]
  OBVIOUS
<1>2. PICK f : FlatOf(f, A, seqs)
  BY FlattenSteps
<1> HIDE DEF more
<1>3. PICK g : FlatOf(g, A, more)
  BY <1>1, FlattenSteps
<1> HIDE DEF N
<1> DEFINE S == {n \in 0 .. N : f[n] = g[n]}
<1>4. \A n \in 0 .. N : n \in S
  <2>1. 0 \in S
    BY <1>1, <1>2, <1>3 DEF FlatOf
  <2>2. ASSUME NEW n \in 0 .. N - 1, n \in S PROVE n + 1 \in S
    <3>1. n + 1 \in 1 .. N /\ n + 1 \in 1 .. N + 1 /\ (n + 1) - 1 = n /\ n + 1 \in 0 .. N /\ f[n] = g[n]
      BY <1>1, <2>2
    <3>2. f[n + 1] = f[(n + 1) - 1] \o seqs[n + 1]
      BY <1>2, <3>1 DEF FlatOf, N
    <3>3. g[n + 1] = g[(n + 1) - 1] \o more[n + 1]
      BY <1>1, <1>3, <3>1 DEF FlatOf
    <3> QED BY <1>1, <3>1, <3>2, <3>3
  <2> HIDE DEF S
  <2> QED BY <1>1, <2>1, <2>2, UpTo
<1>5. f[N] = g[N] /\ f[N] \in Seq(A)
  BY <1>1, <1>2, <1>4 DEF FlatOf, N
<1>6. g[N + 1] = g[N] \o x
  <2>1. N + 1 \in 1 .. N + 1 /\ (N + 1) - 1 = N
    BY <1>1
  <2>2. g[N + 1] = g[(N + 1) - 1] \o more[N + 1]
    BY <1>1, <1>3, <2>1 DEF FlatOf
  <2> QED BY <1>1, <2>1, <2>2
<1>7. FlattenSeq(seqs) = f[N] /\ FlattenSeq(more) = g[N + 1]
  BY <1>1, <1>2, <1>3 DEF FlatOf, N
<1> QED BY <1>5, <1>6, <1>7 DEF more

(* One more element is added at the end.                                   *)
LEMMA TotalAppend ==
  ASSUME NEW seq \in Seq(Int), NEW x \in Int
  PROVE  Total(seq) \in Int /\ Total(Append(seq, x)) = Total(seq) + x
<1> DEFINE N == Len(seq)
           more == Append(seq, x)
<1>1. /\ N \in Nat /\ more \in Seq(Int) /\ Len(more) = N + 1 /\ more[N + 1] = x
      /\ \A n \in 1 .. N : more[n] = seq[n]
  OBVIOUS
<1>2. PICK f \in [0 .. N -> Int] : f[0] = 0 /\ Total(seq) = f[N] /\ \A n \in 1 .. N : f[n] = f[n - 1] + seq[n]
  BY TotalSteps
<1> HIDE DEF more
<1>3. PICK g \in [0 .. Len(more) -> Int] :
        g[0] = 0 /\ Total(more) = g[Len(more)] /\ \A n \in 1 .. Len(more) : g[n] = g[n - 1] + more[n]
  BY <1>1, TotalSteps
<1> HIDE DEF N
<1> DEFINE S == {n \in 0 .. N : f[n] = g[n]}
<1>4. \A n \in 0 .. N : n \in S
  <2>1. 0 \in S
    BY <1>1, <1>2, <1>3
  <2>2. ASSUME NEW n \in 0 .. N - 1, n \in S PROVE n + 1 \in S
    <3>1. n + 1 \in 1 .. N /\ n + 1 \in 1 .. Len(more) /\ (n + 1) - 1 = n /\ n + 1 \in 0 .. N /\ f[n] = g[n]
      BY <1>1, <2>2
    <3>2. f[n + 1] = f[(n + 1) - 1] + seq[n + 1]
      BY <1>2, <3>1
    <3>3. g[n + 1] = g[(n + 1) - 1] + more[n + 1]
      BY <1>3, <3>1
    <3> QED BY <1>1, <3>1, <3>2, <3>3
  <2> HIDE DEF S
  <2> QED BY <1>1, <2>1, <2>2, UpTo
<1>5. f[N] = g[N] /\ f[N] \in Int
  BY <1>1, <1>2, <1>4
<1>6. g[N + 1] = g[N] + x
  <2>1. N + 1 \in 1 .. Len(more) /\ (N + 1) - 1 = N
    BY <1>1
  <2>2. g[N + 1] = g[(N + 1) - 1] + more[N + 1]
    BY <1>3, <2>1
  <2> QED BY <1>1, <2>1, <2>2
<1> QED BY <1>1, <1>2, <1>3, <1>5, <1>6 DEF more
-----------------------------------------------------------------------------
(* The batches after the first n texts.                                    *)
BatchState(n) == [done : Seq(Seq(1 .. n)), batch : Seq(1 .. n), size : Int]
NextBatch(sizes, most, bytes, acc, i) ==
  IF acc.batch # <<>> /\ (Len(acc.batch) = most \/ acc.size + sizes[i] > bytes)
  THEN [done |-> Append(acc.done, acc.batch), batch |-> <<i>>, size |-> sizes[i]]
  ELSE [acc EXCEPT !.batch = Append(@, i), !.size = @ + sizes[i]]

(* A text more in the open batch.                                          *)
LEMMA BatchGrows ==
  ASSUME NEW P, NEW Q, NEW R, NEW a \in [done : P, batch : Q, size : R], NEW x \in Q, NEW y \in R
  PROVE  [a EXCEPT !.batch = x, !.size = y] \in [done : P, batch : Q, size : R]
OBVIOUS

(* The batches of a build are made text by text.                           *)
LEMMA BatchSteps ==
  ASSUME NEW sizes \in Seq(Nat), NEW most, NEW bytes
  PROVE  \E acc :
           /\ acc[0] = [done |-> <<>>, batch |-> <<>>, size |-> 0]
           /\ \A n \in 0 .. Len(sizes) : acc[n] \in BatchState(Len(sizes))
           /\ \A n \in 1 .. Len(sizes) : acc[n] = NextBatch(sizes, most, bytes, acc[n - 1], n)
           /\ Batches(sizes, most, bytes) = IF acc[Len(sizes)].batch = <<>> THEN acc[Len(sizes)].done
                                            ELSE Append(acc[Len(sizes)].done, acc[Len(sizes)].batch)
<1> DEFINE N == Len(sizes)
           A == BatchState(N)
           b == [done |-> <<>>, batch |-> <<>>, size |-> 0]
           ids == [i \in DOMAIN sizes |-> i]
           D == SUBSET (DOMAIN ids)
           step(a, i) == IF a.batch # <<>> /\ (Len(a.batch) = most \/ a.size + sizes[i] > bytes)
                         THEN [done |-> Append(a.done, a.batch), batch |-> <<i>>, size |-> sizes[i]]
                         ELSE [a EXCEPT !.batch = Append(@, i), !.size = @ + sizes[i]]
           Is(f) == f = [t \in D |-> IF t = {} THEN b ELSE step(f[t \ {Max(t)}], ids[Max(t)])]
           iter == CHOOSE f : Is(f)
           G == [p \in (1 .. N) \X A |-> NextBatch(sizes, most, bytes, p[2], p[1])]
<1>1. N \in Nat /\ DOMAIN ids = 1 .. N /\ \A i \in 1 .. N : ids[i] = i /\ sizes[i] \in Nat
  OBVIOUS
<1>2. Batches(sizes, most, bytes)
        = IF iter[DOMAIN ids].batch = <<>> THEN iter[DOMAIN ids].done
          ELSE Append(iter[DOMAIN ids].done, iter[DOMAIN ids].batch)
  BY DEF Batches, FoldLeft, MapThenFoldSet
<1>3. b \in A
  BY DEF BatchState
<1>4. ASSUME NEW a \in A, NEW i \in 1 .. N PROVE NextBatch(sizes, most, bytes, a, i) \in A
  <2>1. a.done \in Seq(Seq(1 .. N)) /\ a.batch \in Seq(1 .. N) /\ a.size \in Int /\ sizes[i] \in Int
    BY <1>1 DEF BatchState
  <2>2. /\ Append(a.done, a.batch) \in Seq(Seq(1 .. N)) /\ <<i>> \in Seq(1 .. N)
        /\ Append(a.batch, i) \in Seq(1 .. N) /\ a.size + sizes[i] \in Int
    BY <2>1
  <2>3. [a EXCEPT !.batch = Append(@, i), !.size = @ + sizes[i]] \in A
    <3> DEFINE x == Append(a.batch, i)
               y == a.size + sizes[i]
               P == Seq(Seq(1 .. N))
               Q == Seq(1 .. N)
    <3>1. a \in [done : P, batch : Q, size : Int] /\ x \in Q /\ y \in Int
      BY <2>2 DEF BatchState
    <3> HIDE DEF A, x, y, P, Q
    <3>2. [a EXCEPT !.batch = x, !.size = y] \in [done : P, batch : Q, size : Int]
      BY <3>1, BatchGrows
    <3> QED BY <3>2 DEF A, BatchState, x, y, P, Q
  <2>4. [done |-> Append(a.done, a.batch), batch |-> <<i>>, size |-> sizes[i]] \in A
    BY <2>1, <2>2 DEF BatchState
  <2> HIDE DEF A
  <2> QED BY <2>3, <2>4 DEF NextBatch
<1>5. \A a, i : step(a, i) = NextBatch(sizes, most, bytes, a, i)
  BY DEF NextBatch
<1> HIDE DEF N, A, b, ids, step
<1>6. G \in [(1 .. N) \X A -> A]
  BY <1>4
<1>7. ASSUME NEW n \in 1 .. N, NEW a \in A PROVE G[<<n, a>>] = step(a, ids[n])
  BY <1>1, <1>5, <1>7
<1>8. Is(iter)
  <2>1. PICK f : FoldOf(f, A, b, N, G)
    <3> HIDE DEF G
    <3> QED BY <1>1, <1>3, <1>6, FoldExists
  <2> HIDE DEF G
  <2>2. ShapeOf(f, A, b, N, G) /\ D = SUBSET (1 .. N)
    BY <1>1, <2>1, FoldShape
  <2>3. \A t \in D : f[t] = IF t = {} THEN b ELSE step(f[t \ {Max(t)}], ids[Max(t)])
    BY <1>7, <2>2 DEF ShapeOf
  <2>4. Is(f)
    <3>1. f \in [D -> A]
      BY <2>2 DEF ShapeOf
    <3> HIDE DEF D
    <3> QED BY <2>3, <3>1
  <2> QED BY <2>4
<1> HIDE DEF G
<1>9. Iterates(iter, A, b, N, G)
  <2> HIDE DEF iter
  <2>1. iter[{}] = b
    BY <1>8
  <2>2. ASSUME NEW t \in SUBSET (1 .. N), t # {}, iter[t \ {Max(t)}] \in A
        PROVE  iter[t] = G[<<Max(t), iter[t \ {Max(t)}]>>]
    <3>1. Max(t) \in 1 .. N
      BY <1>1, <2>2, MaxOf
    <3>2. iter[t] = step(iter[t \ {Max(t)}], ids[Max(t)])
      BY <1>1, <1>8, <2>2
    <3> QED BY <1>7, <2>2, <3>1, <3>2
  <2> QED BY <2>1, <2>2 DEF Iterates
<1> HIDE DEF iter
<1>10. PICK acc : StepsOf(acc, A, b, N, G, iter[1 .. N])
  BY <1>1, <1>3, <1>6, <1>9, FoldSteps
<1>11. \A n \in 0 .. N : acc[n] \in A
  BY <1>10 DEF StepsOf
<1>12. ASSUME NEW n \in 1 .. N PROVE acc[n] = NextBatch(sizes, most, bytes, acc[n - 1], n)
  <2>1. n - 1 \in 0 .. N /\ acc[n] = G[<<n, acc[n - 1]>>]
    BY <1>1, <1>10 DEF StepsOf
  <2> QED BY <1>1, <1>5, <1>7, <1>11, <2>1
<1>13. acc[0] = b /\ acc[N] = iter[DOMAIN ids]
  BY <1>1, <1>10 DEF StepsOf
<1> QED BY <1>2, <1>11, <1>12, <1>13 DEF N, A, b
Upward(n) == [k \in 1 .. n |-> k]
SizeIn(sizes, b) == Total([k \in DOMAIN b |-> sizes[b[k]]])
BatchFits(sizes, most, bytes, b) == Len(b) \in 1 .. most /\ (Len(b) = 1 \/ SizeIn(sizes, b) <= bytes)

(* The first n numbers, and one more.                                      *)
LEMMA UpwardGrows == ASSUME NEW n \in Nat PROVE Append(Upward(n), n + 1) = Upward(n + 1)
<1>1. Upward(n) \in Seq(Nat) /\ Len(Upward(n)) = n
  BY DEF Upward
<1>2. \A k \in 1 .. n + 1 : Append(Upward(n), n + 1)[k] = k
  BY <1>1 DEF Upward
<1>3. Append(Upward(n), n + 1) = [k \in 1 .. n + 1 |-> Append(Upward(n), n + 1)[k]]
  BY <1>1
<1> QED BY <1>2, <1>3 DEF Upward

(* One more element at the end of two sequences joined.                    *)
LEMMA Joins ==
  ASSUME NEW A, NEW x \in Seq(A), NEW y \in Seq(A), NEW a \in A
  PROVE  /\ x \o Append(y, a) = Append(x \o y, a)
         /\ x \o <<a>> = Append(x, a)
         /\ x \o <<>> = x
OBVIOUS

(* The size of a batch, and of one more text in it.                        *)
LEMMA SizesIn ==
  ASSUME NEW sizes \in Seq(Nat), NEW b \in Seq(1 .. Len(sizes)), NEW i \in 1 .. Len(sizes)
  PROVE  /\ SizeIn(sizes, <<i>>) = sizes[i]
         /\ SizeIn(sizes, b) \in Int /\ SizeIn(sizes, Append(b, i)) = SizeIn(sizes, b) + sizes[i]
         /\ SizeIn(sizes, <<>>) = 0
<1> DEFINE s(x) == [k \in DOMAIN x |-> sizes[x[k]]]
<1>1. \A k \in 1 .. Len(sizes) : sizes[k] \in Int
  OBVIOUS
<1>2. s(b) \in Seq(Int) /\ s(<<i>>) \in Seq(Int) /\ Len(s(<<i>>)) = 1 /\ s(<<i>>)[1] = sizes[i]
  <2>1. \A k \in DOMAIN b : sizes[b[k]] \in Int
    BY <1>1
  <2>2. DOMAIN b = 1 .. Len(b) /\ Len(b) \in Nat
    OBVIOUS
  <2>3. sizes[i] \in Int
    BY <1>1
  <2> QED BY <2>1, <2>2, <2>3
<1>3. s(Append(b, i)) = Append(s(b), sizes[i])
  <2>0. Len(b) \in Nat
    OBVIOUS
  <2>1. Len(s(b)) = Len(b) /\ DOMAIN Append(b, i) = 1 .. Len(b) + 1 /\ Len(b) \in Nat
    BY <1>2
  <2>2. ASSUME NEW k \in 1 .. Len(b) + 1 PROVE sizes[Append(b, i)[k]] = Append(s(b), sizes[i])[k]
    <3>1. CASE k = Len(b) + 1
      <4>1. Append(b, i)[k] = i
        BY <2>1, <3>1
      <4>2. Append(s(b), sizes[i])[k] = sizes[i]
        <5> HIDE DEF s
        <5> QED BY <1>2, <2>1, <3>1
      <4> QED BY <4>1, <4>2
    <3>2. CASE k # Len(b) + 1
      <4>1. k \in 1 .. Len(b)
        BY <2>0, <3>2
      <4>2. Append(b, i)[k] = b[k]
        BY <2>1, <4>1
      <4>3. Append(s(b), sizes[i])[k] = s(b)[k]
        <5> HIDE DEF s
        <5> QED BY <1>2, <2>1, <4>1
      <4>4. s(b)[k] = sizes[b[k]]
        BY <4>1
      <4> QED BY <4>2, <4>3, <4>4
    <3> QED BY <3>1, <3>2
  <2>3. Append(s(b), sizes[i]) = [k \in 1 .. Len(b) + 1 |-> Append(s(b), sizes[i])[k]]
    <3> HIDE DEF s
    <3> QED BY <1>2, <2>1
  <2>4. s(Append(b, i)) = [k \in 1 .. Len(b) + 1 |-> sizes[Append(b, i)[k]]]
    BY <2>1
  <2> HIDE DEF s
  <2> QED BY <2>2, <2>3, <2>4
<1>4. SizeIn(sizes, <<i>>) = Total(s(<<i>>)) /\ SizeIn(sizes, b) = Total(s(b))
      /\ SizeIn(sizes, Append(b, i)) = Total(s(Append(b, i)))
  BY DEF SizeIn
<1>5. SizeIn(sizes, <<>>) = 0
  <2>1. [k \in DOMAIN <<>> |-> sizes[<<>>[k]]] = <<>>
    OBVIOUS
  <2>2. <<>> \in Seq(Int) /\ Len(<<>>) = 0
    OBVIOUS
  <2>3. PICK acc \in [0 .. 0 -> Int] : acc[0] = 0 /\ Total(<<>>) = acc[0]
    BY <2>2, TotalSteps
  <2> QED BY <2>1, <2>3 DEF SizeIn
<1> HIDE DEF s
<1>6. Total(s(<<i>>)) = sizes[i]
  BY <1>2, TotalOfOne
<1>7. Total(s(b)) \in Int /\ Total(Append(s(b), sizes[i])) = Total(s(b)) + sizes[i]
  BY <1>1, <1>2, TotalAppend
<1> QED BY <1>3, <1>4, <1>5, <1>6, <1>7

(* What holds after the first n texts.                                     *)
Batched(sizes, most, bytes, a, n) ==
  /\ FlattenSeq(a.done) \o a.batch = Upward(n)
  /\ \A j \in 1 .. Len(a.done) : BatchFits(sizes, most, bytes, a.done[j])
  /\ n # 0 => a.batch # <<>>
  /\ a.batch # <<>> => BatchFits(sizes, most, bytes, a.batch)
  /\ a.size = SizeIn(sizes, a.batch)

(* A text goes into the open batch while it fits, or else into the next    *)
(* one.                                                                    *)
LEMMA BatchedStep ==
  ASSUME NEW sizes \in Seq(Nat), NEW most \in Nat \ {0}, NEW bytes \in Nat, NEW i \in 1 .. Len(sizes),
         NEW a \in BatchState(Len(sizes)), Batched(sizes, most, bytes, a, i - 1)
  PROVE  Batched(sizes, most, bytes, NextBatch(sizes, most, bytes, a, i), i)
<1> DEFINE N == Len(sizes)
           I == 1 .. N
           b == NextBatch(sizes, most, bytes, a, i)
           full == a.batch # <<>> /\ (Len(a.batch) = most \/ a.size + sizes[i] > bytes)
           fits(x) == BatchFits(sizes, most, bytes, x)
<1>1. N \in Nat /\ i \in I /\ sizes[i] \in Nat /\ i - 1 \in Nat /\ (i - 1) + 1 = i
  OBVIOUS
<1>2. a.done \in Seq(Seq(I)) /\ a.batch \in Seq(I) /\ a.size \in Int
  BY DEF BatchState
<1>3. FlattenSeq(a.done) \in Seq(I) /\ FlattenSeq(Append(a.done, a.batch)) = FlattenSeq(a.done) \o a.batch
  <2> HIDE DEF I
  <2> QED BY <1>2, FlattenAppend
<1>4. /\ SizeIn(sizes, <<i>>) = sizes[i] /\ SizeIn(sizes, a.batch) \in Int
      /\ SizeIn(sizes, Append(a.batch, i)) = SizeIn(sizes, a.batch) + sizes[i]
  BY <1>2, SizesIn
<1>5. Append(Upward(i - 1), i) = Upward(i) /\ Upward(i - 1) \in Seq(Nat)
  <2>1. Upward(i - 1) \in Seq(Nat)
    BY <1>1 DEF Upward
  <2>2. Append(Upward(i - 1), (i - 1) + 1) = Upward((i - 1) + 1)
    BY <1>1, UpwardGrows
  <2> QED BY <1>1, <2>1, <2>2
<1>6. FlattenSeq(a.done) \o a.batch = Upward(i - 1) /\ (\A j \in 1 .. Len(a.done) : fits(a.done[j]))
      /\ (a.batch # <<>> => fits(a.batch)) /\ a.size = SizeIn(sizes, a.batch)
  BY DEF Batched
<1>7. CASE full
  <2>1. b.done = Append(a.done, a.batch) /\ b.batch = <<i>> /\ b.size = sizes[i]
    BY <1>7 DEF NextBatch
  <2>2. FlattenSeq(b.done) \o b.batch = Upward(i)
    <3>1. Upward(i - 1) \o <<i>> = Append(Upward(i - 1), i)
      <4>1. i \in Nat
        BY <1>1
      <4> QED BY <1>5, <4>1, Joins
    <3> QED BY <1>3, <1>5, <1>6, <2>1, <3>1
  <2>3. ASSUME NEW j \in 1 .. Len(b.done) PROVE fits(b.done[j])
    <3> HIDE DEF I, b
    <3>1. Len(b.done) = Len(a.done) + 1 /\ Len(a.done) \in Nat
      BY <1>2, <2>1
    <3>2. CASE j = Len(a.done) + 1
      <4>1. b.done[j] = a.batch
        BY <1>2, <2>1, <3>1, <3>2
      <4> QED BY <1>6, <1>7, <4>1
    <3>3. CASE j # Len(a.done) + 1
      <4>1. j \in 1 .. Len(a.done)
        BY <3>1, <3>3
      <4>2. b.done[j] = a.done[j]
        BY <1>2, <2>1, <3>1, <4>1
      <4> QED BY <1>6, <4>1, <4>2
    <3> QED BY <3>2, <3>3
  <2>4. fits(b.batch) /\ b.batch # <<>>
    <3>1. Len(<<i>>) = 1 /\ <<i>> # <<>> /\ 1 \in 1 .. most
      OBVIOUS
    <3> QED BY <2>1, <3>1 DEF BatchFits
  <2> HIDE DEF b
  <2>5. Batched(sizes, most, bytes, b, i)
    BY <1>4, <2>1, <2>2, <2>3, <2>4 DEF Batched
  <2> QED BY <2>5 DEF b
<1>8. CASE ~full
  <2>1. b.done = a.done /\ b.batch = Append(a.batch, i) /\ b.size = a.size + sizes[i]
    <3>1. b = [a EXCEPT !.batch = Append(@, i), !.size = @ + sizes[i]]
      BY <1>8 DEF NextBatch
    <3> QED BY <3>1 DEF BatchState
  <2>2. FlattenSeq(b.done) \o b.batch = Upward(i)
    <3>1. FlattenSeq(a.done) \o Append(a.batch, i) = Append(FlattenSeq(a.done) \o a.batch, i)
      <4> DEFINE x == FlattenSeq(a.done)
                 y == a.batch
      <4>1. i \in I /\ x \in Seq(I) /\ y \in Seq(I)
        BY <1>1, <1>2, <1>3
      <4> HIDE DEF I, x, y
      <4>2. x \o Append(y, i) = Append(x \o y, i)
        BY <4>1
      <4> QED BY <4>2 DEF x, y
    <3> QED BY <1>5, <1>6, <2>1, <3>1
  <2>3. Len(b.batch) = Len(a.batch) + 1 /\ Len(a.batch) \in Nat /\ b.batch # <<>>
    <3> DEFINE y == a.batch
    <3>1. y \in Seq(I)
      BY <1>2
    <3> HIDE DEF y, I
    <3>2. Len(Append(y, i)) = Len(y) + 1 /\ Len(y) \in Nat /\ Append(y, i) # <<>>
      BY <3>1
    <3> HIDE DEF b
    <3> QED BY <2>1, <3>2 DEF y
  <2>4. fits(b.batch)
    <3>1. CASE a.batch = <<>>
      <4>1. Len(b.batch) = 1
        BY <2>3, <3>1
      <4> HIDE DEF b
      <4> QED BY <4>1 DEF BatchFits
    <3>2. CASE a.batch # <<>>
      <4>1. Len(a.batch) # most /\ a.size + sizes[i] <= bytes /\ Len(a.batch) \in 1 .. most
        BY <1>1, <1>2, <1>6, <1>8, <3>2 DEF BatchFits
      <4>2. SizeIn(sizes, b.batch) <= bytes
        <5> HIDE DEF b
        <5> QED BY <1>4, <1>6, <2>1, <4>1
      <4>3. Len(b.batch) \in 1 .. most
        <5> HIDE DEF b
        <5> QED BY <2>3, <4>1
      <4> QED BY <4>2, <4>3 DEF BatchFits
    <3> QED BY <3>1, <3>2
  <2> HIDE DEF b
  <2>5. Batched(sizes, most, bytes, b, i)
    BY <1>4, <1>6, <2>1, <2>2, <2>3, <2>4 DEF Batched
  <2> QED BY <2>5 DEF b
<1> QED BY <1>7, <1>8

(* Every text is in one batch, in order, and no batch is too large.        *)
LEMMA BatchesStay == ASSUME Computed PROVE ChunksStay
<1> SUFFICES ASSUME Of("batch") PROVE ChunksStay
  BY DEF ChunksStay
<1> DEFINE sizes == input.sizes
           most == input.most
           bytes == input.bytes
           N == Len(sizes)
           I == 1 .. N
<1>1. result = Batches(sizes, most, bytes) /\ input \in Sizes
  BY DEF Computed, Has, Of
<1>2. sizes \in Seq(Nat) /\ most \in Nat \ {0} /\ bytes \in Nat
  BY <1>1, InputAssumption
<1> HIDE DEF sizes, most, bytes
<1>3. N \in Nat /\ DOMAIN sizes = 1 .. N
  BY <1>2
<1>4. PICK acc :
        /\ acc[0] = [done |-> <<>>, batch |-> <<>>, size |-> 0]
        /\ \A n \in 0 .. N : acc[n] \in BatchState(N)
        /\ \A n \in 1 .. N : acc[n] = NextBatch(sizes, most, bytes, acc[n - 1], n)
        /\ Batches(sizes, most, bytes) = IF acc[N].batch = <<>> THEN acc[N].done
                                         ELSE Append(acc[N].done, acc[N].batch)
  BY <1>2, BatchSteps
<1> HIDE DEF N
<1> DEFINE S == {n \in 0 .. N : Batched(sizes, most, bytes, acc[n], n)}
<1>5. 0 \in S
  <2>1. SizeIn(sizes, <<>>) = 0
    <3>1. CASE N = 0
      <4>1. [k \in DOMAIN <<>> |-> sizes[<<>>[k]]] = <<>>
        OBVIOUS
      <4>2. <<>> \in Seq(Int) /\ Len(<<>>) = 0
        OBVIOUS
      <4>3. PICK x \in [0 .. 0 -> Int] : x[0] = 0 /\ Total(<<>>) = x[0]
        BY <4>2, TotalSteps
      <4> QED BY <4>1, <4>3 DEF SizeIn
    <3>2. CASE N # 0
      <4>1. 1 \in 1 .. Len(sizes) /\ <<>> \in Seq(1 .. Len(sizes))
        BY <1>3, <3>2 DEF N
      <4> QED BY <1>2, <4>1, SizesIn
    <3> QED BY <3>1, <3>2
  <2>2. <<>> \o <<>> = Upward(0)
    BY DEF Upward
  <2>3. acc[0].done = <<>> /\ acc[0].batch = <<>> /\ acc[0].size = 0 /\ 0 \in 0 .. N /\ 1 .. Len(<<>>) = {}
    BY <1>3, <1>4
  <2>4. Batched(sizes, most, bytes, acc[0], 0)
    BY <2>1, <2>2, <2>3, FlattenNone DEF Batched
  <2> QED BY <2>3, <2>4
<1>6. ASSUME NEW n \in 0 .. N - 1, n \in S PROVE n + 1 \in S
  <2>1. n + 1 \in 1 .. N /\ (n + 1) - 1 = n /\ n \in 0 .. N /\ n + 1 \in 0 .. N
    BY <1>3
  <2>2. acc[n] \in BatchState(Len(sizes)) /\ acc[n + 1] = NextBatch(sizes, most, bytes, acc[n], n + 1)
    BY <1>4, <2>1 DEF N
  <2>3. Batched(sizes, most, bytes, acc[n], (n + 1) - 1)
    BY <1>6, <2>1
  <2>4. Batched(sizes, most, bytes, acc[n + 1], n + 1)
    <3>1. n + 1 \in 1 .. Len(sizes)
      BY <2>1 DEF N
    <3> HIDE DEF S
    <3> QED BY <1>2, <2>2, <2>3, <3>1, BatchedStep
  <2> QED BY <2>1, <2>4
<1>7. N \in S
  <2> HIDE DEF S
  <2>1. \A n \in 0 .. N : n \in S
    BY <1>3, <1>5, <1>6, UpTo
  <2> QED BY <1>3, <2>1
<1> DEFINE a == acc[N]
<1>8. Batched(sizes, most, bytes, a, N) /\ a \in BatchState(N)
      /\ result = IF a.batch = <<>> THEN a.done ELSE Append(a.done, a.batch)
  BY <1>1, <1>3, <1>4, <1>7
<1> HIDE DEF a
<1>9. a.done \in Seq(Seq(I)) /\ a.batch \in Seq(I)
  BY <1>8 DEF BatchState
<1> HIDE DEF I
<1>10. FlattenSeq(a.done) \in Seq(I) /\ FlattenSeq(Append(a.done, a.batch)) = FlattenSeq(a.done) \o a.batch
  BY <1>9, FlattenAppend
<1>11. FlattenSeq(result) = Upward(N)
  <2>1. CASE a.batch = <<>>
    <3>1. FlattenSeq(a.done) \o <<>> = FlattenSeq(a.done)
      BY <1>10
    <3> QED BY <1>8, <2>1, <3>1 DEF Batched
  <2>2. CASE a.batch # <<>>
    BY <1>8, <1>10, <2>2 DEF Batched
  <2> QED BY <2>1, <2>2
<1>12. ASSUME NEW b \in Range(result) PROVE BatchFits(sizes, most, bytes, b)
  <2>1. \A j \in 1 .. Len(a.done) : BatchFits(sizes, most, bytes, a.done[j])
    BY <1>8 DEF Batched
  <2>2. PICK j \in DOMAIN result : b = result[j]
    BY DEF Range
  <2>3. CASE a.batch = <<>>
    <3>1. result = a.done /\ DOMAIN a.done = 1 .. Len(a.done)
      BY <1>8, <1>9, <2>3
    <3> QED BY <2>1, <2>2, <3>1
  <2>4. CASE a.batch # <<>>
    <3>1. result = Append(a.done, a.batch) /\ BatchFits(sizes, most, bytes, a.batch)
      BY <1>8, <2>4 DEF Batched
    <3>2. DOMAIN result = 1 .. Len(a.done) + 1 /\ Len(a.done) \in Nat
      BY <1>9, <3>1
    <3>3. CASE j = Len(a.done) + 1
      <4>1. b = a.batch
        BY <1>9, <2>2, <3>1, <3>3
      <4> QED BY <3>1, <4>1
    <3>4. CASE j # Len(a.done) + 1
      <4>1. j \in 1 .. Len(a.done)
        BY <2>2, <3>2, <3>4
      <4>2. b = a.done[j]
        BY <1>9, <2>2, <3>1, <4>1
      <4> QED BY <2>1, <4>1, <4>2
    <3> QED BY <3>3, <3>4
  <2> QED BY <2>3, <2>4
<1>13. Upward(N) = [i \in DOMAIN sizes |-> i]
  BY <1>3 DEF Upward
<1>14. /\ FlattenSeq(result) = [i \in DOMAIN sizes |-> i]
       /\ \A b \in Range(result) :
            Len(b) \in 1 .. most /\ (Len(b) = 1 \/ Total([i \in DOMAIN b |-> sizes[b[i]]]) <= bytes)
  BY <1>11, <1>12, <1>13 DEF BatchFits, SizeIn
<1> QED BY <1>14 DEF ChunksStay, sizes, most, bytes
-----------------------------------------------------------------------------
(* A product with a number that is not negative grows with the other one.  *)
LEMMA Multiples ==
  ASSUME NEW s \in Nat, NEW a \in Int, NEW b \in Int, a <= b
  PROVE  s * a <= s * b
<1> DEFINE d == b - a
<1>1. d \in Nat /\ b = a + d
  OBVIOUS
<1> HIDE DEF d
<1>2. s * d >= 0 /\ s * (a + d) = s * a + s * d /\ s * a \in Int /\ s * d \in Int
  BY <1>1
<1> QED BY <1>1, <1>2

(* Of two numbers, the one in a later interval of s is greater.            *)
LEMMA Quotients ==
  ASSUME NEW c \in Nat, NEW l \in Nat, NEW s \in Nat \ {0}
  PROVE  /\ c \div s \in Nat
         /\ c \div s > l \div s => c > l
         /\ c < 64 * s => c \div s <= 63
<1> DEFINE a == c \div s
           b == l \div s
<1>1. a \in Nat /\ s * a <= c /\ b \in Nat /\ l < s * b + s
  OBVIOUS
<1> HIDE DEF a, b
<1>2. ASSUME a > b PROVE c > l
  <2>1. s * (b + 1) <= s * a
    BY <1>1, <1>2, Multiples
  <2>2. s * (b + 1) = s * b + s /\ s * b \in Int /\ s * a \in Int
    BY <1>1
  <2> QED BY <1>1, <2>1, <2>2
<1>3. ASSUME c < 64 * s PROVE a <= 63
  <2> SUFFICES ASSUME a >= 64 PROVE FALSE
    BY <1>1
  <2>1. s * 64 <= s * a
    BY <1>1, Multiples
  <2>2. s * a \in Int
    BY <1>1
  <2> QED BY <1>1, <1>3, <2>1, <2>2
<1> QED BY <1>1, <1>2, <1>3 DEF a, b

(* Rounding up.                                                            *)
LEMMA RoundsUp ==
  ASSUME NEW n \in Nat \ {0}, NEW d \in Nat \ {0}
  PROVE  -((-n) \div d) \in Nat \ {0} /\ d * (-((-n) \div d)) >= n /\ d * (-((-n) \div d) - 1) < n
<1> DEFINE q == (-n) \div d
<1>1. q \in Int /\ d * q <= -n /\ -n < d * q + d
  OBVIOUS
<1> HIDE DEF q
<1>2. -q > 0
  <2> SUFFICES ASSUME q >= 0 PROVE FALSE
    BY <1>1
  <2>1. d * 0 <= d * q
    BY <1>1, Multiples
  <2>2. d * q \in Int /\ d * 0 = 0
    BY <1>1
  <2> QED BY <1>1, <2>1, <2>2
<1>3. d * (-q) = -(d * q) /\ d * (-q - 1) = -(d * q) - d /\ d * q \in Int
  BY <1>1
<1>4. -q \in Nat \ {0} /\ d * (-q) >= n /\ d * (-q - 1) < n
  BY <1>1, <1>2, <1>3
<1> QED BY <1>4 DEF q

NextReport(total, step, sent, completed) ==
  IF completed = total \/ (IF sent = <<>> THEN TRUE ELSE completed \div step > Last(sent) \div step)
  THEN Append(sent, completed) ELSE sent

(* After batch n, q[n + 1] is completed and acc[n + 1] is sent.             *)
Sent(total, batch, M, q, acc) ==
  /\ Len(q) = M + 1 /\ q[1] = 0 /\ q[M + 1] = total /\ \A n \in 1 .. M : q[n] < total
  /\ acc \in [0 .. M + 1 -> Seq(Nat)] /\ acc[0] = <<>>
  /\ \A n \in 1 .. M + 1 : acc[n] = NextReport(total, Step(total), acc[n - 1], q[n])
  /\ Reports(total, batch) = acc[M + 1]

(* The reports of a rerank are made batch by batch.                        *)
LEMMA ReportSteps ==
  ASSUME NEW total \in Nat \ {0}, NEW batch \in Nat \ {0}
  PROVE  \E M \in Nat \ {0}, q \in Seq(Nat) : \E acc : Sent(total, batch, M, q, acc)
<1> DEFINE step == Step(total)
           M == -((-total) \div batch)
           after(k) == IF k * batch < total THEN k * batch ELSE total
           q == <<0>> \o [k \in 1 .. M |-> after(k)]
           N == Len(q)
           A == Seq(Nat)
           b == <<>>
           D == SUBSET (DOMAIN q)
           due(sent, c) == c = total \/ (IF sent = <<>> THEN TRUE ELSE c \div step > Last(sent) \div step)
           report(sent, c) == IF due(sent, c) THEN Append(sent, c) ELSE sent
           Is(f) == f = [t \in D |-> IF t = {} THEN b ELSE report(f[t \ {Max(t)}], q[Max(t)])]
           iter == CHOOSE f : Is(f)
           G == [p \in (1 .. N) \X A |-> NextReport(total, step, p[2], q[p[1]])]
<1>1. Reports(total, batch) = iter[DOMAIN q]
  BY DEF Reports, FoldLeft, MapThenFoldSet
<1>2. M \in Nat \ {0} /\ batch * M >= total /\ batch * (M - 1) < total
  BY RoundsUp
<1> HIDE DEF M
<1>3. \A k \in 1 .. M : after(k) \in Nat
  <2>1. \A k \in 1 .. M : k * batch \in Nat
    BY <1>2
  <2> QED BY <2>1
<1>4. q \in Seq(Nat) /\ Len(q) = M + 1 /\ DOMAIN q = 1 .. M + 1 /\ q[1] = 0 /\ \A k \in 1 .. M : q[k + 1] = after(k)
  <2> DEFINE r == [k \in 1 .. M |-> after(k)]
  <2>1. r \in Seq(Nat) /\ Len(r) = M /\ \A k \in 1 .. M : r[k] = after(k)
    <3> HIDE DEF after
    <3> QED BY <1>2, <1>3
  <2> HIDE DEF r
  <2>2. <<0>> \o r \in Seq(Nat) /\ Len(<<0>> \o r) = M + 1 /\ (<<0>> \o r)[1] = 0
        /\ \A k \in 1 .. M : (<<0>> \o r)[k + 1] = r[k]
    BY <1>2, <2>1
  <2>3. q = <<0>> \o r
    BY DEF r
  <2> HIDE DEF q, after
  <2> QED BY <1>2, <2>1, <2>2, <2>3
<1>5. after(M) = total
  <2>1. M * batch = batch * M
    BY <1>2
  <2> QED BY <1>2, <2>1
<1>6. ASSUME NEW k \in 1 .. M - 1 PROVE after(k) < total
  <2>1. batch * k <= batch * (M - 1)
    BY <1>2, Multiples
  <2>2. k * batch = batch * k /\ k * batch \in Int /\ batch * (M - 1) \in Int
    BY <1>2
  <2>3. k * batch < total
    BY <1>2, <2>1, <2>2
  <2> QED BY <2>3
<1> HIDE DEF q, after
<1>7. q[M + 1] = total /\ \A n \in 1 .. M : q[n] < total
  <2>1. ASSUME NEW n \in 1 .. M PROVE q[n] < total
    <3>1. CASE n = 1
      BY <1>4, <3>1
    <3>2. CASE n # 1
      <4>1. n - 1 \in 1 .. M - 1 /\ n - 1 \in 1 .. M /\ (n - 1) + 1 = n
        BY <1>2, <3>2
      <4>2. q[(n - 1) + 1] = after(n - 1)
        BY <1>4, <4>1
      <4> QED BY <1>6, <4>1, <4>2
    <3> QED BY <3>1, <3>2
  <2> QED BY <1>2, <1>4, <1>5, <2>1
<1>8. N \in Nat /\ DOMAIN q = 1 .. N /\ b \in A /\ \A i \in 1 .. N : q[i] \in Nat
  BY <1>4
<1>9. \A x, c : report(x, c) = NextReport(total, step, x, c)
  BY DEF NextReport
<1>10. ASSUME NEW x \in A, NEW c \in Nat PROVE NextReport(total, step, x, c) \in A
  BY DEF NextReport
<1> HIDE DEF N, A, b, report, step
<1>11. G \in [(1 .. N) \X A -> A]
  BY <1>8, <1>10
<1>12. ASSUME NEW n \in 1 .. N, NEW x \in A PROVE G[<<n, x>>] = report(x, q[n])
  BY <1>9
<1>13. Is(iter)
  <2>1. PICK f : FoldOf(f, A, b, N, G)
    <3> HIDE DEF G
    <3> QED BY <1>8, <1>11, FoldExists
  <2> HIDE DEF G
  <2>2. ShapeOf(f, A, b, N, G) /\ D = SUBSET (1 .. N)
    BY <1>8, <2>1, FoldShape
  <2>3. \A t \in D : f[t] = IF t = {} THEN b ELSE report(f[t \ {Max(t)}], q[Max(t)])
    BY <1>12, <2>2 DEF ShapeOf
  <2>4. Is(f)
    <3>1. f \in [D -> A]
      BY <2>2 DEF ShapeOf
    <3> HIDE DEF D
    <3> QED BY <2>3, <3>1
  <2> QED BY <2>4
<1> HIDE DEF G
<1>14. Iterates(iter, A, b, N, G)
  <2> HIDE DEF iter
  <2>1. iter[{}] = b
    BY <1>13
  <2>2. ASSUME NEW t \in SUBSET (1 .. N), t # {}, iter[t \ {Max(t)}] \in A
        PROVE  iter[t] = G[<<Max(t), iter[t \ {Max(t)}]>>]
    <3>1. Max(t) \in 1 .. N
      BY <1>8, <2>2, MaxOf
    <3>2. iter[t] = report(iter[t \ {Max(t)}], q[Max(t)])
      BY <1>8, <1>13, <2>2
    <3> QED BY <1>12, <2>2, <3>1, <3>2
  <2> QED BY <2>1, <2>2 DEF Iterates
<1> HIDE DEF iter
<1>15. PICK acc : StepsOf(acc, A, b, N, G, iter[1 .. N])
  BY <1>8, <1>11, <1>14, FoldSteps
<1>16. acc \in [0 .. N -> A] /\ acc[0] = b /\ acc[N] = iter[DOMAIN q]
  BY <1>8, <1>15 DEF StepsOf
<1>17. ASSUME NEW n \in 1 .. N PROVE acc[n] = NextReport(total, step, acc[n - 1], q[n])
  <2>1. n - 1 \in 0 .. N /\ acc[n] = G[<<n, acc[n - 1]>>]
    BY <1>8, <1>15 DEF StepsOf
  <2> QED BY <1>9, <1>12, <1>16, <2>1
<1>18. N = M + 1
  BY <1>4 DEF N
<1>19. acc \in [0 .. M + 1 -> Seq(Nat)] /\ acc[0] = <<>> /\ Reports(total, batch) = acc[M + 1]
       /\ \A n \in 1 .. M + 1 : acc[n] = NextReport(total, Step(total), acc[n - 1], q[n])
  BY <1>1, <1>16, <1>17, <1>18 DEF A, b, step
<1>20. Sent(total, batch, M, q, acc)
  BY <1>4, <1>7, <1>19 DEF Sent
<1> QED BY <1>2, <1>4, <1>7, <1>20

(* The reports of some of the work.                                        *)
Reported(total, step, sent) ==
  /\ sent \in Seq(Nat) /\ Len(sent) >= 1 /\ sent[1] = 0 /\ Increases(sent)
  /\ Len(sent) <= Last(sent) \div step + 1 /\ Last(sent) < total

(* The last element of a sequence with one more.                           *)
LEMMA LastOfAppend ==
  ASSUME NEW A, NEW s \in Seq(A), NEW c \in A
  PROVE  /\ Append(s, c) \in Seq(A) /\ Len(Append(s, c)) = Len(s) + 1 /\ Last(Append(s, c)) = c
         /\ Len(s) >= 1 => Append(s, c)[1] = s[1] /\ Last(s) \in A
BY DEF Last

(* A sequence goes on increasing if the next element is greater than the   *)
(* last.                                                                   *)
LEMMA AppendIncreases ==
  ASSUME NEW s \in Seq(Nat), NEW c \in Nat, Len(s) >= 1, Increases(s), Last(s) < c
  PROVE  Increases(Append(s, c))
<1> DEFINE n == Len(s)
           x == Append(s, c)
<1>1. n \in Nat /\ n >= 1 /\ DOMAIN x = 1 .. n + 1 /\ x[n + 1] = c /\ DOMAIN s = 1 .. n
      /\ \A i \in 1 .. n : x[i] = s[i] /\ s[i] \in Nat
  OBVIOUS
<1>2. \A i \in 1 .. n : s[i] <= s[n]
  <2> HIDE DEF n, x
  <2> SUFFICES ASSUME NEW i \in 1 .. n, i # n PROVE s[i] <= s[n]
    BY <1>1
  <2>1. i \in DOMAIN s /\ n \in DOMAIN s /\ i < n
    BY <1>1
  <2>2. s[i] < s[n]
    BY <2>1 DEF Increases
  <2> QED BY <1>1, <2>2
<1>3. s[n] < c
  BY DEF Last
<1> HIDE DEF x, n
<1>4. ASSUME NEW i \in 1 .. n + 1, NEW j \in 1 .. n + 1, i < j PROVE x[i] < x[j]
  <2>1. i \in 1 .. n /\ x[i] = s[i]
    BY <1>1, <1>4
  <2>2. CASE j = n + 1
    <3>1. s[i] \in Nat /\ s[n] \in Nat /\ s[i] <= s[n]
      BY <1>1, <1>2, <2>1
    <3> QED BY <1>1, <1>3, <2>1, <2>2, <3>1
  <2>3. CASE j # n + 1
    <3>1. j \in 1 .. n /\ x[j] = s[j]
      BY <1>1, <2>3
    <3>2. s[i] < s[j]
      BY <1>1, <1>4, <2>1, <3>1 DEF Increases
    <3> QED BY <2>1, <3>1, <3>2
  <2> QED BY <2>2, <2>3
<1> QED BY <1>1, <1>4 DEF Increases, x

(* Each report but the last passes a step of a 64th, so there are 65 at    *)
(* most.                                                                   *)
LEMMA ReportsGo ==
  ASSUME NEW total \in Nat \ {0}, NEW batch \in Nat \ {0}
  PROVE  /\ Reports(total, batch) \in Seq(Nat) /\ Len(Reports(total, batch)) <= 65
         /\ Reports(total, batch)[1] = 0 /\ Last(Reports(total, batch)) = total /\ Increases(Reports(total, batch))
<1> DEFINE sends == Reports(total, batch)
           step == Step(total)
<1>1. sends = Reports(total, batch)
  OBVIOUS
<1>2. total \in Nat \ {0} /\ batch \in Nat \ {0}
  OBVIOUS
<1> HIDE DEF sends
<1>3. step \in Nat \ {0} /\ 64 * step >= total
  <2>1. 64 \in Nat \ {0}
    OBVIOUS
  <2> QED BY <1>2, <2>1, RoundsUp DEF Step
<1>17. PICK M \in Nat \ {0}, q \in Seq(Nat) : \E acc : Sent(total, batch, M, q, acc)
  BY <1>2, ReportSteps
<1>18. PICK acc : Sent(total, batch, M, q, acc)
  BY <1>17
<1>4. /\ Len(q) = M + 1 /\ q[1] = 0 /\ q[M + 1] = total /\ \A n \in 1 .. M : q[n] < total
      /\ acc \in [0 .. M + 1 -> Seq(Nat)] /\ acc[0] = <<>>
      /\ \A n \in 1 .. M + 1 : acc[n] = NextReport(total, Step(total), acc[n - 1], q[n])
      /\ Reports(total, batch) = acc[M + 1]
  BY <1>18 DEF Sent
<1>5. \A n \in 1 .. M + 1 : q[n] \in Nat
  <2>1. q \in Seq(Nat) /\ Len(q) = M + 1
    BY <1>4
  <2>2. \A n \in 1 .. Len(q) : q[n] \in Nat
    BY ONLY <2>1
  <2> QED BY <2>1, <2>2
<1> HIDE DEF step
<1> DEFINE S == {n \in 0 .. M : n # 0 => Reported(total, step, acc[n])}
<1>6. 0 \in S
  OBVIOUS
<1>7. ASSUME NEW n \in 0 .. M - 1, n \in S PROVE n + 1 \in S
  <2>1. n + 1 \in 1 .. M /\ n + 1 \in 1 .. M + 1 /\ (n + 1) - 1 = n /\ n \in 0 .. M + 1
    OBVIOUS
  <2> DEFINE c == q[n + 1]
             sent == acc[n]
  <2>2. c \in Nat /\ c < total /\ c # total
    <3>1. c \in Nat
      BY <1>5, <2>1
    <3>2. c < total
      BY <1>4, <2>1
    <3> HIDE DEF c
    <3> QED BY <1>2, <3>1, <3>2
  <2>3. acc[n + 1] = NextReport(total, step, sent, c) /\ sent \in Seq(Nat)
    BY <1>4, <2>1 DEF step
  <2>4. Reported(total, step, acc[n + 1])
    <3>1. CASE n = 0
      <4>1. sent = <<>> /\ c = 0
        BY <1>4, <3>1
      <4>2. acc[n + 1] = <<0>>
        <5>1. Append(<<>>, 0) = <<0>>
          OBVIOUS
        <5> HIDE DEF sent, c
        <5> QED BY <2>3, <4>1, <5>1 DEF NextReport
      <4>3. <<0>> \in Seq(Nat) /\ Len(<<0>>) = 1 /\ <<0>>[1] = 0 /\ Increases(<<0>>) /\ Last(<<0>>) = 0
        BY DEF Increases, Last
      <4>4. 0 \div step \in Nat
        BY <1>3, Quotients
      <4> QED BY <1>2, <4>2, <4>3, <4>4 DEF Reported
    <3>2. CASE n # 0
      <4>1. Reported(total, step, sent)
        BY <1>7, <3>2
      <4> HIDE DEF c, sent
      <4>2. sent # <<>> /\ Last(sent) \in Nat
        <5>1. Len(sent) >= 1 /\ Len(sent) \in Nat
          BY <2>3, <4>1 DEF Reported
        <5> QED BY <2>3, <5>1 DEF Last
      <4>3. CASE c \div step > Last(sent) \div step
        <5>1. acc[n + 1] = Append(sent, c)
          BY <2>3, <4>3 DEF NextReport
        <5>2. c > Last(sent) /\ c \div step \in Nat /\ Last(sent) \div step \in Nat
          BY <1>3, <2>2, <4>2, <4>3, Quotients
        <5>3. Increases(Append(sent, c))
          BY <2>2, <4>1, <4>2, <5>2, AppendIncreases DEF Reported
        <5>4. /\ Append(sent, c) \in Seq(Nat) /\ Len(Append(sent, c)) = Len(sent) + 1 /\ Last(Append(sent, c)) = c
              /\ Append(sent, c)[1] = sent[1] /\ Len(sent) \in Nat
          BY <2>2, <2>3, <4>1, LastOfAppend DEF Reported
        <5> QED BY <2>2, <4>1, <4>3, <5>1, <5>2, <5>3, <5>4 DEF Reported
      <4>4. CASE ~(c \div step > Last(sent) \div step)
        <5>1. acc[n + 1] = sent
          BY <2>2, <2>3, <4>2, <4>4 DEF NextReport
        <5> QED BY <4>1, <5>1
      <4> QED BY <4>3, <4>4
    <3> QED BY <3>1, <3>2
  <2> HIDE DEF c, sent
  <2> QED BY <2>1, <2>4
<1>8. Reported(total, step, acc[M])
  <2> HIDE DEF S
  <2>1. \A n \in 0 .. M : n \in S
    BY <1>6, <1>7, UpTo
  <2>2. M \in S /\ M # 0
    BY <2>1
  <2> QED BY <2>2 DEF S
<1>9. sends = Append(acc[M], total)
  <2>1. M + 1 \in 1 .. M + 1 /\ (M + 1) - 1 = M
    OBVIOUS
  <2>2. acc[M + 1] = NextReport(total, Step(total), acc[M], total)
    BY <1>4, <2>1
  <2> QED BY <1>1, <1>4, <2>2 DEF NextReport
<1> DEFINE sent == acc[M]
<1> HIDE DEF sent
<1>10. Reported(total, step, sent) /\ sends = Append(sent, total) /\ sent \in Seq(Nat) /\ Len(sent) \in Nat
  BY <1>8, <1>9 DEF sent, Reported
<1>11. Last(sent) \in Nat /\ Last(sent) < 64 * step
  <2>1. Last(sent) \in Nat
    BY <1>10, <1>2, LastOfAppend DEF Reported
  <2>2. Last(sent) < total
    BY <1>10 DEF Reported
  <2> QED BY <1>2, <1>3, <2>1, <2>2
<1>12. Last(sent) \div step <= 63 /\ Last(sent) \div step \in Nat
  BY <1>3, <1>11, Quotients
<1>13. /\ Len(sends) = Len(sent) + 1 /\ Last(sends) = total /\ sends[1] = sent[1]
  BY <1>2, <1>10, LastOfAppend DEF Reported
<1>14. Increases(sends)
  BY <1>2, <1>10, AppendIncreases DEF Reported
<1>15. Len(sends) <= 65 /\ sends[1] = 0
  BY <1>10, <1>12, <1>13 DEF Reported
<1>16. sends \in Seq(Nat)
  BY <1>2, <1>10, LastOfAppend
<1> QED BY <1>13, <1>14, <1>15, <1>16 DEF sends

(* The reports go from nothing to all.                                     *)
LEMMA ReportsStay == ASSUME Computed PROVE ReportsGoOn
<1> SUFFICES ASSUME Of("progress") PROVE
      result[1] = 0 /\ Last(result) = input.total /\ Increases(result) /\ Len(result) <= 65
  BY DEF ReportsGoOn
<1>1. result = Reports(input.total, input.batch) /\ input \in Loads
  BY DEF Computed, Has, Of
<1>2. input.total \in Nat \ {0} /\ input.batch \in Nat \ {0}
  BY <1>1, InputAssumption
<1> QED BY <1>1, <1>2, ReportsGo

(* None is more than the last.                                             *)
LEMMA ReportsFit ==
  ASSUME NEW total \in Nat \ {0}, NEW batch \in Nat \ {0}, NEW c \in Range(Reports(total, batch))
  PROVE  c \in 0 .. total
<1> DEFINE s == Reports(total, batch)
           n == Len(s)
<1>1. s \in Seq(Nat) /\ Last(s) = total /\ Increases(s)
  BY ReportsGo
<1>2. PICK i \in DOMAIN s : c = s[i]
  BY DEF Range
<1> HIDE DEF s
<1>3. n \in Nat /\ DOMAIN s = 1 .. n /\ i \in 1 .. n /\ s[i] \in Nat /\ n \in DOMAIN s
  BY <1>1
<1>4. s[n] = total
  BY <1>1 DEF Last
<1>5. CASE i = n
  BY <1>2, <1>3, <1>4, <1>5
<1>6. CASE i < n
  BY <1>1, <1>2, <1>3, <1>4, <1>6 DEF Increases
<1> QED BY <1>3, <1>5, <1>6

(* A job as it is answered is a job to its readers.                        *)
LEMMA AnswersAccepted == ASSUME Computed PROVE AnswersFit
<1> SUFFICES ASSUME Of("answer") PROVE JobAccepted(result)
  BY DEF AnswersFit
<1>1. result = Answer(input.status, input.progress) /\ input \in Answers
  BY DEF Computed, Has, Of
<1>2. input.status \in {"queued", "running", "succeeded", "failed", "timed_out", "cancelled"}
  BY <1>1, InputAssumption
<1>3. ASSUME NEW k \in DOMAIN result.progress
      PROVE  LET p == result.progress[k] IN 0 <= p.completed /\ p.completed <= p.total /\ p.total >= 1
  <2>1. result.progress = input.progress
    BY <1>1 DEF Answer
  <2>2. input.progress # <<>>
    BY <1>3, <2>1
  <2>3. PICK l \in Loads : \E c \in Range(Reports(l.total, l.batch)) :
          input.progress = <<[completed |-> c, total |-> l.total]>>
    BY <1>1, <2>2, InputAssumption
  <2>4. l.total \in Nat \ {0} /\ l.batch \in Nat \ {0}
    BY InputAssumption
  <2>5. PICK c \in Range(Reports(l.total, l.batch)) :
          input.progress = <<[completed |-> c, total |-> l.total]>>
    BY <2>3
  <2>6. c \in 0 .. l.total
    BY <2>4, ReportsFit
  <2>7. result.progress[k] = [completed |-> c, total |-> l.total]
    BY <1>3, <2>1, <2>5
  <2> QED BY <2>4, <2>6, <2>7
<1>4. /\ result.status \in {"queued", "running", "succeeded", "failed", "timed_out", "cancelled"}
      /\ (result.status = "succeeded") = result.result
      /\ (result.status \in {"failed", "timed_out"}) = result.error
  BY <1>1, <1>2 DEF Answer
<1> QED BY <1>3, <1>4 DEF JobAccepted
-----------------------------------------------------------------------------
(* A finite set stands in order in one of its sequences, if any two of its *)
(* elements do.                                                            *)
Ordered(S, R) ==
  /\ IsFiniteSet(S)
  /\ \A a, b \in S : a # b => <<a, b>> \in R \/ <<b, a>> \in R
  /\ \A a, b, c \in S : <<a, b>> \in R /\ <<b, c>> \in R => <<a, c>> \in R
InOrderOf(seq, R) == \A i, j \in DOMAIN seq : i < j => <<seq[i], seq[j]>> \in R

(* Of finitely many elements any two of which are in order, one is the     *)
(* last.                                                                   *)
LEMMA GreatestExists ==
  ASSUME NEW S, NEW R, Ordered(S, R)
  PROVE  \A n \in Nat : \A T \in SUBSET S :
           T # {} /\ Cardinality(T) = n => \E m \in T : \A a \in T \ {m} : <<a, m>> \in R
<1> DEFINE Last1(T) == \E m \in T : \A a \in T \ {m} : <<a, m>> \in R
           K == {n \in Nat : \A T \in SUBSET S : T # {} /\ Cardinality(T) = n => Last1(T)}
<1>1. 0 \in K
  <2> SUFFICES ASSUME NEW T \in SUBSET S, T # {}, Cardinality(T) = 0 PROVE FALSE
    OBVIOUS
  <2>1. IsFiniteSet(T)
    BY FS_Subset DEF Ordered
  <2> QED BY <2>1, FS_EmptySet
<1>2. ASSUME NEW n \in Nat, n \in K PROVE n + 1 \in K
  <2> SUFFICES ASSUME NEW T \in SUBSET S, T # {}, Cardinality(T) = n + 1 PROVE Last1(T)
    OBVIOUS
  <2>1. PICK x \in T : TRUE
    OBVIOUS
  <2>2. IsFiniteSet(T)
    BY FS_Subset DEF Ordered
  <2>3. Cardinality(T \ {x}) = n
    BY <2>1, <2>2, FS_RemoveElement
  <2>4. CASE T \ {x} = {}
    BY <2>1, <2>4
  <2>5. CASE T \ {x} # {}
    <3>1. T \ {x} \in SUBSET S
      OBVIOUS
    <3>2. Last1(T \ {x})
      <4> HIDE DEF Last1
      <4> QED BY <1>2, <2>3, <2>5, <3>1
    <3>3. PICK m \in T \ {x} : \A a \in (T \ {x}) \ {m} : <<a, m>> \in R
      BY <3>2
    <3>4. CASE <<x, m>> \in R
      BY <3>3, <3>4
    <3>5. CASE <<x, m>> \notin R
      <4>1. m \in S /\ x \in S /\ m # x
        BY <2>1, <3>3
      <4>2. <<m, x>> \in R
        BY <3>5, <4>1 DEF Ordered
      <4>3. ASSUME NEW a \in T \ {x} PROVE <<a, x>> \in R
        <5>1. CASE a = m
          BY <4>2, <5>1
        <5>2. CASE a # m
          <6>1. <<a, m>> \in R /\ a \in S
            BY <3>3, <5>2
          <6> QED BY <4>1, <4>2, <6>1 DEF Ordered
        <5> QED BY <5>1, <5>2
      <4> QED BY <2>1, <4>3
    <3> QED BY <3>4, <3>5
  <2> QED BY <2>4, <2>5
<1> HIDE DEF K
<1>3. \A n \in Nat : n \in K
  BY <1>1, <1>2, Induction
<1> QED BY <1>3 DEF K

(* So they stand in order in one of their sequences: the last one behind   *)
(* the others.                                                             *)
LEMMA SortExists ==
  ASSUME NEW S, NEW R, Ordered(S, R)
  PROVE  \E seq \in SetToSeqs(S) : InOrderOf(seq, R)
<1> DEFINE Sorts(f, T, n) == /\ f \in [1 .. n -> T] /\ \A i, j \in 1 .. n : i # j => f[i] # f[j]
                             /\ \A i, j \in 1 .. n : i < j => <<f[i], f[j]>> \in R
           K == {n \in Nat : \A T \in SUBSET S : Cardinality(T) = n => \E f : Sorts(f, T, n)}
<1>1. 0 \in K
  <2> SUFFICES ASSUME NEW T \in SUBSET S, Cardinality(T) = 0 PROVE \E f : Sorts(f, T, 0)
    OBVIOUS
  <2> DEFINE f == [i \in 1 .. 0 |-> 0]
  <2>1. f \in [1 .. 0 -> T]
    OBVIOUS
  <2>2. Sorts(f, T, 0)
    BY <2>1
  <2> HIDE DEF f
  <2> QED BY <2>2
<1>2. ASSUME NEW n \in Nat, n \in K PROVE n + 1 \in K
  <2> SUFFICES ASSUME NEW T \in SUBSET S, Cardinality(T) = n + 1 PROVE \E f : Sorts(f, T, n + 1)
    OBVIOUS
  <2>1. IsFiniteSet(T)
    BY FS_Subset DEF Ordered
  <2>2. T # {}
    BY FS_EmptySet
  <2>3. PICK m \in T : \A a \in T \ {m} : <<a, m>> \in R
    BY <2>2, GreatestExists
  <2>4. Cardinality(T \ {m}) = n /\ T \ {m} \in SUBSET S
    BY <2>1, <2>3, FS_RemoveElement
  <2>5. PICK g : Sorts(g, T \ {m}, n)
    <3> HIDE DEF Sorts
    <3> QED BY <1>2, <2>4
  <2> DEFINE f == [i \in 1 .. n + 1 |-> IF i = n + 1 THEN m ELSE g[i]]
  <2>6. ASSUME NEW i \in 1 .. n PROVE f[i] = g[i] /\ f[i] \in T \ {m}
    <3>1. i \in 1 .. n + 1 /\ i # n + 1
      OBVIOUS
    <3>2. g[i] \in T \ {m}
      BY <2>5
    <3> QED BY <3>1, <3>2
  <2>7. f[n + 1] = m /\ m \in T
    OBVIOUS
  <2>8. \A i \in 1 .. n + 1 : i = n + 1 \/ i \in 1 .. n
    OBVIOUS
  <2>9. f \in [1 .. n + 1 -> T]
    <3>1. f = [i \in 1 .. n + 1 |-> f[i]]
      OBVIOUS
    <3>2. ASSUME NEW i \in 1 .. n + 1 PROVE f[i] \in T
      <4> HIDE DEF f
      <4> QED BY <2>6, <2>7, <2>8
    <3> HIDE DEF f
    <3> QED BY <3>1, <3>2
  <2>10. ASSUME NEW i \in 1 .. n + 1, NEW j \in 1 .. n + 1
         PROVE (i # j => f[i] # f[j]) /\ (i < j => <<f[i], f[j]>> \in R)
    <3>1. CASE i \in 1 .. n /\ j \in 1 .. n
      <4>1. (i # j => g[i] # g[j]) /\ (i < j => <<g[i], g[j]>> \in R)
        BY <2>5, <3>1
      <4> HIDE DEF f, Sorts
      <4> QED BY <2>6, <3>1, <4>1
    <3>2. CASE i \in 1 .. n /\ j = n + 1
      <4>1. f[i] \in T \ {m} /\ f[j] = m
        BY <2>6, <2>7, <3>2
      <4> HIDE DEF f, Sorts
      <4> QED BY <2>3, <4>1
    <3>3. CASE i = n + 1 /\ j \in 1 .. n
      <4> HIDE DEF f, Sorts
      <4>1. f[j] \in T \ {m} /\ f[i] = m
        BY <2>6, <2>7, <3>3
      <4>2. ~(i < j)
        BY <3>3
      <4> QED BY <4>1, <4>2
    <3>4. CASE i = n + 1 /\ j = n + 1
      BY <3>4
    <3> QED BY <2>8, <3>1, <3>2, <3>3, <3>4
  <2> HIDE DEF f
  <2>11. Sorts(f, T, n + 1)
    BY <2>9, <2>10
  <2> QED BY <2>11
<1>3. Cardinality(S) \in Nat /\ S \in SUBSET S
  BY FS_CardinalityType DEF Ordered
<1>4. \A n \in Nat : n \in K
  <2> HIDE DEF K
  <2> QED BY <1>1, <1>2, Induction
<1>5. PICK f : Sorts(f, S, Cardinality(S))
  BY <1>3, <1>4
<1> DEFINE c == Cardinality(S)
<1>6. DOMAIN f = 1 .. c
  BY <1>5
<1>7. f \in SetToSeqs(S) /\ InOrderOf(f, R)
  <2> HIDE DEF K, c
  <2> QED BY <1>5, <1>6 DEF SetToSeqs, InOrderOf, c
<1> QED BY <1>7

(* Such a sequence has every element, once.                                *)
LEMMA SeqOfSet ==
  ASSUME NEW S, IsFiniteSet(S), NEW seq \in SetToSeqs(S)
  PROVE  /\ seq \in Seq(S) /\ Len(seq) = Cardinality(S) /\ Len(seq) \in Nat /\ DOMAIN seq = 1 .. Len(seq)
         /\ \A i, j \in 1 .. Len(seq) : i # j => seq[i] # seq[j]
         /\ \A s \in S : \E i \in 1 .. Len(seq) : seq[i] = s
<1> DEFINE c == Cardinality(S)
<1>1. c \in Nat
  BY FS_CardinalityType
<1>2. seq \in [1 .. c -> S] /\ \A i, j \in 1 .. c : i # j => seq[i] # seq[j]
  BY DEF SetToSeqs
<1>3. Cardinality(1 .. c) = c
  BY <1>1, FS_Interval
<1> HIDE DEF c
<1>4. seq \in Injection(1 .. c, S)
  BY <1>2 DEF Injection, IsInjective
<1>5. seq \in Surjection(1 .. c, S)
  BY <1>3, <1>4, FS_Injection DEF c
<1>6. \A s \in S : \E i \in 1 .. c : seq[i] = s
  BY <1>5 DEF Surjection
<1>7. seq \in Seq(S) /\ Len(seq) = c
  BY <1>1, <1>2
<1> QED BY <1>1, <1>2, <1>6, <1>7 DEF c
-----------------------------------------------------------------------------
(* The ranking is as long as asked for, by score, then by index, each      *)
(* document once.                                                          *)
LEMMA RankingsOrdered ==
  ASSUME NEW scores \in Seq(Int), NEW topK \in 1 .. Len(scores)
  PROVE  RankingsAccepted(Rankings(scores, topK), scores, topK)
<1> DEFINE N == Len(scores)
           D == DOMAIN scores
           R == {p \in D \X D : InOrder(scores, p[1], p[2])}
           Sorted(seq) == \A k, l \in DOMAIN seq : k < l => InOrder(scores, seq[k], seq[l])
           ranked == CHOOSE seq \in SetToSeqs(D) : Sorted(seq)
<1>1. N \in Nat /\ D = 1 .. N /\ \A i \in D : scores[i] \in Int /\ i \in Int
  OBVIOUS
<1>2. IsFiniteSet(D) /\ Cardinality(D) = N
  BY <1>1, FS_Interval
<1>3. Ordered(D, R)
  <2>1. \A a, b \in D : <<a, b>> \in R <=> InOrder(scores, a, b)
    OBVIOUS
  <2> HIDE DEF R, D
  <2>2. \A a, b \in D : a # b => <<a, b>> \in R \/ <<b, a>> \in R
    BY <1>1, <2>1 DEF InOrder
  <2>3. ASSUME NEW a \in D, NEW b \in D, NEW c \in D, <<a, b>> \in R, <<b, c>> \in R PROVE <<a, c>> \in R
    <3>1. InOrder(scores, a, b) /\ InOrder(scores, b, c)
      BY <2>1, <2>3
    <3>2. InOrder(scores, a, c)
      BY <1>1, <3>1 DEF InOrder
    <3> QED BY <2>1, <3>2
  <2> QED BY <1>2, <2>2, <2>3 DEF Ordered
<1>4. ranked \in SetToSeqs(D) /\ Sorted(ranked)
  <2>1. \E seq \in SetToSeqs(D) : InOrderOf(seq, R)
    <3> HIDE DEF D, R
    <3> QED BY <1>3, SortExists
  <2>2. \A seq : InOrderOf(seq, R) => Sorted(seq)
    BY DEF InOrderOf
  <2> HIDE DEF Sorted, D, R
  <2> QED BY <2>1, <2>2
<1>5. Rankings(scores, topK) = SubSeq(ranked, 1, topK)
  BY DEF Rankings
<1> HIDE DEF ranked
<1>6. ranked \in Seq(D) /\ Len(ranked) = N /\ \A i, j \in 1 .. N : i # j => ranked[i] # ranked[j]
  <2> HIDE DEF D, Sorted
  <2> QED BY <1>2, <1>4, SeqOfSet
<1> DEFINE order == SubSeq(ranked, 1, topK)
<1>7. Len(order) = topK /\ DOMAIN order = 1 .. topK /\ \A k \in 1 .. topK : k \in 1 .. N /\ order[k] = ranked[k]
  <2> HIDE DEF D, Sorted
  <2> QED BY <1>1, <1>6
<1>8. DOMAIN ranked = 1 .. N
  BY <1>6
<1> HIDE DEF order
<1>9. ASSUME NEW k \in DOMAIN order
      PROVE  /\ order[k] \in D
             /\ \A l \in 1 .. k - 1 :
                  /\ order[l] # order[k] /\ scores[order[k]] <= scores[order[l]]
                  /\ scores[order[k]] = scores[order[l]] => order[l] < order[k]
  <2>1. k \in 1 .. topK /\ k \in 1 .. N
    BY <1>7
  <2>2. order[k] = ranked[k] /\ ranked[k] \in D
    <3> HIDE DEF D, Sorted
    <3> QED BY <1>6, <1>7, <1>8, <2>1
  <2>3. ASSUME NEW l \in 1 .. k - 1
        PROVE  /\ order[l] # order[k] /\ scores[order[k]] <= scores[order[l]]
               /\ scores[order[k]] = scores[order[l]] => order[l] < order[k]
    <3>1. l \in 1 .. topK /\ l \in 1 .. N /\ l # k /\ l < k
      BY <1>1, <2>1
    <3>2. order[l] = ranked[l] /\ ranked[l] \in D
      <4> HIDE DEF D, Sorted
      <4> QED BY <1>6, <1>7, <1>8, <3>1
    <3>3. ranked[l] # ranked[k]
      BY <1>6, <2>1, <3>1
    <3>4. InOrder(scores, ranked[l], ranked[k])
      BY <1>4, <1>8, <2>1, <3>1
    <3>5. scores[ranked[l]] \in Int /\ scores[ranked[k]] \in Int
      BY <1>1, <2>2, <3>2
    <3> HIDE DEF D, Sorted
    <3> QED BY <2>2, <3>2, <3>3, <3>4, <3>5 DEF InOrder
  <2> QED BY <2>2, <2>3
<1> HIDE DEF D
<1>10. RankingsAccepted(order, scores, topK)
  BY <1>7, <1>9 DEF RankingsAccepted, D
<1> QED BY <1>5, <1>10 DEF order

(* A ranking is one to its readers.                                        *)
LEMMA RankedAccepted == ASSUME Computed PROVE RankingsFit
<1> SUFFICES ASSUME Of("rank") PROVE RankingsAccepted(result, input.scores, input.topK)
  BY DEF RankingsFit
<1>1. result = Rankings(input.scores, input.topK) /\ input \in Scores
  BY DEF Computed, Has, Of
<1>2. input.scores \in Seq(Int) /\ input.topK \in 1 .. Len(input.scores)
  BY <1>1, InputAssumption
<1> QED BY <1>1, <1>2, RankingsOrdered
-----------------------------------------------------------------------------
SpanSet(L) == [start : Nat, end : Nat, priority : Nat, score : Nat, label : L]

(* A sequence with another last element.                                   *)
LEMMA SetLast ==
  ASSUME NEW A, NEW s \in Seq(A), s # <<>>, NEW e \in A
  PROVE  /\ [s EXCEPT ![Len(s)] = e] \in Seq(A) /\ Len([s EXCEPT ![Len(s)] = e]) = Len(s)
         /\ Len(s) \in 1 .. Len(s) /\ Last(s) = s[Len(s)] /\ s[Len(s)] \in A
         /\ [s EXCEPT ![Len(s)] = e][Len(s)] = e
         /\ \A i \in 1 .. Len(s) - 1 : [s EXCEPT ![Len(s)] = e][i] = s[i]
<1>1. Len(s) \in Nat /\ Len(s) # 0 /\ DOMAIN s = 1 .. Len(s)
  OBVIOUS
<1>2. [s EXCEPT ![Len(s)] = e] \in Seq(A)
  BY <1>1
<1>3. DOMAIN [s EXCEPT ![Len(s)] = e] = 1 .. Len(s)
  BY <1>1
<1>4. Len([s EXCEPT ![Len(s)] = e]) = Len(s)
  <2> DEFINE x == [s EXCEPT ![Len(s)] = e]
  <2>1. x \in Seq(A) /\ DOMAIN x = 1 .. Len(s)
    BY <1>2, <1>3
  <2> HIDE DEF x
  <2>2. DOMAIN x = 1 .. Len(x) /\ Len(x) \in Nat
    BY <2>1
  <2> QED BY <1>1, <2>1, <2>2 DEF x
<1>5. Len(s) \in 1 .. Len(s) /\ s[Len(s)] \in A
  BY <1>1
<1>6. [s EXCEPT ![Len(s)] = e][Len(s)] = e
  BY <1>1, <1>5
<1>7. ASSUME NEW i \in 1 .. Len(s) - 1 PROVE [s EXCEPT ![Len(s)] = e][i] = s[i]
  <2> DEFINE n == Len(s)
  <2>1. n \in Nat /\ i \in 1 .. n - 1 /\ DOMAIN s = 1 .. n
    BY <1>1
  <2> HIDE DEF n
  <2>2. i \in DOMAIN s /\ i # n
    BY <2>1
  <2> QED BY <2>2 DEF n
<1> QED BY <1>2, <1>4, <1>5, <1>6, <1>7 DEF Last

(* A span that is extended keeps its start and its label.                  *)
LEMMA ExtendedSpan ==
  ASSUME NEW L, NEW s \in SpanSet(L), NEW c \in SpanSet(L)
  PROVE  /\ Extended(s, c) \in SpanSet(L)
         /\ Extended(s, c).start = s.start /\ Extended(s, c).label = s.label
         /\ Extended(s, c).end = IF c.end > s.end THEN c.end ELSE s.end
<1>1. (IF c.end > s.end THEN c.end ELSE s.end) \in Nat
  BY DEF SpanSet
<1>2. Extended(s, c) \in SpanSet(L)
  BY <1>1 DEF Extended, SpanSet
<1> QED BY <1>2 DEF Extended, SpanSet

NextSpan(spans, c) ==
  IF spans # <<>> /\ c.start < Last(spans).end THEN [spans EXCEPT ![Len(spans)] = Extended(@, c)] ELSE Append(spans, c)

(* The candidates are merged one by one.                                   *)
LEMMA MergeSteps ==
  ASSUME NEW L, NEW candidates, NEW C \in Seq(SpanSet(L)), C = InTextOrder(candidates)
  PROVE  \E acc :
           /\ acc[0] = <<>> /\ acc[Len(C)] = Merge(candidates)
           /\ \A n \in 0 .. Len(C) : acc[n] \in Seq(SpanSet(L))
           /\ \A n \in 1 .. Len(C) : acc[n] = NextSpan(acc[n - 1], C[n])
<1> DEFINE N == Len(C)
           R == SpanSet(L)
           A == Seq(R)
           b == <<>>
           D == SUBSET (DOMAIN C)
           step(spans, c) == IF spans # <<>> /\ c.start < Last(spans).end
                             THEN [spans EXCEPT ![Len(spans)] = Extended(@, c)]
                             ELSE Append(spans, c)
           Is(f) == f = [t \in D |-> IF t = {} THEN b ELSE step(f[t \ {Max(t)}], C[Max(t)])]
           iter == CHOOSE f : Is(f)
           G == [p \in (1 .. N) \X A |-> NextSpan(p[2], C[p[1]])]
<1>1. N \in Nat /\ DOMAIN C = 1 .. N /\ \A i \in 1 .. N : C[i] \in R
  <2>1. C \in Seq(R)
    OBVIOUS
  <2> HIDE DEF R
  <2> QED BY <2>1
<1>2. Merge(candidates) = iter[DOMAIN C]
  BY DEF Merge, FoldLeft, MapThenFoldSet
<1>3. b \in A
  OBVIOUS
<1>4. ASSUME NEW a \in A, NEW i \in 1 .. N PROVE NextSpan(a, C[i]) \in A
  <2>1. C[i] \in R
    BY <1>1
  <2>2. CASE a # <<>> /\ C[i].start < Last(a).end
    <3>1. a[Len(a)] \in R
      <4> HIDE DEF R
      <4> QED BY <2>2
    <3>2. Extended(a[Len(a)], C[i]) \in R
      BY <2>1, <3>1, ExtendedSpan
    <3> HIDE DEF R
    <3> QED BY <2>2, <3>2 DEF NextSpan
  <2>3. CASE ~(a # <<>> /\ C[i].start < Last(a).end)
    <3> HIDE DEF R
    <3> QED BY <2>1, <2>3 DEF NextSpan
  <2> QED BY <2>2, <2>3
<1>5. \A a, c : step(a, c) = NextSpan(a, c)
  BY DEF NextSpan
<1> HIDE DEF N, A, b, R, step
<1>6. G \in [(1 .. N) \X A -> A]
  BY <1>4
<1>7. ASSUME NEW n \in 1 .. N, NEW a \in A PROVE G[<<n, a>>] = step(a, C[n])
  BY <1>1, <1>5, <1>7
<1>8. Is(iter)
  <2>1. PICK f : FoldOf(f, A, b, N, G)
    <3> HIDE DEF G
    <3> QED BY <1>1, <1>3, <1>6, FoldExists
  <2> HIDE DEF G
  <2>2. ShapeOf(f, A, b, N, G) /\ D = SUBSET (1 .. N)
    BY <1>1, <2>1, FoldShape
  <2>3. \A t \in D : f[t] = IF t = {} THEN b ELSE step(f[t \ {Max(t)}], C[Max(t)])
    BY <1>7, <2>2 DEF ShapeOf
  <2>4. Is(f)
    <3>1. f \in [D -> A]
      BY <2>2 DEF ShapeOf
    <3> HIDE DEF D
    <3> QED BY <2>3, <3>1
  <2> QED BY <2>4
<1> HIDE DEF G
<1>9. Iterates(iter, A, b, N, G)
  <2> HIDE DEF iter
  <2>1. iter[{}] = b
    BY <1>8
  <2>2. ASSUME NEW t \in SUBSET (1 .. N), t # {}, iter[t \ {Max(t)}] \in A
        PROVE  iter[t] = G[<<Max(t), iter[t \ {Max(t)}]>>]
    <3>1. Max(t) \in 1 .. N
      BY <1>1, <2>2, MaxOf
    <3>2. iter[t] = step(iter[t \ {Max(t)}], C[Max(t)])
      BY <1>1, <1>8, <2>2
    <3> QED BY <1>7, <2>2, <3>1, <3>2
  <2> QED BY <2>1, <2>2 DEF Iterates
<1> HIDE DEF iter
<1>10. PICK acc : StepsOf(acc, A, b, N, G, iter[1 .. N])
  BY <1>1, <1>3, <1>6, <1>9, FoldSteps
<1>11. \A n \in 0 .. N : acc[n] \in A
  BY <1>10 DEF StepsOf
<1>12. ASSUME NEW n \in 1 .. N PROVE acc[n] = NextSpan(acc[n - 1], C[n])
  <2>1. n - 1 \in 0 .. N /\ acc[n] = G[<<n, acc[n - 1]>>]
    BY <1>1, <1>10 DEF StepsOf
  <2> QED BY <1>1, <1>5, <1>7, <1>11, <2>1
<1>13. acc[0] = b /\ acc[N] = iter[DOMAIN C]
  BY <1>1, <1>10 DEF StepsOf
<1> QED BY <1>2, <1>11, <1>12, <1>13 DEF N, A, b, R
-----------------------------------------------------------------------------
Covered(seq, n, x) == \E i \in 1 .. n : seq[i].start <= x /\ x < seq[i].end

Inside(s, length) == s.start < s.end /\ s.end <= length /\ s.label # "none"

(* The candidates as Merge takes them.                                     *)
Candidates(C, length) ==
  /\ \A i \in 1 .. Len(C) : Inside(C[i], length)
  /\ \A i, j \in 1 .. Len(C) : i < j => C[i].start <= C[j].start

(* What holds after the first n of them.                                   *)
Merged(spans, C, n, length) ==
  /\ \A i \in 1 .. Len(spans) : Inside(spans[i], length)
  /\ \A i \in 2 .. Len(spans) : spans[i - 1].end <= spans[i].start
  /\ IF n = 0 THEN spans = <<>> ELSE spans # <<>> /\ spans[Len(spans)].start <= C[n].start
  /\ \A x \in Nat : Covered(spans, Len(spans), x) <=> Covered(C, n, x)

(* A sequence with one more element.                                       *)
LEMMA AppendOne ==
  ASSUME NEW A, NEW s \in Seq(A), NEW e \in A
  PROVE  /\ Append(s, e) \in Seq(A) /\ Len(Append(s, e)) = Len(s) + 1 /\ Len(s) \in Nat
         /\ Append(s, e)[Len(s) + 1] = e /\ Append(s, e) # <<>>
         /\ \A i \in 1 .. Len(s) : Append(s, e)[i] = s[i] /\ s[i] \in A
OBVIOUS

(* A candidate that overlaps the last span extends it; one that does not   *)
(* starts behind it.                                                       *)
LEMMA MergedStep ==
  ASSUME NEW L, NEW C \in Seq(SpanSet(L)), NEW length \in Nat, Candidates(C, length), NEW n \in 1 .. Len(C),
         NEW a \in Seq(SpanSet(L)), Merged(a, C, n - 1, length)
  PROVE  Merged(NextSpan(a, C[n]), C, n, length)
<1> DEFINE c == C[n]
           m == Len(a)
           R == SpanSet(L)
           b == NextSpan(a, c)
<1>1. c \in R /\ m \in Nat /\ n \in Nat \ {0}
  <2>1. C \in Seq(R) /\ a \in Seq(R)
    OBVIOUS
  <2> HIDE DEF R
  <2> QED BY <2>1
<1>2. \A r \in R : r.start \in Nat /\ r.end \in Nat
  BY DEF SpanSet
<1>3. \A i \in 1 .. m : a[i] \in R
  <2>1. a \in Seq(R)
    OBVIOUS
  <2> HIDE DEF R
  <2> QED BY <2>1
<1>4. Inside(c, length)
  BY DEF Candidates
<1>5. ASSUME NEW x \in Nat PROVE Covered(C, n, x) <=> Covered(C, n - 1, x) \/ (c.start <= x /\ x < c.end)
  <2>1. 1 .. n = 1 .. n - 1 \cup {n}
    BY <1>1
  <2> QED BY <2>1 DEF Covered
<1>6. m # 0 => n - 1 # 0 /\ a[m].start <= c.start
  <2> SUFFICES ASSUME m # 0 PROVE n - 1 # 0 /\ a[m].start <= c.start
    OBVIOUS
  <2>1. a # <<>>
    OBVIOUS
  <2>2. n - 1 # 0 /\ a[m].start <= C[n - 1].start
    BY <2>1 DEF Merged
  <2>3. n - 1 \in 1 .. Len(C) /\ n - 1 < n
    BY <1>1, <2>2
  <2>4. C[n - 1].start <= c.start
    BY <2>3 DEF Candidates
  <2>5. C[n - 1] \in R
    <3>1. C \in Seq(R)
      OBVIOUS
    <3> HIDE DEF R
    <3> QED BY <2>3, <3>1
  <2>6. m \in 1 .. m
    BY <1>1
  <2>7. a[m].start \in Nat /\ C[n - 1].start \in Nat /\ c.start \in Nat
    BY <1>1, <1>2, <1>3, <2>5, <2>6
  <2> HIDE DEF m, c
  <2> QED BY <2>2, <2>4, <2>7
<1>7. /\ \A i \in 1 .. m : Inside(a[i], length)
      /\ \A i \in 2 .. m : a[i - 1].end <= a[i].start
      /\ \A x \in Nat : Covered(a, m, x) <=> Covered(C, n - 1, x)
  BY DEF Merged
<1>8. CASE a # <<>> /\ c.start < Last(a).end
  <2> DEFINE e == Extended(a[m], c)
  <2>1. m \in 1 .. m /\ Last(a) = a[m] /\ m # 0
    <3>1. a \in Seq(R)
      OBVIOUS
    <3> HIDE DEF R
    <3> QED BY <1>8, <3>1 DEF Last
  <2>2. e \in R /\ e.start = a[m].start /\ e.label = a[m].label /\ e.end = IF c.end > a[m].end THEN c.end ELSE a[m].end
    <3>1. a[m] \in SpanSet(L) /\ c \in SpanSet(L)
      BY <1>1, <1>3, <2>1
    <3> QED BY <3>1, ExtendedSpan
  <2>3. b = [a EXCEPT ![m] = e]
    BY <1>8 DEF NextSpan
  <2> HIDE DEF e
  <2>4. b \in Seq(R) /\ Len(b) = m /\ b[m] = e /\ \A i \in 1 .. m - 1 : b[i] = a[i]
    <3>1. a \in Seq(R)
      OBVIOUS
    <3> HIDE DEF R, b
    <3> QED BY <1>8, <2>2, <2>3, <3>1, SetLast
  <2> HIDE DEF b
  <2>5. c.start \in Nat /\ c.end \in Nat /\ a[m].start \in Nat /\ a[m].end \in Nat
    BY <1>1, <1>2, <1>3, <2>1
  <2>6. Inside(e, length) /\ a[m].start <= c.start /\ c.start < a[m].end
    <3>1. Inside(a[m], length)
      BY <1>7, <2>1
    <3>2. a[m].start <= c.start /\ c.start < a[m].end
      BY <1>6, <1>8, <2>1
    <3> HIDE DEF c, m
    <3> QED BY <1>4, <2>2, <2>5, <3>1, <3>2 DEF Inside
  <2>7. ASSUME NEW i \in 1 .. Len(b) PROVE Inside(b[i], length)
    <3>1. CASE i = m
      BY <2>4, <2>6, <3>1
    <3>2. CASE i # m
      <4>1. i \in 1 .. m - 1 /\ i \in 1 .. m
        BY <1>1, <2>4, <3>2
      <4> QED BY <1>7, <2>4, <4>1
    <3> QED BY <3>1, <3>2
  <2>8. ASSUME NEW i \in 2 .. Len(b) PROVE b[i - 1].end <= b[i].start
    <3>1. i \in 2 .. m /\ i - 1 \in 1 .. m - 1
      BY <1>1, <2>4
    <3>2. b[i - 1] = a[i - 1] /\ b[i].start = a[i].start
      <4>1. b[i - 1] = a[i - 1]
        BY <2>4, <3>1
      <4>2. CASE i = m
        BY <2>2, <2>4, <4>1, <4>2
      <4>3. CASE i # m
        <5>1. i \in 1 .. m - 1
          BY <1>1, <3>1, <4>3
        <5> QED BY <2>4, <4>1, <5>1
      <4> QED BY <4>2, <4>3
    <3> QED BY <1>7, <3>1, <3>2
  <2>9. ASSUME NEW x \in Nat PROVE Covered(b, Len(b), x) <=> Covered(C, n, x)
    <3>1. e.start <= x /\ x < e.end <=> (a[m].start <= x /\ x < a[m].end) \/ (c.start <= x /\ x < c.end)
      <4> HIDE DEF c, m
      <4> QED BY <2>2, <2>5, <2>6
    <3>2. 1 .. m = 1 .. m - 1 \cup {m} /\ m \in 1 .. m
      BY <1>1, <2>1
    <3>3. Covered(b, m, x) <=> (\E i \in 1 .. m - 1 : a[i].start <= x /\ x < a[i].end) \/ (e.start <= x /\ x < e.end)
      <4> HIDE DEF c, m
      <4> QED BY <2>4, <3>2 DEF Covered
    <3>4. Covered(a, m, x) <=> (\E i \in 1 .. m - 1 : a[i].start <= x /\ x < a[i].end)
                                \/ (a[m].start <= x /\ x < a[m].end)
      <4> HIDE DEF c, m
      <4> QED BY <3>2 DEF Covered
    <3>5. Covered(a, m, x) <=> Covered(C, n - 1, x)
      BY <1>7
    <3> HIDE DEF c, m
    <3> QED BY <1>5, <2>4, <3>1, <3>3, <3>4, <3>5
  <2>10. b # <<>> /\ b[Len(b)].start <= C[n].start
    <3>1. Len(b) # 0
      BY <1>1, <2>1, <2>4
    <3>2. b # <<>>
      BY <3>1
    <3> QED BY <2>2, <2>4, <2>6, <3>2
  <2>11. Merged(b, C, n, length)
    BY <1>1, <2>7, <2>8, <2>9, <2>10 DEF Merged
  <2> QED BY <2>11 DEF b
<1>9. CASE ~(a # <<>> /\ c.start < Last(a).end)
  <2>1. b = Append(a, c)
    BY <1>9 DEF NextSpan
  <2>2. /\ b \in Seq(R) /\ Len(b) = m + 1 /\ b[m + 1] = c /\ b # <<>>
        /\ \A i \in 1 .. m : b[i] = a[i]
    <3>1. a \in Seq(R)
      OBVIOUS
    <3> HIDE DEF R, b, c
    <3> QED BY <1>1, <2>1, <3>1, AppendOne
  <2> HIDE DEF b
  <2>3. m # 0 => a[m].end <= c.start
    <3> SUFFICES ASSUME m # 0 PROVE a[m].end <= c.start
      OBVIOUS
    <3>1. a # <<>> /\ Last(a) = a[m] /\ m \in 1 .. m
      BY <1>1 DEF Last
    <3>2. a[m].end \in Nat /\ c.start \in Nat /\ ~(c.start < a[m].end)
      BY <1>1, <1>2, <1>3, <1>9, <3>1
    <3> HIDE DEF c, m
    <3> QED BY <3>2
  <2>4. ASSUME NEW i \in 1 .. Len(b) PROVE Inside(b[i], length)
    <3>1. CASE i = m + 1
      BY <1>4, <2>2, <3>1
    <3>2. CASE i # m + 1
      <4>1. i \in 1 .. m
        BY <1>1, <2>2, <3>2
      <4> QED BY <1>7, <2>2, <4>1
    <3> QED BY <3>1, <3>2
  <2>5. ASSUME NEW i \in 2 .. Len(b) PROVE b[i - 1].end <= b[i].start
    <3>1. CASE i = m + 1
      <4>1. i - 1 = m /\ m # 0 /\ m \in 1 .. m
        BY <1>1, <3>1
      <4> QED BY <2>2, <2>3, <3>1, <4>1
    <3>2. CASE i # m + 1
      <4>1. i \in 2 .. m /\ i \in 1 .. m /\ i - 1 \in 1 .. m
        BY <1>1, <2>2, <3>2
      <4> QED BY <1>7, <2>2, <4>1
    <3> QED BY <3>1, <3>2
  <2>6. ASSUME NEW x \in Nat PROVE Covered(b, Len(b), x) <=> Covered(C, n, x)
    <3>1. 1 .. m + 1 = 1 .. m \cup {m + 1}
      BY <1>1
    <3>2. Covered(b, Len(b), x) <=> Covered(a, m, x) \/ (c.start <= x /\ x < c.end)
      <4> HIDE DEF c, m
      <4> QED BY <2>2, <3>1 DEF Covered
    <3>3. Covered(a, m, x) <=> Covered(C, n - 1, x)
      BY <1>7
    <3> HIDE DEF c, m
    <3> QED BY <1>5, <3>2, <3>3
  <2>7. b[Len(b)].start <= C[n].start
    <3>1. b[Len(b)].start = c.start /\ c.start \in Nat
      BY <1>1, <1>2, <2>2
    <3> QED BY <3>1
  <2>8. Merged(b, C, n, length)
    BY <1>1, <2>2, <2>4, <2>5, <2>6, <2>7 DEF Merged
  <2> QED BY <2>8 DEF b
<1> QED BY <1>8, <1>9
-----------------------------------------------------------------------------
(* The candidates stand in the order of the text.                          *)
LEMMA BeforeOrders ==
  ASSUME NEW L, NEW S \in SUBSET SpanSet(L), IsFiniteSet(S)
  PROVE  /\ InTextOrder(S) \in SetToSeqs(S)
         /\ \A i, j \in DOMAIN InTextOrder(S) : i < j => Before(InTextOrder(S)[i], InTextOrder(S)[j])
<1> DEFINE R == {p \in S \X S : Before(p[1], p[2])}
           Sorted(seq) == \A i, j \in DOMAIN seq : i < j => Before(seq[i], seq[j])
<1>1. \A a \in S : a.start \in Nat /\ a.end \in Nat /\ a.priority \in Nat /\ a.score \in Nat
  BY DEF SpanSet
<1>2. Ordered(S, R)
  <2>1. \A a, b \in S : <<a, b>> \in R <=> Before(a, b)
    OBVIOUS
  <2> HIDE DEF R
  <2>2. ASSUME NEW a \in S, NEW b \in S PROVE <<a, b>> \in R \/ <<b, a>> \in R
    <3>1. Before(a, b) \/ Before(b, a)
      BY <1>1 DEF Before
    <3> QED BY <2>1, <3>1
  <2>3. ASSUME NEW a \in S, NEW b \in S, NEW c \in S, <<a, b>> \in R, <<b, c>> \in R PROVE <<a, c>> \in R
    <3>1. Before(a, b) /\ Before(b, c)
      BY <2>1, <2>3
    <3>2. Before(a, c)
      BY <1>1, <3>1 DEF Before
    <3> QED BY <2>1, <3>2
  <2> QED BY <2>2, <2>3 DEF Ordered
<1>3. \E seq \in SetToSeqs(S) : Sorted(seq)
  <2>1. \E seq \in SetToSeqs(S) : InOrderOf(seq, R)
    <3> HIDE DEF R
    <3> QED BY <1>2, SortExists
  <2>2. \A seq : InOrderOf(seq, R) => Sorted(seq)
    BY DEF InOrderOf
  <2> HIDE DEF Sorted, R
  <2> QED BY <2>1, <2>2
<1>4. InTextOrder(S) = CHOOSE seq \in SetToSeqs(S) : Sorted(seq)
  BY DEF InTextOrder
<1>5. InTextOrder(S) \in SetToSeqs(S) /\ Sorted(InTextOrder(S))
  <2> HIDE DEF Sorted
  <2> QED BY <1>3, <1>4
<1> QED BY <1>5

(* The merged spans: sorted, disjoint, inside, over the same characters.   *)
SpansHold(m, S, length) ==
  /\ \A i \in 1 .. Len(m) : Inside(m[i], length)
  /\ \A i \in 2 .. Len(m) : m[i - 1].end <= m[i].start
  /\ \A x \in Nat : Covered(m, Len(m), x) <=> \E s \in S : s.start <= x /\ x < s.end

(* The merged spans are sorted, disjoint and inside, and cover what the    *)
(* candidates cover.                                                       *)
LEMMA MergeHolds ==
  ASSUME NEW L, NEW S \in SUBSET SpanSet(L), IsFiniteSet(S), NEW length \in Nat, \A s \in S : Inside(s, length)
  PROVE  Merge(S) \in Seq(SpanSet(L)) /\ SpansHold(Merge(S), S, length)
<1> DEFINE C == InTextOrder(S)
           N == Len(C)
           R == SpanSet(L)
<1>1. C \in SetToSeqs(S) /\ \A i, j \in DOMAIN C : i < j => Before(C[i], C[j])
  BY BeforeOrders
<1> HIDE DEF C
<1>2. /\ C \in Seq(S) /\ N \in Nat /\ DOMAIN C = 1 .. N
      /\ \A s \in S : \E i \in 1 .. N : C[i] = s
  BY <1>1, SeqOfSet
<1>3. C \in Seq(R) /\ \A i \in 1 .. N : C[i] \in S /\ C[i] \in R
  <2>1. S \subseteq R
    OBVIOUS
  <2> HIDE DEF R
  <2> QED BY <1>2, <2>1
<1>4. Candidates(C, length)
  <2>1. \A i \in 1 .. N : Inside(C[i], length)
    BY <1>3
  <2>2. ASSUME NEW i \in 1 .. N, NEW j \in 1 .. N, i < j PROVE C[i].start <= C[j].start
    <3>1. Before(C[i], C[j])
      BY <1>1, <1>2, <2>2
    <3>2. C[i].start \in Nat /\ C[j].start \in Nat
      BY <1>3 DEF SpanSet
    <3> QED BY <3>1, <3>2 DEF Before
  <2> QED BY <2>1, <2>2 DEF Candidates
<1>5. PICK acc :
        /\ acc[0] = <<>> /\ acc[N] = Merge(S)
        /\ \A n \in 0 .. N : acc[n] \in Seq(SpanSet(L))
        /\ \A n \in 1 .. N : acc[n] = NextSpan(acc[n - 1], C[n])
  BY <1>3, MergeSteps DEF C
<1> DEFINE K == {n \in 0 .. N : Merged(acc[n], C, n, length)}
<1>6. 0 \in K
  <2>1. Merged(acc[0], C, 0, length)
    <3>1. acc[0] = <<>> /\ Len(acc[0]) = 0
      BY <1>5
    <3> QED BY <3>1 DEF Merged, Covered
  <2> QED BY <1>2, <2>1
<1>7. ASSUME NEW n \in 0 .. N - 1, n \in K PROVE n + 1 \in K
  <2>1. n + 1 \in 1 .. N /\ (n + 1) - 1 = n /\ n \in 0 .. N /\ n + 1 \in 0 .. N
    BY <1>2
  <2>2. acc[n] \in Seq(SpanSet(L)) /\ acc[n + 1] = NextSpan(acc[n], C[n + 1])
    BY <1>5, <2>1
  <2>3. Merged(acc[n], C, (n + 1) - 1, length)
    BY <1>7, <2>1
  <2>4. Merged(acc[n + 1], C, n + 1, length)
    <3> HIDE DEF K
    <3> QED BY <1>3, <1>4, <2>1, <2>2, <2>3, MergedStep
  <2> QED BY <2>1, <2>4
<1>8. N \in K
  <2> HIDE DEF K, N
  <2>1. \A n \in 0 .. N : n \in K
    BY <1>2, <1>6, <1>7, UpTo
  <2> QED BY <1>2, <2>1
<1> DEFINE m == Merge(S)
<1>9. m \in Seq(SpanSet(L)) /\ Merged(m, C, N, length)
  BY <1>2, <1>5, <1>8
<1> HIDE DEF m
<1>10. ASSUME NEW x \in Nat PROVE Covered(C, N, x) <=> \E s \in S : s.start <= x /\ x < s.end
  BY <1>2, <1>3 DEF Covered
<1>11. SpansHold(m, S, length)
  BY <1>9, <1>10 DEF Merged, SpansHold
<1> QED BY <1>9, <1>11 DEF m

(* What is known of the candidates.                                        *)
LEMMA CandidatesInside ==
  ASSUME NEW c \in CandidateSets
  PROVE  /\ c.spans \in SUBSET SpanSet(STRING) /\ IsFiniteSet(c.spans) /\ c.length \in Nat
         /\ \A s \in c.spans : Inside(s, c.length)
BY InputAssumption DEF SpanSet, Inside

(* The spans of a redaction are spans to their readers.                    *)
LEMMA MergedAccepted == ASSUME Computed PROVE SpansFit
<1> SUFFICES ASSUME Of("redact") PROVE SpansAccepted(result.spans, input.length)
  BY DEF SpansFit
<1>1. result.spans = Merge(input.spans) /\ input \in CandidateSets
  BY DEF Computed, Has, Of
<1> DEFINE m == result.spans
           L == STRING
           R == SpanSet(L)
<1>2. m \in Seq(SpanSet(L)) /\ SpansHold(m, input.spans, input.length)
  <2>1. input.spans \in SUBSET SpanSet(L) /\ IsFiniteSet(input.spans) /\ input.length \in Nat
        /\ \A s \in input.spans : Inside(s, input.length)
    BY <1>1, CandidatesInside
  <2> HIDE DEF L
  <2> QED BY <1>1, <2>1, MergeHolds
<1> HIDE DEF m, L
<1>3. m \in Seq(R) /\ Len(m) \in Nat /\ DOMAIN m = 1 .. Len(m) /\ \A i \in 1 .. Len(m) : m[i] \in R
  <2> HIDE DEF R
  <2>1. m \in Seq(R)
    BY <1>2 DEF R
  <2> QED BY <2>1
<1>4. ASSUME NEW i \in 1 .. Len(m)
      PROVE  (IF i = 1 THEN 0 ELSE m[i - 1].end) <= m[i].start /\ m[i].start < m[i].end /\ m[i].end <= input.length
  <2>1. m[i].start \in Nat
    BY <1>3 DEF SpanSet
  <2>2. Inside(m[i], input.length)
    BY <1>2 DEF SpansHold
  <2>3. i # 1 => i \in 2 .. Len(m)
    BY <1>3
  <2>4. i # 1 => m[i - 1].end <= m[i].start
    BY <1>2, <2>3 DEF SpansHold
  <2> QED BY <2>1, <2>2, <2>4 DEF Inside
<1> QED BY <1>3, <1>4 DEF SpansAccepted, m
-----------------------------------------------------------------------------
CharSet(L) == [of : Nat, label : L \cup {"none"}]
CharsFrom(a, b) == [i \in 1 .. b - a |-> [of |-> a + i - 1, label |-> "none"]]
NextText(acc, n, s) ==
  [text |-> acc.text \o CharsFrom(acc.cursor, s.start) \o <<[of |-> n, label |-> s.label]>>, cursor |-> s.end]

(* The characters of a text from a to b.                                   *)
LEMMA CharsAre ==
  ASSUME NEW L, NEW a \in Nat, NEW b \in Nat
  PROVE  /\ CharsFrom(a, b) \in Seq(CharSet(L))
         /\ a <= b => Len(CharsFrom(a, b)) = b - a
         /\ \A i \in 1 .. b - a : CharsFrom(a, b)[i].of = a + i - 1 /\ CharsFrom(a, b)[i].label = "none"
<1>1. \A i \in 1 .. b - a : CharsFrom(a, b)[i] = [of |-> a + i - 1, label |-> "none"] /\ a + i - 1 \in Nat
  BY DEF CharsFrom
<1>2. ASSUME NEW i \in 1 .. b - a PROVE CharsFrom(a, b)[i] \in CharSet(L)
  <2> DEFINE e == [of |-> a + i - 1, label |-> "none"]
  <2>1. CharsFrom(a, b)[i] = e /\ e \in CharSet(L)
    BY <1>1 DEF CharSet
  <2> HIDE DEF e
  <2> QED BY <2>1
<1>5. ASSUME NEW i \in 1 .. b - a
      PROVE  CharsFrom(a, b)[i].of = a + i - 1 /\ CharsFrom(a, b)[i].label = "none"
  <2> DEFINE f == CharsFrom(a, b)[i]
             v == a + i - 1
  <2>1. f = [of |-> v, label |-> "none"]
    BY <1>1
  <2> HIDE DEF f, v
  <2>2. f.of = v /\ f.label = "none"
    BY <2>1
  <2> QED BY <2>2 DEF f, v
<1>3. CASE a <= b
  <2>1. b - a \in Nat
    BY <1>3
  <2>2. CharsFrom(a, b) \in [1 .. b - a -> CharSet(L)]
    <3>1. CharsFrom(a, b) = [i \in 1 .. b - a |-> CharsFrom(a, b)[i]]
      BY DEF CharsFrom
    <3> QED BY <1>2, <3>1
  <2> DEFINE x == CharsFrom(a, b)
             d == b - a
             A == CharSet(L)
  <2>3. x \in [1 .. d -> A] /\ d \in Nat
    BY <2>1, <2>2
  <2> HIDE DEF x, d, A
  <2>4. x \in Seq(A) /\ Len(x) = d
    BY <2>3
  <2>5. CharsFrom(a, b) \in Seq(CharSet(L)) /\ Len(CharsFrom(a, b)) = b - a
    BY <2>4 DEF x, d, A
  <2> QED BY <1>5, <2>5
<1>4. CASE a > b
  <2>1. 1 .. b - a = {}
    BY <1>4
  <2>2. CharsFrom(a, b) = <<>>
    BY <2>1 DEF CharsFrom
  <2>3. <<>> \in Seq(CharSet(L))
    OBVIOUS
  <2> QED BY <1>4, <1>5, <2>2, <2>3
<1> QED BY <1>3, <1>4

(* Two sequences joined.                                                   *)
LEMMA Joining ==
  ASSUME NEW A, NEW x \in Seq(A), NEW y \in Seq(A)
  PROVE  /\ x \o y \in Seq(A) /\ Len(x \o y) = Len(x) + Len(y) /\ Len(x) \in Nat /\ Len(y) \in Nat
         /\ \A i \in 1 .. Len(x) : (x \o y)[i] = x[i]
         /\ \A i \in 1 .. Len(y) : (x \o y)[Len(x) + i] = y[i]
OBVIOUS

(* A masked text and a cursor make another.                                *)
LEMMA NextTextType ==
  ASSUME NEW L, NEW n \in Nat, NEW s \in SpanSet(L), NEW acc \in [text : Seq(CharSet(L)), cursor : Nat]
  PROVE  NextText(acc, n, s) \in [text : Seq(CharSet(L)), cursor : Nat]
<1> DEFINE A == CharSet(L)
           x == acc.text
           y == CharsFrom(acc.cursor, s.start)
           e == [of |-> n, label |-> s.label]
<1>1. x \in Seq(A) /\ acc.cursor \in Nat /\ s.start \in Nat /\ s.end \in Nat /\ s.label \in L
  BY DEF SpanSet
<1>2. y \in Seq(A)
  BY <1>1, CharsAre
<1>3. e \in A
  BY <1>1 DEF CharSet
<1> HIDE DEF A, x, y, e
<1>4. x \o y \o <<e>> \in Seq(A)
  BY <1>1, <1>2, <1>3
<1> QED BY <1>1, <1>4 DEF NextText, x, y, e, A

(* A text is masked span by span.                                          *)
LEMMA MaskSteps ==
  ASSUME NEW L, NEW m \in Seq(SpanSet(L)), NEW n \in Nat
  PROVE  \E acc :
           /\ acc[0] = [text |-> <<>>, cursor |-> 0]
           /\ Masked(n, m) = acc[Len(m)].text \o CharsFrom(acc[Len(m)].cursor, n)
           /\ \A k \in 0 .. Len(m) : acc[k] \in [text : Seq(CharSet(L)), cursor : Nat]
           /\ \A k \in 1 .. Len(m) : acc[k] = NextText(acc[k - 1], n, m[k])
<1> DEFINE N == Len(m)
           A == [text : Seq(CharSet(L)), cursor : Nat]
           b == [text |-> <<>>, cursor |-> 0]
           D == SUBSET (DOMAIN m)
           chars(a, c) == [i \in 1 .. c - a |-> [of |-> a + i - 1, label |-> "none"]]
           step(a, s) == [text |-> a.text \o chars(a.cursor, s.start) \o <<[of |-> n, label |-> s.label]>>,
                          cursor |-> s.end]
           Is(f) == f = [t \in D |-> IF t = {} THEN b ELSE step(f[t \ {Max(t)}], m[Max(t)])]
           iter == CHOOSE f : Is(f)
           G == [p \in (1 .. N) \X A |-> NextText(p[2], n, m[p[1]])]
<1>1. N \in Nat /\ DOMAIN m = 1 .. N /\ \A i \in 1 .. N : m[i] \in SpanSet(L)
  <2> DEFINE R == SpanSet(L)
  <2>1. m \in Seq(R)
    OBVIOUS
  <2> HIDE DEF R
  <2>2. N \in Nat /\ DOMAIN m = 1 .. N /\ \A i \in 1 .. N : m[i] \in R
    BY <2>1
  <2> QED BY <2>2 DEF R
<1>2. Masked(n, m) = iter[DOMAIN m].text \o CharsFrom(iter[DOMAIN m].cursor, n)
  BY DEF Masked, FoldLeft, MapThenFoldSet, CharsFrom
<1>3. b \in A
  <2>1. <<>> \in Seq(CharSet(L))
    OBVIOUS
  <2> QED BY <2>1
<1>4. ASSUME NEW a \in A, NEW i \in 1 .. N PROVE NextText(a, n, m[i]) \in A
  BY <1>1, NextTextType
<1>5. \A a, s : step(a, s) = NextText(a, n, s)
  BY DEF NextText, CharsFrom
<1> HIDE DEF N, A, b, step
<1>6. G \in [(1 .. N) \X A -> A]
  BY <1>4
<1>7. ASSUME NEW k \in 1 .. N, NEW a \in A PROVE G[<<k, a>>] = step(a, m[k])
  BY <1>1, <1>5, <1>7
<1>8. Is(iter)
  <2>1. PICK f : FoldOf(f, A, b, N, G)
    <3> HIDE DEF G
    <3> QED BY <1>1, <1>3, <1>6, FoldExists
  <2> HIDE DEF G
  <2>2. ShapeOf(f, A, b, N, G) /\ D = SUBSET (1 .. N)
    BY <1>1, <2>1, FoldShape
  <2>3. \A t \in D : f[t] = IF t = {} THEN b ELSE step(f[t \ {Max(t)}], m[Max(t)])
    BY <1>7, <2>2 DEF ShapeOf
  <2>4. Is(f)
    <3>1. f \in [D -> A]
      BY <2>2 DEF ShapeOf
    <3> HIDE DEF D
    <3> QED BY <2>3, <3>1
  <2> QED BY <2>4
<1> HIDE DEF G
<1>9. Iterates(iter, A, b, N, G)
  <2> HIDE DEF iter
  <2>1. iter[{}] = b
    BY <1>8
  <2>2. ASSUME NEW t \in SUBSET (1 .. N), t # {}, iter[t \ {Max(t)}] \in A
        PROVE  iter[t] = G[<<Max(t), iter[t \ {Max(t)}]>>]
    <3>1. Max(t) \in 1 .. N
      BY <1>1, <2>2, MaxOf
    <3>2. iter[t] = step(iter[t \ {Max(t)}], m[Max(t)])
      BY <1>1, <1>8, <2>2
    <3> QED BY <1>7, <2>2, <3>1, <3>2
  <2> QED BY <2>1, <2>2 DEF Iterates
<1> HIDE DEF iter
<1>10. PICK acc : StepsOf(acc, A, b, N, G, iter[1 .. N])
  BY <1>1, <1>3, <1>6, <1>9, FoldSteps
<1>11. \A k \in 0 .. N : acc[k] \in A
  BY <1>10 DEF StepsOf
<1>12. ASSUME NEW k \in 1 .. N PROVE acc[k] = NextText(acc[k - 1], n, m[k])
  <2>1. k - 1 \in 0 .. N /\ acc[k] = G[<<k, acc[k - 1]>>]
    BY <1>1, <1>10 DEF StepsOf
  <2> QED BY <1>1, <1>5, <1>7, <1>11, <2>1
<1>13. acc[0] = b /\ acc[N] = iter[DOMAIN m]
  BY <1>1, <1>10 DEF StepsOf
<1> QED BY <1>2, <1>11, <1>12, <1>13 DEF N, A, b
-----------------------------------------------------------------------------
(* The characters that a text shows are those of S, in their order.        *)
Shows(text, S) ==
  /\ \A i \in 1 .. Len(text) : text[i].label = "none" => text[i].of \in S
  /\ \A x \in S : \E i \in 1 .. Len(text) : text[i].label = "none" /\ text[i].of = x
  /\ \A i, j \in 1 .. Len(text) :
       i < j /\ text[i].label = "none" /\ text[j].label = "none" => text[i].of < text[j].of

(* Two texts joined show the characters of both, if those of the second    *)
(* come later.                                                             *)
LEMMA ShowsBoth ==
  ASSUME NEW A, NEW x \in Seq(A), NEW y \in Seq(A), NEW S, NEW T, Shows(x, S), Shows(y, T),
         \A s \in S, t \in T : s < t
  PROVE  Shows(x \o y, S \cup T)
<1> DEFINE z == x \o y
           p == Len(x)
           q == Len(y)
<1>1. p \in Nat /\ q \in Nat /\ Len(z) = p + q /\ (\A i \in 1 .. p : z[i] = x[i]) /\ \A i \in 1 .. q : z[p + i] = y[i]
  BY Joining
<1> HIDE DEF z, p, q
<1>2. ASSUME NEW i \in 1 .. p + q PROVE i \in 1 .. p \/ \E k \in 1 .. q : i = p + k
  <2>1. CASE i > p
    <3>1. i - p \in 1 .. q /\ i = p + (i - p)
      BY <1>1, <2>1
    <3> QED BY <3>1
  <2> QED BY <1>1, <2>1
<1>3. ASSUME NEW i \in 1 .. Len(z), z[i].label = "none"
      PROVE  z[i].of \in S \cup T
  <2>1. CASE i \in 1 .. p
    BY <1>1, <1>3, <2>1 DEF Shows, p
  <2>2. ASSUME NEW k \in 1 .. q, i = p + k PROVE z[i].of \in T
    <3>1. z[i] = y[k]
      BY <1>1, <2>2
    <3> QED BY <1>3, <3>1 DEF Shows, q
  <2> QED BY <1>1, <1>2, <2>1, <2>2
<1>4. ASSUME NEW v \in S \cup T PROVE \E i \in 1 .. Len(z) : z[i].label = "none" /\ z[i].of = v
  <2>1. CASE v \in S
    <3>1. PICK i \in 1 .. p : x[i].label = "none" /\ x[i].of = v
      BY <2>1 DEF Shows, p
    <3>2. i \in 1 .. p + q
      BY <1>1
    <3> QED BY <1>1, <3>1, <3>2
  <2>2. CASE v \in T
    <3>1. PICK i \in 1 .. q : y[i].label = "none" /\ y[i].of = v
      BY <2>2 DEF Shows, q
    <3>2. p + i \in 1 .. p + q
      BY <1>1
    <3> QED BY <1>1, <3>1, <3>2
  <2> QED BY <2>1, <2>2
<1>5. ASSUME NEW i \in 1 .. Len(z), NEW j \in 1 .. Len(z), i < j, z[i].label = "none", z[j].label = "none"
      PROVE  z[i].of < z[j].of
  <2>1. CASE i \in 1 .. p /\ j \in 1 .. p
    BY <1>1, <1>5, <2>1 DEF Shows, p
  <2>2. ASSUME i \in 1 .. p, NEW l \in 1 .. q, j = p + l PROVE z[i].of < z[j].of
    <3>1. z[i].of \in S
      BY <1>1, <1>5, <2>2 DEF Shows, p
    <3>2. z[j].of \in T
      BY <1>1, <1>5, <2>2 DEF Shows, q
    <3> QED BY <3>1, <3>2
  <2>3. ASSUME NEW k \in 1 .. q, NEW l \in 1 .. q, i = p + k, j = p + l PROVE z[i].of < z[j].of
    <3>1. k < l /\ z[i] = y[k] /\ z[j] = y[l]
      BY <1>1, <1>5, <2>3
    <3> QED BY <1>5, <3>1 DEF Shows, q
  <2>4. ASSUME NEW k \in 1 .. q, i = p + k, j \in 1 .. p PROVE FALSE
    BY <1>1, <1>5, <2>4
  <2> QED BY <1>1, <1>2, <2>1, <2>2, <2>3, <2>4
<1> QED BY <1>3, <1>4, <1>5 DEF Shows, z

(* The characters from a to b show themselves.                             *)
LEMMA ShowsChars == ASSUME NEW a \in Nat, NEW b \in Nat, a <= b PROVE Shows(CharsFrom(a, b), a .. b - 1)
<1> DEFINE x == CharsFrom(a, b)
<1>1. Len(x) = b - a /\ \A i \in 1 .. b - a : x[i].of = a + i - 1 /\ x[i].label = "none"
  BY CharsAre
<1> HIDE DEF x
<1>2. \A i \in 1 .. b - a : x[i].of \in a .. b - 1
  BY <1>1
<1>3. ASSUME NEW v \in a .. b - 1 PROVE \E i \in 1 .. b - a : x[i].of = v
  <2>1. v - a + 1 \in 1 .. b - a /\ a + (v - a + 1) - 1 = v
    OBVIOUS
  <2> QED BY <1>1, <2>1
<1>4. \A i, j \in 1 .. b - a : i < j => x[i].of < x[j].of
  BY <1>1
<1> QED BY <1>1, <1>2, <1>3, <1>4 DEF Shows, x

(* A label shows no character.                                             *)
LEMMA ShowsNone == ASSUME NEW e, e.label # "none" PROVE Shows(<<e>>, {}) /\ Shows(<<>>, {})
BY DEF Shows
-----------------------------------------------------------------------------
(* The characters before the cursor that none of the first k spans covers. *)
Open(m, k, cursor) == {x \in 0 .. cursor - 1 : ~Covered(m, k, x)}
MaskedTo(m, acc, k) ==
  /\ acc.cursor = IF k = 0 THEN 0 ELSE m[k].end
  /\ \A i \in 1 .. k : m[i].end <= acc.cursor
  /\ Shows(acc.text, Open(m, k, acc.cursor))

(* One span more is masked, and what lies before it is shown.              *)
LEMMA MaskedStep ==
  ASSUME NEW L, NEW m \in Seq(SpanSet(L)), NEW n \in Nat, NEW k \in 1 .. Len(m),
         \A i \in 1 .. Len(m) : Inside(m[i], n),
         \A i \in 2 .. Len(m) : m[i - 1].end <= m[i].start,
         NEW acc \in [text : Seq(CharSet(L)), cursor : Nat], MaskedTo(m, acc, k - 1)
  PROVE  MaskedTo(m, NextText(acc, n, m[k]), k)
<1> DEFINE s == m[k]
           c == acc.cursor
           x == acc.text
           y == CharsFrom(c, s.start)
           e == [of |-> n, label |-> s.label]
           A == CharSet(L)
           R == SpanSet(L)
<1>1. \A i \in 1 .. Len(m) : m[i].start \in Nat /\ m[i].end \in Nat /\ m[i].label \in L
  <2>1. m \in Seq(R)
    OBVIOUS
  <2> HIDE DEF R
  <2>2. \A i \in 1 .. Len(m) : m[i] \in R
    BY <2>1
  <2> QED BY <2>2 DEF R, SpanSet
<1>2. k \in 1 .. Len(m) /\ Len(m) \in Nat
  OBVIOUS
<1>3. s.start \in Nat /\ s.end \in Nat /\ s.label \in L /\ c \in Nat /\ x \in Seq(A)
  BY <1>1, <1>2
<1>4. s.start < s.end /\ s.label # "none"
  BY <1>2 DEF Inside
<1>5. c <= s.start /\ (\A i \in 1 .. k - 1 : m[i].end <= c)
  <2>1. c = (IF k - 1 = 0 THEN 0 ELSE m[k - 1].end) /\ \A i \in 1 .. k - 1 : m[i].end <= c
    BY DEF MaskedTo
  <2>2. CASE k = 1
    BY <1>2, <1>3, <2>1, <2>2
  <2>3. CASE k # 1
    <3>1. k \in 2 .. Len(m) /\ k - 1 # 0
      BY <1>2, <2>3
    <3>2. m[k - 1].end <= s.start
      BY <3>1
    <3> QED BY <2>1, <3>1, <3>2
  <2> QED BY <2>2, <2>3
<1>6. Shows(x, Open(m, k - 1, c))
  BY DEF MaskedTo
<1>7. y \in Seq(A) /\ e \in A
  <2>1. y \in Seq(A)
    BY <1>3, CharsAre
  <2>2. e \in A
    BY <1>3 DEF CharSet
  <2> QED BY <2>1, <2>2
<1>8. Shows(y, c .. s.start - 1)
  BY <1>3, <1>5, ShowsChars
<1>9. Shows(<<e>>, {})
  <2>1. e.label # "none"
    BY <1>4
  <2> HIDE DEF e
  <2> QED BY <2>1, ShowsNone
<1>10. Open(m, k, s.end) = Open(m, k - 1, c) \cup (c .. s.start - 1)
  <2>1. ASSUME NEW v \in Nat PROVE Covered(m, k, v) <=> Covered(m, k - 1, v) \/ (s.start <= v /\ v < s.end)
    <3>1. 1 .. k = 1 .. k - 1 \cup {k}
      BY <1>2
    <3> QED BY <3>1 DEF Covered
  <2>2. ASSUME NEW v \in Nat, Covered(m, k - 1, v) PROVE v < c
    <3>1. PICK i \in 1 .. k - 1 : m[i].start <= v /\ v < m[i].end
      BY <2>2 DEF Covered
    <3>2. i \in 1 .. Len(m) /\ m[i].end <= c
      BY <1>2, <1>5, <3>1
    <3>3. m[i].end \in Nat
      BY <1>1, <3>2
    <3> HIDE DEF c
    <3> QED BY <1>3, <3>1, <3>2, <3>3
  <2> HIDE DEF s, c
  <2>3. ASSUME NEW v \in Nat
        PROVE  v < s.end /\ ~Covered(m, k, v) <=> (v < c /\ ~Covered(m, k - 1, v)) \/ (c <= v /\ v < s.start)
    BY <1>3, <1>4, <1>5, <2>1, <2>2
  <2> QED BY <1>3, <2>3 DEF Open
<1>11. Shows(x \o y \o <<e>>, Open(m, k, s.end))
  <2> DEFINE S == Open(m, k - 1, c)
             T == c .. s.start - 1
  <2>1. \A v \in S, w \in T : v < w
    BY <1>3 DEF Open
  <2>2. S \cup T = Open(m, k, s.end)
    BY <1>10
  <2> HIDE DEF x, y, e, A, S, T
  <2>3. Shows(x \o y, S \cup T)
    BY <1>3, <1>6, <1>7, <1>8, <2>1, ShowsBoth DEF S, T
  <2>4. x \o y \in Seq(A) /\ <<e>> \in Seq(A)
    BY <1>3, <1>7
  <2>5. Shows((x \o y) \o <<e>>, (S \cup T) \cup {})
    <3>1. \A v \in S \cup T, w \in {} : v < w
      OBVIOUS
    <3> QED BY <1>9, <2>3, <2>4, <3>1, ShowsBoth
  <2>6. (S \cup T) \cup {} = S \cup T
    OBVIOUS
  <2> QED BY <2>2, <2>5, <2>6
<1>12. NextText(acc, n, s).text = x \o y \o <<e>> /\ NextText(acc, n, s).cursor = s.end
  BY DEF NextText
<1>13. \A i \in 1 .. k : m[i].end <= s.end
  <2> SUFFICES ASSUME NEW i \in 1 .. k PROVE m[i].end <= s.end
    OBVIOUS
  <2>1. CASE i = k
    BY <1>3, <2>1
  <2>2. CASE i # k
    <3>1. i \in 1 .. k - 1 /\ i \in 1 .. Len(m)
      BY <1>2, <2>2
    <3>2. m[i].end <= c /\ m[i].end \in Nat
      BY <1>1, <1>5, <3>1
    <3> HIDE DEF s, c
    <3> QED BY <1>3, <1>4, <1>5, <3>2
  <2> QED BY <2>1, <2>2
<1> HIDE DEF s, x, y, e
<1>14. MaskedTo(m, NextText(acc, n, s), k)
  <2>1. k # 0 /\ s = m[k]
    BY <1>2 DEF s
  <2> QED BY <1>11, <1>12, <1>13, <2>1 DEF MaskedTo
<1> QED BY <1>14 DEF s

(* A masked text shows the characters that no span covers.                 *)
LEMMA MaskedShows ==
  ASSUME NEW L, NEW m \in Seq(SpanSet(L)), NEW n \in Nat, NEW S, SpansHold(m, S, n)
  PROVE  Shows(Masked(n, m), {x \in 0 .. n - 1 : ~Covered(m, Len(m), x)}) /\ Len(Masked(n, m)) \in Nat
         /\ DOMAIN Masked(n, m) = 1 .. Len(Masked(n, m))
<1> DEFINE N == Len(m)
           A == CharSet(L)
           R == SpanSet(L)
<1>1. N \in Nat /\ \A i \in 1 .. N : m[i].end \in Nat
  <2>1. m \in Seq(R)
    OBVIOUS
  <2> HIDE DEF R
  <2>2. N \in Nat /\ \A i \in 1 .. N : m[i] \in R
    BY <2>1
  <2> QED BY <2>2 DEF R, SpanSet
<1>2. (\A i \in 1 .. N : Inside(m[i], n)) /\ (\A i \in 2 .. N : m[i - 1].end <= m[i].start)
  BY DEF SpansHold
<1>3. PICK acc :
        /\ acc[0] = [text |-> <<>>, cursor |-> 0]
        /\ Masked(n, m) = acc[N].text \o CharsFrom(acc[N].cursor, n)
        /\ \A k \in 0 .. N : acc[k] \in [text : Seq(CharSet(L)), cursor : Nat]
        /\ \A k \in 1 .. N : acc[k] = NextText(acc[k - 1], n, m[k])
  BY MaskSteps
<1> DEFINE K == {k \in 0 .. N : MaskedTo(m, acc[k], k)}
<1>4. 0 \in K
  <2>1. acc[0].text = <<>> /\ acc[0].cursor = 0
    BY <1>3
  <2>2. Open(m, 0, 0) = {}
    BY DEF Open
  <2>3. Shows(<<>>, {})
    BY DEF Shows
  <2> DEFINE b == acc[0]
  <2> HIDE DEF b
  <2>4. b.text = <<>> /\ b.cursor = 0
    BY <2>1 DEF b
  <2>5. \A i \in 1 .. 0 : m[i].end <= b.cursor
    OBVIOUS
  <2>6. MaskedTo(m, b, 0)
    BY <2>2, <2>3, <2>4, <2>5 DEF MaskedTo
  <2> QED BY <1>1, <2>6 DEF b
<1>5. ASSUME NEW k \in 0 .. N - 1, k \in K PROVE k + 1 \in K
  <2>1. k + 1 \in 1 .. N /\ (k + 1) - 1 = k /\ k \in 0 .. N /\ k + 1 \in 0 .. N
    BY <1>1
  <2>2. acc[k] \in [text : Seq(CharSet(L)), cursor : Nat] /\ acc[k + 1] = NextText(acc[k], n, m[k + 1])
    BY <1>3, <2>1
  <2>3. MaskedTo(m, acc[k], (k + 1) - 1)
    BY <1>5, <2>1
  <2>4. MaskedTo(m, acc[k + 1], k + 1)
    <3> HIDE DEF K
    <3> QED BY <1>2, <2>1, <2>2, <2>3, MaskedStep
  <2> QED BY <2>1, <2>4
<1>6. MaskedTo(m, acc[N], N)
  <2> HIDE DEF K, N
  <2>1. \A k \in 0 .. N : k \in K
    BY <1>1, <1>4, <1>5, UpTo
  <2>2. N \in K
    BY <1>1, <2>1
  <2> QED BY <2>2 DEF K
<1> DEFINE c == acc[N].cursor
           x == acc[N].text
           y == CharsFrom(c, n)
<1>7. c \in Nat /\ x \in Seq(A)
  <2>1. acc[N] \in [text : Seq(CharSet(L)), cursor : Nat]
    BY <1>1, <1>3
  <2> QED BY <2>1
<1>8. c <= n
  <2>1. CASE N = 0
    BY <1>6, <2>1 DEF MaskedTo
  <2>2. CASE N # 0
    <3>1. N \in 1 .. N /\ c = m[N].end
      BY <1>1, <1>6, <2>2 DEF MaskedTo
    <3>2. Inside(m[N], n)
      BY <1>2, <3>1
    <3> QED BY <3>1, <3>2 DEF Inside
  <2> QED BY <2>1, <2>2
<1>9. Shows(x, Open(m, N, c)) /\ \A i \in 1 .. N : m[i].end <= c
  BY <1>6 DEF MaskedTo
<1>10. Shows(y, c .. n - 1) /\ y \in Seq(A)
  BY <1>7, <1>8, CharsAre, ShowsChars
<1>11. Open(m, N, c) \cup (c .. n - 1) = {v \in 0 .. n - 1 : ~Covered(m, N, v)}
  <2>1. ASSUME NEW v \in Nat, Covered(m, N, v) PROVE v < c
    <3>1. PICK i \in 1 .. N : m[i].start <= v /\ v < m[i].end
      BY <2>1 DEF Covered
    <3>2. m[i].end <= c /\ m[i].end \in Nat
      BY <1>1, <1>9, <3>1
    <3> HIDE DEF c
    <3> QED BY <1>7, <3>1, <3>2
  <2> HIDE DEF c, N
  <2> QED BY <1>7, <1>8, <2>1 DEF Open
<1>12. Shows(x \o y, Open(m, N, c) \cup (c .. n - 1))
  <2> DEFINE U == Open(m, N, c)
             T == c .. n - 1
  <2>1. \A v \in U, w \in T : v < w
    BY <1>7 DEF Open
  <2> HIDE DEF x, y, A, U, T
  <2>2. Shows(x \o y, U \cup T)
    BY <1>7, <1>9, <1>10, <2>1, ShowsBoth DEF U, T
  <2> QED BY <2>2 DEF U, T
<1>13. Masked(n, m) = x \o y
  BY <1>3
<1> HIDE DEF x, y, A
<1>14. x \o y \in Seq(A)
  BY <1>7, <1>10
<1> DEFINE z == x \o y
<1>15. Len(z) \in Nat /\ DOMAIN z = 1 .. Len(z)
  <2>1. z \in Seq(A)
    BY <1>14
  <2> HIDE DEF z
  <2> QED BY <2>1
<1> QED BY <1>11, <1>12, <1>13, <1>15

(* Every character of a candidate is masked, and every other one stays in  *)
(* its place.                                                              *)
LEMMA MaskedAll == ASSUME Computed PROVE AllMasked
<1> SUFFICES ASSUME Of("redact") PROVE
      LET visible == {i \in DOMAIN result.text : result.text[i].label = "none"}
      IN /\ {result.text[i].of : i \in visible} = (0 .. input.length - 1) \ Characters(input.spans)
         /\ \A i, j \in visible : i < j => result.text[i].of < result.text[j].of
  BY DEF AllMasked
<1> DEFINE text == result.text
           m == Merge(input.spans)
           n == input.length
           S == input.spans
           L == STRING
<1>1. text = Masked(n, m) /\ input \in CandidateSets
  BY DEF Computed, Has, Of
<1>2. S \in SUBSET SpanSet(L) /\ IsFiniteSet(S) /\ n \in Nat /\ \A s \in S : Inside(s, n)
  BY <1>1, CandidatesInside
<1> HIDE DEF L, S, n
<1>3. m \in Seq(SpanSet(L)) /\ SpansHold(m, S, n)
  BY <1>2, MergeHolds DEF S
<1> HIDE DEF m
<1>4. Shows(text, {x \in 0 .. n - 1 : ~Covered(m, Len(m), x)}) /\ DOMAIN text = 1 .. Len(text)
  BY <1>1, <1>2, <1>3, MaskedShows
<1> HIDE DEF text
<1>5. {x \in 0 .. n - 1 : ~Covered(m, Len(m), x)} = (0 .. n - 1) \ Characters(S)
  <2>1. ASSUME NEW x \in 0 .. n - 1 PROVE Covered(m, Len(m), x) <=> x \in Characters(S)
    <3>1. x \in Nat
      BY <1>2
    <3>2. Covered(m, Len(m), x) <=> \E s \in S : s.start <= x /\ x < s.end
      BY <1>3, <3>1 DEF SpansHold
    <3>3. \A s \in S : s.start \in Nat /\ s.end \in Nat
      BY <1>2 DEF SpanSet
    <3>4. \A s \in S : x \in s.start .. s.end - 1 <=> s.start <= x /\ x < s.end
      BY <3>1, <3>3
    <3> QED BY <3>2, <3>4 DEF Characters
  <2> QED BY <2>1
<1> DEFINE visible == {i \in DOMAIN text : text[i].label = "none"}
<1>6. {text[i].of : i \in visible} = (0 .. n - 1) \ Characters(S)
  BY <1>4, <1>5 DEF Shows
<1>7. \A i, j \in visible : i < j => text[i].of < text[j].of
  BY <1>4 DEF Shows
<1> QED BY <1>6, <1>7 DEF text, n, S
-----------------------------------------------------------------------------
WordSet(L)  == [start : Nat, end : Nat, prefix : {"B", "I", "O"}, label : L, score : Nat]
PieceSet(L) == [start : Nat, end : Nat, label : L, sum : Nat, n : Nat \ {0}]
PieceState(L) == {a \in [open : BOOLEAN, pieces : Seq(PieceSet(L))] : a.open => a.pieces # <<>>}
FirstPiece(w) == [start |-> w.start, end |-> w.end, label |-> w.label, sum |-> w.score, n |-> 1]

(* A word more in a piece.                                                 *)
LEMMA GrownPiece ==
  ASSUME NEW L, NEW p \in PieceSet(L), NEW w \in WordSet(L)
  PROVE  Grown(p, w) \in PieceSet(L) /\ Grown(p, w).start = p.start /\ Grown(p, w).end = w.end
<1>1. p.sum + w.score \in Nat /\ p.n + 1 \in Nat \ {0} /\ w.end \in Nat
  BY DEF PieceSet, WordSet
<1>2. Grown(p, w) \in PieceSet(L)
  BY <1>1 DEF Grown, PieceSet
<1> QED BY <1>2 DEF Grown, PieceSet

(* The three things that a word may do.                                    *)
PieceCase(a, b, w) ==
  \/ b.pieces = a.pieces /\ b.open = FALSE
  \/ b.pieces = Append(a.pieces, FirstPiece(w)) /\ b.open = TRUE
  \/ b.pieces = [a.pieces EXCEPT ![Len(a.pieces)] = Grown(@, w)] /\ b.open = TRUE /\ a.pieces # <<>>

(* A word leaves the pieces alone, opens one, or extends the last.         *)
LEMMA PieceCases ==
  ASSUME NEW L, NEW a \in PieceState(L), NEW w \in WordSet(L)
  PROVE  PieceCase(a, Piece(a, w), w) /\ Piece(a, w) \in PieceState(L)
<1> DEFINE P == Seq(PieceSet(L))
           opens == w.prefix = "B" \/ ~a.open \/ Last(a.pieces).label # w.label
           s == a.pieces
           b == Piece(a, w)
<1>1. a \in [open : BOOLEAN, pieces : P] /\ s \in P /\ a.open \in BOOLEAN /\ (a.open => s # <<>>)
  BY DEF PieceState
<1>2. FirstPiece(w) \in PieceSet(L)
  BY DEF FirstPiece, PieceSet, WordSet
<1>3. Append(s, FirstPiece(w)) \in P /\ Append(s, FirstPiece(w)) # <<>>
  <2> DEFINE A == PieceSet(L)
             e == FirstPiece(w)
  <2>1. s \in Seq(A) /\ e \in A
    BY <1>1, <1>2
  <2> HIDE DEF A, e, s
  <2>2. Append(s, e) \in Seq(A) /\ Append(s, e) # <<>>
    BY <2>1, AppendOne
  <2> QED BY <2>2 DEF A, e
<1>4. CASE w.prefix = "O"
  <2>1. b = [a EXCEPT !.open = FALSE]
    BY <1>4 DEF Piece
  <2> HIDE DEF b, P
  <2>2. b \in [open : BOOLEAN, pieces : P] /\ b.open = FALSE /\ b.pieces = s
    BY <1>1, <2>1
  <2>3. b \in PieceState(L)
    BY <2>2 DEF PieceState, P
  <2> QED BY <2>2, <2>3 DEF PieceCase, b
<1>5. CASE w.prefix # "O" /\ opens
  <2>1. b = [open |-> TRUE, pieces |-> Append(s, FirstPiece(w))]
    BY <1>5 DEF Piece, FirstPiece
  <2> HIDE DEF b, P, s
  <2>2. b \in [open : BOOLEAN, pieces : P] /\ b.open = TRUE /\ b.pieces = Append(s, FirstPiece(w))
    BY <1>3, <2>1
  <2>3. b \in PieceState(L)
    BY <1>3, <2>2 DEF PieceState, P
  <2> QED BY <2>2, <2>3 DEF PieceCase, b, s
<1>6. CASE w.prefix # "O" /\ ~opens
  <2>1. a.open /\ s # <<>>
    BY <1>1, <1>6
  <2>2. b = [a EXCEPT !.pieces[Len(s)] = Grown(@, w)]
    BY <1>6 DEF Piece
  <2> DEFINE e == Grown(s[Len(s)], w)
             x == [s EXCEPT ![Len(s)] = e]
             A == PieceSet(L)
  <2>3. b = [a EXCEPT !.pieces = x]
    BY <2>2
  <2>4. e \in A
    <3>1. s[Len(s)] \in A
      <4>1. s \in Seq(A)
        BY <1>1
      <4> HIDE DEF A, s
      <4> QED BY <2>1, <4>1
    <3> QED BY <3>1, GrownPiece
  <2>5. x \in Seq(A) /\ x # <<>>
    <3>1. s \in Seq(A)
      BY <1>1
    <3> HIDE DEF A, s, e
    <3>2. x \in Seq(A) /\ Len(x) = Len(s) /\ Len(s) \in 1 .. Len(s)
      BY <2>1, <2>4, <3>1, SetLast
    <3> HIDE DEF x
    <3>3. Len(x) # 0
      BY <3>1, <3>2
    <3> QED BY <3>2, <3>3
  <2> HIDE DEF b, x, s
  <2>6. b \in [open : BOOLEAN, pieces : P] /\ b.open = TRUE /\ b.pieces = x
    <3>1. x \in P
      BY <2>5 DEF A, P
    <3> HIDE DEF P, A
    <3> QED BY <1>1, <2>1, <2>3, <3>1
  <2>7. b \in PieceState(L)
    BY <2>5, <2>6 DEF PieceState, P
  <2> QED BY <2>1, <2>6, <2>7 DEF PieceCase, b, x, s
<1> QED BY <1>4, <1>5, <1>6 DEF WordSet

(* The pieces are made word by word.                                       *)
LEMMA PieceSteps ==
  ASSUME NEW L, NEW words \in Seq(WordSet(L))
  PROVE  \E acc :
           /\ acc[0] = [open |-> FALSE, pieces |-> <<>>] /\ Pieces(words) = acc[Len(words)].pieces
           /\ \A n \in 0 .. Len(words) : acc[n] \in PieceState(L)
           /\ \A n \in 1 .. Len(words) : acc[n] = Piece(acc[n - 1], words[n])
<1> DEFINE N == Len(words)
           A == PieceState(L)
           b == [open |-> FALSE, pieces |-> <<>>]
           D == SUBSET (DOMAIN words)
           Is(f) == f = [t \in D |-> IF t = {} THEN b ELSE Piece(f[t \ {Max(t)}], words[Max(t)])]
           iter == CHOOSE f : Is(f)
           G == [p \in (1 .. N) \X A |-> Piece(p[2], words[p[1]])]
<1>1. N \in Nat /\ DOMAIN words = 1 .. N /\ \A i \in 1 .. N : words[i] \in WordSet(L)
  <2> DEFINE R == WordSet(L)
  <2>1. words \in Seq(R)
    OBVIOUS
  <2> HIDE DEF R
  <2>2. N \in Nat /\ DOMAIN words = 1 .. N /\ \A i \in 1 .. N : words[i] \in R
    BY <2>1
  <2> QED BY <2>2 DEF R
<1>2. Pieces(words) = iter[DOMAIN words].pieces
  BY DEF Pieces, FoldLeft, MapThenFoldSet
<1>3. b \in A
  <2>1. <<>> \in Seq(PieceSet(L))
    OBVIOUS
  <2> QED BY <2>1 DEF PieceState
<1>4. ASSUME NEW a \in A, NEW i \in 1 .. N PROVE Piece(a, words[i]) \in A
  BY <1>1, PieceCases
<1> HIDE DEF N, A, b
<1>6. G \in [(1 .. N) \X A -> A]
  BY <1>4
<1>7. ASSUME NEW k \in 1 .. N, NEW a \in A PROVE G[<<k, a>>] = Piece(a, words[k])
  BY <1>1, <1>7
<1>8. Is(iter)
  <2>1. PICK f : FoldOf(f, A, b, N, G)
    <3> HIDE DEF G
    <3> QED BY <1>1, <1>3, <1>6, FoldExists
  <2> HIDE DEF G
  <2>2. ShapeOf(f, A, b, N, G) /\ D = SUBSET (1 .. N)
    BY <1>1, <2>1, FoldShape
  <2>3. \A t \in D : f[t] = IF t = {} THEN b ELSE Piece(f[t \ {Max(t)}], words[Max(t)])
    BY <1>7, <2>2 DEF ShapeOf
  <2>4. Is(f)
    <3>1. f \in [D -> A]
      BY <2>2 DEF ShapeOf
    <3> HIDE DEF D
    <3> QED BY <2>3, <3>1
  <2> QED BY <2>4
<1> HIDE DEF G
<1>9. Iterates(iter, A, b, N, G)
  <2> HIDE DEF iter
  <2>1. iter[{}] = b
    BY <1>8
  <2>2. ASSUME NEW t \in SUBSET (1 .. N), t # {}, iter[t \ {Max(t)}] \in A
        PROVE  iter[t] = G[<<Max(t), iter[t \ {Max(t)}]>>]
    <3>1. Max(t) \in 1 .. N
      BY <1>1, <2>2, MaxOf
    <3>2. iter[t] = Piece(iter[t \ {Max(t)}], words[Max(t)])
      BY <1>1, <1>8, <2>2
    <3> QED BY <1>7, <2>2, <3>1, <3>2
  <2> QED BY <2>1, <2>2 DEF Iterates
<1> HIDE DEF iter
<1>10. PICK acc : StepsOf(acc, A, b, N, G, iter[1 .. N])
  BY <1>1, <1>3, <1>6, <1>9, FoldSteps
<1>11. \A k \in 0 .. N : acc[k] \in A
  BY <1>10 DEF StepsOf
<1>12. ASSUME NEW k \in 1 .. N PROVE acc[k] = Piece(acc[k - 1], words[k])
  <2>1. k - 1 \in 0 .. N /\ acc[k] = G[<<k, acc[k - 1]>>]
    BY <1>1, <1>10 DEF StepsOf
  <2> QED BY <1>1, <1>7, <1>11, <2>1
<1>13. acc[0] = b /\ acc[N] = iter[DOMAIN words]
  BY <1>1, <1>10 DEF StepsOf
<1> QED BY <1>2, <1>11, <1>12, <1>13 DEF N, A, b

(* What holds after the first n words.                                     *)
PiecesTo(words, s, n) ==
  /\ \A i \in 1 .. Len(s) : s[i].start <= s[i].end
  /\ s # <<>> => n # 0 /\ s[Len(s)].end <= words[n].end

(* The last piece ends with the word, or before it.                        *)
LEMMA PiecesStep ==
  ASSUME NEW L, NEW words \in Seq(WordSet(L)), NEW n \in 1 .. Len(words),
         \A i \in 1 .. Len(words) : words[i].start <= words[i].end,
         \A i \in 2 .. Len(words) : words[i - 1].end <= words[i].start,
         NEW a \in PieceState(L), PiecesTo(words, a.pieces, n - 1)
  PROVE  PiecesTo(words, Piece(a, words[n]).pieces, n)
<1> DEFINE w == words[n]
           s == a.pieces
           m == Len(s)
           b == Piece(a, w).pieces
           A == PieceSet(L)
           R == WordSet(L)
<1>1. n \in Nat \ {0} /\ n \in 1 .. Len(words) /\ \A i \in 1 .. Len(words) : words[i] \in R
  <2>1. words \in Seq(R)
    OBVIOUS
  <2> HIDE DEF R
  <2> QED BY <2>1
<1>2. w \in WordSet(L) /\ w.start \in Nat /\ w.end \in Nat /\ w.start <= w.end
  <2>1. w \in WordSet(L)
    BY <1>1
  <2>2. w.start <= w.end
    BY <1>1
  <2> QED BY <2>1, <2>2 DEF WordSet
<1>3. s \in Seq(A) /\ m \in Nat /\ \A i \in 1 .. m : s[i] \in A
  <2>1. s \in Seq(A)
    BY DEF PieceState
  <2> HIDE DEF A, s
  <2> QED BY <2>1
<1>4. \A p \in A : p.start \in Nat /\ p.end \in Nat
  BY DEF PieceSet
<1>5. PieceCase(a, Piece(a, w), w)
  BY <1>2, PieceCases
<1>6. (\A i \in 1 .. m : s[i].start <= s[i].end) /\ (s # <<>> => m \in 1 .. m /\ s[m].end <= w.start)
  <2>1. \A i \in 1 .. m : s[i].start <= s[i].end
    BY DEF PiecesTo
  <2>2. ASSUME s # <<>> PROVE m \in 1 .. m /\ s[m].end <= w.start
    <3>1. n - 1 # 0 /\ s[m].end <= words[n - 1].end
      BY <2>2 DEF PiecesTo
    <3>2. n \in 2 .. Len(words) /\ n - 1 \in 1 .. Len(words)
      BY <1>1, <3>1
    <3>3. words[n - 1].end <= w.start
      BY <3>2
    <3>4. m \in 1 .. m
      <4> HIDE DEF A, s
      <4> QED BY <1>3, <2>2
    <3>5. s[m].end \in Nat /\ words[n - 1].end \in Nat
      BY <1>1, <1>3, <1>4, <3>2, <3>4 DEF WordSet
    <3> HIDE DEF s, m, w
    <3> QED BY <1>2, <3>1, <3>3, <3>4, <3>5
  <2> QED BY <2>1, <2>2
<1> HIDE DEF w, s
<1>7. CASE b = s
  <2>1. \A i \in 1 .. Len(b) : b[i].start <= b[i].end
    BY <1>6, <1>7
  <2>2. b # <<>> => b[Len(b)].end <= w.end
    <3> SUFFICES ASSUME b # <<>> PROVE s[m].end <= w.end
      BY <1>7
    <3>1. m \in 1 .. m /\ s[m].end <= w.start /\ s[m].end \in Nat
      BY <1>3, <1>4, <1>6, <1>7
    <3> HIDE DEF m
    <3> QED BY <1>2, <3>1
  <2> QED BY <1>1, <2>1, <2>2 DEF PiecesTo, w
<1>8. CASE b = Append(s, FirstPiece(w))
  <2> DEFINE e == FirstPiece(w)
  <2>1. e.start = w.start /\ e.end = w.end /\ e \in A
    BY <1>2 DEF FirstPiece, PieceSet, WordSet
  <2> HIDE DEF e, A, b
  <2>2. Len(b) = m + 1 /\ b[m + 1] = e /\ \A i \in 1 .. m : b[i] = s[i]
    BY <1>3, <1>8, <2>1, AppendOne DEF e
  <2>3. ASSUME NEW i \in 1 .. Len(b) PROVE b[i].start <= b[i].end
    <3>1. CASE i = m + 1
      BY <1>2, <2>1, <2>2, <3>1
    <3>2. CASE i # m + 1
      <4>1. i \in 1 .. m
        BY <1>3, <2>2, <3>2
      <4> QED BY <1>6, <2>2, <4>1
    <3> QED BY <3>1, <3>2
  <2>4. b[Len(b)].end <= w.end
    BY <1>2, <2>1, <2>2
  <2> QED BY <1>1, <2>3, <2>4 DEF PiecesTo, w, b
<1>9. CASE b = [s EXCEPT ![m] = Grown(@, w)] /\ s # <<>>
  <2> DEFINE e == Grown(s[m], w)
  <2>1. m \in 1 .. m /\ s[m].end <= w.start /\ s[m] \in PieceSet(L)
    BY <1>3, <1>6, <1>9
  <2>2. e \in A /\ e.start = s[m].start /\ e.end = w.end
    BY <1>2, <2>1, GrownPiece
  <2>3. b = [s EXCEPT ![m] = e]
    BY <1>9
  <2> HIDE DEF e, A, b
  <2>4. Len(b) = m /\ b[m] = e /\ \A i \in 1 .. m - 1 : b[i] = s[i]
    BY <1>3, <1>9, <2>2, <2>3, SetLast
  <2>5. e.start <= e.end
    <3>1. s[m].start <= s[m].end /\ s[m].start \in Nat /\ s[m].end \in Nat
      BY <1>4, <1>6, <2>1 DEF A
    <3> HIDE DEF m
    <3> QED BY <1>2, <2>1, <2>2, <3>1
  <2>6. ASSUME NEW i \in 1 .. Len(b) PROVE b[i].start <= b[i].end
    <3>1. CASE i = m
      BY <2>4, <2>5, <3>1
    <3>2. CASE i # m
      <4>1. i \in 1 .. m - 1 /\ i \in 1 .. m
        BY <1>3, <2>4, <3>2
      <4> QED BY <1>6, <2>4, <4>1
    <3> QED BY <3>1, <3>2
  <2>7. b[Len(b)].end <= w.end
    BY <1>2, <2>2, <2>4
  <2> QED BY <1>1, <2>6, <2>7 DEF PiecesTo, w, b
<1> QED BY <1>5, <1>7, <1>8, <1>9 DEF PieceCase, s

(* No piece ends before it starts.                                         *)
LEMMA PiecesHold ==
  ASSUME NEW L, NEW words \in Seq(WordSet(L)),
         \A i \in 1 .. Len(words) : words[i].start <= words[i].end,
         \A i \in 2 .. Len(words) : words[i - 1].end <= words[i].start
  PROVE  Pieces(words) \in Seq(PieceSet(L)) /\ \A i \in 1 .. Len(Pieces(words)) : Pieces(words)[i].start <= Pieces(words)[i].end
<1> DEFINE N == Len(words)
<1>1. N \in Nat
  OBVIOUS
<1>2. PICK acc :
        /\ acc[0] = [open |-> FALSE, pieces |-> <<>>] /\ Pieces(words) = acc[N].pieces
        /\ \A n \in 0 .. N : acc[n] \in PieceState(L)
        /\ \A n \in 1 .. N : acc[n] = Piece(acc[n - 1], words[n])
  BY PieceSteps
<1> DEFINE K == {n \in 0 .. N : PiecesTo(words, acc[n].pieces, n)}
<1>3. 0 \in K
  <2>1. acc[0].pieces = <<>>
    BY <1>2
  <2> DEFINE s == acc[0].pieces
  <2> HIDE DEF s
  <2>2. s = <<>>
    BY <2>1 DEF s
  <2>3. PiecesTo(words, s, 0)
    BY <2>2 DEF PiecesTo
  <2> QED BY <1>1, <2>3 DEF s
<1>4. ASSUME NEW n \in 0 .. N - 1, n \in K PROVE n + 1 \in K
  <2>1. n + 1 \in 1 .. N /\ (n + 1) - 1 = n /\ n \in 0 .. N /\ n + 1 \in 0 .. N
    BY <1>1
  <2>2. acc[n] \in PieceState(L) /\ acc[n + 1] = Piece(acc[n], words[n + 1])
    BY <1>2, <2>1
  <2>3. PiecesTo(words, acc[n].pieces, (n + 1) - 1)
    BY <1>4, <2>1
  <2>4. PiecesTo(words, acc[n + 1].pieces, n + 1)
    <3> HIDE DEF K
    <3> QED BY <2>1, <2>2, <2>3, PiecesStep
  <2> QED BY <2>1, <2>4
<1>5. N \in K
  <2> HIDE DEF K, N
  <2>1. \A k \in 0 .. N : k \in K
    BY <1>1, <1>3, <1>4, UpTo
  <2> QED BY <1>1, <2>1
<1>6. acc[N] \in PieceState(L)
  BY <1>1, <1>2
<1>7. acc[N].pieces \in Seq(PieceSet(L))
  BY <1>6 DEF PieceState
<1> QED BY <1>2, <1>5, <1>7 DEF PiecesTo
-----------------------------------------------------------------------------
NameSet(L) == [start : Nat, end : Nat, label : L, score : Int]
Meets(a, b, joiners) == b.start = a.end \/ (b.start = a.end + 1 /\ a.end \in joiners)
NameOf(p) == [start |-> p.start, end |-> p.end, label |-> p.label, score |-> Mean(p)]
NextName(acc, p, joiners) ==
  IF acc # <<>> /\ Last(acc).label = p.label /\ Meets(Last(acc), p, joiners)
  THEN [acc EXCEPT ![Len(acc)] = Absorbed(@, p)]
  ELSE Append(acc, NameOf(p))

(* A piece as a name, and a name that absorbs one.                         *)
LEMMA NamesTyped ==
  ASSUME NEW L, NEW p \in PieceSet(L)
  PROVE  /\ Mean(p) \in Int /\ NameOf(p) \in NameSet(L)
         /\ NameOf(p).start = p.start /\ NameOf(p).end = p.end /\ NameOf(p).label = p.label /\ NameOf(p).score = Mean(p)
         /\ \A e \in NameSet(L) :
              /\ Absorbed(e, p) \in NameSet(L) /\ Absorbed(e, p).start = e.start /\ Absorbed(e, p).end = p.end
              /\ Absorbed(e, p).label = e.label
              /\ Absorbed(e, p).score >= e.score /\ Absorbed(e, p).score >= Mean(p)
<1> DEFINE v == Mean(p)
<1>1. v \in Int
  <2>1. 6 * p.sum \in Int /\ p.n \in Nat \ {0}
    BY DEF PieceSet
  <2> DEFINE a == 6 * p.sum
             d == p.n
  <2>2. v = a \div d
    BY DEF Mean
  <2> HIDE DEF a, d, v
  <2>3. a \in Int /\ d \in Nat \ {0}
    BY <2>1 DEF a, d
  <2>4. a \div d \in Int
    BY <2>3
  <2> QED BY <2>2, <2>4
<1> HIDE DEF v
<1>2. p.start \in Nat /\ p.end \in Nat /\ p.label \in L
  BY DEF PieceSet
<1>3. NameOf(p) = [start |-> p.start, end |-> p.end, label |-> p.label, score |-> v]
  BY DEF NameOf, v
<1>4. NameOf(p) \in NameSet(L)
  BY <1>1, <1>2, <1>3 DEF NameSet
<1>5. NameOf(p).start = p.start /\ NameOf(p).end = p.end /\ NameOf(p).label = p.label /\ NameOf(p).score = v
  BY <1>3
<1>6. ASSUME NEW e \in NameSet(L)
      PROVE  /\ Absorbed(e, p) \in NameSet(L) /\ Absorbed(e, p).start = e.start /\ Absorbed(e, p).end = p.end
             /\ Absorbed(e, p).label = e.label
             /\ Absorbed(e, p).score >= e.score /\ Absorbed(e, p).score >= v
  <2>1. e.score \in Int
    BY DEF NameSet
  <2> DEFINE u == Surest(e.score, v)
  <2>2. u \in Int /\ u >= e.score /\ u >= v
    BY <1>1, <2>1 DEF Surest
  <2> HIDE DEF u
  <2>3. Absorbed(e, p) = [e EXCEPT !.end = p.end, !.score = u]
    BY DEF Absorbed, u, v
  <2>4. Absorbed(e, p) \in NameSet(L)
    BY <1>2, <2>2, <2>3 DEF NameSet
  <2>5. /\ Absorbed(e, p).start = e.start /\ Absorbed(e, p).end = p.end
        /\ Absorbed(e, p).label = e.label /\ Absorbed(e, p).score = u
    BY <2>3 DEF NameSet
  <2> QED BY <2>2, <2>4, <2>5
<1> QED BY <1>1, <1>4, <1>5, <1>6 DEF v

(* The names are joined piece by piece.                                    *)
LEMMA NameSteps ==
  ASSUME NEW L, NEW words, NEW joiners, NEW P \in Seq(PieceSet(L)), P = Pieces(words)
  PROVE  \E acc :
           /\ acc[0] = <<>> /\ Joined(words, joiners) = acc[Len(P)]
           /\ \A n \in 0 .. Len(P) : acc[n] \in Seq(NameSet(L))
           /\ \A n \in 1 .. Len(P) : acc[n] = NextName(acc[n - 1], P[n], joiners)
<1> DEFINE N == Len(P)
           R == NameSet(L)
           A == Seq(R)
           b == <<>>
           D == SUBSET (DOMAIN P)
           step(a, p) == IF a # <<>> /\ Last(a).label = p.label
                            /\ (p.start = Last(a).end \/ (p.start = Last(a).end + 1 /\ Last(a).end \in joiners))
                         THEN [a EXCEPT ![Len(a)] = Absorbed(@, p)]
                         ELSE Append(a, [start |-> p.start, end |-> p.end, label |-> p.label, score |-> Mean(p)])
           Is(f) == f = [t \in D |-> IF t = {} THEN b ELSE step(f[t \ {Max(t)}], P[Max(t)])]
           iter == CHOOSE f : Is(f)
           G == [p \in (1 .. N) \X A |-> NextName(p[2], P[p[1]], joiners)]
<1>1. N \in Nat /\ DOMAIN P = 1 .. N /\ \A i \in 1 .. N : P[i] \in PieceSet(L)
  <2> DEFINE Q == PieceSet(L)
  <2>1. P \in Seq(Q)
    OBVIOUS
  <2> HIDE DEF Q
  <2>2. N \in Nat /\ DOMAIN P = 1 .. N /\ \A i \in 1 .. N : P[i] \in Q
    BY <2>1
  <2> QED BY <2>2 DEF Q
<1>2. Joined(words, joiners) = iter[DOMAIN P]
  BY DEF Joined, FoldLeft, MapThenFoldSet
<1>3. b \in A
  OBVIOUS
<1>4. ASSUME NEW a \in A, NEW i \in 1 .. N PROVE NextName(a, P[i], joiners) \in A
  <2>1. P[i] \in PieceSet(L) /\ NameOf(P[i]) \in R
    BY <1>1, NamesTyped
  <2>2. CASE a # <<>> /\ Last(a).label = P[i].label /\ Meets(Last(a), P[i], joiners)
    <3>1. a[Len(a)] \in R
      <4> HIDE DEF R
      <4> QED BY <2>2
    <3>2. Absorbed(a[Len(a)], P[i]) \in R
      BY <2>1, <3>1, NamesTyped
    <3> HIDE DEF R
    <3> QED BY <2>2, <3>2 DEF NextName
  <2>3. CASE ~(a # <<>> /\ Last(a).label = P[i].label /\ Meets(Last(a), P[i], joiners))
    <3>1. NextName(a, P[i], joiners) = Append(a, NameOf(P[i]))
      BY <2>3 DEF NextName
    <3> DEFINE e == NameOf(P[i])
    <3> HIDE DEF R, e
    <3>2. Append(a, e) \in Seq(R)
      BY <2>1 DEF e
    <3> QED BY <3>1, <3>2 DEF e
  <2> QED BY <2>2, <2>3
<1>5. \A a, p : step(a, p) = NextName(a, p, joiners)
  BY DEF NextName, NameOf, Meets
<1> HIDE DEF N, A, b, R, step
<1>6. G \in [(1 .. N) \X A -> A]
  BY <1>4
<1>7. ASSUME NEW n \in 1 .. N, NEW a \in A PROVE G[<<n, a>>] = step(a, P[n])
  BY <1>1, <1>5, <1>7
<1>8. Is(iter)
  <2>1. PICK f : FoldOf(f, A, b, N, G)
    <3> HIDE DEF G
    <3> QED BY <1>1, <1>3, <1>6, FoldExists
  <2> HIDE DEF G
  <2>2. ShapeOf(f, A, b, N, G) /\ D = SUBSET (1 .. N)
    BY <1>1, <2>1, FoldShape
  <2>3. \A t \in D : f[t] = IF t = {} THEN b ELSE step(f[t \ {Max(t)}], P[Max(t)])
    BY <1>7, <2>2 DEF ShapeOf
  <2>4. Is(f)
    <3>1. f \in [D -> A]
      BY <2>2 DEF ShapeOf
    <3> HIDE DEF D
    <3> QED BY <2>3, <3>1
  <2> QED BY <2>4
<1> HIDE DEF G
<1>9. Iterates(iter, A, b, N, G)
  <2> HIDE DEF iter
  <2>1. iter[{}] = b
    BY <1>8
  <2>2. ASSUME NEW t \in SUBSET (1 .. N), t # {}, iter[t \ {Max(t)}] \in A
        PROVE  iter[t] = G[<<Max(t), iter[t \ {Max(t)}]>>]
    <3>1. Max(t) \in 1 .. N
      BY <1>1, <2>2, MaxOf
    <3>2. iter[t] = step(iter[t \ {Max(t)}], P[Max(t)])
      BY <1>1, <1>8, <2>2
    <3> QED BY <1>7, <2>2, <3>1, <3>2
  <2> QED BY <2>1, <2>2 DEF Iterates
<1> HIDE DEF iter
<1>10. PICK acc : StepsOf(acc, A, b, N, G, iter[1 .. N])
  BY <1>1, <1>3, <1>6, <1>9, FoldSteps
<1>11. \A n \in 0 .. N : acc[n] \in A
  BY <1>10 DEF StepsOf
<1>12. ASSUME NEW n \in 1 .. N PROVE acc[n] = NextName(acc[n - 1], P[n], joiners)
  <2>1. n - 1 \in 0 .. N /\ acc[n] = G[<<n, acc[n - 1]>>]
    BY <1>1, <1>10 DEF StepsOf
  <2> QED BY <1>1, <1>5, <1>7, <1>11, <2>1
<1>13. acc[0] = b /\ acc[N] = iter[DOMAIN P]
  BY <1>1, <1>10 DEF StepsOf
<1> QED BY <1>2, <1>11, <1>12, <1>13 DEF N, A, b, R

(* A name that covers a piece, and is as sure.                             *)
Holds(e, p) == e.label = p.label /\ e.start <= p.start /\ p.end <= e.end /\ Mean(p) <= e.score
NamesTo(P, s, n) ==
  /\ \A i \in 1 .. Len(s) : s[i].start <= s[i].end
  /\ \A k \in 1 .. n : \E i \in 1 .. Len(s) : Holds(s[i], P[k])

(* A name that absorbs a piece still covers what it did, and is as sure at *)
(* least.                                                                  *)
LEMMA NamesStep ==
  ASSUME NEW L, NEW joiners, NEW P \in Seq(PieceSet(L)), NEW n \in 1 .. Len(P),
         \A i \in 1 .. Len(P) : P[i].start <= P[i].end,
         NEW s \in Seq(NameSet(L)), NamesTo(P, s, n - 1)
  PROVE  NamesTo(P, NextName(s, P[n], joiners), n)
<1> DEFINE p == P[n]
           m == Len(s)
           b == NextName(s, p, joiners)
           A == NameSet(L)
           Q == PieceSet(L)
<1>1. n \in Nat \ {0} /\ \A i \in 1 .. Len(P) : P[i] \in Q
  <2>1. P \in Seq(Q)
    OBVIOUS
  <2> HIDE DEF Q
  <2> QED BY <2>1
<1>2. p \in PieceSet(L) /\ p.start \in Nat /\ p.end \in Nat /\ p.start <= p.end /\ Mean(p) \in Int
  BY <1>1, NamesTyped DEF PieceSet
<1>3. s \in Seq(A) /\ m \in Nat /\ \A i \in 1 .. m : s[i] \in A
  <2>1. s \in Seq(A)
    OBVIOUS
  <2> HIDE DEF A
  <2> QED BY <2>1
<1>4. \A e \in A : e.start \in Nat /\ e.end \in Nat /\ e.score \in Int
  BY DEF NameSet
<1>5. \A i \in 1 .. m : s[i].start <= s[i].end
  BY DEF NamesTo
<1>6. ASSUME NEW k \in 1 .. n - 1 PROVE \E i \in 1 .. m : Holds(s[i], P[k])
  BY DEF NamesTo
<1>7. \A k \in 1 .. n : k = n \/ k \in 1 .. n - 1
  BY <1>1
<1>8. \A k \in 1 .. n : P[k].end \in Nat /\ Mean(P[k]) \in Int
  <2> SUFFICES ASSUME NEW k \in 1 .. n PROVE P[k].end \in Nat /\ Mean(P[k]) \in Int
    OBVIOUS
  <2>1. P[k] \in PieceSet(L)
    BY <1>1
  <2> QED BY <2>1, NamesTyped DEF PieceSet
<1> HIDE DEF p
<1>9. CASE s # <<>> /\ Last(s).label = p.label /\ Meets(Last(s), p, joiners)
  <2> DEFINE e == Absorbed(s[m], p)
  <2>1. m \in 1 .. m /\ Last(s) = s[m] /\ s[m] \in NameSet(L)
    <3>1. m \in 1 .. m /\ Last(s) = s[m]
      <4> HIDE DEF A
      <4> QED BY <1>3, <1>9 DEF Last
    <3> QED BY <1>3, <3>1
  <2>2. /\ e \in A /\ e.start = s[m].start /\ e.end = p.end /\ e.label = s[m].label
        /\ e.score >= s[m].score /\ e.score >= Mean(p)
    BY <1>2, <2>1, NamesTyped
  <2>3. b = [s EXCEPT ![m] = e]
    BY <1>9 DEF NextName
  <2> HIDE DEF e, A, b
  <2>4. Len(b) = m /\ b[m] = e /\ \A i \in 1 .. m - 1 : b[i] = s[i]
    BY <1>3, <1>9, <2>2, <2>3, SetLast
  <2>5. s[m].start <= s[m].end /\ s[m].end <= p.start /\ s[m].label = p.label
        /\ s[m].start \in Nat /\ s[m].end \in Nat /\ s[m].score \in Int /\ e.score \in Int
    <3>1. s[m].start \in Nat /\ s[m].end \in Nat /\ s[m].score \in Int /\ e.score \in Int
      BY <1>4, <2>1, <2>2 DEF A
    <3>2. s[m].start <= s[m].end /\ s[m].label = p.label
      BY <1>5, <1>9, <2>1
    <3>3. p.start = s[m].end \/ p.start = s[m].end + 1
      BY <1>9, <2>1 DEF Meets
    <3> HIDE DEF m
    <3> QED BY <1>2, <3>1, <3>2, <3>3
  <2>6. Holds(e, p) /\ e.start <= e.end
    <3> HIDE DEF m
    <3> QED BY <1>2, <2>2, <2>5 DEF Holds
  <2>7. ASSUME NEW i \in 1 .. Len(b) PROVE b[i].start <= b[i].end
    <3>1. CASE i = m
      BY <2>4, <2>6, <3>1
    <3>2. CASE i # m
      <4>1. i \in 1 .. m - 1 /\ i \in 1 .. m
        BY <1>3, <2>4, <3>2
      <4> QED BY <1>5, <2>4, <4>1
    <3> QED BY <3>1, <3>2
  <2>8. ASSUME NEW k \in 1 .. n PROVE \E i \in 1 .. Len(b) : Holds(b[i], P[k])
    <3>1. CASE k = n
      BY <2>1, <2>4, <2>6, <3>1 DEF p
    <3>2. CASE k # n
      <4>1. PICK i \in 1 .. m : Holds(s[i], P[k])
        BY <1>6, <1>7, <3>2
      <4>2. CASE i = m
        <5>1. Holds(e, P[k])
          <6>1. s[m].label = P[k].label /\ s[m].start <= P[k].start /\ P[k].end <= s[m].end /\ Mean(P[k]) <= s[m].score
            BY <4>1, <4>2 DEF Holds
          <6>2. P[k].end <= p.end
            <7>1. P[k].end \in Nat
              BY <1>8
            <7>2. P[k].end <= s[m].end /\ s[m].end <= p.start /\ s[m].end \in Nat
              BY <2>5, <6>1
            <7> HIDE DEF m
            <7> QED BY <1>2, <7>1, <7>2
          <6>3. Mean(P[k]) <= e.score
            <7> HIDE DEF m
            <7> QED BY <1>8, <2>2, <2>5, <6>1
          <6> QED BY <2>2, <6>1, <6>2, <6>3 DEF Holds
        <5> QED BY <2>1, <2>4, <5>1
      <4>3. CASE i # m
        <5>1. i \in 1 .. m - 1
          BY <1>3, <4>3
        <5> QED BY <2>4, <4>1, <5>1
      <4> QED BY <4>2, <4>3
    <3> QED BY <3>1, <3>2
  <2> QED BY <2>7, <2>8 DEF NamesTo, b, p
<1>10. CASE ~(s # <<>> /\ Last(s).label = p.label /\ Meets(Last(s), p, joiners))
  <2> DEFINE e == NameOf(p)
  <2>1. e \in A /\ e.start = p.start /\ e.end = p.end /\ e.label = p.label /\ e.score = Mean(p)
    BY <1>2, NamesTyped
  <2>2. b = Append(s, e)
    BY <1>10 DEF NextName
  <2> HIDE DEF e, A, b
  <2>3. Len(b) = m + 1 /\ b[m + 1] = e /\ \A i \in 1 .. m : b[i] = s[i]
    BY <1>3, <2>1, <2>2, AppendOne
  <2>4. Holds(e, p) /\ e.start <= e.end
    BY <1>2, <2>1 DEF Holds
  <2>5. ASSUME NEW i \in 1 .. Len(b) PROVE b[i].start <= b[i].end
    <3>1. CASE i = m + 1
      BY <2>3, <2>4, <3>1
    <3>2. CASE i # m + 1
      <4>1. i \in 1 .. m
        BY <1>3, <2>3, <3>2
      <4> QED BY <1>5, <2>3, <4>1
    <3> QED BY <3>1, <3>2
  <2>6. ASSUME NEW k \in 1 .. n PROVE \E i \in 1 .. Len(b) : Holds(b[i], P[k])
    <3>1. CASE k = n
      <4>1. m + 1 \in 1 .. Len(b)
        BY <1>3, <2>3
      <4> QED BY <2>3, <2>4, <3>1, <4>1 DEF p
    <3>2. CASE k # n
      <4>1. PICK i \in 1 .. m : Holds(s[i], P[k])
        BY <1>6, <1>7, <3>2
      <4>2. i \in 1 .. Len(b)
        BY <1>3, <2>3
      <4> QED BY <2>3, <4>1, <4>2
    <3> QED BY <3>1, <3>2
  <2> QED BY <2>5, <2>6 DEF NamesTo, b, p
<1> QED BY <1>9, <1>10

(* Every piece is covered by a name that is as sure.                       *)
LEMMA NamesHold ==
  ASSUME NEW L, NEW words, NEW joiners, NEW P \in Seq(PieceSet(L)), P = Pieces(words),
         \A i \in 1 .. Len(P) : P[i].start <= P[i].end
  PROVE  /\ Joined(words, joiners) \in Seq(NameSet(L))
         /\ \A k \in 1 .. Len(P) : \E i \in 1 .. Len(Joined(words, joiners)) : Holds(Joined(words, joiners)[i], P[k])
<1> DEFINE N == Len(P)
<1>1. N \in Nat
  OBVIOUS
<1>2. PICK acc :
        /\ acc[0] = <<>> /\ Joined(words, joiners) = acc[N]
        /\ \A n \in 0 .. N : acc[n] \in Seq(NameSet(L))
        /\ \A n \in 1 .. N : acc[n] = NextName(acc[n - 1], P[n], joiners)
  BY NameSteps
<1> DEFINE K == {n \in 0 .. N : NamesTo(P, acc[n], n)}
<1>3. 0 \in K
  <2>1. NamesTo(P, acc[0], 0)
    <3>1. acc[0] = <<>> /\ Len(acc[0]) = 0
      BY <1>2
    <3> QED BY <3>1 DEF NamesTo
  <2> QED BY <1>1, <2>1
<1>4. ASSUME NEW n \in 0 .. N - 1, n \in K PROVE n + 1 \in K
  <2>1. n + 1 \in 1 .. N /\ (n + 1) - 1 = n /\ n \in 0 .. N /\ n + 1 \in 0 .. N
    BY <1>1
  <2>2. acc[n] \in Seq(NameSet(L)) /\ acc[n + 1] = NextName(acc[n], P[n + 1], joiners)
    BY <1>2, <2>1
  <2>3. NamesTo(P, acc[n], (n + 1) - 1)
    BY <1>4, <2>1
  <2>4. NamesTo(P, acc[n + 1], n + 1)
    <3> HIDE DEF K
    <3> QED BY <2>1, <2>2, <2>3, NamesStep
  <2> QED BY <2>1, <2>4
<1>5. N \in K
  <2> HIDE DEF K, N
  <2>1. \A k \in 0 .. N : k \in K
    BY <1>1, <1>3, <1>4, UpTo
  <2> QED BY <1>1, <2>1
<1>6. acc[N] \in Seq(NameSet(L))
  BY <1>1, <1>2
<1> QED BY <1>2, <1>5, <1>6 DEF NamesTo

(* A piece that is sure enough stays a candidate when it is joined.        *)
LEMMA NamesRemain == ASSUME Computed PROVE NamesStay
<1> SUFFICES ASSUME Of("entities"), NEW p \in Range(Pieces(input.words)), p.label \in input.wanted, Mean(p) >= input.least
             PROVE  \E e \in result : e.label = p.label /\ e.start <= p.start /\ p.end <= e.end
  BY DEF NamesStay
<1> DEFINE words == input.words
           joiners == input.joiners
           P == Pieces(words)
           J == Joined(words, joiners)
           L == STRING
<1>1. result = Entities(words, joiners, input.wanted, input.least) /\ input \in WordRuns
  BY DEF Computed, Has, Of
<1>2. /\ words \in Seq(WordSet(L)) /\ \A i \in 1 .. Len(words) : words[i].start <= words[i].end
      /\ \A i \in 2 .. Len(words) : words[i - 1].end <= words[i].start
  <2>1. words \in Seq(WordSet(L)) /\ (\A i \in DOMAIN words : words[i].start <= words[i].end)
        /\ \A i \in 2 .. Len(words) : words[i - 1].end <= words[i].start
    BY <1>1, InputAssumption DEF WordSet
  <2>2. DOMAIN words = 1 .. Len(words)
    <3> DEFINE R == WordSet(L)
    <3>1. words \in Seq(R)
      BY <2>1
    <3> HIDE DEF R, words
    <3> QED BY <3>1
  <2> QED BY <2>1, <2>2
<1> HIDE DEF words, joiners, L
<1>3. P \in Seq(PieceSet(L)) /\ \A i \in 1 .. Len(P) : P[i].start <= P[i].end
  BY <1>2, PiecesHold
<1>4. p \in Range(P)
  BY DEF words
<1> HIDE DEF P
<1>5. /\ J \in Seq(NameSet(L))
      /\ \A k \in 1 .. Len(P) : \E i \in 1 .. Len(J) : Holds(J[i], P[k])
  BY <1>3, NamesHold DEF P
<1> HIDE DEF J
<1>6. PICK k \in 1 .. Len(P) : p = P[k]
  <2> DEFINE R == PieceSet(L)
  <2>1. P \in Seq(R)
    BY <1>3
  <2> HIDE DEF R
  <2> QED BY <1>4, <2>1 DEF Range
<1>7. PICK i \in 1 .. Len(J) : Holds(J[i], p)
  BY <1>5, <1>6
<1>8. J[i] \in Range(J) /\ J[i].score \in Int
  <2> DEFINE R == NameSet(L)
  <2>1. J \in Seq(R)
    BY <1>5
  <2> HIDE DEF R
  <2>2. J[i] \in Range(J) /\ J[i] \in R
    BY <2>1 DEF Range
  <2> QED BY <2>2 DEF R, NameSet
<1>9. Mean(p) \in Int /\ J[i].label \in input.wanted /\ J[i].label = p.label /\ J[i].start <= p.start /\ p.end <= J[i].end
      /\ Mean(p) <= J[i].score
  <2>1. p \in PieceSet(L)
    <3> DEFINE R == PieceSet(L)
    <3>1. P \in Seq(R)
      BY <1>3
    <3> HIDE DEF R
    <3>2. p \in R
      BY <1>6, <3>1
    <3> QED BY <3>2 DEF R
  <2> QED BY <1>7, <2>1, NamesTyped DEF Holds
<1>10. J[i].score >= input.least
  <2>1. input.least \in Nat
    BY <1>1, InputAssumption
  <2> QED BY <1>8, <1>9, <2>1
<1> DEFINE e == [start |-> J[i].start, end |-> J[i].end, label |-> J[i].label, score |-> J[i].score, priority |-> 1]
<1>11. e \in result
  BY <1>1, <1>8, <1>9, <1>10 DEF Entities, J
<1>12. e.label = p.label /\ e.start <= p.start /\ p.end <= e.end
  BY <1>9
<1> QED BY <1>11, <1>12
-----------------------------------------------------------------------------
(* Whatever the two programs check of each other's data, they accept what  *)
(* the other makes of it.                                                  *)
THEOREM AlwaysAccepted == Spec => []ResultsAccepted
<1>1. Computed => ResultsAccepted
  BY MergedAccepted, RankedAccepted, VectorsAccepted, AnswersAccepted, SubmitsAccepted, KeptAccepted, ChunksAccepted
     DEF ResultsAccepted
<1> QED BY <1>1, Computes, PTL

(* No cut of a text, no batch and no joining of spans loses any of it.      *)
THEOREM NothingEverLost == Spec => []NothingLost
<1>1. Computed => NothingLost
  BY MaskedAll, NamesRemain, ChunksAccepted, BatchesStay, SnippetsShow, ReportsStay, CardsStayApart, IbansStay
     DEF NothingLost
<1> QED BY <1>1, Computes, PTL
=============================================================================
