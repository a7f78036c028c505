------------------------- MODULE FlowControl_proofs -------------------------
(* The flow control of the TCP server in both directions, for every number   *)
(* of sessions, every size of frames and every budget.                       *)
EXTENDS RequestBudget, OutputBudget, FiniteSetTheorems, SequenceTheorems, TLAPS

-----------------------------------------------------------------------------
(* Sums of functions and of queues. *)

(* A set of naturals has a first element.                                    *)
LEMMA FirstExists ==
  ASSUME NEW S \in SUBSET Nat, S # {}
  PROVE  \E i \in S : \A j \in S : i <= j
<1>1. IsWellFoundedOn(OpToRel(<, Nat), Nat)
  BY NatLessThanWellFounded
<1>2. PICK i \in S : \A j \in S : ~ (<<j, i>> \in OpToRel(<, Nat))
  BY <1>1, WFMin
<1>3. \A j \in S : ~ (j < i)
  BY <1>2 DEF OpToRel
<1> QED BY <1>3

(* Finite sets have a smallest one among any of them.                        *)
LEMMA SmallestExists ==
  ASSUME NEW B, B # {}, \A b \in B : IsFiniteSet(b)
  PROVE  \E m \in B : \A b \in B : ~ (b \subseteq m /\ b # m)
<1> DEFINE U == UNION B
<1>1. B \subseteq FiniteSubsetsOf(U)
  BY DEF FiniteSubsetsOf
<1>2. IsWellFoundedOn(StrictSubsetOrdering(U), FiniteSubsetsOf(U))
  BY FS_StrictSubsetOrderingWellFounded
<1>3. PICK m \in B : \A b \in B : ~ (<<b, m>> \in StrictSubsetOrdering(U))
  BY <1>1, <1>2, WFMin
<1>4. \A b \in B : b \subseteq U
  OBVIOUS
<1> QED BY <1>3, <1>4 DEF StrictSubsetOrdering

(* The equation of a sum over the subsets of S.                              *)
Pick(s) == CHOOSE x \in s : TRUE
SumStep(f, g, s) == IF s = {} THEN 0 ELSE f[Pick(s)] + g[s \ {Pick(s)}]
Sums(f, S, g) == g = [s \in SUBSET S |-> SumStep(f, g, s)]

LEMMA SumDefinition ==
  ASSUME NEW f, NEW S
  PROVE  SumFunctionOnSet(f, S) = (CHOOSE g : Sums(f, S, g))[S]
BY DEF SumFunctionOnSet, FoldFunctionOnSet, MapThenFoldSet, Pick, SumStep, Sums

AgreeOn(f, e, S) == \A x \in S : f[x] = e[x]

LEMMA SumsAgree ==
  ASSUME NEW f, NEW e, NEW S, NEW T, NEW R, IsFiniteSet(R), R \subseteq S, R \subseteq T,
         AgreeOn(f, e, R),
         NEW g, NEW h, Sums(f, S, g), Sums(e, T, h)
  PROVE  g[R] = h[R]
<1> DEFINE B == {s \in SUBSET R : g[s] # h[s]}
<1>1. SUFFICES ASSUME B # {} PROVE FALSE
  OBVIOUS
<1>f. \A b \in B : IsFiniteSet(b)
  BY FS_Subset
<1> HIDE DEF B
<1>2. PICK m \in B : \A b \in B : ~ (b \subseteq m /\ b # m)
  BY <1>1, <1>f, SmallestExists
<1> USE DEF B
<1>3. g[m] = SumStep(f, g, m) /\ h[m] = SumStep(e, h, m)
  BY <1>2 DEF Sums
<1>4. m # {}
  BY <1>2, <1>3 DEF SumStep
<1>5. Pick(m) \in m
  BY <1>4 DEF Pick
<1>6. g[m \ {Pick(m)}] = h[m \ {Pick(m)}]
  BY <1>2, <1>5
<1> QED BY <1>2, <1>3, <1>4, <1>5, <1>6 DEF SumStep, AgreeOn

LEMMA SumsExist ==
  ASSUME NEW f, NEW S, IsFiniteSet(S)
  PROVE  \E g : Sums(f, S, g)
<1> DEFINE B == {s \in SUBSET S : ~ \E g : Sums(f, s, g)}
<1>1. SUFFICES ASSUME B # {} PROVE FALSE
  OBVIOUS
<1>f. \A b \in B : IsFiniteSet(b)
  BY FS_Subset
<1> HIDE DEF B
<1>2. PICK m \in B : \A b \in B : ~ (b \subseteq m /\ b # m)
  BY <1>1, <1>f, SmallestExists
<1> USE DEF B
<1> DEFINE F(s) == CHOOSE g : Sums(f, s, g)
           k == [s \in SUBSET m |-> IF s = {} THEN 0
                                    ELSE f[Pick(s)] + F(s \ {Pick(s)})[s \ {Pick(s)}]]
<1>3. \A s \in SUBSET m : s # m => Sums(f, s, F(s))
  BY <1>2
<1>a. IsFiniteSet(m) /\ m \in SUBSET S
  BY <1>2, FS_Subset
<1>4. ASSUME NEW s \in SUBSET m, s # {}
      PROVE  k[s \ {Pick(s)}] = F(s \ {Pick(s)})[s \ {Pick(s)}]
  <2> DEFINE r == s \ {Pick(s)}
             q == r \ {Pick(r)}
  <2>1. r \in SUBSET m /\ r # m
    BY <1>4 DEF Pick
  <2>2. Sums(f, r, F(r))
    BY <1>3, <2>1
  <2>3. F(r)[r] = SumStep(f, F(r), r)
    BY <2>2 DEF Sums
  <2>4. CASE r = {}
    BY <2>1, <2>3, <2>4 DEF SumStep
  <2>5. CASE r # {}
    <3>1. q \in SUBSET m /\ q # m /\ q \subseteq r
      BY <2>1
    <3>2. Sums(f, q, F(q)) /\ IsFiniteSet(q)
      BY <1>3, <1>a, <3>1, FS_Subset
    <3>0. AgreeOn(f, f, q)
      BY DEF AgreeOn
    <3> HIDE DEF F, r, q
    <3>3. F(r)[q] = F(q)[q]
      BY <3>0, <2>2, <3>1, <3>2, SumsAgree
    <3> USE DEF r, q
    <3>4. k[r] = f[Pick(r)] + F(q)[q]
      BY <2>1, <2>5
    <3>5. F(r)[r] = f[Pick(r)] + F(r)[q]
      BY <2>3, <2>5 DEF SumStep
    <3> QED BY <3>3, <3>4, <3>5
  <2> QED BY <2>4, <2>5
<1> HIDE DEF F
<1>5. \A s \in SUBSET m : k[s] = SumStep(f, k, s)
  BY <1>4 DEF SumStep
<1> HIDE DEF k
<1>6. k = [s \in SUBSET m |-> SumStep(f, k, s)]
  BY <1>5 DEF k
<1> QED BY <1>2, <1>6 DEF Sums

(* A sum is that of all but one element, and that element.                   *)
LEMMA SumPick ==
  ASSUME NEW f, NEW S, IsFiniteSet(S)
  PROVE  SumFunctionOnSet(f, S) =
           IF S = {} THEN 0 ELSE f[Pick(S)] + SumFunctionOnSet(f, S \ {Pick(S)})
<1> DEFINE g == CHOOSE g : Sums(f, S, g)
           R == S \ {Pick(S)}
           h == CHOOSE h : Sums(f, R, h)
<1>1. IsFiniteSet(R)
  BY FS_Subset
<1>2. Sums(f, S, g) /\ Sums(f, R, h)
  BY <1>1, SumsExist
<1>3. SumFunctionOnSet(f, S) = g[S] /\ SumFunctionOnSet(f, R) = h[R]
  BY SumDefinition
<1> HIDE DEF g, h
<1>4. g[S] = SumStep(f, g, S)
  BY <1>2 DEF Sums
<1>a. AgreeOn(f, f, R)
  BY DEF AgreeOn
<1>5. g[R] = h[R]
  BY <1>a, <1>1, <1>2, SumsAgree
<1> QED BY <1>3, <1>4, <1>5 DEF SumStep

LEMMA SumCongruent ==
  ASSUME NEW f, NEW e, NEW S, IsFiniteSet(S), AgreeOn(f, e, S)
  PROVE  SumFunctionOnSet(f, S) = SumFunctionOnSet(e, S)
<1>1. \E g : Sums(f, S, g)
  BY SumsExist
<1>2. \E h : Sums(e, S, h)
  BY SumsExist
<1>3. \A g, h : Sums(f, S, g) /\ Sums(e, S, h) => g[S] = h[S]
  <2> SUFFICES ASSUME NEW g, NEW h, Sums(f, S, g), Sums(e, S, h) PROVE g[S] = h[S]
    OBVIOUS
  <2>1. S \subseteq S
    OBVIOUS
  <2> QED BY <2>1, SumsAgree
<1> QED BY <1>1, <1>2, <1>3, SumDefinition

LEMMA SumType ==
  ASSUME NEW f, NEW S, IsFiniteSet(S), \A x \in S : f[x] \in Int
  PROVE  SumFunctionOnSet(f, S) \in Int
<1> DEFINE B == {s \in SUBSET S : SumFunctionOnSet(f, s) \notin Int}
<1>1. SUFFICES ASSUME B # {} PROVE FALSE
  OBVIOUS
<1>f. \A b \in B : IsFiniteSet(b)
  BY FS_Subset
<1> HIDE DEF B
<1>2. PICK m \in B : \A b \in B : ~ (b \subseteq m /\ b # m)
  BY <1>1, <1>f, SmallestExists
<1> USE DEF B
<1>3. IsFiniteSet(m) /\ (m # {} => Pick(m) \in m)
  BY <1>2, FS_Subset DEF Pick
<1>4. m # {} => SumFunctionOnSet(f, m \ {Pick(m)}) \in Int
  BY <1>2, <1>3
<1>5. SumFunctionOnSet(f, m) =
        IF m = {} THEN 0 ELSE f[Pick(m)] + SumFunctionOnSet(f, m \ {Pick(m)})
  BY <1>3, SumPick
<1>6. m # {} => f[Pick(m)] \in Int
  BY <1>2, <1>3
<1> QED BY <1>2, <1>4, <1>5, <1>6

(* ... whichever element is taken out.                                       *)
LEMMA SumSplit ==
  ASSUME NEW f, NEW S, IsFiniteSet(S), \A x \in S : f[x] \in Int, NEW y \in S
  PROVE  SumFunctionOnSet(f, S) = f[y] + SumFunctionOnSet(f, S \ {y})
<1> DEFINE Sum(s) == SumFunctionOnSet(f, s)
           B == {s \in SUBSET S : \E x \in s : Sum(s) # f[x] + Sum(s \ {x})}
<1>1. SUFFICES ASSUME B # {} PROVE FALSE
  OBVIOUS
<1>f. \A b \in B : IsFiniteSet(b)
  BY FS_Subset
<1> HIDE DEF B
<1>2. PICK m \in B : \A b \in B : ~ (b \subseteq m /\ b # m)
  BY <1>1, <1>f, SmallestExists
<1> USE DEF B
<1>3. PICK x \in m : Sum(m) # f[x] + Sum(m \ {x})
  BY <1>2
<1> DEFINE c == Pick(m)
           r == m \ {c, x}
<1>4. IsFiniteSet(m) /\ c \in m /\ m \in SUBSET S
  BY <1>2, <1>3, FS_Subset DEF Pick
<1>a. IsFiniteSet(m \ {c}) /\ IsFiniteSet(m \ {x}) /\ IsFiniteSet(r)
  BY <1>4, FS_Subset
<1> HIDE DEF Sum
<1>5. Sum(m) = f[c] + Sum(m \ {c})
  BY <1>3, <1>4, SumPick DEF Sum
<1>6. c # x
  BY <1>3, <1>5
<1>7. m \ {c} \notin B /\ m \ {x} \notin B
  BY <1>2, <1>3, <1>4
<1>8. (m \ {c}) \ {x} = r /\ (m \ {x}) \ {c} = r
  OBVIOUS
<1>9. Sum(m \ {c}) = f[x] + Sum(r)
  BY <1>3, <1>4, <1>6, <1>7, <1>8
<1>10. Sum(m \ {x}) = f[c] + Sum(r)
  BY <1>4, <1>6, <1>7, <1>8
<1>11. f[c] \in Int /\ f[x] \in Int /\ Sum(r) \in Int
  BY <1>3, <1>4, <1>a, SumType DEF Sum
<1> HIDE DEF r, c, B
<1> QED BY <1>3, <1>5, <1>9, <1>10, <1>11

(* A sum of naturals is one, and no less than any of them.                   *)
LEMMA SumIsNat ==
  ASSUME NEW f, NEW S, IsFiniteSet(S), \A x \in S : f[x] \in Nat
  PROVE  /\ SumFunctionOnSet(f, S) \in Nat
         /\ \A x \in S : f[x] <= SumFunctionOnSet(f, S)
<1> DEFINE B == {s \in SUBSET S : SumFunctionOnSet(f, s) \notin Nat}
<1>1. B = {}
  <2>1. SUFFICES ASSUME B # {} PROVE FALSE
    OBVIOUS
  <2>2. \A b \in B : IsFiniteSet(b)
    BY FS_Subset
  <2> HIDE DEF B
  <2>3. PICK m \in B : \A b \in B : ~ (b \subseteq m /\ b # m)
    BY <2>1, <2>2, SmallestExists
  <2> USE DEF B
  <2>4. IsFiniteSet(m) /\ (m # {} => Pick(m) \in m)
    BY <2>3, FS_Subset DEF Pick
  <2>5. m # {} => SumFunctionOnSet(f, m \ {Pick(m)}) \in Nat /\ f[Pick(m)] \in Nat
    BY <2>3, <2>4
  <2>6. SumFunctionOnSet(f, m) =
          IF m = {} THEN 0 ELSE f[Pick(m)] + SumFunctionOnSet(f, m \ {Pick(m)})
    BY <2>4, SumPick
  <2> QED BY <2>3, <2>5, <2>6
<1>2. \A s \in SUBSET S : SumFunctionOnSet(f, s) \in Nat
  BY <1>1
<1>3. ASSUME NEW x \in S PROVE f[x] <= SumFunctionOnSet(f, S)
  <2>1. \A y \in S : f[y] \in Int
    OBVIOUS
  <2>2. SumFunctionOnSet(f, S) = f[x] + SumFunctionOnSet(f, S \ {x})
    BY <2>1, SumSplit
  <2>3. SumFunctionOnSet(f, S \ {x}) \in Nat /\ f[x] \in Nat
    BY <1>2
  <2> QED BY <2>2, <2>3
<1> QED BY <1>2, <1>3

(* A sum of zeros is zero.                                                   *)
LEMMA SumOfZeros ==
  ASSUME NEW S, IsFiniteSet(S)
  PROVE  SumFunction([x \in S |-> 0]) = 0
<1> DEFINE f == [x \in S |-> 0]
           B == {s \in SUBSET S : SumFunctionOnSet(f, s) # 0}
<1>1. SUFFICES ASSUME B # {} PROVE FALSE
  BY DEF SumFunction
<1>2. \A b \in B : IsFiniteSet(b)
  BY FS_Subset
<1> HIDE DEF B, f
<1>3. PICK m \in B : \A b \in B : ~ (b \subseteq m /\ b # m)
  BY <1>1, <1>2, SmallestExists
<1> USE DEF B
<1>4. IsFiniteSet(m) /\ (m # {} => Pick(m) \in m)
  BY <1>3, FS_Subset DEF Pick
<1>5. m # {} => SumFunctionOnSet(f, m \ {Pick(m)}) = 0 /\ f[Pick(m)] = 0
  BY <1>3, <1>4 DEF f
<1>6. SumFunctionOnSet(f, m) =
        IF m = {} THEN 0 ELSE f[Pick(m)] + SumFunctionOnSet(f, m \ {Pick(m)})
  BY <1>4, SumPick
<1> QED BY <1>3, <1>5, <1>6

(* Changing one term changes the sum by as much.                             *)
LEMMA SumUpdate ==
  ASSUME NEW S, IsFiniteSet(S), NEW f \in [S -> Int], NEW y \in S, NEW v \in Int
  PROVE  SumFunction([f EXCEPT ![y] = v]) = SumFunction(f) - f[y] + v
<1> DEFINE e == [f EXCEPT ![y] = v]
           R == S \ {y}
<1>1. IsFiniteSet(R)
  BY FS_Subset
<1>2. /\ DOMAIN f = S /\ DOMAIN e = S /\ e[y] = v
      /\ \A x \in S : f[x] \in Int /\ e[x] \in Int
      /\ \A x \in R : f[x] \in Int
      /\ AgreeOn(f, e, R)
  BY DEF AgreeOn
<1> HIDE DEF e, R
<1>3. SumFunctionOnSet(f, R) = SumFunctionOnSet(e, R)
  BY <1>1, <1>2, SumCongruent
<1>4. SumFunctionOnSet(f, R) \in Int
  BY <1>1, <1>2, SumType
<1>5. SumFunctionOnSet(f, S) = f[y] + SumFunctionOnSet(f, R)
  BY <1>2, SumSplit DEF R
<1>6. SumFunctionOnSet(e, S) = e[y] + SumFunctionOnSet(e, R)
  BY <1>2, SumSplit DEF R
<1> QED BY <1>2, <1>3, <1>4, <1>5, <1>6 DEF SumFunction, e

(* The sum of the first k + 1 elements of a sequence.                        *)
LEMMA SumPrefix ==
  ASSUME NEW q \in Seq(Int), NEW k \in Nat, k < Len(q)
  PROVE  /\ SumFunctionOnSet(q, 1..k) \in Int
         /\ SumFunctionOnSet(q, 1..(k + 1)) = q[k + 1] + SumFunctionOnSet(q, 1..k)
<1> DEFINE S == 1..(k + 1)
<1>1. Len(q) \in Nat /\ \A x \in 1..Len(q) : q[x] \in Int
  BY LenProperties, ElementOfSeq
<1>2. IsFiniteSet(S) /\ IsFiniteSet(1..k)
  BY FS_Interval
<1>3. S \ {k + 1} = 1..k /\ k + 1 \in S
  OBVIOUS
<1>4. \A x \in S : q[x] \in Int
  BY <1>1
<1>5. \A x \in 1..k : q[x] \in Int
  BY <1>1
<1> HIDE DEF S
<1>6. SumFunctionOnSet(q, S) = q[k + 1] + SumFunctionOnSet(q, S \ {k + 1})
  BY <1>2, <1>3, <1>4, SumSplit
<1>7. SumFunctionOnSet(q, 1..k) \in Int
  BY <1>2, <1>5, SumType
<1> QED BY <1>3, <1>6, <1>7 DEF S

(* What a queue sums up to when an element enters or leaves it.              *)
LEMMA SumAppend ==
  ASSUME NEW q \in Seq(Int), NEW v \in Int
  PROVE  SumFunction(Append(q, v)) = SumFunction(q) + v
<1> DEFINE e == Append(q, v)
           n == Len(q)
<1>1. /\ n \in Nat /\ e \in Seq(Int) /\ Len(e) = n + 1 /\ DOMAIN q = 1..n
      /\ DOMAIN e = 1..(n + 1) /\ e[n + 1] = v /\ \A x \in 1..n : e[x] = q[x]
  BY LenProperties, AppendProperties
<1>2. IsFiniteSet(1..n) /\ AgreeOn(e, q, 1..n)
  BY <1>1, FS_Interval DEF AgreeOn
<1> HIDE DEF e, n
<1>3. /\ SumFunctionOnSet(e, 1..n) \in Int
      /\ SumFunctionOnSet(e, 1..(n + 1)) = v + SumFunctionOnSet(e, 1..n)
  BY <1>1, SumPrefix
<1>4. SumFunctionOnSet(e, 1..n) = SumFunctionOnSet(q, 1..n)
  BY <1>2, SumCongruent
<1>5. SumFunction(e) = SumFunctionOnSet(e, 1..(n + 1)) /\ SumFunction(q) = SumFunctionOnSet(q, 1..n)
  BY <1>1 DEF SumFunction
<1> QED BY <1>3, <1>4, <1>5 DEF e

LEMMA SumTail ==
  ASSUME NEW q \in Seq(Int), q # <<>>
  PROVE  SumFunction(Tail(q)) = SumFunction(q) - Head(q)
<1> DEFINE t == Tail(q)
           n == Len(t)
<1>1. /\ n \in Nat /\ t \in Seq(Int) /\ Len(q) = n + 1 /\ DOMAIN q = 1..(n + 1)
      /\ DOMAIN t = 1..n /\ \A x \in 1..n : t[x] = q[x + 1]
      /\ Head(q) = q[1] /\ q[1] \in Int
  <2>1. /\ t \in Seq(Int) /\ Len(t) = Len(q) - 1 /\ Head(q) = q[1] /\ Len(q) \in Nat \ {0}
        /\ \A x \in 1..Len(t) : t[x] = q[x + 1]
    BY HeadTailProperties, LenProperties, EmptySeq
  <2>2. q[1] \in Int /\ DOMAIN q = 1..Len(q) /\ DOMAIN t = 1..Len(t)
    BY <2>1, LenProperties, ElementOfSeq
  <2> QED BY <2>1, <2>2
<1> HIDE DEF t, n
<1> DEFINE Q == [k \in 0..(n + 1) |-> SumFunctionOnSet(q, 1..k)]
           T == [k \in 0..n |-> SumFunctionOnSet(t, 1..k)]
           B == {k \in 0..n : Q[k + 1] # q[1] + T[k]}
<1>2. Q[0] = 0 /\ T[0] = 0
  <2>1. 1..0 = {}
    OBVIOUS
  <2>2. SumFunctionOnSet(q, {}) = 0 /\ SumFunctionOnSet(t, {}) = 0
    BY SumPick, FS_EmptySet
  <2> QED BY <1>1, <2>1, <2>2
<1>3. \A k \in 0..n : Q[k] \in Int /\ Q[k + 1] = q[k + 1] + Q[k]
  <2> TAKE k \in 0..n
  <2>1. k \in Nat /\ k < Len(q) /\ k \in 0..(n + 1) /\ k + 1 \in 0..(n + 1)
    BY <1>1
  <2> QED BY <2>1, SumPrefix
<1>4. \A k \in 0..(n - 1) : T[k] \in Int /\ T[k + 1] = t[k + 1] + T[k]
  <2> TAKE k \in 0..(n - 1)
  <2>1. k \in Nat /\ k < Len(t) /\ k \in 0..n /\ k + 1 \in 0..n
    BY <1>1 DEF n
  <2> QED BY <1>1, <2>1, SumPrefix
<1>5. T[n] \in Int /\ T[n] = SumFunction(t) /\ Q[n + 1] = SumFunction(q)
  <2>1. IsFiniteSet(1..n) /\ \A x \in 1..n : t[x] \in Int
    BY <1>1, FS_Interval, ElementOfSeq DEF n
  <2>2. SumFunctionOnSet(t, 1..n) \in Int
    BY <2>1, SumType
  <2> QED BY <1>1, <2>2 DEF SumFunction
<1> HIDE DEF Q, T
<1>6. B = {}
  <2>1. SUFFICES ASSUME B # {} PROVE FALSE
    OBVIOUS
  <2>2. B \in SUBSET Nat
    BY <1>1
  <2> HIDE DEF B
  <2>3. PICK k \in B : \A j \in B : k <= j
    BY <2>1, <2>2, FirstExists
  <2> USE DEF B
  <2>4. k # 0
    BY <1>1, <1>2, <1>3, <2>3
  <2>5. PICK j \in 0..(n - 1) : k = j + 1
    BY <1>1, <2>4
  <2>6. Q[j + 1] = q[1] + T[j] /\ j \in 0..n
    BY <1>1, <2>3, <2>5
  <2>7. T[k] = t[k] + T[j] /\ T[j] \in Int /\ Q[k + 1] = q[k + 1] + Q[j + 1]
    BY <1>1, <1>3, <1>4, <2>5
  <2>8. t[k] = q[k + 1] /\ t[k] \in Int
    BY <1>1, <2>5, ElementOfSeq DEF n
  <2> QED BY <1>1, <2>6, <2>7, <2>8
<1>7. Q[n + 1] = q[1] + T[n]
  BY <1>1, <1>6
<1> QED BY <1>1, <1>5, <1>7 DEF t

-----------------------------------------------------------------------------
(* Incoming: what the receive loop, the queue and the executor of a session   *)
(* have reserved. *)

(* A request being read has its place in the queue already.                  *)
PlaceReserved ==
  \A s \in Session : recv[s] = "payload" /\ frame[s].request => Len(queue[s]) < MaxRequests

(* A session that is gone has nothing left that could reserve or release.    *)
GoneIsDone ==
  \A s \in gone : recv[s] = "done" /\ executing[s] = "done" /\ queue[s] = <<>>

IncomingInv == BudgetsBalance /\ PlaceReserved /\ GoneIsDone /\ NoLostWakeup

(* What the requests of a queue reserve when one enters or leaves it.        *)
LEMMA ReservedFacts ==
  ASSUME NEW q \in Seq(Nat)
  PROVE  /\ Reserved(q) \in Nat /\ Reserved(<<>>) = 0 /\ Len(q) \in Nat
         /\ \A p \in Nat : Append(q, p) \in Seq(Nat) /\ Len(Append(q, p)) = Len(q) + 1
                           /\ Reserved(Append(q, p)) = Reserved(q) + p + Header
         /\ q # <<>> => /\ Head(q) \in Nat /\ Tail(q) \in Seq(Nat) /\ Len(Tail(q)) = Len(q) - 1
                       /\ Reserved(Tail(q)) = Reserved(q) - (Head(q) + Header)
<1> DEFINE R(r) == [i \in DOMAIN r |-> r[i] + Header]
<1>0. Header \in Nat /\ Len(q) \in Nat /\ \A i \in 1..Len(q) : q[i] \in Nat
  BY BudgetAssumption, LenProperties, ElementOfSeq
<1>1. DOMAIN q = 1..Len(q) /\ R(q) \in Seq(Int) /\ Len(R(q)) = Len(q)
  <2>1. DOMAIN q = 1..Len(q)
    BY LenProperties
  <2>2. R(q) \in [1..Len(q) -> Int]
    BY <1>0, <2>1
  <2>3. R(q) \in Seq(Int)
    BY <1>0, <2>2, SeqDef
  <2>4. DOMAIN R(q) = 1..Len(R(q)) /\ Len(R(q)) \in Nat
    BY <2>3, LenProperties
  <2>5. 1..Len(R(q)) = 1..Len(q)
    BY <2>2, <2>4
  <2> HIDE DEF R
  <2>6. Len(R(q)) = Len(q)
    BY <1>0, <2>4, <2>5
  <2> QED BY <2>1, <2>3, <2>6
<1>2. Reserved(q) \in Nat
  <2>1. IsFiniteSet(1..Len(q))
    BY <1>0, FS_Interval
  <2>2. DOMAIN R(q) = 1..Len(q) /\ \A i \in 1..Len(q) : R(q)[i] \in Nat
    BY <1>0, <1>1
  <2> HIDE DEF R
  <2>3. SumFunctionOnSet(R(q), 1..Len(q)) \in Nat
    BY <2>1, <2>2, SumIsNat
  <2> QED BY <2>2, <2>3 DEF Reserved, SumFunction, R
<1>3. Reserved(<<>>) = 0
  <2>1. R(<<>>) = <<>> /\ DOMAIN <<>> = {}
    OBVIOUS
  <2>2. SumFunctionOnSet(<<>>, {}) = 0
    BY SumPick, FS_EmptySet
  <2> QED BY <2>1, <2>2 DEF Reserved, SumFunction
<1>4. ASSUME NEW p \in Nat
      PROVE  /\ Append(q, p) \in Seq(Nat) /\ Len(Append(q, p)) = Len(q) + 1
             /\ Reserved(Append(q, p)) = Reserved(q) + p + Header
  <2>1. Append(q, p) \in Seq(Nat) /\ Len(Append(q, p)) = Len(q) + 1
    BY AppendProperties
  <2>2. R(Append(q, p)) = Append(R(q), p + Header)
    BY <1>0, <1>1, <2>1, AppendProperties
  <2> HIDE DEF R
  <2>3. SumFunction(Append(R(q), p + Header)) = SumFunction(R(q)) + (p + Header)
    BY <1>0, <1>1, SumAppend
  <2>4. Reserved(Append(q, p)) = Reserved(q) + (p + Header)
    BY <2>2, <2>3 DEF Reserved, R
  <2> QED BY <1>0, <1>2, <2>1, <2>4
<1>5. ASSUME q # <<>>
      PROVE  /\ Head(q) \in Nat /\ Tail(q) \in Seq(Nat) /\ Len(Tail(q)) = Len(q) - 1
             /\ Reserved(Tail(q)) = Reserved(q) - (Head(q) + Header)
  <2>1. Head(q) \in Nat /\ Tail(q) \in Seq(Nat) /\ Len(Tail(q)) = Len(q) - 1
    BY <1>5, HeadTailProperties
  <2>2. R(Tail(q)) = Tail(R(q)) /\ Head(R(q)) = Head(q) + Header /\ R(q) # <<>>
    BY <1>0, <1>1, <1>5, <2>1, HeadTailProperties
  <2> HIDE DEF R
  <2>3. SumFunction(Tail(R(q))) = SumFunction(R(q)) - Head(R(q))
    BY <1>1, <2>2, SumTail
  <2> QED BY <2>1, <2>2, <2>3 DEF Reserved, R
<1> QED BY <1>0, <1>2, <1>3, <1>4, <1>5

(* The limits and the sizes of frames are numbers.                           *)
LEMMA Numbers ==
  /\ Header \in Nat /\ MaxRequests \in Nat \ {0} /\ ConnectionBytes \in Nat /\ ServerBytes \in Nat
  /\ \A p \in Payload : p \in Nat
  /\ \A p \in Payload, b \in BOOLEAN : [size |-> p, request |-> b] \in [size : Nat, request : BOOLEAN]
BY LimitAssumption, BudgetAssumption

(* What a step of s leaves alone: another session at most has its receiver   *)
(* woken.                                                                    *)
OthersRest(s) ==
  /\ bytes' = [bytes EXCEPT ![s] = bytes'[s]]
  /\ \A t \in Session \ {s} :
       /\ open'[t] = open[t] /\ frame'[t] = frame[t] /\ queue'[t] = queue[t]
       /\ executing'[t] = executing[t] /\ running'[t] = running[t] /\ bytes'[t] = bytes[t]
       /\ recv'[t] = recv[t] \/ (recv[t] = "waiting" /\ recv'[t] = "woken")
       /\ t \in gone' <=> t \in gone

(* The actions of the receive loop, and those of the executor and of the end *)
(* of a session.                                                             *)
Receives(s) ==
  \/ \E p \in Payload : ControlHeader(s, p) \/ RequestHeader(s, p) \/ AwaitSpace(s, p)
  \/ Recheck(s) \/ ReceiveFails(s) \/ QueueRequest(s) \/ AnswerCapabilities(s)
  \/ RejectRequest(s) \/ HandleControl(s)
Executes(s) == Take(s) \/ Expire(s) \/ Finish(s) \/ ExecutorEnds(s) \/ CloseSession(s)

LEMMA StepIsLocal ==
  ASSUME IncomingTypeOK, NEW s \in Session, IncomingStep(s)
  PROVE  OthersRest(s)
<1> USE DEF IncomingTypeOK, OthersRest, ReleaseRequestBytes, Close, receiver, executor, budget
<1>1. ASSUME NEW f, StartReading(s, f) PROVE OthersRest(s)
  BY <1>1 DEF StartReading
<1>2. CASE Receives(s)
  <2>1. ASSUME NEW p \in Payload, ControlHeader(s, p) \/ RequestHeader(s, p) PROVE OthersRest(s)
    BY <1>1, <2>1 DEF ControlHeader, RequestHeader
  <2>2. ASSUME NEW p \in Payload, AwaitSpace(s, p) PROVE OthersRest(s)
    BY <2>2 DEF AwaitSpace
  <2>3. CASE Recheck(s)
    BY <1>1, <2>3 DEF Recheck
  <2>4. CASE ReceiveFails(s)
    BY <2>4 DEF ReceiveFails
  <2>5. CASE QueueRequest(s) \/ RejectRequest(s) \/ HandleControl(s)
    BY <2>5 DEF QueueRequest, RejectRequest, HandleControl, PayloadRead
  <2>6. CASE AnswerCapabilities(s)
    BY <2>6 DEF AnswerCapabilities, PayloadRead
  <2> QED BY <1>2, <2>1, <2>2, <2>3, <2>4, <2>5, <2>6 DEF Receives
<1>3. CASE Executes(s)
  <2>1. CASE Take(s) \/ ExecutorEnds(s) \/ CloseSession(s)
    BY <2>1 DEF Take, ExecutorEnds, CloseSession
  <2>2. CASE Expire(s)
    BY <2>2 DEF Expire
  <2>3. CASE Finish(s)
    BY <2>3 DEF Finish
  <2> QED BY <1>3, <2>1, <2>2, <2>3 DEF Executes
<1>4. CASE Teardown(s)
  BY <1>4 DEF Teardown
<1> QED BY <1>2, <1>3, <1>4 DEF IncomingStep, Receives, Executes

(* What a step of s does to its own reservation, which stays within the      *)
(* budgets and covers what s then holds.                                     *)
Covered(s) ==
  /\ DOMAIN bytes' = Session /\ bytes'[s] \in Nat /\ total' - total = bytes'[s] - bytes[s]
  /\ total' \in Int
  /\ bytes'[s] >= Held(s)' /\ (open'[s] => bytes'[s] = Held(s)')
  /\ bytes'[s] <= ConnectionBytes /\ total' <= ServerBytes
  /\ s \in gone' => bytes'[s] = 0

(* The parts of what a session holds.                                        *)
Queued(s) == Reserved(queue[s])
Executed(s) == IF executing[s] = "busy" THEN running[s] + Header ELSE 0
Received(s) == IF recv[s] = "payload" /\ frame[s].request THEN frame[s].size + Header ELSE 0

(* A step that reserves nothing: what it frees of the parts is what it       *)
(* releases, or more when the session closes.                                *)
Releases(s) ==
  LET parts == Queued(s) + Executed(s) + Received(s)
      left == Queued(s)' + Executed(s)' + Received(s)'
  IN /\ DOMAIN bytes' = Session /\ bytes'[s] \in Int /\ total' = total - (bytes[s] - bytes'[s])
     /\ Queued(s)' \in Nat /\ Executed(s)' \in Nat /\ Received(s)' \in Nat
     /\ bytes'[s] <= bytes[s] /\ bytes[s] + left <= bytes'[s] + parts
     /\ open'[s] => open[s] /\ bytes[s] + left >= bytes'[s] + parts
     /\ s \notin gone'

LEMMA ReleaseIsCovered ==
  ASSUME IncomingInv, NEW s \in Session, Releases(s)
  PROVE  Covered(s)
<1> DEFINE parts == Queued(s) + Executed(s) + Received(s)
           left == Queued(s)' + Executed(s)' + Received(s)'
<1>1. /\ bytes[s] \in Nat /\ total \in Nat /\ bytes[s] >= Held(s) /\ (open[s] => bytes[s] = Held(s))
      /\ bytes[s] <= ConnectionBytes /\ total <= ServerBytes
  BY DEF IncomingInv, BudgetsBalance, BudgetsHold, ReservationsBalance, IncomingTypeOK
<1>2. Held(s) = parts /\ Held(s)' = left
  BY DEF Held, Queued, Executed, Received
<1>3. parts \in Nat
  <2>1. /\ queue[s] \in Seq(Nat) /\ running[s] \in Nat /\ frame[s].size \in Nat
    BY DEF IncomingInv, BudgetsBalance, IncomingTypeOK
  <2>2. Queued(s) \in Nat
    BY <2>1, ReservedFacts DEF Queued
  <2>3. Executed(s) \in Nat /\ Received(s) \in Nat
    BY <2>1, Numbers DEF Executed, Received
  <2> QED BY <2>2, <2>3
<1>4. /\ left \in Nat /\ DOMAIN bytes' = Session /\ bytes'[s] \in Int
      /\ total' = total - (bytes[s] - bytes'[s]) /\ bytes'[s] <= bytes[s]
      /\ bytes[s] + left <= bytes'[s] + parts /\ s \notin gone'
      /\ open'[s] => open[s] /\ bytes[s] + left >= bytes'[s] + parts
  BY DEF Releases
<1> HIDE DEF parts, left
<1>5. bytes'[s] >= left /\ bytes'[s] \in Nat
  BY <1>1, <1>2, <1>3, <1>4
<1>6. open'[s] => bytes'[s] = left
  BY <1>1, <1>2, <1>3, <1>4, <1>5
<1>7. total' \in Int /\ total' - total = bytes'[s] - bytes[s] /\ total' <= ServerBytes
      /\ bytes'[s] <= ConnectionBytes
  BY <1>1, <1>4, <1>5, Numbers
<1> QED BY <1>2, <1>4, <1>5, <1>6, <1>7 DEF Covered

LEMMA StepIsCovered ==
  ASSUME IncomingInv, NEW s \in Session, IncomingStep(s)
  PROVE  Covered(s)
<1> DEFINE q == queue[s]
<1>1. /\ IncomingTypeOK /\ bytes[s] \in Nat /\ total \in Nat /\ running[s] \in Nat
      /\ frame[s].size \in Nat /\ frame[s].request \in BOOLEAN /\ q \in Seq(Nat)
  BY DEF IncomingInv, BudgetsBalance, IncomingTypeOK
<1>2. /\ Queued(s) \in Nat /\ Reserved(<<>>) = 0
      /\ Reserved(Append(q, frame[s].size)) = Queued(s) + frame[s].size + Header
      /\ q # <<>> => /\ Head(q) \in Nat /\ Reserved(Tail(q)) \in Nat
                    /\ Reserved(Tail(q)) = Queued(s) - (Head(q) + Header)
  BY <1>1, ReservedFacts DEF Queued
<1>3. /\ Executed(s) \in Nat /\ Received(s) \in Nat /\ Header \in Nat
      /\ bytes[s] >= Held(s) /\ (open[s] => bytes[s] = Held(s))
      /\ Held(s) = Queued(s) + Executed(s) + Received(s)
      /\ bytes[s] <= ConnectionBytes /\ total <= ServerBytes /\ (s \in gone => bytes[s] = 0)
  BY <1>1, Numbers DEF IncomingInv, BudgetsBalance, BudgetsHold, ReservationsBalance, Held,
     Queued, Executed, Received
<1>4. s \in gone => recv[s] = "done" /\ executing[s] = "done"
  BY DEF IncomingInv, GoneIsDone
<1>5. ASSUME queue'[s] = q PROVE Queued(s)' = Queued(s)
  BY <1>5 DEF Queued
<1>6. ASSUME executing'[s] = executing[s], running'[s] = running[s] PROVE Executed(s)' = Executed(s)
  BY <1>6 DEF Executed
<1>7. ASSUME recv'[s] = "payload" <=> recv[s] = "payload", frame'[s] = frame[s]
      PROVE  Received(s)' = Received(s)
  BY <1>7 DEF Received
<1>8. ASSUME recv'[s] # "payload" PROVE Received(s)' = 0
  BY <1>8 DEF Received
<1>9. ASSUME UNCHANGED budget
      PROVE  /\ DOMAIN bytes' = Session /\ bytes'[s] = bytes[s] /\ total' = total
             /\ bytes[s] - bytes'[s] = 0
  BY <1>1, <1>9 DEF budget, IncomingTypeOK
<1>10. ASSUME NEW size \in Nat, NEW next, ReleaseRequestBytes(s, size, next)
       PROVE  /\ DOMAIN bytes' = Session /\ bytes'[s] = bytes[s] - size /\ total' = total - size
              /\ bytes[s] - bytes'[s] = size
              /\ recv'[s] = IF next = "waiting" THEN "woken" ELSE next
  <2>1. /\ DOMAIN bytes' = Session /\ bytes'[s] = bytes[s] - size /\ total' = total - size
        /\ recv'[s] = IF next = "waiting" THEN "woken" ELSE next
    BY <1>1, <1>10 DEF ReleaseRequestBytes, IncomingTypeOK
  <2> QED BY <1>1, <2>1
<1>0. /\ bytes[s] \in Nat /\ total \in Nat /\ Header \in Nat /\ frame[s].size \in Nat
      /\ Queued(s) \in Nat /\ Executed(s) \in Nat /\ Received(s) \in Nat
  BY <1>1, <1>2, <1>3
<1> HIDE DEF q
<1>11. ASSUME NEW f \in [size : Nat, request : BOOLEAN], StartReading(s, f), open[s],
              recv[s] \in {"header", "woken"}, f.request => HasRequestSpace(s, f.size + Header)
       PROVE  Covered(s)
  <2> DEFINE reserved == IF f.request THEN f.size + Header ELSE 0
  <2>1. /\ frame'[s] = f /\ queue'[s] = q /\ executing'[s] = executing[s] /\ running'[s] = running[s]
        /\ gone' = gone /\ f.size \in Nat /\ s \notin gone
    BY <1>1, <1>4, <1>11 DEF StartReading, q, executor, IncomingTypeOK
  <2>2. reserved \in Nat /\ Received(s) = 0
    BY <1>11, <2>1, Numbers DEF Received
  <2>3. CASE reading + f.size > ServerBytes
    <3>1. /\ DOMAIN bytes' = Session /\ bytes'[s] = bytes[s] /\ total' = total /\ recv'[s] = "done"
          /\ open'[s] = FALSE
      <4>1. CASE f.request
        <5>1. ReleaseRequestBytes(s, 0, "done") /\ Close(s)
          BY <1>11, <2>3, <4>1 DEF StartReading
        <5> QED BY <1>1, <1>10, <5>1 DEF Close, IncomingTypeOK
      <4>2. CASE ~f.request
        BY <1>1, <1>9, <1>11, <2>3, <4>2 DEF StartReading, Close, IncomingTypeOK
      <4> QED BY <4>1, <4>2
    <3>2. Queued(s)' = Queued(s) /\ Executed(s)' = Executed(s) /\ Received(s)' = 0
      BY <1>5, <1>6, <1>8, <2>1, <3>1
    <3>3. Releases(s)
      BY <1>0, <2>1, <2>2, <3>1, <3>2 DEF Releases
    <3> QED BY <3>3, ReleaseIsCovered
  <2>4. CASE ~ (reading + f.size > ServerBytes)
    <3>1. /\ DOMAIN bytes' = Session /\ bytes'[s] = bytes[s] + reserved /\ total' = total + reserved
          /\ recv'[s] = "payload" /\ open' = open
      BY <1>1, <1>11, <2>4 DEF StartReading, IncomingTypeOK
    <3>2. bytes[s] + reserved <= ConnectionBytes /\ total + reserved <= ServerBytes
      BY <1>1, <1>3, <1>11, <2>1, Numbers DEF HasRequestSpace
    <3>3. Queued(s)' = Queued(s) /\ Executed(s)' = Executed(s) /\ Received(s)' = reserved
      BY <1>5, <1>6, <2>1, <3>1 DEF Received
    <3> HIDE DEF reserved
    <3>4. Held(s)' = Queued(s)' + Executed(s)' + Received(s)'
      BY DEF Held, Queued, Executed, Received
    <3>5. bytes'[s] = Held(s)'
      BY <1>1, <1>2, <1>3, <1>11, <2>2, <3>1, <3>3, <3>4
    <3>6. bytes'[s] \in Nat /\ total' \in Int /\ total' - total = bytes'[s] - bytes[s]
      BY <1>1, <2>2, <3>1
    <3> QED BY <2>1, <3>1, <3>2, <3>5, <3>6 DEF Covered
  <2> QED BY <2>3, <2>4
<1>12. CASE \E p \in Payload : ControlHeader(s, p) \/ RequestHeader(s, p)
  BY <1>11, <1>12, Numbers DEF ControlHeader, RequestHeader
<1>13. CASE Recheck(s) \/ \E p \in Payload : AwaitSpace(s, p)
  <2>1. CASE Recheck(s) /\ HasRequestSpace(s, frame[s].size + Header)
    <3>1. StartReading(s, frame[s]) /\ open[s] /\ recv[s] = "woken"
      BY <2>1 DEF Recheck
    <3>2. frame[s] \in [size : Nat, request : BOOLEAN]
      BY <1>1 DEF IncomingTypeOK
    <3> QED BY <1>11, <2>1, <3>1, <3>2
  <2>2. CASE ~ (Recheck(s) /\ HasRequestSpace(s, frame[s].size + Header))
    <3>1. /\ UNCHANGED budget /\ recv[s] # "payload" /\ recv'[s] = "waiting" /\ open'[s] = open[s]
          /\ queue'[s] = q /\ executing'[s] = executing[s] /\ running'[s] = running[s] /\ s \notin gone'
      BY <1>1, <1>4, <1>13, <2>2 DEF Recheck, AwaitSpace, executor, q, IncomingTypeOK
    <3>2. Queued(s)' = Queued(s) /\ Executed(s)' = Executed(s) /\ Received(s)' = 0 /\ Received(s) = 0
      BY <1>5, <1>6, <1>8, <3>1 DEF Received
    <3>3. Releases(s)
      BY <1>0, <1>9, <3>1, <3>2 DEF Releases
    <3> QED BY <3>3, ReleaseIsCovered
  <2> QED BY <2>1, <2>2
<1>14. CASE ReceiveFails(s)
  <2>1. /\ queue'[s] = q /\ executing'[s] = executing[s] /\ running'[s] = running[s]
        /\ s \notin gone' /\ ~ open'[s]
    BY <1>1, <1>4, <1>14 DEF ReceiveFails, q, executor, Close, IncomingTypeOK
  <2>2. /\ DOMAIN bytes' = Session /\ bytes'[s] = bytes[s] - Received(s) /\ total' = total - Received(s)
        /\ bytes[s] - bytes'[s] = Received(s) /\ recv'[s] = "done"
    <3>1. CASE recv[s] = "payload" /\ frame[s].request
      <4>1. ReleaseRequestBytes(s, Received(s), "done")
        BY <1>14, <3>1 DEF ReceiveFails, Received
      <4> QED BY <1>3, <1>10, <4>1
    <3>2. CASE ~ (recv[s] = "payload" /\ frame[s].request)
      <4>1. UNCHANGED budget /\ recv'[s] = "done" /\ Received(s) = 0
        BY <1>1, <1>14, <3>2 DEF ReceiveFails, Received, IncomingTypeOK
      <4> QED BY <1>1, <1>9, <4>1
    <3> QED BY <3>1, <3>2
  <2>3. Queued(s)' = Queued(s) /\ Executed(s)' = Executed(s) /\ Received(s)' = 0
    BY <1>5, <1>6, <1>8, <2>1, <2>2
  <2>4. Releases(s)
    BY <1>0, <2>1, <2>2, <2>3 DEF Releases
  <2> QED BY <2>4, ReleaseIsCovered
<1>15. CASE QueueRequest(s)
  <2>1. /\ queue'[s] = Append(q, frame[s].size) /\ executing'[s] = executing[s] /\ running'[s] = running[s]
        /\ s \notin gone' /\ open'[s] = open[s] /\ recv'[s] = "header" /\ UNCHANGED budget
        /\ recv[s] = "payload" /\ frame[s].request
    BY <1>1, <1>4, <1>15 DEF QueueRequest, PayloadRead, q, executor, IncomingTypeOK
  <2>2. /\ Queued(s)' = Queued(s) + frame[s].size + Header /\ Executed(s)' = Executed(s)
        /\ Received(s)' = 0 /\ Received(s) = frame[s].size + Header
    BY <1>2, <1>6, <1>8, <2>1 DEF Queued, Received
  <2>3. Releases(s)
    <3>1. DOMAIN bytes' = Session /\ bytes'[s] = bytes[s] /\ total' = total
      BY <1>9, <2>1
    <3>2. total' = total - (bytes[s] - bytes'[s])
      BY <1>0, <3>1
    <3>3. Queued(s)' \in Nat /\ Executed(s)' \in Nat /\ Received(s)' \in Nat
      BY <1>0, <2>2
    <3>4. Queued(s)' + Executed(s)' + Received(s)' = Queued(s) + Executed(s) + Received(s)
      BY <1>0, <2>2
    <3>5. bytes[s] + (Queued(s)' + Executed(s)' + Received(s)')
          = bytes'[s] + (Queued(s) + Executed(s) + Received(s))
      BY <3>1, <3>4
    <3>6. bytes'[s] \in Int /\ bytes'[s] <= bytes[s]
      BY <1>0, <3>1
    <3>7. /\ bytes[s] + (Queued(s)' + Executed(s)' + Received(s)')
             <= bytes'[s] + (Queued(s) + Executed(s) + Received(s))
          /\ bytes[s] + (Queued(s)' + Executed(s)' + Received(s)')
             >= bytes'[s] + (Queued(s) + Executed(s) + Received(s))
      BY <1>0, <3>3, <3>5, <3>6
    <3> QED BY <2>1, <3>1, <3>2, <3>3, <3>6, <3>7 DEF Releases
  <2> QED BY <2>3, ReleaseIsCovered
<1>16. CASE AnswerCapabilities(s)
  <2>1. /\ queue'[s] = q /\ executing'[s] = executing[s] /\ running'[s] = running[s]
        /\ s \notin gone' /\ (open'[s] => open[s]) /\ recv[s] = "payload" /\ frame[s].request
    BY <1>1, <1>4, <1>16 DEF AnswerCapabilities, PayloadRead, q, executor, Close, IncomingTypeOK
  <2>2. /\ DOMAIN bytes' = Session /\ bytes'[s] = bytes[s] - Received(s) /\ total' = total - Received(s)
        /\ bytes[s] - bytes'[s] = Received(s) /\ recv'[s] \in {"header", "done"}
    <3>1. ReleaseRequestBytes(s, Received(s), "header") \/ ReleaseRequestBytes(s, Received(s), "done")
      BY <1>16, <2>1 DEF AnswerCapabilities, Received
    <3> QED BY <1>3, <1>10, <3>1
  <2>3. Queued(s)' = Queued(s) /\ Executed(s)' = Executed(s) /\ Received(s)' = 0
    BY <1>5, <1>6, <1>8, <2>1, <2>2
  <2>4. Releases(s)
    BY <1>0, <2>1, <2>2, <2>3 DEF Releases
  <2> QED BY <2>4, ReleaseIsCovered
<1>17. CASE RejectRequest(s) \/ HandleControl(s)
  <2>1. /\ queue'[s] = q /\ executing'[s] = executing[s] /\ running'[s] = running[s]
        /\ s \notin gone' /\ recv'[s] # "payload" /\ UNCHANGED budget
        /\ (open'[s] => open[s] /\ Received(s) = 0)
    BY <1>1, <1>4, <1>17
       DEF RejectRequest, HandleControl, PayloadRead, q, executor, Close, IncomingTypeOK, Received
  <2>2. Queued(s)' = Queued(s) /\ Executed(s)' = Executed(s) /\ Received(s)' = 0
    BY <1>5, <1>6, <1>8, <2>1
  <2>3. Releases(s)
    BY <1>0, <1>9, <2>1, <2>2 DEF Releases
  <2> QED BY <2>3, ReleaseIsCovered
<1>18. CASE Take(s)
  <2>1. /\ queue'[s] = Tail(q) /\ executing'[s] = "busy" /\ running'[s] = Head(q) /\ q # <<>>
        /\ executing[s] = "idle" /\ recv'[s] = recv[s] /\ frame'[s] = frame[s] /\ open'[s] = open[s]
        /\ s \notin gone' /\ UNCHANGED budget
    BY <1>1, <1>4, <1>18 DEF Take, q, receiver, IncomingTypeOK
  <2>2. /\ Queued(s)' = Queued(s) - (Head(q) + Header) /\ Queued(s)' \in Nat /\ Received(s)' = Received(s)
        /\ Executed(s)' = Head(q) + Header /\ Executed(s) = 0 /\ Head(q) \in Nat
    BY <1>2, <1>7, <2>1 DEF Queued, Executed
  <2>3. Releases(s)
    <3>1. DOMAIN bytes' = Session /\ bytes'[s] = bytes[s] /\ total' = total
      BY <1>9, <2>1
    <3>2. total' = total - (bytes[s] - bytes'[s])
      BY <1>0, <3>1
    <3>3. Queued(s)' \in Nat /\ Executed(s)' \in Nat /\ Received(s)' \in Nat
      BY <1>0, <2>2
    <3>4. Queued(s)' + Executed(s)' + Received(s)' = Queued(s) + Executed(s) + Received(s)
      BY <1>0, <2>2
    <3>5. bytes[s] + (Queued(s)' + Executed(s)' + Received(s)')
          = bytes'[s] + (Queued(s) + Executed(s) + Received(s))
      BY <3>1, <3>4
    <3>6. bytes'[s] \in Int /\ bytes'[s] <= bytes[s]
      BY <1>0, <3>1
    <3>7. /\ bytes[s] + (Queued(s)' + Executed(s)' + Received(s)')
             <= bytes'[s] + (Queued(s) + Executed(s) + Received(s))
          /\ bytes[s] + (Queued(s)' + Executed(s)' + Received(s)')
             >= bytes'[s] + (Queued(s) + Executed(s) + Received(s))
      BY <1>0, <3>3, <3>5, <3>6
    <3> QED BY <2>1, <3>1, <3>2, <3>3, <3>6, <3>7 DEF Releases
  <2> QED BY <2>3, ReleaseIsCovered
<1>19. CASE Expire(s)
  <2>1. /\ queue'[s] = Tail(q) /\ executing[s] = "idle" /\ executing'[s] # "busy" /\ q # <<>>
        /\ s \notin gone' /\ (open'[s] => open[s]) /\ frame'[s] = frame[s]
    BY <1>1, <1>4, <1>19 DEF Expire, q, Close, IncomingTypeOK
  <2>2. /\ Queued(s)' = Queued(s) - (Head(q) + Header) /\ Queued(s)' \in Nat
        /\ Executed(s)' = 0 /\ Executed(s) = 0
    BY <1>2, <2>1 DEF Queued, Executed
  <2>3. CASE ReleaseRequestBytes(s, Head(q) + Header, recv[s])
    <3>1. Head(q) + Header \in Nat
      BY <1>2, <1>3, <2>1
    <3>2. /\ DOMAIN bytes' = Session /\ total' = total - (Head(q) + Header)
          /\ bytes'[s] = bytes[s] - (Head(q) + Header) /\ bytes[s] - bytes'[s] = Head(q) + Header
          /\ recv'[s] = IF recv[s] = "waiting" THEN "woken" ELSE recv[s]
      BY <1>10, <2>3, <3>1
    <3>3. Received(s)' = Received(s)
      BY <1>7, <2>1, <3>2
    <3>4. Releases(s)
      <4>1. /\ bytes'[s] \in Int /\ bytes'[s] <= bytes[s]
            /\ total' = total - (bytes[s] - bytes'[s]) /\ Received(s)' \in Nat
        BY <1>0, <3>1, <3>2, <3>3
      <4>2. Queued(s) - Queued(s)' = bytes[s] - bytes'[s]
        BY <1>0, <2>2, <3>1, <3>2
      <4>3. /\ bytes[s] + (Queued(s)' + Executed(s)' + Received(s)')
               <= bytes'[s] + (Queued(s) + Executed(s) + Received(s))
            /\ bytes[s] + (Queued(s)' + Executed(s)' + Received(s)')
               >= bytes'[s] + (Queued(s) + Executed(s) + Received(s))
        BY <1>0, <2>2, <3>3, <4>1, <4>2
      <4>4. Executed(s)' \in Nat
        BY <2>2
      <4> QED BY <2>1, <2>2, <3>2, <4>1, <4>3, <4>4 DEF Releases
    <3> QED BY <3>4, ReleaseIsCovered
  <2>4. CASE Close(s) /\ UNCHANGED <<recv, budget>>
    <3>1. ~ open'[s] /\ recv'[s] = recv[s] /\ UNCHANGED budget
      BY <1>1, <2>4 DEF Close, IncomingTypeOK
    <3>2. Received(s)' = Received(s) /\ Head(q) + Header \in Nat
      BY <1>2, <1>3, <1>7, <2>1, <3>1
    <3>3. Releases(s)
      <4>1. DOMAIN bytes' = Session /\ bytes'[s] = bytes[s] /\ total' = total
        BY <1>9, <3>1
      <4>2. total' = total - (bytes[s] - bytes'[s])
        BY <1>0, <4>1
      <4>3. /\ bytes'[s] \in Int /\ bytes'[s] <= bytes[s]
            /\ Executed(s)' \in Nat /\ Received(s)' \in Nat
        BY <1>0, <2>2, <3>2, <4>1
      <4>4. bytes[s] + (Queued(s)' + Executed(s)' + Received(s)')
            <= bytes'[s] + (Queued(s) + Executed(s) + Received(s))
        BY <1>0, <2>2, <3>2, <4>1
      <4> QED BY <2>1, <2>2, <3>1, <4>1, <4>2, <4>3, <4>4 DEF Releases
    <3> QED BY <3>3, ReleaseIsCovered
  <2> QED BY <1>19, <2>3, <2>4 DEF Expire, q
<1>20. CASE Finish(s)
  <2>1. /\ queue'[s] = q /\ executing[s] = "busy" /\ executing'[s] # "busy"
        /\ s \notin gone' /\ (open'[s] => open[s]) /\ frame'[s] = frame[s]
    BY <1>1, <1>4, <1>20 DEF Finish, q, Close, IncomingTypeOK
  <2>2. ReleaseRequestBytes(s, Executed(s), recv[s])
    BY <1>20 DEF Finish, Executed
  <2>3. /\ DOMAIN bytes' = Session /\ bytes'[s] = bytes[s] - Executed(s) /\ total' = total - Executed(s)
        /\ bytes[s] - bytes'[s] = Executed(s)
        /\ recv'[s] = IF recv[s] = "waiting" THEN "woken" ELSE recv[s]
    BY <1>3, <1>10, <2>2
  <2>4. Queued(s)' = Queued(s) /\ Received(s)' = Received(s) /\ Executed(s)' = 0
    BY <1>5, <1>7, <2>1, <2>3 DEF Executed
  <2>5. Releases(s)
    BY <1>0, <2>1, <2>3, <2>4 DEF Releases
  <2> QED BY <2>5, ReleaseIsCovered
<1>21. CASE ExecutorEnds(s) \/ CloseSession(s)
  <2>1. /\ queue'[s] = q /\ running'[s] = running[s] /\ recv'[s] = recv[s] /\ frame'[s] = frame[s]
        /\ (executing'[s] = "busy" <=> executing[s] = "busy") /\ (open'[s] => open[s])
        /\ UNCHANGED <<gone, budget>>
    BY <1>1, <1>21 DEF ExecutorEnds, CloseSession, q, receiver, executor, Close, IncomingTypeOK
  <2>2. Held(s)' = Held(s)
    BY <2>1 DEF Held, q
  <2> QED BY <1>1, <1>3, <1>9, <2>1, <2>2 DEF Covered
<1>22. CASE Teardown(s)
  <2>1. /\ queue'[s] = <<>> /\ executing'[s] = "done" /\ open'[s] = open[s]
        /\ frame'[s] = frame[s] /\ ReleaseRequestBytes(s, bytes[s], "done")
    BY <1>1, <1>22 DEF Teardown, executor, IncomingTypeOK
  <2>2. DOMAIN bytes' = Session /\ bytes'[s] = 0 /\ total' = total - bytes[s] /\ recv'[s] = "done"
    <3>1. DOMAIN bytes' = Session /\ bytes'[s] = bytes[s] - bytes[s] /\ total' = total - bytes[s]
          /\ recv'[s] = "done"
      BY <1>1, <1>10, <2>1
    <3> QED BY <1>1, <3>1
  <2>3. Held(s)' = 0
    <3>1. Held(s)' = Queued(s)' + Executed(s)' + Received(s)'
      BY DEF Held, Queued, Executed, Received
    <3>2. Queued(s)' = 0 /\ Executed(s)' = 0 /\ Received(s)' = 0
      BY <1>2, <1>8, <2>1, <2>2 DEF Queued, Executed
    <3> QED BY <3>1, <3>2
  <2> QED BY <1>1, <1>3, <2>1, <2>2, <2>3, Numbers DEF Covered
<1> QED
  BY <1>12, <1>13, <1>14, <1>15, <1>16, <1>17, <1>18, <1>19, <1>20, <1>21, <1>22 DEF IncomingStep

(* The types of what a step sets besides the budgets.                        *)
TypesNext ==
  /\ open' \in [Session -> BOOLEAN] /\ gone' \subseteq Session
  /\ recv' \in [Session -> {"header", "waiting", "woken", "payload", "done"}]
  /\ frame' \in [Session -> [size : Nat, request : BOOLEAN]]
  /\ queue' \in [Session -> Seq(Nat)]
  /\ executing' \in [Session -> {"idle", "busy", "done"}] /\ running' \in [Session -> Nat]

LEMMA StepKeepsTypes ==
  ASSUME IncomingTypeOK, NEW s \in Session, IncomingStep(s)
  PROVE  TypesNext
<1>1. ASSUME NEW size, NEW next \in {"header", "waiting", "woken", "payload", "done"},
             ReleaseRequestBytes(s, size, next)
      PROVE  recv' \in [Session -> {"header", "waiting", "woken", "payload", "done"}]
  BY <1>1 DEF ReleaseRequestBytes, IncomingTypeOK
<1>2. ASSUME Close(s) PROVE open' \in [Session -> BOOLEAN]
  BY <1>2 DEF Close, IncomingTypeOK
<1>3. recv[s] \in {"header", "waiting", "woken", "payload", "done"} /\ NoFrame \in [size : Nat, request : BOOLEAN]
  BY DEF IncomingTypeOK, NoFrame
<1>4. ASSUME NEW f \in [size : Nat, request : BOOLEAN], StartReading(s, f) PROVE TypesNext
  <2>1. open' \in [Session -> BOOLEAN]
    BY <1>2, <1>4 DEF StartReading, IncomingTypeOK
  <2>2. recv' \in [Session -> {"header", "waiting", "woken", "payload", "done"}]
    BY <1>1, <1>4 DEF StartReading, IncomingTypeOK
  <2> QED BY <1>4, <2>1, <2>2 DEF StartReading, TypesNext, IncomingTypeOK, executor
<1>5. CASE \E p \in Payload : ControlHeader(s, p) \/ RequestHeader(s, p)
  BY <1>4, <1>5, Numbers DEF ControlHeader, RequestHeader
<1>6. CASE \E p \in Payload : AwaitSpace(s, p)
  BY <1>6, Numbers DEF AwaitSpace, TypesNext, IncomingTypeOK, executor
<1>7. CASE Recheck(s)
  <2>1. frame[s] \in [size : Nat, request : BOOLEAN]
    BY DEF IncomingTypeOK
  <2> QED BY <1>4, <1>7, <2>1 DEF Recheck, TypesNext, IncomingTypeOK, executor
<1>8. CASE ReceiveFails(s)
  <2>1. recv' \in [Session -> {"header", "waiting", "woken", "payload", "done"}]
    BY <1>1, <1>8 DEF ReceiveFails, IncomingTypeOK
  <2> QED BY <1>2, <1>3, <1>8, <2>1 DEF ReceiveFails, TypesNext, IncomingTypeOK, executor
<1>9. CASE QueueRequest(s)
  <2>1. Append(queue[s], frame[s].size) \in Seq(Nat)
    BY DEF IncomingTypeOK
  <2> QED BY <1>3, <1>9, <2>1 DEF QueueRequest, PayloadRead, TypesNext, IncomingTypeOK, executor
<1>10. CASE AnswerCapabilities(s)
  <2>1. recv' \in [Session -> {"header", "waiting", "woken", "payload", "done"}]
    BY <1>1, <1>10 DEF AnswerCapabilities
  <2>2. open' \in [Session -> BOOLEAN]
    BY <1>2, <1>10 DEF AnswerCapabilities, IncomingTypeOK
  <2> QED BY <1>3, <1>10, <2>1, <2>2 DEF AnswerCapabilities, PayloadRead, TypesNext,
      IncomingTypeOK, executor
<1>11. CASE RejectRequest(s) \/ HandleControl(s)
  <2>1. PayloadRead(s) /\ queue' = queue /\ recv' \in [Session -> {"header", "waiting", "woken", "payload", "done"}]
    BY <1>11 DEF RejectRequest, HandleControl, IncomingTypeOK
  <2>2. open' \in [Session -> BOOLEAN]
    BY <1>2, <1>11 DEF RejectRequest, HandleControl, IncomingTypeOK
  <2> QED BY <1>3, <2>1, <2>2 DEF PayloadRead, TypesNext, IncomingTypeOK, executor
<1>12. CASE Take(s)
  <2>1. Head(queue[s]) \in Nat /\ Tail(queue[s]) \in Seq(Nat)
    BY <1>12, HeadTailProperties DEF Take, IncomingTypeOK
  <2> QED BY <1>12, <2>1 DEF Take, TypesNext, IncomingTypeOK, receiver
<1>13. CASE Expire(s)
  <2>1. Tail(queue[s]) \in Seq(Nat)
    BY <1>13, HeadTailProperties DEF Expire, IncomingTypeOK
  <2>2. recv' \in [Session -> {"header", "waiting", "woken", "payload", "done"}]
    BY <1>1, <1>3, <1>13 DEF Expire, IncomingTypeOK
  <2>3. open' \in [Session -> BOOLEAN] /\ executing' \in [Session -> {"idle", "busy", "done"}]
    BY <1>2, <1>13 DEF Expire, IncomingTypeOK
  <2> QED BY <1>13, <2>1, <2>2, <2>3 DEF Expire, TypesNext, IncomingTypeOK
<1>14. CASE Finish(s)
  <2>1. recv' \in [Session -> {"header", "waiting", "woken", "payload", "done"}]
    BY <1>1, <1>3, <1>14 DEF Finish
  <2>2. open' \in [Session -> BOOLEAN] /\ executing' \in [Session -> {"idle", "busy", "done"}]
    BY <1>2, <1>14 DEF Finish, IncomingTypeOK
  <2> QED BY <1>14, <2>1, <2>2 DEF Finish, TypesNext, IncomingTypeOK
<1>15. CASE ExecutorEnds(s) \/ CloseSession(s)
  BY <1>2, <1>15 DEF ExecutorEnds, CloseSession, TypesNext, IncomingTypeOK, receiver, executor
<1>16. CASE Teardown(s)
  <2>1. recv' \in [Session -> {"header", "waiting", "woken", "payload", "done"}]
    BY <1>1, <1>16 DEF Teardown
  <2>2. <<>> \in Seq(Nat)
    OBVIOUS
  <2> QED BY <1>16, <2>1, <2>2 DEF Teardown, TypesNext, IncomingTypeOK, executor
<1> QED
  BY <1>5, <1>6, <1>7, <1>8, <1>9, <1>10, <1>11, <1>12, <1>13, <1>14, <1>15, <1>16 DEF IncomingStep

(* What a step of s does to the payloads being read.                         *)
ReadingMoves(s) ==
  /\ reading' - reading = BeingRead'[s] - BeingRead[s] /\ reading' \in Int
  /\ BeingRead'[s] \in Nat /\ reading' <= ServerBytes

LEMMA StepMovesReading ==
  ASSUME IncomingTypeOK, reading <= ServerBytes, NEW s \in Session, IncomingStep(s)
  PROVE  ReadingMoves(s)
<1>1. /\ reading \in Nat /\ ServerBytes \in Nat /\ frame[s].size \in Nat
      /\ recv \in [Session -> {"header", "waiting", "woken", "payload", "done"}]
  BY Numbers DEF IncomingTypeOK
<1>2. /\ BeingRead[s] = IF recv[s] = "payload" THEN frame[s].size ELSE 0
      /\ BeingRead'[s] = IF recv'[s] = "payload" THEN frame'[s].size ELSE 0
      /\ BeingRead[s] \in Nat
  BY <1>1 DEF BeingRead
<1>3. ASSUME NEW size, NEW next \in {"header", "waiting", "woken", "payload", "done"},
             ReleaseRequestBytes(s, size, next)
      PROVE  recv'[s] = IF next = "waiting" THEN "woken" ELSE next
  BY <1>3 DEF ReleaseRequestBytes
<1>4. ASSUME reading' = reading, BeingRead'[s] = BeingRead[s] PROVE ReadingMoves(s)
  BY <1>1, <1>2, <1>4 DEF ReadingMoves
<1>5. ASSUME reading' = reading - BeingRead[s], BeingRead'[s] = 0 PROVE ReadingMoves(s)
  BY <1>1, <1>2, <1>5 DEF ReadingMoves
<1>6. ASSUME NEW f \in [size : Nat, request : BOOLEAN], StartReading(s, f), recv[s] # "payload"
      PROVE  ReadingMoves(s)
  <2>1. frame'[s] = f /\ BeingRead[s] = 0 /\ f.size \in Nat
    BY <1>2, <1>6 DEF StartReading, IncomingTypeOK
  <2>2. CASE reading + f.size > ServerBytes
    <3>1. reading' = reading /\ recv'[s] = "done"
      BY <1>1, <1>3, <1>6, <2>2 DEF StartReading
    <3> QED BY <1>2, <1>4, <2>1, <3>1
  <2>3. CASE ~ (reading + f.size > ServerBytes)
    <3>1. reading' = reading + f.size /\ recv'[s] = "payload"
      BY <1>1, <1>6, <2>3 DEF StartReading
    <3>2. BeingRead'[s] = f.size
      BY <1>2, <2>1, <3>1
    <3> QED BY <1>1, <2>1, <2>3, <3>1, <3>2 DEF ReadingMoves
  <2> QED BY <2>2, <2>3
<1>7. CASE \E p \in Payload : ControlHeader(s, p) \/ RequestHeader(s, p)
  BY <1>6, <1>7, Numbers DEF ControlHeader, RequestHeader
<1>8. CASE \E p \in Payload : AwaitSpace(s, p)
  BY <1>1, <1>2, <1>4, <1>8 DEF AwaitSpace
<1>9. CASE Recheck(s)
  <2>1. frame[s] \in [size : Nat, request : BOOLEAN]
    BY DEF IncomingTypeOK
  <2>2. CASE StartReading(s, frame[s])
    BY <1>6, <1>9, <2>1, <2>2 DEF Recheck
  <2>3. CASE ~ StartReading(s, frame[s])
    <3>1. reading' = reading /\ recv'[s] = "waiting" /\ recv[s] = "woken"
      BY <1>1, <1>9, <2>3 DEF Recheck
    <3> QED BY <1>2, <1>4, <3>1
  <2> QED BY <2>2, <2>3
<1>10. CASE ReceiveFails(s)
  <2>1. recv'[s] = "done"
    BY <1>1, <1>3, <1>10 DEF ReceiveFails
  <2>2. reading' = reading - BeingRead[s]
    BY <1>1, <1>2, <1>10 DEF ReceiveFails
  <2> QED BY <1>2, <1>5, <2>1, <2>2
<1>11. CASE QueueRequest(s) \/ AnswerCapabilities(s) \/ RejectRequest(s) \/ HandleControl(s)
  <2>1. PayloadRead(s) /\ recv'[s] \in {"header", "done"}
    <3>1. CASE AnswerCapabilities(s)
      BY <1>3, <3>1 DEF AnswerCapabilities
    <3> QED BY <1>1, <1>11, <3>1 DEF QueueRequest, RejectRequest, HandleControl
  <2>2. reading' = reading - BeingRead[s]
    BY <1>2, <2>1 DEF PayloadRead
  <2> QED BY <1>2, <1>5, <2>1, <2>2
<1>12. CASE Executes(s)
  <2>1. /\ reading' = reading /\ frame'[s] = frame[s]
        /\ recv'[s] = recv[s] \/ (recv[s] = "waiting" /\ recv'[s] = "woken")
    <3>1. CASE Expire(s)
      BY <1>1, <1>3, <3>1 DEF Expire
    <3>2. CASE Finish(s)
      BY <1>1, <1>3, <3>2 DEF Finish
    <3> QED BY <1>12, <3>1, <3>2 DEF Executes, Take, ExecutorEnds, CloseSession, receiver
  <2> QED BY <1>2, <1>4, <2>1
<1>13. CASE Teardown(s)
  <2>1. reading' = reading /\ recv[s] = "done" /\ recv'[s] = "done"
    BY <1>3, <1>13 DEF Teardown
  <2> QED BY <1>2, <1>4, <2>1
<1> QED
  BY <1>7, <1>8, <1>9, <1>10, <1>11, <1>12, <1>13 DEF IncomingStep, Executes

(* The place that a request being read has in its queue, the end of a        *)
(* session, and its receiver after a step of its own.                        *)
Orderly(s) ==
  /\ Len(queue'[s]) <= MaxRequests
  /\ recv'[s] = "payload" /\ frame'[s].request => Len(queue'[s]) < MaxRequests
  /\ s \in gone' => recv'[s] = "done" /\ executing'[s] = "done" /\ queue'[s] = <<>>
  /\ recv'[s] = "waiting" /\ open'[s] =>
       \/ executing'[s] = "busy"
       \/ ~HasRequestSpace(s, frame[s].size + Header)'

LEMMA StepIsOrderly ==
  ASSUME IncomingInv, NEW s \in Session, IncomingStep(s)
  PROVE  Orderly(s)
<1>1. /\ IncomingTypeOK /\ queue[s] \in Seq(Nat) /\ Len(queue[s]) \in Nat /\ Len(queue[s]) <= MaxRequests
      /\ MaxRequests \in Nat \ {0} /\ Len(<<>>) = 0 /\ bytes[s] \in Nat /\ total \in Nat
  BY Numbers, LenProperties DEF IncomingInv, BudgetsBalance, IncomingTypeOK, BudgetsHold
<1>2. recv[s] = "payload" /\ frame[s].request => Len(queue[s]) < MaxRequests
  BY DEF IncomingInv, PlaceReserved
<1>3. s \in gone => recv[s] = "done" /\ executing[s] = "done" /\ queue[s] = <<>>
  BY DEF IncomingInv, GoneIsDone
<1>4. recv[s] = "waiting" /\ open[s] => executing[s] = "busy" \/ ~HasRequestSpace(s, frame[s].size + Header)
  BY DEF IncomingInv, NoLostWakeup
<1>5. ASSUME NEW size, NEW next, ReleaseRequestBytes(s, size, next)
      PROVE  recv'[s] = IF next = "waiting" THEN "woken" ELSE next
  BY <1>5 DEF ReleaseRequestBytes
<1>6. ASSUME queue'[s] = queue[s] \/ (Len(queue'[s]) <= Len(queue[s]) /\ Len(queue'[s]) \in Nat),
             s \notin gone', recv'[s] = "payload" => recv[s] = "payload" /\ frame'[s] = frame[s],
             recv'[s] = "waiting" => executing'[s] = "busy" \/ ~ open'[s]
      PROVE  Orderly(s)
  BY <1>1, <1>2, <1>6 DEF Orderly
<1>7. ASSUME NEW f \in [size : Nat, request : BOOLEAN], StartReading(s, f), s \notin gone,
             f.request => HasRequestSpace(s, f.size + Header)
      PROVE  Orderly(s)
  <2>1. queue' = queue /\ gone' = gone /\ frame'[s] = f
    BY <1>1, <1>7 DEF StartReading, IncomingTypeOK
  <2>2. recv'[s] \in {"done", "payload"}
    BY <1>1, <1>5, <1>7 DEF StartReading, IncomingTypeOK
  <2>3. f.request => Len(queue[s]) < MaxRequests
    BY <1>7 DEF HasRequestSpace
  <2> QED BY <1>1, <1>7, <2>1, <2>2, <2>3 DEF Orderly
<1>8. CASE \E p \in Payload : ControlHeader(s, p) \/ RequestHeader(s, p)
  BY <1>3, <1>7, <1>8, Numbers DEF ControlHeader, RequestHeader
<1>9. CASE \E p \in Payload : AwaitSpace(s, p)
  <2>1. PICK p \in Payload : AwaitSpace(s, p)
    BY <1>9
  <2>2. /\ recv[s] = "header" /\ recv'[s] = "waiting" /\ frame'[s].size = p /\ queue' = queue /\ gone' = gone
        /\ bytes' = bytes /\ total' = total /\ ~HasRequestSpace(s, p + Header)
    BY <1>1, <2>1 DEF AwaitSpace, IncomingTypeOK, budget
  <2>3. ~HasRequestSpace(s, frame[s].size + Header)'
    BY <2>2 DEF HasRequestSpace
  <2> QED BY <1>1, <1>3, <2>2, <2>3 DEF Orderly
<1>10. CASE Recheck(s)
  <2>1. frame[s] \in [size : Nat, request : BOOLEAN] /\ s \notin gone
    BY <1>1, <1>3, <1>10 DEF IncomingTypeOK, Recheck
  <2>2. CASE HasRequestSpace(s, frame[s].size + Header)
    BY <1>7, <1>10, <2>1, <2>2 DEF Recheck
  <2>3. CASE ~HasRequestSpace(s, frame[s].size + Header)
    <3>1. /\ recv'[s] = "waiting" /\ frame' = frame /\ queue' = queue /\ gone' = gone
          /\ bytes' = bytes /\ total' = total
      BY <1>1, <1>10, <2>3 DEF Recheck, IncomingTypeOK, budget
    <3>2. ~HasRequestSpace(s, frame[s].size + Header)'
      BY <2>3, <3>1 DEF HasRequestSpace
    <3> QED BY <1>1, <2>1, <3>1, <3>2 DEF Orderly
  <2> QED BY <2>2, <2>3
<1>11. CASE ReceiveFails(s)
  <2>1. recv'[s] = "done" /\ queue' = queue /\ s \notin gone'
    BY <1>1, <1>3, <1>5, <1>11 DEF ReceiveFails, IncomingTypeOK
  <2> QED BY <1>6, <2>1
<1>12. CASE QueueRequest(s)
  <2>1. /\ recv[s] = "payload" /\ frame[s].request /\ recv'[s] = "header" /\ s \notin gone'
        /\ queue'[s] = Append(queue[s], frame[s].size) /\ frame[s].size \in Nat
    BY <1>1, <1>3, <1>12 DEF QueueRequest, PayloadRead, IncomingTypeOK
  <2>2. Len(queue'[s]) = Len(queue[s]) + 1
    BY <1>1, <2>1, AppendProperties
  <2> QED BY <1>1, <1>2, <2>1, <2>2 DEF Orderly
<1>13. CASE AnswerCapabilities(s) \/ RejectRequest(s) \/ HandleControl(s)
  <2>1. recv[s] = "payload" /\ queue' = queue /\ gone' = gone
    BY <1>13 DEF AnswerCapabilities, RejectRequest, HandleControl, PayloadRead
  <2>2. recv'[s] \in {"header", "done"}
    BY <1>1, <1>5, <1>13 DEF AnswerCapabilities, RejectRequest, HandleControl, IncomingTypeOK
  <2> QED BY <1>3, <1>6, <2>1, <2>2
<1>14. CASE Take(s)
  <2>1. /\ queue[s] # <<>> /\ queue'[s] = Tail(queue[s]) /\ gone' = gone /\ frame' = frame /\ recv' = recv
        /\ executing[s] = "idle" /\ executing'[s] = "busy"
    BY <1>1, <1>14 DEF Take, IncomingTypeOK, receiver
  <2>2. Len(queue'[s]) = Len(queue[s]) - 1
    BY <1>1, <2>1, HeadTailProperties
  <2> QED BY <1>1, <1>3, <1>6, <2>1, <2>2
<1>15. CASE Expire(s)
  <2>1. /\ queue[s] # <<>> /\ queue'[s] = Tail(queue[s]) /\ gone' = gone /\ frame' = frame
        /\ executing[s] = "idle"
    BY <1>1, <1>15 DEF Expire, IncomingTypeOK
  <2>2. Len(queue'[s]) = Len(queue[s]) - 1 /\ Len(queue[s]) # 0
    BY <1>1, <2>1, HeadTailProperties, EmptySeq
  <2>3. /\ recv'[s] = "payload" => recv[s] = "payload"
        /\ recv'[s] = "waiting" => ~ open'[s]
    <3>1. CASE ReleaseRequestBytes(s, Head(queue[s]) + Header, recv[s])
      BY <1>5, <3>1
    <3>2. CASE Close(s) /\ UNCHANGED recv
      BY <1>1, <3>2 DEF Close, IncomingTypeOK
    <3> QED BY <1>15, <3>1, <3>2 DEF Expire
  <2> QED BY <1>1, <1>3, <1>6, <2>1, <2>2, <2>3
<1>16. CASE Finish(s)
  <2>1. queue' = queue /\ gone' = gone /\ frame' = frame /\ executing[s] = "busy"
    BY <1>16 DEF Finish
  <2>2. recv'[s] # "waiting" /\ (recv'[s] = "payload" => recv[s] = "payload")
    BY <1>5, <1>16 DEF Finish
  <2> QED BY <1>3, <1>6, <2>1, <2>2
<1>17. CASE ExecutorEnds(s) \/ CloseSession(s)
  <2>1. /\ queue' = queue /\ gone' = gone /\ frame' = frame /\ recv' = recv /\ ~ open'[s]
        /\ executing[s] = "done" => executing'[s] = "done"
    BY <1>1, <1>17 DEF ExecutorEnds, CloseSession, Close, receiver, executor, IncomingTypeOK
  <2> QED BY <1>1, <1>2, <1>3, <2>1 DEF Orderly
<1>18. CASE Teardown(s)
  <2>1. queue'[s] = <<>> /\ executing'[s] = "done" /\ recv'[s] = "done"
    BY <1>1, <1>5, <1>18 DEF Teardown, executor, IncomingTypeOK
  <2> QED BY <1>1, <2>1 DEF Orderly
<1> QED
  BY <1>8, <1>9, <1>10, <1>11, <1>12, <1>13, <1>14, <1>15, <1>16, <1>17, <1>18 DEF IncomingStep

(* A step that makes room in the totals wakes every receiver that waits.     *)
LEMMA ReleaseWakes ==
  ASSUME IncomingInv, NEW s \in Session, IncomingStep(s)
  PROVE  total' >= total \/ \A t \in Session : recv'[t] # "waiting"
<1>1. total \in Nat /\ IncomingTypeOK
  BY DEF IncomingInv, BudgetsBalance, IncomingTypeOK
<1>2. ASSUME NEW size, NEW next, ReleaseRequestBytes(s, size, next)
      PROVE  \A t \in Session : recv'[t] # "waiting"
  BY <1>2 DEF ReleaseRequestBytes
<1>3. ASSUME UNCHANGED budget PROVE total' >= total
  BY <1>1, <1>3 DEF budget
<1>4. ASSUME NEW f \in [size : Nat, request : BOOLEAN], StartReading(s, f)
      PROVE  total' >= total \/ \A t \in Session : recv'[t] # "waiting"
  <2>1. f.size + Header \in Nat
    BY Numbers
  <2> QED BY <1>1, <1>2, <1>3, <1>4, <2>1 DEF StartReading
<1>5. CASE Receives(s)
  <2>1. CASE \E p \in Payload : ControlHeader(s, p) \/ RequestHeader(s, p)
    BY <1>4, <2>1, Numbers DEF ControlHeader, RequestHeader
  <2>2. CASE Recheck(s)
    <3>1. frame[s] \in [size : Nat, request : BOOLEAN]
      BY <1>1 DEF IncomingTypeOK
    <3> QED BY <1>3, <1>4, <2>2, <3>1 DEF Recheck
  <2>3. CASE ReceiveFails(s) \/ AnswerCapabilities(s)
    BY <1>2, <1>3, <2>3 DEF ReceiveFails, AnswerCapabilities
  <2>4. CASE QueueRequest(s) \/ RejectRequest(s) \/ HandleControl(s) \/ \E p \in Payload : AwaitSpace(s, p)
    BY <1>3, <2>4 DEF QueueRequest, RejectRequest, HandleControl, AwaitSpace
  <2> QED BY <1>5, <2>1, <2>2, <2>3, <2>4 DEF Receives
<1>6. CASE Executes(s)
  BY <1>2, <1>3, <1>6 DEF Executes, Take, Expire, Finish, ExecutorEnds, CloseSession
<1>7. CASE Teardown(s)
  BY <1>2, <1>7 DEF Teardown
<1> QED BY <1>5, <1>6, <1>7 DEF IncomingStep, Receives, Executes

(* The sums of the reservations and of the payloads after a step.            *)
LEMMA TotalsFollow ==
  ASSUME IncomingInv, NEW s \in Session, IncomingStep(s)
  PROVE  /\ bytes' \in [Session -> Nat] /\ total' \in Nat /\ reading' \in Nat
         /\ total' = SumFunction(bytes') /\ reading' = SumFunction(BeingRead')
<1>1. /\ IncomingTypeOK /\ bytes \in [Session -> Nat] /\ total \in Nat /\ reading \in Nat
      /\ reading <= ServerBytes /\ total = SumFunction(bytes) /\ reading = SumFunction(BeingRead)
  BY DEF IncomingInv, BudgetsBalance, IncomingTypeOK, BudgetsHold, ReservationsBalance
<1>2. IsFiniteSet(Session)
  BY LimitAssumption
<1>3. OthersRest(s) /\ Covered(s) /\ ReadingMoves(s)
  BY <1>1, StepIsLocal, StepIsCovered, StepMovesReading
<1>4. bytes' = [bytes EXCEPT ![s] = bytes'[s]] /\ bytes'[s] \in Nat /\ total' \in Int
      /\ total' - total = bytes'[s] - bytes[s] /\ bytes[s] \in Nat
  BY <1>1, <1>3 DEF OthersRest, Covered
<1>5. /\ BeingRead \in [Session -> Nat] /\ BeingRead' = [BeingRead EXCEPT ![s] = BeingRead'[s]]
  <2>1. BeingRead \in [Session -> Nat]
    BY <1>1 DEF BeingRead, IncomingTypeOK
  <2>2. BeingRead' = [t \in Session |-> IF recv'[t] = "payload" THEN frame'[t].size ELSE 0]
    BY DEF BeingRead
  <2>3. \A t \in Session \ {s} :
          (IF recv'[t] = "payload" THEN frame'[t].size ELSE 0) = BeingRead[t]
    BY <1>3 DEF OthersRest, BeingRead
  <2> QED BY <2>1, <2>2, <2>3
<1>6. /\ BeingRead'[s] \in Nat /\ BeingRead[s] \in Nat /\ reading' \in Int
      /\ reading' - reading = BeingRead'[s] - BeingRead[s]
  BY <1>3, <1>5 DEF ReadingMoves
<1>7. bytes' \in [Session -> Nat] /\ BeingRead' \in [Session -> Nat]
  BY <1>1, <1>4, <1>5, <1>6
<1>8. total' = SumFunction(bytes')
  <2>1. bytes \in [Session -> Int] /\ bytes'[s] \in Int
    BY <1>1, <1>4
  <2>2. SumFunction([bytes EXCEPT ![s] = bytes'[s]]) = SumFunction(bytes) - bytes[s] + bytes'[s]
    BY <1>2, <2>1, SumUpdate
  <2>3. SumFunction(bytes') = total - bytes[s] + bytes'[s]
    BY <1>1, <1>4, <2>2
  <2> QED BY <1>1, <1>4, <2>3
<1>9. reading' = SumFunction(BeingRead')
  <2>1. BeingRead \in [Session -> Int] /\ BeingRead'[s] \in Int
    BY <1>5, <1>6
  <2>2. SumFunction([BeingRead EXCEPT ![s] = BeingRead'[s]])
          = SumFunction(BeingRead) - BeingRead[s] + BeingRead'[s]
    BY <1>2, <2>1, SumUpdate
  <2>3. SumFunction(BeingRead') = reading - BeingRead[s] + BeingRead'[s]
    BY <1>1, <1>5, <2>2
  <2> QED BY <1>1, <1>6, <2>3
<1>10. ASSUME NEW f \in [Session -> Nat] PROVE SumFunction(f) \in Nat
  <2>1. DOMAIN f = Session /\ \A x \in Session : f[x] \in Nat
    OBVIOUS
  <2>2. SumFunctionOnSet(f, Session) \in Nat
    BY <1>2, <2>1, SumIsNat
  <2> QED BY <2>1, <2>2 DEF SumFunction
<1> QED BY <1>7, <1>8, <1>9, <1>10

LEMMA IncomingStarts ==
  ASSUME IncomingInit
  PROVE  IncomingInv
<1> USE DEF IncomingInit
<1>1. IncomingTypeOK
  <2>1. <<>> \in Seq(Nat)
    OBVIOUS
  <2> QED BY <2>1 DEF IncomingTypeOK, NoFrame
<1>2. \A s \in Session : queue[s] = <<>> /\ Len(queue[s]) = 0
  OBVIOUS
<1>3. SumFunction(bytes) = 0
  BY SumOfZeros, LimitAssumption
<1>4. SumFunction(BeingRead) = 0
  <2>1. BeingRead = [s \in Session |-> 0]
    BY DEF BeingRead
  <2>2. SumFunction([s \in Session |-> 0]) = 0
    BY SumOfZeros, LimitAssumption
  <2> QED BY <2>1, <2>2
<1>5. Reserved(<<>>) = 0
  <2>1. <<>> \in Seq(Nat)
    OBVIOUS
  <2> QED BY <2>1, ReservedFacts
<1>6. \A s \in Session : Held(s) = 0 /\ bytes[s] = 0
  BY <1>2, <1>5 DEF Held
<1>7. BudgetsHold
  BY <1>2, Numbers DEF BudgetsHold
<1>8. ReservationsBalance
  BY <1>3, <1>4, <1>6 DEF ReservationsBalance
<1> QED BY <1>1, <1>7, <1>8 DEF IncomingInv, BudgetsBalance, PlaceReserved, GoneIsDone, NoLostWakeup

LEMMA IncomingInvariance ==
  ASSUME IncomingInv, [IncomingNext]_incoming
  PROVE  IncomingInv'
<1>1. CASE UNCHANGED incoming
  <2> USE <1>1 DEF incoming, receiver, executor, budget
  <2>1. IncomingTypeOK' /\ BudgetsHold'
    BY DEF IncomingInv, BudgetsBalance, IncomingTypeOK, BudgetsHold
  <2>2. BeingRead' = BeingRead /\ \A s \in Session : Held(s)' = Held(s)
    BY DEF Held, BeingRead
  <2> QED
    BY <2>1, <2>2 DEF IncomingInv, BudgetsBalance, ReservationsBalance, PlaceReserved, GoneIsDone,
       NoLostWakeup, HasRequestSpace
<1>2. ASSUME NEW s \in Session, IncomingStep(s) PROVE IncomingInv'
  <2>1. IncomingTypeOK /\ reading <= ServerBytes
    BY DEF IncomingInv, BudgetsBalance, BudgetsHold
  <2>2. OthersRest(s) /\ Covered(s) /\ TypesNext /\ ReadingMoves(s) /\ Orderly(s)
    BY <1>2, <2>1, StepIsLocal, StepIsCovered, StepKeepsTypes, StepMovesReading, StepIsOrderly
  <2>3. /\ bytes' \in [Session -> Nat] /\ total' \in Nat /\ reading' \in Nat
        /\ total' = SumFunction(bytes') /\ reading' = SumFunction(BeingRead')
    BY <1>2, TotalsFollow
  <2>4. IncomingTypeOK'
    BY <2>2, <2>3 DEF TypesNext, IncomingTypeOK
  <2>5. BudgetsHold'
    BY <2>2 DEF IncomingInv, BudgetsBalance, BudgetsHold, OthersRest, Covered, ReadingMoves, Orderly
  <2>6. ASSUME NEW t \in Session \ {s} PROVE Held(t)' = Held(t)
    BY <2>2 DEF OthersRest, Held
  <2>7. ASSUME NEW t \in Session PROVE bytes'[t] >= Held(t)' /\ (open'[t] => bytes'[t] = Held(t)')
    <3>1. CASE t = s
      BY <2>2, <3>1 DEF Covered
    <3>2. CASE t # s
      <4>1. Held(t)' = Held(t) /\ bytes'[t] = bytes[t] /\ open'[t] = open[t]
        BY <2>2, <2>6, <3>2 DEF OthersRest
      <4> QED BY <4>1 DEF IncomingInv, BudgetsBalance, ReservationsBalance
    <3> QED BY <3>1, <3>2
  <2>8. ASSUME NEW t \in gone' PROVE bytes'[t] = 0
    <3>1. CASE t = s
      BY <2>2, <2>8, <3>1 DEF Covered
    <3>2. CASE t # s
      <4>1. t \in Session /\ t \in gone /\ bytes'[t] = bytes[t]
        BY <2>2, <2>8, <3>2 DEF OthersRest, TypesNext
      <4> QED BY <4>1 DEF IncomingInv, BudgetsBalance, ReservationsBalance
    <3> QED BY <3>1, <3>2
  <2>9. ReservationsBalance'
    BY <2>3, <2>7, <2>8 DEF ReservationsBalance
  <2>10. PlaceReserved' /\ GoneIsDone'
    BY <2>2 DEF PlaceReserved, GoneIsDone, OthersRest, Orderly, TypesNext, IncomingInv
  <2>11. ASSUME NEW t \in Session, open'[t], recv'[t] = "waiting",
                HasRequestSpace(t, frame[t].size + Header)'
         PROVE  executing'[t] = "busy"
    <3>1. CASE t = s
      BY <2>2, <2>11, <3>1 DEF Orderly
    <3>2. CASE t # s
      <4>1. /\ open[t] /\ recv[t] = "waiting" /\ frame'[t] = frame[t] /\ queue'[t] = queue[t]
            /\ bytes'[t] = bytes[t] /\ executing'[t] = executing[t]
        BY <2>2, <2>11, <3>2 DEF OthersRest
      <4>2. total' >= total
        BY <1>2, <2>11, ReleaseWakes
      <4>3. frame[t].size + Header \in Nat /\ total \in Nat
        BY <2>1, Numbers DEF IncomingTypeOK
      <4>4. HasRequestSpace(t, frame[t].size + Header)
        BY <2>3, <2>11, <4>1, <4>2, <4>3, Numbers DEF HasRequestSpace
      <4> QED BY <4>1, <4>4 DEF IncomingInv, NoLostWakeup
    <3> QED BY <3>1, <3>2
  <2>12. NoLostWakeup'
    BY <2>11 DEF NoLostWakeup
  <2> QED BY <2>4, <2>5, <2>9, <2>10, <2>12 DEF IncomingInv, BudgetsBalance
<1> QED BY <1>1, <1>2 DEF IncomingNext

(* No client exceeds a budget, and what it reserved is returned exactly once, *)
(* on every path of ReceiveFrame, ExecuteRequests and ServeClient.            *)
THEOREM BudgetsBalanceHolds == IncomingSpec => []BudgetsBalance
<1>1. IncomingInv => BudgetsBalance
  BY DEF IncomingInv
<1> QED BY <1>1, IncomingStarts, IncomingInvariance, PTL DEF IncomingSpec

(* No receiver sleeps while its frame would fit, unless its own executor is   *)
(* about to wake it (ReleaseRequestBytes, AsyncSignal).                       *)
THEOREM NoLostWakeupHolds == IncomingSpec => []NoLostWakeup
<1>1. IncomingInv => NoLostWakeup
  BY DEF IncomingInv
<1> QED BY <1>1, IncomingStarts, IncomingInvariance, PTL DEF IncomingSpec

-----------------------------------------------------------------------------
(* Outgoing: the queue of frames that a session still has to send. *)

(* The frame being sent is still in the queue.                               *)
FrontIsQueued == \A s \in Session : sender[s] = "sending" => output[s] # <<>>

(* A response that waits for space would fit into an empty queue.            *)
ResponseFits == \A s \in Session : response[s] <= ConnectionBytes

OutgoingInv == OutputBalances /\ FrontIsQueued /\ ResponseFits

(* What the frames of a queue count when one enters or leaves it.            *)
LEMMA QueueFacts ==
  ASSUME NEW q \in Seq(Nat)
  PROVE  /\ SumFunction(q) \in Nat /\ SumFunction(<<>>) = 0 /\ Len(q) \in Nat /\ Len(<<>>) = 0
         /\ \A p \in Nat : Append(q, p) \in Seq(Nat) /\ Len(Append(q, p)) = Len(q) + 1
                           /\ SumFunction(Append(q, p)) = SumFunction(q) + p /\ Append(q, p) # <<>>
         /\ q # <<>> => /\ Head(q) \in Nat /\ Tail(q) \in Seq(Nat) /\ Len(Tail(q)) = Len(q) - 1
                       /\ SumFunction(Tail(q)) = SumFunction(q) - Head(q)
<1>1. q \in Seq(Int) /\ DOMAIN q = 1..Len(q) /\ Len(q) \in Nat /\ \A i \in 1..Len(q) : q[i] \in Nat
  BY LenProperties, ElementOfSeq
<1>2. SumFunction(q) \in Nat
  <2>1. IsFiniteSet(1..Len(q))
    BY <1>1, FS_Interval
  <2>2. SumFunctionOnSet(q, 1..Len(q)) \in Nat
    BY <1>1, <2>1, SumIsNat
  <2> QED BY <1>1, <2>2 DEF SumFunction
<1>3. SumFunction(<<>>) = 0
  <2>1. DOMAIN <<>> = {}
    OBVIOUS
  <2>2. SumFunctionOnSet(<<>>, {}) = 0
    BY SumPick, FS_EmptySet
  <2> QED BY <2>1, <2>2 DEF SumFunction
<1>4. ASSUME NEW p \in Nat
      PROVE  /\ Append(q, p) \in Seq(Nat) /\ Len(Append(q, p)) = Len(q) + 1
             /\ SumFunction(Append(q, p)) = SumFunction(q) + p /\ Append(q, p) # <<>>
  <2>1. SumFunction(Append(q, p)) = SumFunction(q) + p
    BY <1>1, SumAppend
  <2> QED BY <1>1, <2>1, AppendProperties
<1>5. ASSUME q # <<>>
      PROVE  /\ Head(q) \in Nat /\ Tail(q) \in Seq(Nat) /\ Len(Tail(q)) = Len(q) - 1
             /\ SumFunction(Tail(q)) = SumFunction(q) - Head(q)
  <2>1. SumFunction(Tail(q)) = SumFunction(q) - Head(q)
    BY <1>1, <1>5, SumTail
  <2> QED BY <1>5, <2>1, HeadTailProperties
<1> QED BY <1>1, <1>2, <1>3, <1>4, <1>5

(* What a step of s leaves alone.                                            *)
OthersWait(s) ==
  /\ outputBytes' = [outputBytes EXCEPT ![s] = outputBytes'[s]]
  /\ \A t \in Session \ {s} :
       /\ open'[t] = open[t] /\ responding'[t] = responding[t] /\ response'[t] = response[t]
       /\ sender'[t] = sender[t] /\ output'[t] = output[t] /\ outputBytes'[t] = outputBytes[t]

(* The variables keep their types.                                           *)
OutgoingTypesNext ==
  /\ open' \in [Session -> BOOLEAN] /\ gone' \subseteq Session
  /\ responding' \in [Session -> {"idle", "running", "waiting", "woken", "done"}]
  /\ response' \in [Session -> Nat]
  /\ sender' \in [Session -> {"ready", "waiting", "sending", "done"}]
  /\ output' \in [Session -> Seq(Nat)]

(* What a step of s does to its own queue and to what is counted for it.     *)
Counted(s) ==
  /\ outputBytes'[s] \in Nat /\ outputBytes'[s] = SumFunction(output'[s])
  /\ outputTotal' \in Int /\ outputTotal' - outputTotal = outputBytes'[s] - outputBytes[s]
  /\ outputTotal' <= ServerBytes /\ outputBytes'[s] <= ConnectionBytes
  /\ Len(output'[s]) <= MaxRequests

(* Who is awake in s after a step of it.                                     *)
Awake(s) ==
  /\ open'[s] => /\ responding'[s] = "waiting" => output'[s] # <<>>
                 /\ output'[s] # <<>> => sender'[s] # "waiting"
  /\ sender'[s] = "sending" => output'[s] # <<>>
  /\ response'[s] <= ConnectionBytes

(* The actions that leave the queue alone, and those that change it.         *)
LeavesQueue(s) ==
  \/ Begin(s) \/ Complete(s) \/ OperationFails(s) \/ ResponderEnds(s)
  \/ \E n \in Size : AwaitOutputSpace(s, n)
  \/ CloseOutput(s) \/ AwaitOutput(s) \/ SendFront(s) \/ SenderEnds(s)

LEMMA OutgoingStepIsLocal ==
  ASSUME OutgoingTypeOK, NEW s \in Session, SessionStep(s)
  PROVE  OthersWait(s)
<1> USE DEF OutgoingTypeOK, OthersWait, Close, queued
<1>1. CASE LeavesQueue(s)
  BY <1>1 DEF LeavesQueue, Begin, Complete, OperationFails, ResponderEnds, AwaitOutputSpace,
      CloseOutput,
     AwaitOutput, SendFront, SenderEnds
<1>2. CASE \E n \in Size : Respond(s, n) \/ ReceiverResponds(s, n)
  BY <1>2 DEF Respond, ReceiverResponds, EnqueueOutput
<1>3. CASE RecheckOutput(s)
  BY <1>3 DEF RecheckOutput, EnqueueOutput
<1>4. CASE FrontSent(s)
  BY <1>4 DEF FrontSent
<1>5. CASE TeardownOutput(s)
  BY <1>5 DEF TeardownOutput
<1> QED BY <1>1, <1>2, <1>3, <1>4, <1>5 DEF SessionStep, Sender, LeavesQueue

LEMMA OutgoingStepIsTyped ==
  ASSUME OutgoingInv, NEW s \in Session, SessionStep(s)
  PROVE  OutgoingTypesNext
<1>1. OutgoingTypeOK /\ output[s] \in Seq(Nat) /\ (sender[s] = "sending" => output[s] # <<>>)
  BY DEF OutgoingInv, OutputBalances, OutgoingTypeOK, FrontIsQueued
<1>2. \A n \in Size : n \in Nat
  BY SizeAssumption
<1> USE DEF OutgoingTypeOK, OutgoingTypesNext, Close, queued
<1>3. CASE LeavesQueue(s)
  <2>1. CASE Begin(s) \/ Complete(s) \/ ResponderEnds(s) \/ CloseOutput(s)
    BY <1>1, <2>1 DEF Begin, Complete, ResponderEnds, CloseOutput
  <2>2. CASE OperationFails(s)
    BY <1>1, <2>2 DEF OperationFails
  <2>3. CASE \E n \in Size : AwaitOutputSpace(s, n)
    BY <1>1, <1>2, <2>3 DEF AwaitOutputSpace
  <2>4. CASE AwaitOutput(s) \/ SendFront(s) \/ SenderEnds(s)
    BY <1>1, <2>4 DEF AwaitOutput, SendFront, SenderEnds
  <2> QED BY <1>3, <2>1, <2>2, <2>3, <2>4 DEF LeavesQueue
<1>4. ASSUME NEW n \in Nat, EnqueueOutput(s, n)
      PROVE  /\ output' \in [Session -> Seq(Nat)]
             /\ sender' \in [Session -> {"ready", "waiting", "sending", "done"}]
  <2>1. Append(output[s], n) \in Seq(Nat)
    BY <1>1, AppendProperties
  <2> QED BY <1>1, <1>4, <2>1 DEF EnqueueOutput
<1>5. CASE \E n \in Size : Respond(s, n) \/ ReceiverResponds(s, n)
  BY <1>1, <1>2, <1>4, <1>5 DEF Respond, ReceiverResponds
<1>6. CASE RecheckOutput(s)
  <2>1. response[s] \in Nat
    BY <1>1
  <2>2. CASE ConnectionFull(s, response[s])
    BY <1>1, <1>6, <2>2 DEF RecheckOutput
  <2>3. CASE ~ConnectionFull(s, response[s])
    <3>1. /\ EnqueueOutput(s, response[s]) /\ UNCHANGED <<open, gone>>
          /\ responding' = [responding EXCEPT ![s] = "running"] /\ response' = [response EXCEPT ![s] = 0]
      BY <1>6, <2>3 DEF RecheckOutput
    <3> QED BY <1>1, <1>4, <2>1, <3>1
  <2> QED BY <2>2, <2>3
<1>7. CASE FrontSent(s)
  <2>1. Tail(output[s]) \in Seq(Nat)
    BY <1>1, <1>7, HeadTailProperties DEF FrontSent
  <2> QED BY <1>1, <1>7, <2>1 DEF FrontSent
<1>8. CASE TeardownOutput(s)
  <2>1. <<>> \in Seq(Nat)
    OBVIOUS
  <2> QED BY <1>1, <1>8, <2>1 DEF TeardownOutput
<1> QED BY <1>3, <1>5, <1>6, <1>7, <1>8 DEF SessionStep, Sender, LeavesQueue

LEMMA OutgoingStepIsCounted ==
  ASSUME OutgoingInv, NEW s \in Session, SessionStep(s)
  PROVE  Counted(s) /\ Awake(s)
<1>1. /\ OutgoingTypeOK /\ output[s] \in Seq(Nat) /\ outputBytes[s] \in Nat /\ outputTotal \in Nat
      /\ response[s] \in Nat
  BY DEF OutgoingInv, OutputBalances, OutgoingTypeOK
<1>2. /\ outputBytes[s] = SumFunction(output[s]) /\ outputTotal <= ServerBytes
      /\ outputBytes[s] <= ConnectionBytes /\ Len(output[s]) <= MaxRequests
  BY DEF OutgoingInv, OutputBalances, OutputIsCounted
<1>3. /\ open[s] => /\ responding[s] = "waiting" => output[s] # <<>>
                    /\ output[s] # <<>> => sender[s] # "waiting"
      /\ sender[s] = "sending" => output[s] # <<>>
      /\ response[s] <= ConnectionBytes
  BY DEF OutgoingInv, OutputBalances, SenderIsAwake, FrontIsQueued, ResponseFits
<1>4. /\ ServerBytes \in Nat /\ ConnectionBytes \in Nat /\ MaxRequests \in Nat \ {0}
      /\ ConnectionBytes <= ServerBytes /\ \A n \in Size : n \in Nat /\ n <= ConnectionBytes
  BY LimitAssumption, SizeAssumption
<1>5. /\ SumFunction(<<>>) = 0 /\ Len(output[s]) \in Nat /\ Len(<<>>) = 0
      /\ \A p \in Nat : /\ Len(Append(output[s], p)) = Len(output[s]) + 1 /\ Append(output[s], p) # <<>>
                         /\ SumFunction(Append(output[s], p)) = SumFunction(output[s]) + p
      /\ output[s] # <<>> => /\ Head(output[s]) \in Nat /\ Len(Tail(output[s])) = Len(output[s]) - 1
                             /\ SumFunction(Tail(output[s])) = SumFunction(output[s]) - Head(output[s])
                             /\ SumFunction(Tail(output[s])) \in Nat
  <2>1. output[s] # <<>> => SumFunction(Tail(output[s])) \in Nat
    BY <1>1, QueueFacts
  <2> QED BY <1>1, <2>1, QueueFacts
<1>6. ASSUME NEW n \in Nat, EnqueueOutput(s, n)
      PROVE  /\ Counted(s) /\ output'[s] # <<>> /\ sender'[s] # "waiting"
             /\ sender'[s] = "sending" => sender[s] = "sending"
  <2>1. /\ output'[s] = Append(output[s], n) /\ outputBytes'[s] = outputBytes[s] + n
        /\ outputTotal' = outputTotal + n /\ outputTotal + n <= ServerBytes /\ sender'[s] # "waiting"
        /\ sender'[s] = "sending" => sender[s] = "sending"
    BY <1>1, <1>6 DEF EnqueueOutput, Accepts, OutgoingTypeOK
  <2>2. /\ outputBytes[s] + n <= ConnectionBytes /\ Len(output[s]) < MaxRequests
    BY <1>1, <1>4, <1>5, <1>6 DEF EnqueueOutput, Accepts, ConnectionFull
  <2>3. Len(output'[s]) = Len(output[s]) + 1 /\ SumFunction(output'[s]) = SumFunction(output[s]) + n
        /\ output'[s] # <<>>
    BY <1>5, <2>1
  <2>4. Len(output'[s]) <= MaxRequests
    BY <1>4, <1>5, <2>2, <2>3
  <2>5. outputBytes'[s] = SumFunction(output'[s]) /\ outputBytes'[s] \in Nat
    BY <1>1, <1>2, <2>1, <2>3
  <2>6. outputTotal' \in Int /\ outputTotal' - outputTotal = outputBytes'[s] - outputBytes[s]
    BY <1>1, <2>1
  <2> QED BY <2>1, <2>2, <2>3, <2>4, <2>5, <2>6 DEF Counted
<1>7. CASE LeavesQueue(s)
  <2>1. UNCHANGED queued
    BY <1>7 DEF LeavesQueue, Begin, Complete, OperationFails, ResponderEnds, AwaitOutputSpace,
       CloseOutput, AwaitOutput, SendFront, SenderEnds
  <2>2. Counted(s)
    BY <1>1, <1>2, <2>1 DEF Counted, queued
  <2>3. Awake(s)
    <3>1. CASE Begin(s) \/ Complete(s) \/ ResponderEnds(s) \/ CloseOutput(s)
      BY <1>1, <1>3, <2>1, <3>1 DEF Begin, Complete, ResponderEnds, CloseOutput, Close, queued, Awake,
         OutgoingTypeOK
    <3>2. CASE OperationFails(s) \/ SenderEnds(s)
      BY <1>1, <1>3, <1>4, <2>1, <3>2 DEF OperationFails, SenderEnds, Close, queued, Awake,
          OutgoingTypeOK
    <3>3. CASE \E n \in Size : AwaitOutputSpace(s, n)
      <4>1. PICK n \in Size : AwaitOutputSpace(s, n)
        BY <3>3
      <4>2. /\ responding'[s] = "waiting" /\ response'[s] = n /\ open' = open /\ sender' = sender
            /\ output' = output /\ ConnectionFull(s, n)
        BY <1>1, <2>1, <4>1 DEF AwaitOutputSpace, queued, OutgoingTypeOK
      <4>3. output[s] # <<>>
        <5>1. SUFFICES ASSUME output[s] = <<>> PROVE FALSE
          OBVIOUS
        <5>2. outputBytes[s] = 0 /\ Len(output[s]) = 0 /\ n \in Nat /\ n <= ConnectionBytes
          BY <1>2, <1>4, <1>5, <5>1
        <5> QED BY <1>4, <4>2, <5>2 DEF ConnectionFull
      <4> QED BY <1>3, <1>4, <4>2, <4>3 DEF Awake
    <3>4. CASE AwaitOutput(s) \/ SendFront(s)
      BY <1>1, <1>3, <2>1, <3>4 DEF AwaitOutput, SendFront, queued, Awake, OutgoingTypeOK
    <3> QED BY <1>7, <3>1, <3>2, <3>3, <3>4 DEF LeavesQueue
  <2> QED BY <2>2, <2>3
<1>8. CASE \E n \in Size : Respond(s, n) \/ ReceiverResponds(s, n)
  <2>1. PICK n \in Size : Respond(s, n) \/ ReceiverResponds(s, n)
    BY <1>8
  <2>2. EnqueueOutput(s, n) /\ UNCHANGED <<open, responding, response>>
    BY <2>1 DEF Respond, ReceiverResponds
  <2>3. /\ Counted(s) /\ output'[s] # <<>> /\ sender'[s] # "waiting"
    BY <1>4, <1>6, <2>2
  <2> QED BY <1>3, <2>2, <2>3 DEF Awake
<1>9. CASE RecheckOutput(s)
  <2>1. CASE ConnectionFull(s, response[s])
    <3>1. /\ responding'[s] = "waiting" /\ UNCHANGED <<response, sender, output, outputBytes, outputTotal, open>>
      BY <1>1, <1>9, <2>1 DEF RecheckOutput, queued, OutgoingTypeOK
    <3>2. output[s] # <<>>
      <4>1. SUFFICES ASSUME output[s] = <<>> PROVE FALSE
        OBVIOUS
      <4>2. outputBytes[s] = 0 /\ Len(output[s]) = 0
        BY <1>2, <1>5, <4>1
      <4> QED BY <1>1, <1>3, <1>4, <2>1, <4>2 DEF ConnectionFull
    <3> QED BY <1>1, <1>2, <1>3, <3>1, <3>2 DEF Counted, Awake
  <2>2. CASE ~ConnectionFull(s, response[s])
    <3>1. EnqueueOutput(s, response[s]) /\ response'[s] = 0
      BY <1>1, <1>9, <2>2 DEF RecheckOutput, OutgoingTypeOK
    <3>2. Counted(s) /\ output'[s] # <<>> /\ sender'[s] # "waiting"
      BY <1>1, <1>6, <3>1
    <3> QED BY <1>4, <3>1, <3>2 DEF Awake
  <2> QED BY <2>1, <2>2
<1>10. CASE FrontSent(s)
  <2>1. /\ output[s] # <<>> /\ output'[s] = Tail(output[s]) /\ outputTotal' = outputTotal - Head(output[s])
        /\ outputBytes'[s] = outputBytes[s] - Head(output[s]) /\ sender'[s] = "ready"
        /\ responding'[s] # "waiting" /\ response' = response
    BY <1>1, <1>3, <1>10 DEF FrontSent, OutgoingTypeOK
  <2>2. /\ Head(output[s]) \in Nat /\ Len(output'[s]) = Len(output[s]) - 1
        /\ SumFunction(output'[s]) = SumFunction(output[s]) - Head(output[s])
        /\ SumFunction(output'[s]) \in Nat
    BY <1>5, <2>1
  <2>3. outputBytes'[s] = SumFunction(output'[s])
    BY <1>2, <2>1, <2>2
  <2> DEFINE n == Head(output[s])
  <2>0. n \in Nat /\ outputTotal' = outputTotal - n /\ outputBytes'[s] = outputBytes[s] - n
    BY <2>1, <2>2
  <2> HIDE DEF n
  <2>4. outputTotal' \in Int /\ outputTotal' - outputTotal = outputBytes'[s] - outputBytes[s]
    BY <1>1, <2>0
  <2>6. outputTotal' <= ServerBytes
    BY <1>1, <1>2, <1>4, <2>0
  <2>7. outputBytes'[s] <= ConnectionBytes
    BY <1>1, <1>2, <1>4, <2>0
  <2>5. Len(output'[s]) <= MaxRequests
    BY <1>2, <1>4, <1>5, <2>2
  <2> QED BY <1>3, <2>1, <2>2, <2>3, <2>4, <2>5, <2>6, <2>7 DEF Counted, Awake
<1>11. CASE TeardownOutput(s)
  <2>1. /\ output'[s] = <<>> /\ outputBytes'[s] = 0 /\ outputTotal' = outputTotal - outputBytes[s]
        /\ sender'[s] = "done" /\ responding'[s] = "done" /\ response' = response
    BY <1>1, <1>11 DEF TeardownOutput, OutgoingTypeOK
  <2>2. outputTotal' \in Int /\ outputTotal' - outputTotal = outputBytes'[s] - outputBytes[s]
    BY <1>1, <2>1
  <2>3. outputTotal' <= ServerBytes
    BY <1>1, <1>2, <1>4, <2>1
  <2> QED BY <1>3, <1>4, <1>5, <2>1, <2>2, <2>3 DEF Counted, Awake
<1> QED BY <1>7, <1>8, <1>9, <1>10, <1>11 DEF SessionStep, Sender, LeavesQueue

LEMMA OutgoingInvariance ==
  ASSUME OutgoingInv, [OutgoingNext]_outgoing
  PROVE  OutgoingInv'
<1>1. CASE UNCHANGED outgoing
  BY <1>1 DEF outgoing, queued, OutgoingInv, OutputBalances, OutgoingTypeOK, OutputIsCounted,
      SenderIsAwake,
     FrontIsQueued, ResponseFits
<1>2. ASSUME NEW s \in Session, SessionStep(s) PROVE OutgoingInv'
  <2>1. /\ OutgoingTypeOK /\ outputBytes \in [Session -> Nat] /\ outputTotal \in Nat
        /\ outputTotal = SumFunction(outputBytes)
    BY DEF OutgoingInv, OutputBalances, OutgoingTypeOK, OutputIsCounted
  <2>2. OthersWait(s) /\ OutgoingTypesNext /\ Counted(s) /\ Awake(s)
    BY <1>2, <2>1, OutgoingStepIsLocal, OutgoingStepIsTyped, OutgoingStepIsCounted
  <2>3. /\ outputBytes' = [outputBytes EXCEPT ![s] = outputBytes'[s]] /\ outputBytes'[s] \in Nat
        /\ outputTotal' - outputTotal = outputBytes'[s] - outputBytes[s] /\ outputTotal' \in Int
        /\ outputBytes[s] \in Nat
    BY <2>1, <2>2 DEF OthersWait, Counted
  <2>4. outputBytes' \in [Session -> Nat]
    BY <2>1, <2>3
  <2>5. outputTotal' = SumFunction(outputBytes')
    <3>1. outputBytes \in [Session -> Int] /\ outputBytes'[s] \in Int
      BY <2>1, <2>3
    <3>2. SumFunction([outputBytes EXCEPT ![s] = outputBytes'[s]])
            = SumFunction(outputBytes) - outputBytes[s] + outputBytes'[s]
      BY <3>1, LimitAssumption, SumUpdate
    <3>3. SumFunction(outputBytes') = outputTotal - outputBytes[s] + outputBytes'[s]
      BY <2>1, <2>3, <3>2
    <3> QED BY <2>1, <2>3, <3>3
  <2>6. SumFunction(outputBytes') \in Nat
    <3>1. DOMAIN outputBytes' = Session /\ \A x \in Session : outputBytes'[x] \in Nat
      BY <2>4
    <3>2. SumFunctionOnSet(outputBytes', Session) \in Nat
      BY <3>1, LimitAssumption, SumIsNat
    <3> QED BY <3>1, <3>2 DEF SumFunction
  <2>7. OutgoingTypeOK'
    BY <2>2, <2>4, <2>5, <2>6 DEF OutgoingTypesNext, OutgoingTypeOK
  <2>8. ASSUME NEW t \in Session
        PROVE  /\ outputBytes'[t] = SumFunction(output'[t]) /\ outputBytes'[t] <= ConnectionBytes
               /\ Len(output'[t]) <= MaxRequests
    <3>1. CASE t = s
      BY <2>2, <3>1 DEF Counted
    <3>2. CASE t # s
      BY <2>2, <3>2 DEF OthersWait, OutgoingInv, OutputBalances, OutputIsCounted
    <3> QED BY <3>1, <3>2
  <2>9. OutputIsCounted'
    BY <2>2, <2>5, <2>8 DEF OutputIsCounted, Counted
  <2>10. SenderIsAwake' /\ FrontIsQueued' /\ ResponseFits'
    BY <2>2 DEF OthersWait, Awake, OutgoingInv, OutputBalances, SenderIsAwake, FrontIsQueued,
        ResponseFits
  <2> QED BY <2>7, <2>9, <2>10 DEF OutgoingInv, OutputBalances
<1> QED BY <1>1, <1>2 DEF OutgoingNext

(* Every byte queued for a peer is counted once, for its connection and for   *)
(* the server, until it is sent or torn down, and an executor asleep for      *)
(* space has a sender that will wake it (EnqueueOutput, SendResponses).       *)
THEOREM OutputBalancesHolds == OutgoingSpec => []OutputBalances
<1>1. ASSUME OutgoingInit PROVE OutgoingInv
  <2> USE <1>1 DEF OutgoingInit
  <2>1. SumFunction(outputBytes) = 0
    BY SumOfZeros, LimitAssumption
  <2>2. <<>> \in Seq(Nat) /\ Len(<<>>) = 0 /\ SumFunction(<<>>) = 0
    <3>1. <<>> \in Seq(Nat)
      OBVIOUS
    <3> QED BY <3>1, QueueFacts
  <2>3. OutgoingTypeOK
    BY <2>2 DEF OutgoingTypeOK
  <2>4. \A s \in Session : output[s] = <<>> /\ outputBytes[s] = 0
    OBVIOUS
  <2>5. OutputIsCounted
    BY <2>1, <2>2, <2>4, Numbers DEF OutputIsCounted
  <2> QED BY <2>3, <2>5, Numbers DEF OutgoingInv, OutputBalances, SenderIsAwake, FrontIsQueued,
      ResponseFits
<1>2. OutgoingInv => OutputBalances
  BY DEF OutgoingInv
<1> QED BY <1>1, <1>2, OutgoingInvariance, PTL DEF OutgoingSpec
=============================================================================
