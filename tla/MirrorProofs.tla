---------------------------- MODULE MirrorProofs ----------------------------
(***************************************************************************)
(* The git ref mirror leaves the refs where jj's next import expects them, *)
(* keeps the user's own moves and HEAD, for any number of refs, commits,   *)
(* operations, commands and failures.                                      *)
(*                                                                         *)
(* The merged view is a recursive function of the operations and their     *)
(* views, so the first part shows, for any ancestry and views, that it is  *)
(* defined, typed, and unchanged by what is written later.                 *)
(***************************************************************************)
EXTENDS Mirror, FiniteSetTheorems, WellFoundedInduction, TLAPS

-----------------------------------------------------------------------------
\* Least and greatest numbers.

LEMMA LeastExists ==
    ASSUME NEW S \in SUBSET Nat, S # {}
    PROVE  \E x \in S : \A y \in S : x <= y
  <1> DEFINE R == OpToRel(<, Nat)
  <1>1. IsWellFoundedOn(R, Nat)
    BY NatLessThanWellFounded
  <1>2. \A x, y \in Nat : <<y, x>> \in R <=> y < x
    BY DEF OpToRel
  <1> HIDE DEF R
  <1>3. PICK x \in S : \A y \in S : ~ (<<y, x>> \in R)
    BY <1>1, WFMin
  <1>4. \A y \in S : x <= y
    <2> SUFFICES ASSUME NEW y \in S PROVE x <= y
      OBVIOUS
    <2>1. ~ (y < x)
      BY <1>2, <1>3
    <2>2. x \in Nat /\ y \in Nat
      OBVIOUS
    <2> QED BY <2>1, <2>2
  <1> QED BY <1>4

\* A finite set of numbers has a bound: otherwise the numbers counted up to
\* some first one would have none.
LEMMA BoundExists ==
    ASSUME NEW S \in SUBSET Nat, IsFiniteSet(S)
    PROVE  \E b \in Nat : \A x \in S : x <= b
  <1>1. PICK n \in Nat : ExistsBijection(1..n, S)
    BY FS_NatBijection
  <1>2. PICK f \in [1..n -> S] : \A x \in S : \E i \in 1..n : f[i] = x
    BY <1>1 DEF ExistsBijection, Bijection, Injection, Surjection
  <1>3. \A i \in 1..n : f[i] \in Nat
    BY <1>2
  <1> DEFINE Bounds(b, i) == \A j \in 1..n : j <= i => f[j] <= b
             bad == {i \in Nat : ~ \E b \in Nat : Bounds(b, i)}
  <1>4. bad = {}
    <2> SUFFICES ASSUME bad # {} PROVE FALSE
      OBVIOUS
    <2>1. PICK i \in bad : \A j \in bad : i <= j
      BY LeastExists
    <2>2. i \in Nat /\ \A b \in Nat : ~ Bounds(b, i)
      BY <2>1
    <2>3. i # 0
      <3>1. Bounds(0, 0)
        OBVIOUS
      <3> QED BY <2>2, <3>1
    <2>4. PICK k \in Nat : i = k + 1
      <3>1. i - 1 \in Nat /\ i = (i - 1) + 1
        BY <2>2, <2>3
      <3> QED BY <3>1
    <2>5. k \notin bad
      <3>1. ~ (i <= k)
        BY <2>4
      <3> QED BY <2>1, <3>1
    <2> HIDE DEF bad
    <2>6. PICK b \in Nat : Bounds(b, k)
      BY <2>5 DEF bad
    <2>7. \A j \in 1..n : j <= i => j <= k \/ j = i
      BY <2>4
    <2>8. CASE i \in 1..n
      <3>1. f[i] \in Nat
        BY <1>3, <2>8
      <3>2. PICK c \in Nat : b <= c /\ f[i] <= c
        <4>1. b <= b + f[i] /\ f[i] <= b + f[i] /\ b + f[i] \in Nat
          BY <3>1
        <4> QED BY <4>1
      <3>3. \A j \in 1..n : f[j] <= b => f[j] <= c
        BY <1>3, <3>2
      <3>4. Bounds(c, i)
        BY <2>6, <2>7, <3>2, <3>3
      <3> QED BY <2>2, <3>4
    <2>9. CASE i \notin 1..n
      <3>1. Bounds(b, i)
        BY <2>6, <2>7, <2>9
      <3> QED BY <2>2, <3>1
    <2> QED BY <2>8, <2>9
  <1>5. PICK b \in Nat : Bounds(b, n)
    BY <1>4
  <1>6. \A x \in S : x <= b
    BY <1>2, <1>5
  <1> QED BY <1>6

LEMMA GreatestExists ==
    ASSUME NEW S \in SUBSET Nat, S # {}, NEW b \in Nat, \A x \in S : x <= b
    PROVE  \E x \in S : \A y \in S : y <= x
  <1> DEFINE T == {b - x : x \in S}
  <1>1. \A x \in S : x \in Nat /\ b - x \in Nat
    <2> SUFFICES ASSUME NEW x \in S PROVE x \in Nat /\ b - x \in Nat
      OBVIOUS
    <2>1. x \in Nat /\ x <= b
      OBVIOUS
    <2> QED BY <2>1
  <1>2. T \in SUBSET Nat /\ T # {}
    BY <1>1
  <1>3. PICK t \in T : \A u \in T : t <= u
    BY <1>2, LeastExists
  <1>4. PICK x \in S : t = b - x
    BY <1>3
  <1>5. \A y \in S : y <= x
    <2> SUFFICES ASSUME NEW y \in S PROVE y <= x
      OBVIOUS
    <2>1. b - x <= b - y
      BY <1>3, <1>4
    <2>2. x \in Nat /\ y \in Nat
      BY <1>1
    <2> QED BY <2>1, <2>2
  <1> QED BY <1>5

-----------------------------------------------------------------------------
\* The merged view of some operations, for any ancestry A and views V.

Last(ops) == CHOOSE o \in ops : \A p \in ops : p <= o

Closest(A, ops, others) ==
    LET common == (UNION {A[o] : o \in ops}) \cap (UNION {A[o] : o \in others})
    IN  {o \in common : \A p \in common \ {o} : o \notin A[p]}

\* One step of the recursion of MergedRefs.
Folding(A, V, f, ops) ==
    LET last == Last(ops)
        folded == ops \ {last}
        base == Closest(A, folded, {last})
    IN  IF folded = {} THEN V[last]
        ELSE [r \in Ref |-> MergeRefTargets(f[folded][r], f[base][r], V[last][r])]

\* f is the merged view of the sets of operations in S; of all of them.
Solves(f, A, V, S) == f = [ops \in S |-> Folding(A, V, f, ops)]

Merges(f, A, V) == Solves(f, A, V, SUBSET Known)

WrittenOf(A) == {o \in Known : A[o] # {}}

\* Every operation descends from the root, and its ancestors are written
\* before it.
Ordered(A) ==
    /\ A \in [Known -> SUBSET Known]
    /\ \A o \in WrittenOf(A) : Root \in A[o] /\ o \in A[o]
    /\ \A o \in Known : \A a \in A[o] : a <= o /\ A[a] # {}
    /\ \A o, p \in Known : A[o] # {} /\ A[p] = {} => o < p

\* B and W add operations to A and V.
Adds(A, V, B, W) == \A o \in WrittenOf(A) : B[o] = A[o] /\ W[o] = V[o]

LEMMA KnownFacts == Known \in SUBSET Nat /\ \E b \in Nat : \A o \in Known : o <= b
  <1>1. Op \in SUBSET Nat /\ IsFiniteSet(Op)
    BY MirrorAssumption
  <1>2. PICK b \in Nat : \A o \in Op : o <= b
    BY <1>1, BoundExists
  <1>3. \A o \in Known : o \in Nat /\ o <= b
    <2>1. Root <= b
      BY <1>2 DEF Root
    <2> QED BY <1>1, <1>2, <2>1 DEF Known, Root
  <1> QED BY <1>3

LEMMA LastFacts ==
    ASSUME NEW ops \in SUBSET Known, ops # {}
    PROVE  /\ Last(ops) \in ops /\ Last(ops) \in Known /\ Last(ops) \in Nat
           /\ \A o \in ops : o <= Last(ops)
  <1>1. PICK b \in Nat : \A o \in Known : o <= b
    BY KnownFacts
  <1>2. ops \in SUBSET Nat /\ \A o \in ops : o <= b
    BY <1>1, KnownFacts
  <1>3. \E o \in ops : \A p \in ops : p <= o
    BY <1>2, GreatestExists
  <1>4. Last(ops) \in ops /\ \A o \in ops : o <= Last(ops)
    BY <1>3 DEF Last
  <1> QED BY <1>2, <1>4

\* What the recursion goes back to comes before the last operation.
LEMMA BaseFacts ==
    ASSUME NEW A, Ordered(A), NEW ops \in SUBSET Known, ops # {}
    PROVE  LET last == Last(ops)
               folded == ops \ {last}
               base == Closest(A, folded, {last})
           IN  /\ folded \in SUBSET Known /\ \A o \in folded : o < last
               /\ base \in SUBSET Known /\ \A o \in base : o < last
               /\ \A o \in base : A[o] # {}
  <1> DEFINE last == Last(ops)
             folded == ops \ {last}
             base == Closest(A, folded, {last})
  <1>1. last \in Known /\ last \in Nat /\ folded \in SUBSET Known /\ \A o \in folded : o <= last
    BY LastFacts
  <1>2. \A o \in Known : o \in Nat
    BY KnownFacts
  <1> HIDE DEF last
  <1>3. \A o \in folded : o < last
    BY <1>1, <1>2
  <1>4. \A a \in base : \E o \in folded : a \in A[o]
    BY DEF Closest
  <1>5. \A a \in base : a \in Known /\ a < last /\ A[a] # {}
    <2> SUFFICES ASSUME NEW a \in base PROVE a \in Known /\ a < last /\ A[a] # {}
      OBVIOUS
    <2>1. PICK o \in folded : a \in A[o]
      BY <1>4
    <2>2. o \in Known /\ o < last
      BY <1>1, <1>3
    <2>3. a \in Known /\ a <= o /\ A[a] # {}
      BY <2>1, <2>2 DEF Ordered
    <2> QED BY <1>1, <1>2, <2>2, <2>3
  <1> QED BY <1>1, <1>3, <1>5 DEF last

Below(n) == {ops \in SUBSET Known : \A o \in ops : o < n}

\* A step of the recursion depends on earlier operations only.
LEMMA FoldingLocal ==
    ASSUME NEW A, Ordered(A), NEW V, NEW ops \in SUBSET Known, NEW f, NEW g,
           ops # {} => \A s \in Below(Last(ops)) : f[s] = g[s]
    PROVE  Folding(A, V, f, ops) = Folding(A, V, g, ops)
  <1> DEFINE last == Last(ops)
             folded == ops \ {last}
             base == Closest(A, folded, {last})
  <1>1. CASE folded = {}
    BY <1>1 DEF Folding
  <1>2. CASE folded # {}
    <2>1. ops # {}
      BY <1>2
    <2>2. folded \in Below(last) /\ base \in Below(last)
      BY <2>1, BaseFacts DEF Below
    <2>3. f[folded] = g[folded] /\ f[base] = g[base]
      BY <2>1, <2>2
    <2> QED BY <2>3 DEF Folding
  <1> QED BY <1>1, <1>2

\* The merged view is defined: a solution up to an operation extends to the
\* next one.
LEMMA SolutionExists ==
    ASSUME NEW A, Ordered(A), NEW V
    PROVE  \E f : Merges(f, A, V)
  <1> DEFINE Solvable(n) == \E f : Solves(f, A, V, Below(n))
             bad == {n \in Nat : ~ Solvable(n)}
  <1>1. Solvable(0)
    <2> DEFINE f == [ops \in Below(0) |-> Folding(A, V, A, ops)]
    <2>1. ASSUME NEW ops \in Below(0) PROVE ops = {} /\ ops \in SUBSET Known
      <3>1. ops \in SUBSET Known /\ \A o \in ops : o < 0
        BY DEF Below
      <3> QED BY <3>1, KnownFacts
    <2>2. \A ops \in Below(0) : Folding(A, V, f, ops) = Folding(A, V, A, ops)
      BY <2>1, FoldingLocal
    <2>3. f = [ops \in Below(0) |-> Folding(A, V, f, ops)]
      BY <2>2
    <2> QED BY <2>3 DEF Solves
  <1>2. ASSUME NEW k \in Nat, Solvable(k) PROVE Solvable(k + 1)
    <2>1. PICK g : g = [ops \in Below(k) |-> Folding(A, V, g, ops)]
      BY <1>2 DEF Solves
    <2> DEFINE f == [ops \in Below(k + 1) |->
                       IF ops \in Below(k) THEN g[ops] ELSE Folding(A, V, g, ops)]
    <2>2. ASSUME NEW s \in Below(k) PROVE s \in Below(k + 1) /\ f[s] = g[s]
      <3>1. s \in SUBSET Known /\ \A o \in s : o < k /\ o \in Nat
        BY KnownFacts DEF Below
      <3>2. \A o \in s : o < k + 1
        BY <3>1
      <3>3. s \in Below(k + 1)
        BY <3>1, <3>2 DEF Below
      <3> QED BY <3>3
    <2>3. ASSUME NEW ops \in Below(k + 1)
          PROVE  f[ops] = Folding(A, V, f, ops)
      <3>1. ops \in SUBSET Known /\ \A o \in ops : o < k + 1
        BY DEF Below
      <3>2. ASSUME ops # {}, NEW s \in Below(Last(ops)) PROVE f[s] = g[s]
        <4>1. Last(ops) \in Nat /\ Last(ops) <= k
          BY <3>1, <3>2, LastFacts
        <4>2. s \in SUBSET Known /\ \A o \in s : o < Last(ops) /\ o \in Nat
          BY <3>2, KnownFacts DEF Below
        <4>3. \A o \in s : o < k
          BY <4>1, <4>2
        <4>4. s \in Below(k)
          BY <4>2, <4>3 DEF Below
        <4> QED BY <4>4, <2>2
      <3> HIDE DEF f
      <3>3. Folding(A, V, f, ops) = Folding(A, V, g, ops)
        BY <3>1, <3>2, FoldingLocal
      <3>4. f[ops] = Folding(A, V, g, ops)
        BY <2>1 DEF f
      <3> QED BY <3>3, <3>4
    <2>4. f = [ops \in Below(k + 1) |-> Folding(A, V, f, ops)]
      <3>1. \A ops \in Below(k + 1) : f[ops] = Folding(A, V, f, ops)
        BY <2>3
      <3>2. f = [ops \in Below(k + 1) |-> f[ops]]
        OBVIOUS
      <3> HIDE DEF f
      <3>3. [ops \in Below(k + 1) |-> f[ops]]
               = [ops \in Below(k + 1) |-> Folding(A, V, f, ops)]
        BY <3>1
      <3> QED BY <3>2, <3>3
    <2> HIDE DEF f
    <2> QED BY <2>4 DEF Solves
  <1> HIDE DEF Solvable
  <1>3. bad = {}
    <2> SUFFICES ASSUME bad # {} PROVE FALSE
      OBVIOUS
    <2>1. PICK n \in bad : \A m \in bad : n <= m
      BY LeastExists
    <2>2. n \in Nat /\ ~ Solvable(n)
      BY <2>1
    <2>3. n # 0
      BY <1>1, <2>2
    <2>4. n - 1 \in Nat /\ n = (n - 1) + 1 /\ ~ (n <= n - 1)
      BY <2>2, <2>3
    <2>5. Solvable(n - 1)
      BY <2>1, <2>4
    <2>6. Solvable((n - 1) + 1)
      BY <1>2, <2>4, <2>5
    <2> QED BY <2>2, <2>4, <2>6
  <1>4. PICK b \in Nat : \A o \in Known : o \in Nat /\ o <= b
    BY KnownFacts
  <1>5. b + 1 \in Nat /\ \A o \in Known : o < b + 1
    BY <1>4
  <1>6. Below(b + 1) = SUBSET Known
    BY <1>5 DEF Below
  <1>7. Solvable(b + 1)
    BY <1>3, <1>5
  <1> QED BY <1>6, <1>7 DEF Solvable, Merges

LEMMA SolutionFacts ==
    ASSUME NEW A, NEW V, NEW f, Merges(f, A, V), NEW ops \in SUBSET Known
    PROVE  f[ops] = Folding(A, V, f, ops)
  <1>1. f = [s \in SUBSET Known |-> Folding(A, V, f, s)]
    BY DEF Merges, Solves
  <1> DEFINE G(s) == Folding(A, V, f, s)
  <1>2. f = [s \in SUBSET Known |-> G(s)]
    BY <1>1
  <1> HIDE DEF G
  <1>3. f[ops] = G(ops)
    BY <1>2
  <1> QED BY <1>3 DEF G

LEMMA TargetFacts ==
    ASSUME NEW l, NEW b, NEW r
    PROVE  MergeRefTargets(l, b, r) \in {l, r, Conflict}
  BY DEF MergeRefTargets

LEMMA SolutionTyped ==
    ASSUME NEW A, Ordered(A), NEW V \in [Known -> GitRefs], NEW f,
           Merges(f, A, V), NEW ops \in SUBSET Known, ops # {}
    PROVE  f[ops] \in GitRefs
  <1> DEFINE wrong == {s \in SUBSET Known : s # {} /\ f[s] \notin GitRefs}
             bad == {Last(s) : s \in wrong}
  <1>1. wrong = {}
    <2> SUFFICES ASSUME wrong # {} PROVE FALSE
      OBVIOUS
    <2>1. \A s \in wrong : s \in SUBSET Known /\ s # {} /\ Last(s) \in Nat
      BY LastFacts
    <2>2. bad \in SUBSET Nat /\ bad # {}
      BY <2>1
    <2>3. PICK n \in bad : \A m \in bad : n <= m
      BY <2>2, LeastExists
    <2>4. PICK s \in wrong : n = Last(s)
      BY <2>3
    <2> DEFINE last == Last(s)
               folded == s \ {last}
               base == Closest(A, folded, {last})
    <2>5. s \in SUBSET Known /\ s # {} /\ f[s] \notin GitRefs
      BY <2>4
    <2>6. last \in Known /\ V[last] \in GitRefs
      BY <2>5, LastFacts
    <2>7. f[s] = Folding(A, V, f, s)
      BY <2>5, SolutionFacts
    <2>8. CASE folded = {}
      BY <2>5, <2>6, <2>7, <2>8 DEF Folding
    <2>9. CASE folded # {}
      <3>1. folded \in SUBSET Known /\ \A o \in folded : o < last
        BY <2>5, BaseFacts
      <3>2. Last(folded) < last /\ Last(folded) \in Nat
        BY <2>9, <3>1, LastFacts
      <3>3. Last(folded) \notin bad
        <4>1. ~ (last <= Last(folded))
          BY <3>2, <2>5, LastFacts
        <4> QED BY <4>1, <2>3, <2>4
      <3>4. f[folded] \in GitRefs
        BY <2>9, <3>1, <3>3
      <3> HIDE DEF last, folded, base
      <3>5. f[s] = [r \in Ref |-> MergeRefTargets(f[folded][r], f[base][r], V[last][r])]
        BY <2>7, <2>9 DEF Folding, last, folded, base
      <3>6. ASSUME NEW r \in Ref
            PROVE  MergeRefTargets(f[folded][r], f[base][r], V[last][r])
                      \in Stored \cup {Conflict}
        <4>1. f[folded][r] \in Stored \cup {Conflict} /\ V[last][r] \in Stored \cup {Conflict}
          BY <2>6, <3>4 DEF GitRefs
        <4> QED BY <4>1, TargetFacts
      <3>7. f[s] \in GitRefs
        BY <3>5, <3>6 DEF GitRefs
      <3> QED BY <2>5, <3>7
    <2> QED BY <2>8, <2>9
  <1> QED BY <1>1

LEMMA ClosestExists ==
    ASSUME NEW A, Ordered(A), NEW S \in SUBSET WrittenOf(A), NEW T \in SUBSET WrittenOf(A),
           S # {}, T # {}
    PROVE  Closest(A, S, T) # {}
  <1> DEFINE common == (UNION {A[o] : o \in S}) \cap (UNION {A[o] : o \in T})
  <1>1. \A o \in S \cup T : o \in Known /\ Root \in A[o] /\ A[o] \in SUBSET Known
    BY DEF Ordered, WrittenOf
  <1>2. Root \in common /\ common \in SUBSET Known
    <2>1. Root \in UNION {A[o] : o \in S}
      <3>1. PICK o \in S : Root \in A[o]
        BY <1>1
      <3> QED BY <3>1
    <2>2. Root \in UNION {A[o] : o \in T}
      <3>1. PICK o \in T : Root \in A[o]
        BY <1>1
      <3> QED BY <3>1
    <2>3. common \in SUBSET Known
      <3>1. \A a \in common : \E q \in S : a \in A[q]
        OBVIOUS
      <3> QED BY <1>1, <3>1
    <2> QED BY <2>1, <2>2, <2>3
  <1> HIDE DEF common
  <1>3. /\ Last(common) \in common /\ Last(common) \in Known /\ Last(common) \in Nat
        /\ \A p \in common : p <= Last(common)
    BY <1>2, LastFacts
  <1>4. ASSUME NEW p \in common, p # Last(common) PROVE Last(common) \notin A[p]
    <2>1. p \in Known /\ p \in Nat /\ p <= Last(common)
      BY <1>2, <1>3, KnownFacts
    <2>2. ~ (Last(common) <= p)
      BY <1>3, <1>4, <2>1
    <2> QED BY <2>1, <2>2 DEF Ordered
  <1>5. Last(common) \in Closest(A, S, T)
    BY <1>3, <1>4 DEF Closest, common
  <1> QED BY <1>5

\* What is written later does not change the merged view of operations.
LEMMA SolutionKept ==
    ASSUME NEW A, Ordered(A), NEW V, NEW f, Merges(f, A, V),
           NEW B, Ordered(B), NEW W, NEW g, Merges(g, B, W),
           Adds(A, V, B, W)
    PROVE  \A ops \in SUBSET WrittenOf(A) : ops # {} => g[ops] = f[ops]
  <1> DEFINE wrong == {s \in SUBSET WrittenOf(A) : s # {} /\ g[s] # f[s]}
             bad == {Last(s) : s \in wrong}
  <1>1. WrittenOf(A) \in SUBSET Known
    BY DEF WrittenOf
  <1>2. wrong = {}
    <2> SUFFICES ASSUME wrong # {} PROVE FALSE
      OBVIOUS
    <2>1. \A s \in wrong : s \in SUBSET Known /\ s # {} /\ Last(s) \in Nat
      BY <1>1, LastFacts
    <2>2. bad \in SUBSET Nat /\ bad # {}
      BY <2>1
    <2>3. PICK n \in bad : \A m \in bad : n <= m
      BY <2>2, LeastExists
    <2>4. PICK s \in wrong : n = Last(s)
      BY <2>3
    <2> DEFINE last == Last(s)
               folded == s \ {last}
               base == Closest(A, folded, {last})
    <2>5. /\ s \in SUBSET WrittenOf(A) /\ s \in SUBSET Known /\ s # {} /\ g[s] # f[s]
          /\ last \in s /\ last \in WrittenOf(A) /\ last \in Nat
      BY <2>1, <2>4, LastFacts
    <2>6. f[s] = Folding(A, V, f, s) /\ g[s] = Folding(B, W, g, s)
      <3>1. f[s] = Folding(A, V, f, s)
        BY <2>5, SolutionFacts
      <3>2. g[s] = Folding(B, W, g, s)
        BY <2>5, SolutionFacts
      <3> QED BY <3>1, <3>2
    <2>7. W[last] = V[last]
      BY <2>5 DEF Adds
    <2>8. CASE folded = {}
      BY <2>5, <2>6, <2>7, <2>8 DEF Folding
    <2>9. CASE folded # {}
      <3>1. /\ folded \in SUBSET Known /\ \A o \in folded : o < last
            /\ base \in SUBSET Known /\ \A o \in base : o < last
            /\ \A o \in base : A[o] # {}
        BY <2>5, BaseFacts
      <3>2. folded \in SUBSET WrittenOf(A) /\ {last} \in SUBSET WrittenOf(A)
        BY <2>5
      <3>3. base \in SUBSET WrittenOf(A) /\ base # {}
        BY <2>9, <3>1, <3>2, ClosestExists DEF WrittenOf
      <3>4. base = Closest(B, folded, {last})
        <4>1. \A o \in folded \cup {last} : B[o] = A[o] /\ o \in Known
          BY <3>2, <1>1 DEF Adds
        <4>2. \A o \in folded \cup {last} : \A a \in A[o] : a \in WrittenOf(A)
          BY <4>1 DEF Ordered, WrittenOf
        <4> DEFINE common == (UNION {A[o] : o \in folded}) \cap (UNION {A[o] : o \in {last}})
        <4>3. common = (UNION {B[o] : o \in folded}) \cap (UNION {B[o] : o \in {last}})
          BY <4>1
        <4>4. \A p \in common : B[p] = A[p]
          BY <4>2 DEF Adds
        <4> HIDE DEF common, folded, last
        <4>5. Closest(A, folded, {last}) = {o \in common : \A p \in common \ {o} : o \notin A[p]}
          BY DEF Closest, common
        <4>6. Closest(B, folded, {last}) = {o \in common : \A p \in common \ {o} : o \notin B[p]}
          BY <4>3 DEF Closest
        <4> QED BY <4>4, <4>5, <4>6
      <3>5. \A t \in SUBSET WrittenOf(A) : t # {} /\ (\A o \in t : o < last) => g[t] = f[t]
        <4> SUFFICES ASSUME NEW t \in SUBSET WrittenOf(A), t # {}, \A o \in t : o < last
                     PROVE  g[t] = f[t]
          OBVIOUS
        <4>1. Last(t) \in t /\ Last(t) \in Nat
          BY <1>1, LastFacts
        <4>2. ~ (last <= Last(t))
          BY <4>1, <2>5
        <4>3. Last(t) \notin bad
          BY <4>2, <2>3, <2>4
        <4> QED BY <4>3
      <3>6. g[folded] = f[folded] /\ g[base] = f[base]
        BY <2>9, <3>1, <3>2, <3>3, <3>5
      <3> HIDE DEF base
      <3>7. Folding(A, V, f, s) = [r \in Ref |-> MergeRefTargets(f[folded][r], f[base][r], V[last][r])]
        BY <2>9 DEF Folding, base
      <3>8. Folding(B, W, g, s) = [r \in Ref |-> MergeRefTargets(g[folded][r], g[base][r], W[last][r])]
        BY <2>9, <3>4 DEF Folding
      <3> QED BY <2>5, <2>6, <2>7, <3>6, <3>7, <3>8
    <2> QED BY <2>8, <2>9
  <1> QED BY <1>2

-----------------------------------------------------------------------------
\* The invariant.

\* What is referred to is written, and a fetch wants what it did not have.
OpsSound ==
    /\ Ordered(anc)
    /\ 1 \in WrittenOf(anc)
    /\ heads \subseteq WrittenOf(anc)
    /\ theirs \subseteq WrittenOf(anc) /\ theirs # {}
    /\ apply.wants \subseteq WrittenOf(anc)
    /\ apply.wants \cap apply.localHeads = {}

ApplySound ==
    /\ apply.phase \in {"idle", "staged"} => ~apply.raced
    /\ apply.phase = "heal" => apply.wants = {}
    /\ apply.phase = "swap" => \A r \in apply.todo : apply.after[r] # Conflict

\* Unless a jj command ran since, the views are those of the heads there are
\* and of the heads there will be.
ViewsSound ==
    /\ Publishing /\ ~apply.raced => apply.after = MergedRefs[HeadsAfter(apply)]
    /\ apply.phase = "merged" /\ ~apply.raced => apply.before = MergedRefs[heads]
    /\ apply.phase = "swap" /\ apply.todo # {} /\ ~apply.owns /\ ~apply.raced =>
          apply.before = MergedRefs[heads]

\* The refs that are not left to jj's import.
Mirrored == Ref \ (touched \cup skipped)

\* They are where some view has them.
InLine(refs) == \A r \in Mirrored : refs[r] \in {git[r], Conflict}

Excused == raced \/ apply.raced

\* Unless something raced, the refs are in line until they are merged, and
\* moving those that are still to move brings them in line with the heads
\* there will be.
LineSound ==
    /\ ~Publishing => InLine(MergedRefs[heads])
    /\ apply.phase = "merged" /\ apply.wants # {} =>
          \A r \in Mirrored : apply.before[r] = git[r]
    /\ apply.phase = "swap" =>
          \A r \in Mirrored :
             IF r \in apply.todo THEN apply.before[r] = git[r]
             ELSE apply.after[r] \in {git[r], Conflict}

IInv == TypeOK /\ OpsSound /\ ApplySound /\ ViewsSound /\ (Excused \/ LineSound)

-----------------------------------------------------------------------------
\* MergedRefs is the merged view of the state's ancestry and views.

LEMMA MergedSolves ==
    ASSUME Ordered(anc)
    PROVE  Merges(MergedRefs, anc, view)
  <1>1. MergedRefs = CHOOSE f : f = [ops \in SUBSET Known |-> Folding(anc, view, f, ops)]
    BY DEF MergedRefs, Folding, Last, Closest, ClosestCommonAncestors, AncestorsOf
  <1>2. \E f : f = [ops \in SUBSET Known |-> Folding(anc, view, f, ops)]
    BY SolutionExists DEF Merges, Solves
  <1> QED BY <1>1, <1>2 DEF Merges, Solves

LEMMA MergedSolvesNext ==
    ASSUME Ordered(anc')
    PROVE  Merges(MergedRefs', anc', view')
  <1>1. MergedRefs' = CHOOSE f : f = [ops \in SUBSET Known |-> Folding(anc', view', f, ops)]
    BY DEF MergedRefs, Folding, Last, Closest, ClosestCommonAncestors, AncestorsOf
  <1>2. \E f : f = [ops \in SUBSET Known |-> Folding(anc', view', f, ops)]
    BY SolutionExists DEF Merges, Solves
  <1> QED BY <1>1, <1>2 DEF Merges, Solves

LEMMA MergedTyped ==
    ASSUME TypeOK, Ordered(anc), NEW ops \in SUBSET WrittenOf(anc), ops # {}
    PROVE  MergedRefs[ops] \in GitRefs
  <1>1. view \in [Known -> GitRefs] /\ ops \in SUBSET Known
    BY DEF TypeOK, WrittenOf
  <1> QED BY <1>1, MergedSolves, SolutionTyped

\* A step that writes an operation, at most, leaves the merged views alone.
LEMMA MergedKept ==
    ASSUME Ordered(anc), Ordered(anc'),
           Adds(anc, view, anc', view'), NEW ops \in SUBSET WrittenOf(anc), ops # {}
    PROVE  MergedRefs'[ops] = MergedRefs[ops]
  <1>1. Merges(MergedRefs, anc, view)
    BY MergedSolves
  <1>2. Merges(MergedRefs', anc', view')
    BY MergedSolvesNext
  <1>3. \A s \in SUBSET WrittenOf(anc) : s # {} => MergedRefs'[s] = MergedRefs[s]
    BY <1>1, <1>2, SolutionKept
  <1> QED BY <1>3

LEMMA SingleMerged ==
    ASSUME Ordered(anc'), NEW o \in Known
    PROVE  MergedRefs'[{o}] = view'[o]
  <1>1. MergedRefs'[{o}] = Folding(anc', view', MergedRefs', {o})
    BY MergedSolvesNext, SolutionFacts
  <1>2. Last({o}) = o
    BY LastFacts
  <1> QED BY <1>1, <1>2 DEF Folding

\* The heads there will be are written, and there are some.
LEMMA HeadsAfterFacts ==
    ASSUME TypeOK, OpsSound
    PROVE  /\ HeadsAfter(apply) \in SUBSET WrittenOf(anc) /\ HeadsAfter(apply) # {}
           /\ heads \in SUBSET WrittenOf(anc) /\ heads # {}
  <1>1. /\ heads \in SUBSET WrittenOf(anc) /\ heads # {} /\ apply.wants \in SUBSET WrittenOf(anc)
    BY DEF TypeOK, OpsSound
  <1>2. HeadsAfter(apply) \in SUBSET WrittenOf(anc)
    BY <1>1 DEF HeadsAfter
  <1>3. CASE apply.wants = {}
    BY <1>1, <1>2, <1>3 DEF HeadsAfter
  <1>4. CASE apply.wants # {}
    BY <1>1, <1>2, <1>4 DEF HeadsAfter
  <1> QED BY <1>1, <1>3, <1>4, <1>2

-----------------------------------------------------------------------------
\* Writing an operation.

LEMMA NextOpFacts ==
    ASSUME Unwritten # {}
    PROVE  /\ NextOp \in Op /\ NextOp \in Known /\ anc[NextOp] = {}
           /\ \A o \in Op : anc[o] = {} => NextOp <= o
  <1>1. Unwritten \in SUBSET Nat
    BY MirrorAssumption DEF Unwritten
  <1>2. \E o \in Unwritten : \A p \in Unwritten : o <= p
    BY <1>1, LeastExists
  <1>3. NextOp \in Unwritten /\ \A p \in Unwritten : NextOp <= p
    BY <1>2 DEF NextOp
  <1> QED BY <1>3 DEF Unwritten, Known

LEMMA WrittenFacts ==
    ASSUME TypeOK, Ordered(anc), Unwritten # {},
           NEW base \in SUBSET WrittenOf(anc), base # {},
           NEW refs \in GitRefs, Written(NextOp, base, refs)
    PROVE  /\ anc' \in [Known -> SUBSET Known] /\ view' \in [Known -> GitRefs]
           /\ Ordered(anc')
           /\ NextOp \in Op /\ NextOp \in Known /\ NextOp \notin WrittenOf(anc)
           /\ view'[NextOp] = refs
           /\ Adds(anc, view, anc', view')
           /\ WrittenOf(anc') = WrittenOf(anc) \cup {NextOp}
  <1>1. PICK n \in Op : n = NextOp
    BY NextOpFacts
  <1>2. n \in Known /\ anc[n] = {} /\ \A o \in Op : anc[o] = {} => n <= o
    BY <1>1, NextOpFacts
  <1> DEFINE all == {n} \cup AncestorsOf(base)
  <1>3. anc' = [anc EXCEPT ![n] = all] /\ view' = [view EXCEPT ![n] = refs]
    BY <1>1 DEF Written
  <1>4. anc \in [Known -> SUBSET Known] /\ view \in [Known -> GitRefs]
    BY DEF TypeOK
  <1>5. \A a \in AncestorsOf(base) : \E o \in base : a \in anc[o]
    BY DEF AncestorsOf
  <1>6. \A o \in base : o \in Known /\ anc[o] # {} /\ Root \in anc[o] /\ o < n
    <2> SUFFICES ASSUME NEW o \in base PROVE o \in Known /\ anc[o] # {} /\ Root \in anc[o] /\ o < n
      OBVIOUS
    <2>1. o \in Known /\ anc[o] # {}
      BY DEF WrittenOf
    <2> QED BY <2>1, <1>2 DEF Ordered, WrittenOf
  <1>7. \A o \in Known : o \in Nat
    BY KnownFacts
  <1>8. \A a \in AncestorsOf(base) : a \in Known /\ a < n /\ anc[a] # {}
    <2> SUFFICES ASSUME NEW a \in AncestorsOf(base) PROVE a \in Known /\ a < n /\ anc[a] # {}
      OBVIOUS
    <2>1. PICK o \in base : a \in anc[o]
      BY <1>5
    <2>2. o \in Known /\ o < n /\ a \in Known /\ a <= o /\ anc[a] # {}
      BY <1>4, <1>6, <2>1 DEF Ordered
    <2> QED BY <1>2, <1>7, <2>2
  <1>9. Root \in AncestorsOf(base)
    <2>1. PICK o \in base : Root \in anc[o]
      BY <1>6
    <2> QED BY <2>1 DEF AncestorsOf
  <1>10. all \in SUBSET Known /\ n \in all /\ Root \in all /\ all # {}
    BY <1>2, <1>8, <1>9
  <1>11. \A a \in all : a <= n /\ (a = n \/ anc[a] # {})
    BY <1>2, <1>7, <1>8
  <1> HIDE DEF all
  <1>12. anc' \in [Known -> SUBSET Known] /\ view' \in [Known -> GitRefs]
    BY <1>3, <1>4, <1>10
  <1>13. /\ anc'[n] = all /\ view'[n] = refs
         /\ \A o \in Known : o # n => anc'[o] = anc[o] /\ view'[o] = view[o]
    BY <1>2, <1>3, <1>4
  <1>14. WrittenOf(anc') = WrittenOf(anc) \cup {n}
    BY <1>2, <1>10, <1>13 DEF WrittenOf
  <1>15. \A o \in WrittenOf(anc) : o \in Known /\ o # n
    BY <1>2 DEF WrittenOf
  <1>16. Ordered(anc')
    <2>1. \A o \in WrittenOf(anc') : Root \in anc'[o] /\ o \in anc'[o]
      BY <1>10, <1>13, <1>14, <1>15 DEF Ordered
    <2>2. \A o \in Known : anc[o] # {} => anc'[o] # {}
      BY <1>10, <1>13
    <2>3. ASSUME NEW o \in Known, NEW a \in anc'[o] PROVE a <= o /\ anc'[a] # {}
      <3>1. CASE o = n
        <4>1. a \in all
          BY <1>13, <3>1
        <4>2. a \in Known /\ a <= n /\ (a = n \/ anc[a] # {})
          BY <1>10, <1>11, <4>1
        <4> QED BY <1>10, <1>13, <2>2, <3>1, <4>2
      <3>2. CASE o # n
        <4>1. a \in anc[o]
          BY <1>13, <3>2
        <4>2. a \in Known /\ a <= o /\ anc[a] # {}
          BY <1>4, <4>1 DEF Ordered
        <4> QED BY <2>2, <4>2
      <3> QED BY <3>1, <3>2
    <2>4. ASSUME NEW o \in Known, NEW p \in Known, anc'[o] # {}, anc'[p] = {} PROVE o < p
      <3>1. p # n /\ anc[p] = {}
        BY <1>10, <1>13, <2>4
      <3>2. p # Root
        <4>1. anc[Root] # {}
          BY <1>8, <1>9
        <4> QED BY <3>1, <4>1
      <3>3. p \in Op /\ n <= p
        BY <1>2, <3>1, <3>2 DEF Known
      <3>4. CASE o = n
        BY <1>2, <1>7, <3>1, <3>3, <3>4
      <3>5. CASE o # n
        <4>1. anc[o] # {}
          BY <1>13, <2>4, <3>5
        <4> QED BY <3>1, <4>1 DEF Ordered
      <3> QED BY <3>4, <3>5
    <2> QED BY <1>12, <2>1, <2>3, <2>4 DEF Ordered
  <1>17. Adds(anc, view, anc', view')
    BY <1>13, <1>15 DEF Adds
  <1>18. n \notin WrittenOf(anc)
    BY <1>15
  <1> QED BY <1>1, <1>2, <1>12, <1>13, <1>14, <1>16, <1>17, <1>18

-----------------------------------------------------------------------------
\* The actions.

LEMMA Types ==
    ASSUME TypeOK
    PROVE  /\ anc \in [Known -> SUBSET Known] /\ view \in [Known -> GitRefs]
           /\ git \in [Ref -> Stored] /\ git \in GitRefs
           /\ head.ref \in Ref \cup {Detached} /\ head.commit \in Stored
           /\ apply \in Applies
           /\ apply.phase \in {"idle", "heal", "staged", "merged", "swap"}
           /\ apply.wants \in SUBSET Op /\ apply.localHeads \in SUBSET Known
           /\ apply.before \in GitRefs /\ apply.after \in GitRefs
           /\ apply.todo \in SUBSET Ref
           /\ apply.owns \in BOOLEAN /\ apply.raced \in BOOLEAN
           /\ worktree \in BOOLEAN /\ raced \in BOOLEAN
           /\ touched \in SUBSET Ref /\ skipped \in SUBSET Ref
           /\ scenario \in Scenario
  <1>1. apply \in Applies /\ git \in [Ref -> Stored]
    BY DEF TypeOK
  <1>2. git \in GitRefs
    BY <1>1 DEF GitRefs
  <1>3. /\ apply.phase \in {"idle", "heal", "staged", "merged", "swap"}
        /\ apply.wants \in SUBSET Op /\ apply.localHeads \in SUBSET Known
        /\ apply.before \in GitRefs /\ apply.after \in GitRefs
        /\ apply.todo \in SUBSET Ref
        /\ apply.owns \in BOOLEAN /\ apply.raced \in BOOLEAN
    BY <1>1 DEF Applies
  <1> QED BY <1>1, <1>2, <1>3 DEF TypeOK

LEMMA ConflictFacts == Conflict \notin Stored /\ Absent \in Stored
  BY MirrorAssumption DEF Conflict, Stored, Absent

LEMMA NoApplyFacts ==
    /\ NoApply \in Applies /\ NoApply.phase = "idle"
    /\ NoApply.wants = {} /\ NoApply.localHeads = {} /\ NoApply.todo = {}
    /\ NoApply.raced = FALSE
  <1>1. NoRefs \in GitRefs
    BY ConflictFacts DEF NoRefs, GitRefs
  <1> QED BY <1>1 DEF NoApply, Applies

LEMMA FaultFacts ==
    ASSUME TypeOK, Fault
    PROVE  scenario' \in Scenario
  <1>1. scenario \in Scenario /\ scenario.faults > 0
    BY Types DEF Fault
  <1>2. scenario.faults - 1 \in Nat
    BY <1>1 DEF Scenario
  <1>3. scenario' = [scenario EXCEPT !.faults = scenario.faults - 1]
    BY DEF Fault
  <1> QED BY <1>1, <1>2, <1>3 DEF Scenario

\* A step that writes no operation.
LEMMA NothingWritten ==
    ASSUME UNCHANGED <<anc, view>>
    PROVE  /\ MergedRefs' = MergedRefs /\ WrittenOf(anc') = WrittenOf(anc)
           /\ Ordered(anc) => Ordered(anc')
  <1>1. anc' = anc /\ view' = view
    OBVIOUS
  <1>2. MergedRefs' = MergedRefs
    BY <1>1 DEF MergedRefs, ClosestCommonAncestors, AncestorsOf
  <1> QED BY <1>1, <1>2

\* A step that writes no operation and leaves the heads and what is fetched
\* alone.
LEMMA HeadsAfterSame ==
    ASSUME UNCHANGED <<anc, view, heads>>,
           apply'.wants = apply.wants, apply'.localHeads = apply.localHeads
    PROVE  /\ HeadsAfter(apply)' = HeadsAfter(apply)
           /\ MergedRefs'[HeadsAfter(apply)'] = MergedRefs[HeadsAfter(apply)]
           /\ MergedRefs'[heads'] = MergedRefs[heads]
  <1>1. HeadsAfter(apply)' = HeadsAfter(apply)
    BY DEF HeadsAfter, SupersededBy
  <1>2. MergedRefs' = MergedRefs
    BY NothingWritten
  <1> QED BY <1>1, <1>2

\* A step that changes none of what the invariant is about.
LEMMA AllKept ==
    ASSUME OpsSound, ApplySound, ViewsSound, Excused \/ LineSound,
           UNCHANGED <<anc, view, heads, theirs, git, apply, touched, skipped, raced>>
    PROVE  OpsSound' /\ ApplySound' /\ ViewsSound' /\ (Excused \/ LineSound)'
  <1>1. /\ MergedRefs' = MergedRefs /\ WrittenOf(anc') = WrittenOf(anc) /\ Ordered(anc')
    BY NothingWritten DEF OpsSound
  <1>2. OpsSound' /\ ApplySound'
    BY <1>1 DEF OpsSound, ApplySound
  <1>3. HeadsAfter(apply)' = HeadsAfter(apply)
    BY HeadsAfterSame
  <1>4. ViewsSound'
    BY <1>1, <1>3 DEF ViewsSound, Publishing
  <1>5. LineSound => LineSound'
    BY <1>1 DEF LineSound, Publishing, InLine, Mirrored
  <1> QED BY <1>2, <1>4, <1>5 DEF Excused

LEMMA StageIInv ==
    ASSUME IInv, Stage
    PROVE  IInv'
  <1> DEFINE wants == theirs \ AncestorsOf(heads)
  <1>1. /\ apply.phase = "idle"
        /\ apply' = [NoApply EXCEPT !.phase = "staged", !.wants = wants, !.localHeads = heads]
        /\ UNCHANGED <<anc, view, heads, theirs, git, head, worktree, touched, skipped, raced,
                       scenario>>
    BY DEF Stage
  <1>2. TypeOK /\ OpsSound /\ ApplySound /\ (Excused \/ LineSound)
    BY DEF IInv
  <1>3. wants \in SUBSET Op /\ heads \in SUBSET Known
    BY <1>2 DEF TypeOK
  <1>4. wants \cap heads = {}
    <2> SUFFICES ASSUME NEW o \in heads PROVE o \in AncestorsOf(heads)
      OBVIOUS
    <2>1. o \in anc[o]
      BY <1>2 DEF OpsSound, Ordered
    <2> QED BY <2>1 DEF AncestorsOf
  <1> HIDE DEF wants
  <1>5. apply' \in Applies
    BY <1>1, <1>3, NoApplyFacts DEF Applies
  <1>6. /\ apply'.phase = "staged" /\ apply'.wants = wants /\ apply'.localHeads = heads
        /\ apply'.raced = FALSE
    BY <1>1, NoApplyFacts DEF Applies
  <1>7. TypeOK'
    BY <1>1, <1>2, <1>5 DEF TypeOK
  <1>8. /\ MergedRefs' = MergedRefs /\ WrittenOf(anc') = WrittenOf(anc) /\ Ordered(anc')
    BY <1>1, <1>2, NothingWritten DEF OpsSound
  <1>9. OpsSound'
    BY <1>1, <1>2, <1>4, <1>6, <1>8 DEF OpsSound, wants
  <1>10. ApplySound' /\ ViewsSound'
    BY <1>6 DEF ApplySound, ViewsSound, Publishing
  <1>11. ASSUME ~Excused' PROVE LineSound'
    <2>1. ~Excused
      BY <1>1, <1>2, <1>11 DEF Excused, ApplySound
    <2>2. InLine(MergedRefs[heads])
      BY <1>1, <1>2, <2>1 DEF LineSound, Publishing
    <2>3. InLine(MergedRefs[heads])'
      BY <2>2, <1>1, <1>8 DEF InLine, Mirrored
    <2> QED BY <2>3, <1>6 DEF LineSound
  <1> QED BY <1>7, <1>9, <1>10, <1>11 DEF IInv

LEMMA MergeViewsIInv ==
    ASSUME IInv, MergeViews
    PROVE  IInv'
  <1>1. /\ apply.phase \in {"staged", "heal"}
        /\ apply' = [apply EXCEPT !.phase = "merged", !.raced = FALSE,
                                  !.after = MergedRefs[HeadsAfter(apply)],
                                  !.before = MergedRefs[heads]]
        /\ touched' = touched \cup {r \in Ref : MergedRefs[heads][r] = Conflict}
        /\ UNCHANGED <<anc, view, heads, theirs, git, head, worktree, skipped, raced, scenario>>
    BY DEF MergeViews
  <1>2. TypeOK /\ OpsSound /\ ApplySound /\ (Excused \/ LineSound)
    BY DEF IInv
  <1>3. MergedRefs[heads] \in GitRefs /\ MergedRefs[HeadsAfter(apply)] \in GitRefs
    BY <1>2, HeadsAfterFacts, MergedTyped DEF OpsSound
  <1>4. PICK b, a : b = MergedRefs[heads] /\ a = MergedRefs[HeadsAfter(apply)]
    OBVIOUS
  <1>5. apply \in Applies
    BY <1>2 DEF TypeOK
  <1>6. /\ apply' \in Applies /\ apply'.phase = "merged" /\ apply'.after = a
        /\ apply'.before = b /\ apply'.wants = apply.wants
        /\ apply'.localHeads = apply.localHeads /\ apply'.raced = FALSE
    BY <1>1, <1>3, <1>4, <1>5 DEF Applies
  <1>7. TypeOK'
    <2>1. touched' \subseteq Ref
      BY <1>1, <1>2 DEF TypeOK
    <2> QED BY <1>1, <1>2, <1>6, <2>1 DEF TypeOK
  <1>8. WrittenOf(anc') = WrittenOf(anc) /\ Ordered(anc')
    BY <1>1, <1>2, NothingWritten DEF OpsSound
  <1>9. OpsSound'
    BY <1>1, <1>2, <1>6, <1>8 DEF OpsSound
  <1>10. ApplySound'
    BY <1>6 DEF ApplySound
  <1>11. ViewsSound'
    <2>1. /\ MergedRefs'[HeadsAfter(apply)'] = a
          /\ MergedRefs'[heads'] = b
      BY <1>1, <1>4, <1>6, HeadsAfterSame
    <2> QED BY <1>6, <2>1 DEF ViewsSound
  <1>12. ASSUME ~Excused' PROVE LineSound'
    <2>1. ASSUME apply.wants # {}, NEW r \in Mirrored' PROVE b[r] = git[r]
      <3>1. apply.phase = "staged" /\ ~Excused
        BY <1>1, <1>2, <1>12, <2>1 DEF ApplySound, Excused
      <3>2. r \in Mirrored /\ b[r] # Conflict
        BY <1>1, <1>4, <2>1 DEF Mirrored
      <3>3. InLine(b)
        BY <1>2, <1>4, <3>1 DEF LineSound, Publishing
      <3> QED BY <3>2, <3>3 DEF InLine
    <2> QED BY <1>1, <1>6, <2>1 DEF LineSound, Publishing
  <1> QED BY <1>7, <1>9, <1>10, <1>11, <1>12 DEF IInv

LEMMA StoredRefsIInv ==
    ASSUME IInv, StoredRefs
    PROVE  IInv'
  <1>1. PICK owns \in BOOLEAN : owns = (Owned \/ apply.wants = {})
    OBVIOUS
  <1>2. PICK before : before = IF owns THEN git ELSE apply.before
    OBVIOUS
  <1>3. PICK todo : todo = Differing(before, apply.after)
    OBVIOUS
  <1>4. /\ apply.phase = "merged"
        /\ apply' = [apply EXCEPT !.phase = "swap", !.owns = owns, !.before = before,
                                  !.todo = todo]
        /\ touched' = IF owns THEN {} ELSE touched
        /\ skipped' = IF owns THEN {} ELSE skipped
        /\ raced' = (raced /\ ~owns)
        /\ UNCHANGED <<anc, view, heads, theirs, git, head, worktree, scenario>>
    BY <1>1, <1>2, <1>3 DEF StoredRefs, Before
  <1>5. TypeOK /\ OpsSound /\ ApplySound /\ ViewsSound /\ (Excused \/ LineSound)
    BY DEF IInv
  <1>6. before \in GitRefs /\ todo \in SUBSET Ref
    BY <1>2, <1>3, <1>5, Types DEF Differing
  <1>7. \A r \in Ref : r \in todo <=>
           before[r] # apply.after[r] /\ before[r] # Conflict /\ apply.after[r] # Conflict
    BY <1>3 DEF Differing
  <1>8. apply \in Applies
    BY <1>5 DEF TypeOK
  <1>9. /\ apply' \in Applies /\ apply'.phase = "swap" /\ apply'.after = apply.after
        /\ apply'.before = before /\ apply'.wants = apply.wants
        /\ apply'.localHeads = apply.localHeads /\ apply'.todo = todo
        /\ apply'.owns = owns /\ apply'.raced = apply.raced
    BY <1>4, <1>6, <1>8 DEF Applies
  <1>10. TypeOK'
    <2>1. touched' \subseteq Ref /\ skipped' \subseteq Ref /\ raced' \in BOOLEAN
      BY <1>4, <1>5 DEF TypeOK
    <2> QED BY <1>4, <1>5, <1>9, <2>1 DEF TypeOK
  <1>11. WrittenOf(anc') = WrittenOf(anc) /\ Ordered(anc')
    BY <1>4, <1>5, NothingWritten DEF OpsSound
  <1>12. OpsSound'
    BY <1>4, <1>5, <1>9, <1>11 DEF OpsSound
  <1>13. ApplySound'
    BY <1>5, <1>6, <1>7, <1>9 DEF ApplySound
  <1>14. ViewsSound'
    <2>1. /\ MergedRefs'[HeadsAfter(apply)'] = MergedRefs[HeadsAfter(apply)]
          /\ MergedRefs'[heads'] = MergedRefs[heads]
      BY <1>4, <1>9, HeadsAfterSame
    <2> QED BY <1>2, <1>4, <1>5, <1>9, <2>1 DEF ViewsSound, Publishing
  <1>15. ASSUME ~Excused' PROVE LineSound'
    <2>1. ASSUME NEW r \in Mirrored' PROVE before[r] = git[r]
      <3>1. CASE owns
        BY <1>2, <3>1
      <3>2. CASE ~owns
        <4>1. ~Excused /\ apply.wants # {} /\ r \in Mirrored
          BY <1>1, <1>4, <1>9, <1>15, <2>1, <3>2 DEF Excused, Mirrored
        <4> QED BY <1>2, <1>4, <1>5, <3>2, <4>1 DEF LineSound
      <3> QED BY <3>1, <3>2
    <2>2. ASSUME NEW r \in Mirrored', r \notin todo
          PROVE  apply.after[r] \in {git[r], Conflict}
      <3>1. r \in Ref /\ git[r] # Conflict
        BY <1>5, Types, ConflictFacts DEF Mirrored
      <3> QED BY <1>7, <2>1, <2>2, <3>1
    <2> QED BY <1>4, <1>9, <2>1, <2>2 DEF LineSound, Publishing
  <1> QED BY <1>10, <1>12, <1>13, <1>14, <1>15 DEF IInv

LEMMA FirstTodo ==
    ASSUME TypeOK, apply.todo # {}
    PROVE  (CHOOSE r \in apply.todo : \A q \in apply.todo : r <= q) \in apply.todo
  <1>1. apply.todo \in SUBSET Nat
    BY Types, MirrorAssumption
  <1>2. \E r \in apply.todo : \A q \in apply.todo : r <= q
    BY <1>1, LeastExists
  <1> QED BY <1>2

\* A ref that is done is where it should be, or was moved by the user, or
\* its swap failed.
LEMMA SwapIInv ==
    ASSUME IInv, Swap
    PROVE  IInv'
  <1>1. PICK r : r = CHOOSE s \in apply.todo : \A q \in apply.todo : s <= q
    OBVIOUS
  <1>2. /\ apply.phase = "swap" /\ apply.todo # {}
        /\ \/ /\ Matches(r)
              /\ git' = [git EXCEPT ![r] = apply.after[r]]
              /\ head' = Unpinned(r)
              /\ UNCHANGED <<skipped, scenario>>
           \/ ~Matches(r) /\ UNCHANGED <<git, head, skipped, scenario>>
           \/ Fault /\ skipped' = skipped \cup {r} /\ UNCHANGED <<git, head>>
        /\ apply' = [apply EXCEPT !.todo = @ \ {r}]
        /\ UNCHANGED <<anc, view, heads, theirs, worktree, touched, raced>>
    BY <1>1 DEF Swap
  <1>3. TypeOK /\ OpsSound /\ ApplySound /\ ViewsSound /\ (Excused \/ LineSound)
    BY DEF IInv
  <1>4. r \in apply.todo /\ r \in Ref
    BY <1>1, <1>2, <1>3, FirstTodo, Types
  <1>5. apply.after[r] \in Stored
    BY <1>2, <1>3, <1>4, Types DEF ApplySound, GitRefs
  <1>6. git' \in [Ref -> Stored]
    BY <1>2, <1>3, <1>5, Types
  <1>7. \A q \in Ref : q # r => git'[q] = git[q]
    BY <1>2, <1>3, Types
  <1>8. /\ skipped \subseteq skipped' /\ skipped' \subseteq Ref
        /\ r \notin skipped' /\ git[r] = apply.before[r] => git'[r] = apply.after[r]
    BY <1>2, <1>3, <1>4, Types DEF Matches
  <1>9. scenario' \in Scenario
    BY <1>2, <1>3, FaultFacts, Types
  <1>10. head' \in [ref : Ref \cup {Detached}, commit : Stored]
    <2>1. head \in [ref : Ref \cup {Detached}, commit : Stored]
      BY <1>3 DEF TypeOK
    <2>2. Unpinned(r) \in [ref : Ref \cup {Detached}, commit : Stored]
      <3>1. git[r] \in Stored
        BY <1>3, <1>4, Types
      <3> QED BY <2>1, <3>1 DEF Unpinned
    <2> QED BY <1>2, <2>1, <2>2
  <1>11. apply \in Applies
    BY <1>3 DEF TypeOK
  <1>12. /\ apply' \in Applies /\ apply'.phase = "swap" /\ apply'.after = apply.after
         /\ apply'.before = apply.before /\ apply'.wants = apply.wants
         /\ apply'.localHeads = apply.localHeads /\ apply'.todo = apply.todo \ {r}
         /\ apply'.owns = apply.owns /\ apply'.raced = apply.raced
    BY <1>2, <1>11 DEF Applies
  <1>13. TypeOK'
    BY <1>2, <1>3, <1>6, <1>8, <1>9, <1>10, <1>12 DEF TypeOK
  <1>14. WrittenOf(anc') = WrittenOf(anc) /\ Ordered(anc')
    BY <1>2, <1>3, NothingWritten DEF OpsSound
  <1>15. OpsSound'
    BY <1>2, <1>3, <1>12, <1>14 DEF OpsSound
  <1>16. ApplySound'
    BY <1>2, <1>3, <1>12 DEF ApplySound
  <1>17. ViewsSound'
    <2>1. /\ MergedRefs'[HeadsAfter(apply)'] = MergedRefs[HeadsAfter(apply)]
          /\ MergedRefs'[heads'] = MergedRefs[heads]
      BY <1>2, <1>12, HeadsAfterSame
    <2> QED BY <1>2, <1>3, <1>12, <2>1 DEF ViewsSound, Publishing
  <1>18. ASSUME ~Excused' PROVE LineSound'
    <2>1. LineSound
      BY <1>2, <1>3, <1>12, <1>18 DEF Excused
    <2>2. \A q \in Mirrored :
             IF q \in apply.todo THEN apply.before[q] = git[q]
             ELSE apply.after[q] \in {git[q], Conflict}
      BY <1>2, <2>1 DEF LineSound
    <2>3. ASSUME NEW q \in Mirrored'
          PROVE  IF q \in apply.todo \ {r} THEN apply.before[q] = git'[q]
                 ELSE apply.after[q] \in {git'[q], Conflict}
      <3>1. q \in Mirrored /\ q \in Ref /\ q \notin skipped'
        BY <1>2, <1>8, <2>3 DEF Mirrored
      <3>2. CASE q = r
        BY <1>4, <1>8, <2>2, <3>1, <3>2
      <3>3. CASE q # r
        BY <1>7, <2>2, <3>1, <3>3
      <3> QED BY <3>2, <3>3
    <2> QED BY <1>12, <2>3 DEF LineSound, Publishing
  <1> QED BY <1>13, <1>15, <1>16, <1>17, <1>18 DEF IInv

\* Publishing a want leaves the heads there will be as they are.
LEMMA PublishHeadIInv ==
    ASSUME IInv, PublishHead
    PROVE  IInv'
  <1>1. PICK want : want = CHOOSE w \in apply.wants : \A v \in apply.wants : w <= v
    OBVIOUS
  <1>2. /\ apply.phase = "swap" /\ apply.todo = {} /\ apply.wants # {}
        /\ heads' = (heads \ SupersededBy(want, apply.localHeads)) \cup {want}
        /\ apply' = [apply EXCEPT !.wants = @ \ {want}]
        /\ UNCHANGED <<anc, view, theirs, git, head, worktree, touched, skipped, raced,
                       scenario>>
    BY <1>1 DEF PublishHead
  <1>3. TypeOK /\ OpsSound /\ ApplySound /\ ViewsSound /\ (Excused \/ LineSound)
    BY DEF IInv
  <1>4. want \in apply.wants
    <2>1. apply.wants \in SUBSET Nat
      BY <1>3, Types, MirrorAssumption
    <2>2. \E w \in apply.wants : \A v \in apply.wants : w <= v
      BY <1>2, <2>1, LeastExists
    <2> QED BY <1>1, <2>2
  <1>5. apply \in Applies
    BY <1>3 DEF TypeOK
  <1>6. /\ apply' \in Applies /\ apply'.phase = "swap" /\ apply'.after = apply.after
        /\ apply'.before = apply.before /\ apply'.wants = apply.wants \ {want}
        /\ apply'.localHeads = apply.localHeads /\ apply'.todo = {}
        /\ apply'.raced = apply.raced
    BY <1>2, <1>5 DEF Applies
  <1>7. want \in Known /\ want \in WrittenOf(anc) /\ want \notin apply.localHeads
    BY <1>3, <1>4, Types DEF OpsSound, Known
  <1>8. TypeOK'
    <2>1. heads' \subseteq Known /\ heads' # {}
      BY <1>2, <1>3, <1>7 DEF TypeOK
    <2> QED BY <1>2, <1>3, <1>6, <2>1 DEF TypeOK
  <1>9. /\ MergedRefs' = MergedRefs /\ WrittenOf(anc') = WrittenOf(anc) /\ Ordered(anc')
    BY <1>2, <1>3, NothingWritten DEF OpsSound
  <1>10. OpsSound'
    <2>1. heads' \subseteq WrittenOf(anc)
      BY <1>2, <1>3, <1>7 DEF OpsSound
    <2> QED BY <1>2, <1>3, <1>6, <1>9, <2>1 DEF OpsSound
  <1>11. ApplySound'
    BY <1>6 DEF ApplySound
  <1>12. HeadsAfter(apply)' = HeadsAfter(apply)
    <2> DEFINE Gone(w) == SupersededBy(w, apply.localHeads)
    <2>1. want \notin UNION {Gone(w) : w \in apply.wants}
      BY <1>7 DEF SupersededBy
    <2>2. \A w : Gone(w)' = Gone(w)
      BY <1>2, <1>6 DEF SupersededBy
    <2> HIDE DEF Gone
    <2>3. HeadsAfter(apply) = (heads \ UNION {Gone(w) : w \in apply.wants}) \cup apply.wants
      BY DEF HeadsAfter, Gone
    <2>4. HeadsAfter(apply)'
             = (heads' \ UNION {Gone(w) : w \in apply.wants \ {want}}) \cup (apply.wants \ {want})
      BY <1>2, <1>6 DEF HeadsAfter, Gone, SupersededBy
    <2>5. heads' = (heads \ Gone(want)) \cup {want}
      BY <1>2 DEF Gone
    <2>6. UNION {Gone(w) : w \in apply.wants}
             = Gone(want) \cup UNION {Gone(w) : w \in apply.wants \ {want}}
      BY <1>4
    <2> QED BY <1>4, <2>1, <2>3, <2>4, <2>5, <2>6
  <1>13. ViewsSound'
    BY <1>2, <1>3, <1>6, <1>9, <1>12 DEF ViewsSound, Publishing
  <1>14. ASSUME ~Excused' PROVE LineSound'
    <2>1. LineSound /\ Mirrored' = Mirrored
      BY <1>2, <1>3, <1>6, <1>14 DEF Excused, Mirrored
    <2>2. \A r \in Mirrored : apply.after[r] \in {git[r], Conflict}
      BY <1>2, <2>1 DEF LineSound
    <2> QED BY <1>2, <1>6, <2>1, <2>2 DEF LineSound, Publishing
  <1> QED BY <1>8, <1>10, <1>11, <1>13, <1>14 DEF IInv

\* The fetch, or the heal, ends one way or another.
LEMMA ApplyEnds ==
    ASSUME IInv, apply' \in Applies, apply'.wants = {}, apply'.phase \in {"idle", "heal"},
           UNCHANGED <<anc, view, heads, theirs, git, head, worktree, touched, skipped>>,
           scenario' \in Scenario, raced' \in BOOLEAN,
           apply'.phase = "idle" => ~apply'.raced,
           ~Excused' => InLine(MergedRefs[heads])
    PROVE  IInv'
  <1>1. TypeOK /\ OpsSound
    BY DEF IInv
  <1>2. TypeOK'
    BY <1>1 DEF TypeOK
  <1>3. /\ MergedRefs' = MergedRefs /\ WrittenOf(anc') = WrittenOf(anc) /\ Ordered(anc')
    BY <1>1, NothingWritten DEF OpsSound
  <1>4. OpsSound'
    BY <1>1, <1>3 DEF OpsSound
  <1>5. ApplySound' /\ ViewsSound'
    BY DEF ApplySound, ViewsSound, Publishing
  <1>6. ASSUME ~Excused' PROVE LineSound'
    <2>1. InLine(MergedRefs[heads])'
      BY <1>3, <1>6 DEF InLine, Mirrored
    <2> QED BY <2>1 DEF LineSound
  <1> QED BY <1>2, <1>4, <1>5, <1>6 DEF IInv

LEMMA FinishIInv ==
    ASSUME IInv, Finish
    PROVE  IInv'
  <1>1. /\ apply.phase = "swap" /\ apply.todo = {} /\ apply.wants = {}
        /\ apply' = NoApply
        /\ raced' = (raced \/ apply.raced)
        /\ UNCHANGED <<anc, view, heads, theirs, git, head, worktree, touched, skipped, scenario>>
    BY DEF Finish
  <1>2. TypeOK /\ ViewsSound /\ (Excused \/ LineSound)
    BY DEF IInv
  <1>3. ASSUME ~Excused' PROVE InLine(MergedRefs[heads])
    <2>1. ~Excused
      BY <1>1, <1>3 DEF Excused
    <2>2. HeadsAfter(apply) = heads
      BY <1>1 DEF HeadsAfter
    <2>3. apply.after = MergedRefs[heads]
      BY <1>1, <1>2, <2>1, <2>2 DEF ViewsSound, Publishing, Excused
    <2>4. \A r \in Mirrored : apply.after[r] \in {git[r], Conflict}
      BY <1>1, <1>2, <2>1 DEF LineSound
    <2> QED BY <2>3, <2>4 DEF InLine
  <1>4. scenario' \in Scenario /\ raced' \in BOOLEAN
    BY <1>1, <1>2, Types
  <1> QED BY <1>1, <1>3, <1>4, NoApplyFacts, ApplyEnds

\* What stops before anything is swapped leaves the refs in line.
LEMMA StopFacts ==
    ASSUME IInv
    PROVE  RacedIfStopped \in BOOLEAN /\ (RacedIfStopped \/ InLine(MergedRefs[heads]))
  <1>1. TypeOK /\ (Excused \/ LineSound)
    BY DEF IInv
  <1>2. RacedIfStopped \in BOOLEAN
    BY <1>1, Types DEF RacedIfStopped, Publishing
  <1>3. ASSUME ~RacedIfStopped PROVE InLine(MergedRefs[heads])
    BY <1>1, <1>3 DEF RacedIfStopped, Excused, LineSound
  <1> QED BY <1>2, <1>3

LEMMA PublishFailsIInv ==
    ASSUME IInv, PublishFails
    PROVE  IInv'
  <1>1. /\ Fault /\ apply' = NoApply /\ raced' = RacedIfStopped
        /\ UNCHANGED <<anc, view, heads, theirs, git, head, worktree, touched, skipped>>
    BY DEF PublishFails
  <1>2. scenario' \in Scenario /\ raced' \in BOOLEAN
    BY <1>1, FaultFacts, StopFacts DEF IInv
  <1>3. ~Excused' => InLine(MergedRefs[heads])
    BY <1>1, StopFacts DEF Excused
  <1> QED BY <1>1, <1>2, <1>3, NoApplyFacts, ApplyEnds

LEMMA HealSkipsIInv ==
    ASSUME IInv, HealSkips
    PROVE  IInv'
  <1>1. /\ apply' = NoApply /\ raced' = RacedIfStopped
        /\ UNCHANGED <<anc, view, heads, theirs, git, head, worktree, touched, skipped, scenario>>
    BY DEF HealSkips
  <1>2. scenario' \in Scenario /\ raced' \in BOOLEAN
    BY <1>1, StopFacts, Types DEF IInv
  <1>3. ~Excused' => InLine(MergedRefs[heads])
    BY <1>1, StopFacts DEF Excused
  <1> QED BY <1>1, <1>2, <1>3, NoApplyFacts, ApplyEnds

LEMMA CrashIInv ==
    ASSUME IInv, Crash
    PROVE  IInv'
  <1>1. /\ Fault /\ apply' = OnWatchStart
        /\ raced' = IF Owned THEN raced ELSE RacedIfStopped
        /\ UNCHANGED <<anc, view, heads, theirs, git, head, worktree, touched, skipped>>
    BY DEF Crash
  <1>2. RacedIfStopped \in BOOLEAN /\ raced \in BOOLEAN
    BY StopFacts, Types DEF IInv
  <1>3. scenario' \in Scenario /\ raced' \in BOOLEAN
    BY <1>1, <1>2, FaultFacts DEF IInv
  <1>4. CASE Owned
    <2>1. apply' = [NoApply EXCEPT !.phase = "heal", !.raced = RacedIfStopped]
      BY <1>1, <1>4 DEF OnWatchStart
    <2>2. /\ apply' \in Applies /\ apply'.phase = "heal" /\ apply'.wants = {}
          /\ apply'.raced = RacedIfStopped
      BY <1>2, <2>1, NoApplyFacts DEF Applies
    <2>3. ~Excused' => InLine(MergedRefs[heads])
      BY <2>2, StopFacts DEF Excused
    <2> QED BY <1>1, <1>3, <2>2, <2>3, ApplyEnds
  <1>5. CASE ~Owned
    <2>1. apply' = NoApply /\ raced' = RacedIfStopped
      BY <1>1, <1>5 DEF OnWatchStart
    <2>2. ~Excused' => InLine(MergedRefs[heads])
      BY <2>1, StopFacts DEF Excused
    <2> QED BY <1>1, <1>3, <2>1, <2>2, NoApplyFacts, ApplyEnds
  <1> QED BY <1>4, <1>5

LEMMA GitCommandIInv ==
    ASSUME IInv, NEW r \in Ref, NEW target \in Stored, GitCommand(r, target)
    PROVE  IInv'
  <1>1. /\ scenario.gits > 0
        /\ scenario' = [scenario EXCEPT !.gits = scenario.gits - 1]
        /\ git' = [git EXCEPT ![r] = target]
        /\ touched' = touched \cup {r}
        /\ UNCHANGED <<anc, view, heads, theirs, head, worktree, apply, skipped, raced>>
    BY DEF GitCommand
  <1>2. TypeOK /\ OpsSound /\ ApplySound /\ ViewsSound /\ (Excused \/ LineSound)
    BY DEF IInv
  <1>3. scenario' \in Scenario
    <2>1. scenario \in Scenario /\ scenario.gits - 1 \in Nat
      BY <1>1, <1>2, Types DEF Scenario
    <2> QED BY <1>1, <2>1 DEF Scenario
  <1>4. git' \in [Ref -> Stored] /\ \A q \in Ref : q # r => git'[q] = git[q]
    BY <1>1, <1>2, Types
  <1>5. TypeOK'
    BY <1>1, <1>2, <1>3, <1>4 DEF TypeOK
  <1>6. /\ MergedRefs' = MergedRefs /\ WrittenOf(anc') = WrittenOf(anc) /\ Ordered(anc')
    BY <1>1, <1>2, NothingWritten DEF OpsSound
  <1>7. OpsSound' /\ ApplySound'
    BY <1>1, <1>2, <1>6 DEF OpsSound, ApplySound
  <1>8. ViewsSound'
    <2>1. MergedRefs'[HeadsAfter(apply)'] = MergedRefs[HeadsAfter(apply)]
      BY <1>1, HeadsAfterSame
    <2> QED BY <1>1, <1>2, <1>6, <2>1 DEF ViewsSound, Publishing
  <1>9. LineSound => LineSound'
    <2> SUFFICES ASSUME LineSound PROVE LineSound'
      OBVIOUS
    <2>1. \A q \in Mirrored' : q \in Mirrored /\ git'[q] = git[q]
      BY <1>1, <1>4 DEF Mirrored
    <2>2. InLine(MergedRefs[heads]) => InLine(MergedRefs[heads])'
      BY <1>1, <1>6, <2>1 DEF InLine
    <2> QED BY <1>1, <1>6, <2>1, <2>2 DEF LineSound, Publishing
  <1> QED BY <1>1, <1>2, <1>5, <1>7, <1>8, <1>9 DEF IInv, Excused

LEMMA WorktreeChangesIInv ==
    ASSUME IInv, WorktreeChanges
    PROVE  IInv'
  <1>1. /\ scenario.worktrees > 0
        /\ scenario' = [scenario EXCEPT !.worktrees = scenario.worktrees - 1]
        /\ worktree' = ~worktree
        /\ UNCHANGED <<anc, view, heads, theirs, git, head, apply, touched, skipped, raced>>
    BY DEF WorktreeChanges
  <1>2. TypeOK /\ OpsSound /\ ApplySound /\ ViewsSound /\ (Excused \/ LineSound)
    BY DEF IInv
  <1>3. scenario' \in Scenario /\ worktree' \in BOOLEAN
    <2>1. scenario \in Scenario /\ scenario.worktrees - 1 \in Nat
      BY <1>1, <1>2, Types DEF Scenario
    <2> QED BY <1>1, <2>1 DEF Scenario
  <1>4. TypeOK'
    BY <1>1, <1>2, <1>3 DEF TypeOK
  <1> QED BY <1>1, <1>2, <1>4, AllKept DEF IInv

\* What a fetch wants and what there is were written before.
LEMMA HeadsAfterKept ==
    ASSUME TypeOK, OpsSound, OpsSound', Adds(anc, view, anc', view'),
           UNCHANGED <<heads, apply>>
    PROVE  /\ HeadsAfter(apply)' = HeadsAfter(apply)
           /\ MergedRefs'[HeadsAfter(apply)] = MergedRefs[HeadsAfter(apply)]
           /\ MergedRefs'[heads] = MergedRefs[heads]
  <1>1. \A w \in apply.wants : anc'[w] = anc[w]
    BY DEF OpsSound, Adds
  <1>2. \A w \in apply.wants :
           SupersededBy(w, apply.localHeads)' = SupersededBy(w, apply.localHeads)
    BY <1>1 DEF SupersededBy
  <1>3. HeadsAfter(apply)' = HeadsAfter(apply)
    BY <1>2 DEF HeadsAfter
  <1>4. Ordered(anc) /\ Ordered(anc')
    BY DEF OpsSound
  <1>5. \A ops \in SUBSET WrittenOf(anc) : ops # {} => MergedRefs'[ops] = MergedRefs[ops]
    BY <1>4, MergedKept
  <1> QED BY <1>3, <1>5, HeadsAfterFacts

LEMMA PeerWritesIInv ==
    ASSUME IInv, NEW r \in Ref, NEW target \in Stored, PeerWrites(r, target)
    PROVE  IInv'
  <1>1. /\ scenario.writes > 0 /\ Unwritten # {}
        /\ scenario' = [scenario EXCEPT !.writes = scenario.writes - 1]
        /\ UNCHANGED <<heads, git, head, worktree, apply, touched, skipped, raced>>
    BY DEF PeerWrites
  <1>2. PICK base \in {theirs, theirs \cup heads, {1}} :
           /\ Written(NextOp, base, [MergedRefs[base] EXCEPT ![r] = target])
           /\ theirs' = (theirs \ AncestorsOf(base)) \cup {NextOp}
    BY DEF PeerWrites
  <1>3. TypeOK /\ OpsSound /\ ApplySound /\ ViewsSound /\ (Excused \/ LineSound)
    BY DEF IInv
  <1>4. base \in SUBSET WrittenOf(anc) /\ base # {}
    BY <1>2, <1>3 DEF OpsSound
  <1>5. PICK refs : refs = [MergedRefs[base] EXCEPT ![r] = target]
    OBVIOUS
  <1>6. refs \in GitRefs
    <2>1. MergedRefs[base] \in GitRefs
      BY <1>3, <1>4, MergedTyped DEF OpsSound
    <2> QED BY <1>5, <2>1 DEF GitRefs
  <1>7. Ordered(anc)
    BY <1>3 DEF OpsSound
  <1>8. /\ anc' \in [Known -> SUBSET Known] /\ view' \in [Known -> GitRefs]
        /\ Ordered(anc')
        /\ NextOp \in Op
        /\ Adds(anc, view, anc', view')
        /\ WrittenOf(anc') = WrittenOf(anc) \cup {NextOp}
    BY <1>1, <1>2, <1>3, <1>4, <1>5, <1>6, <1>7, WrittenFacts
  <1>9. scenario' \in Scenario
    <2>1. scenario \in Scenario /\ scenario.writes - 1 \in Nat
      BY <1>1, <1>3, Types DEF Scenario
    <2> QED BY <1>1, <2>1 DEF Scenario
  <1>10. TypeOK'
    BY <1>1, <1>2, <1>3, <1>8, <1>9 DEF TypeOK
  <1>11. OpsSound'
    BY <1>1, <1>2, <1>3, <1>8 DEF OpsSound
  <1>12. ApplySound'
    BY <1>1, <1>3 DEF ApplySound
  <1>13. /\ HeadsAfter(apply)' = HeadsAfter(apply)
         /\ MergedRefs'[HeadsAfter(apply)] = MergedRefs[HeadsAfter(apply)]
         /\ MergedRefs'[heads] = MergedRefs[heads]
    BY <1>1, <1>3, <1>8, <1>11, HeadsAfterKept
  <1>14. ViewsSound'
    BY <1>1, <1>3, <1>13 DEF ViewsSound, Publishing
  <1>15. LineSound => LineSound'
    <2>1. InLine(MergedRefs[heads]) => InLine(MergedRefs[heads])'
      BY <1>1, <1>13 DEF InLine, Mirrored
    <2> QED BY <1>1, <2>1 DEF LineSound, Publishing, Mirrored
  <1> QED BY <1>1, <1>3, <1>10, <1>11, <1>12, <1>14, <1>15 DEF IInv, Excused

\* What a jj command leaves behind is in line, and so is what it leaves
\* alone.
LEMMA JjCommandIInv ==
    ASSUME IInv, NEW imports \in BOOLEAN, NEW moves \in BOOLEAN, NEW r \in Ref,
           NEW target \in Stored, JjCommand(imports, moves, r, target)
    PROVE  IInv'
  <1>1. PICK refs : refs = Imported(imports, MergedRefs[heads])
    OBVIOUS
  <1>2. PICK exports \in BOOLEAN : exports = (moves /\ git[r] = refs[r])
    OBVIOUS
  <1>3. PICK new : new = IF exports THEN [refs EXCEPT ![r] = target] ELSE refs
    OBVIOUS
  <1>4. /\ scenario.commands > 0 /\ Unwritten # {}
        /\ scenario' = [scenario EXCEPT !.commands = scenario.commands - 1]
        /\ Written(NextOp, heads, new)
        /\ heads' = {NextOp}
        /\ git' = IF exports THEN [git EXCEPT ![r] = target] ELSE git
        /\ head' = IF exports /\ head.ref = r
                   THEN [ref |-> Detached, commit |-> git[r]] ELSE head
        /\ touched' = IF imports THEN {} ELSE touched
        /\ skipped' = IF imports THEN {} ELSE skipped
        /\ raced' = (raced /\ ~imports)
        /\ apply' = [apply EXCEPT !.raced = Publishing \/ (apply.raced /\ ~imports)]
        /\ UNCHANGED <<theirs, worktree>>
    BY <1>1, <1>2, <1>3 DEF JjCommand
  <1>5. TypeOK /\ OpsSound /\ ApplySound /\ (Excused \/ LineSound)
    BY DEF IInv
  <1>6. heads \in SUBSET WrittenOf(anc) /\ heads # {} /\ Ordered(anc)
    BY <1>5 DEF OpsSound, TypeOK
  <1>7. MergedRefs[heads] \in GitRefs
    BY <1>5, <1>6, MergedTyped
  <1>8. refs \in GitRefs
    BY <1>1, <1>5, <1>7, Types DEF Imported
  <1>9. new \in GitRefs
    BY <1>3, <1>8 DEF GitRefs
  <1>10. /\ anc' \in [Known -> SUBSET Known] /\ view' \in [Known -> GitRefs]
         /\ Ordered(anc')
         /\ NextOp \in Op /\ NextOp \in Known
         /\ view'[NextOp] = new
         /\ WrittenOf(anc') = WrittenOf(anc) \cup {NextOp}
    BY <1>4, <1>5, <1>6, <1>9, WrittenFacts
  <1>11. scenario' \in Scenario
    <2>1. scenario \in Scenario /\ scenario.commands - 1 \in Nat
      BY <1>4, <1>5, Types DEF Scenario
    <2> QED BY <1>4, <2>1 DEF Scenario
  <1>12. git' \in [Ref -> Stored]
    BY <1>4, <1>5, Types
  <1>13. head' \in [ref : Ref \cup {Detached}, commit : Stored]
    <2>1. git[r] \in Stored /\ head \in [ref : Ref \cup {Detached}, commit : Stored]
      BY <1>5, Types DEF TypeOK
    <2> QED BY <1>4, <2>1
  <1>14. PICK late \in BOOLEAN : late = (Publishing \/ (apply.raced /\ ~imports))
    OBVIOUS
  <1>15. /\ apply' \in Applies /\ apply'.phase = apply.phase /\ apply'.wants = apply.wants
         /\ apply'.localHeads = apply.localHeads /\ apply'.todo = apply.todo
         /\ apply'.after = apply.after /\ apply'.raced = late
    <2>1. apply \in Applies /\ apply' = [apply EXCEPT !.raced = late]
      BY <1>4, <1>5, <1>14, Types
    <2> QED BY <2>1 DEF Applies
  <1>16. TypeOK'
    <2>1. heads' \subseteq Known /\ heads' # {} /\ raced' \in BOOLEAN
      BY <1>4, <1>5, <1>10 DEF TypeOK
    <2>2. touched' \subseteq Ref /\ skipped' \subseteq Ref
      BY <1>4, <1>5 DEF TypeOK
    <2> QED BY <1>4, <1>5, <1>10, <1>11, <1>12, <1>13, <1>15, <2>1, <2>2 DEF TypeOK
  <1>17. OpsSound'
    BY <1>4, <1>5, <1>10, <1>15 DEF OpsSound
  <1>18. ApplySound'
    BY <1>5, <1>14, <1>15 DEF ApplySound, Publishing
  <1>19. ViewsSound'
    BY <1>14, <1>15 DEF ViewsSound, Publishing
  <1>20. ASSUME ~Excused' PROVE LineSound'
    <2>1. ~Publishing /\ ~Publishing' /\ (imports \/ ~Excused)
      BY <1>4, <1>14, <1>15, <1>20 DEF Publishing, Excused
    <2>2. MergedRefs'[heads'] = new
      BY <1>4, <1>10, SingleMerged
    <2>3. ASSUME NEW q \in Mirrored' PROVE new[q] \in {git'[q], Conflict}
      <3>1. q \in Ref /\ refs[q] \in {git[q], Conflict}
        <4>1. CASE imports
          BY <1>1, <2>3, <4>1 DEF Imported, Mirrored
        <4>2. CASE ~imports
          <5>1. LineSound /\ refs = MergedRefs[heads] /\ q \in Mirrored /\ q \in Ref
            BY <1>1, <1>4, <1>5, <2>1, <2>3, <4>2 DEF Imported, Mirrored
          <5> QED BY <5>1, <2>1 DEF LineSound, InLine
        <4> QED BY <4>1, <4>2
      <3>2. CASE ~exports
        BY <1>3, <1>4, <3>1, <3>2
      <3>3. CASE exports /\ q = r
        <4>1. new[q] = target /\ git'[q] = target
          BY <1>3, <1>4, <1>5, <1>8, <3>3, Types DEF GitRefs
        <4> QED BY <4>1
      <3>4. CASE exports /\ q # r
        <4>1. new[q] = refs[q] /\ git'[q] = git[q]
          BY <1>3, <1>4, <1>5, <1>8, <3>1, <3>4, Types DEF GitRefs
        <4> QED BY <3>1, <4>1
      <3> QED BY <3>2, <3>3, <3>4
    <2>4. InLine(MergedRefs[heads])'
      BY <2>2, <2>3 DEF InLine
    <2> QED BY <2>1, <2>4 DEF LineSound, Publishing
  <1> QED BY <1>16, <1>17, <1>18, <1>19, <1>20 DEF IInv

LEMMA InitIInv ==
    ASSUME Init
    PROVE  IInv
  <1>1. /\ scenario \in Scenarios
        /\ anc = [o \in Known |-> IF o \in {Root, 1, 2} THEN {Root, o} ELSE {}]
        /\ view = [o \in Known |-> IF o = 1 THEN FirstRefs ELSE NoRefs]
        /\ heads = IF scenario.fresh THEN {2} ELSE {1}
        /\ theirs = {1}
        /\ git = IF scenario.fresh THEN NoRefs ELSE FirstRefs
        /\ head = [ref |-> scenario.head, commit |-> Absent]
        /\ worktree = FALSE /\ apply = NoApply
        /\ touched = {} /\ skipped = {} /\ raced = FALSE
    BY DEF Init
  <1>2. scenario \in Scenario /\ scenario.head \in Ref \cup {Detached}
    BY <1>1, MirrorAssumption DEF Scenario
  <1>3. FirstRefs \in [Ref -> Stored] /\ NoRefs \in [Ref -> Stored]
    <2>1. Commit \in SUBSET Nat /\ Commit # {}
      BY MirrorAssumption
    <2>2. \E c \in Commit : \A d \in Commit : c <= d
      BY <2>1, LeastExists
    <2>3. (CHOOSE c \in Commit : \A d \in Commit : c <= d) \in Commit
      BY <2>2
    <2> QED BY <2>3 DEF FirstRefs, NoRefs, Stored
  <1>4. FirstRefs \in GitRefs /\ NoRefs \in GitRefs
    BY <1>3 DEF GitRefs
  <1>5. 1 \in Op /\ 2 \in Op /\ Op \in SUBSET Nat /\ Root \notin Op
    BY MirrorAssumption
  <1>6. 1 \in Known /\ 2 \in Known /\ Root \in Known /\ {1, 2} \subseteq Known
    BY <1>5 DEF Known
  <1>7. anc \in [Known -> SUBSET Known] /\ view \in [Known -> GitRefs]
    <2>1. \A o \in Known : (IF o \in {Root, 1, 2} THEN {Root, o} ELSE {}) \in SUBSET Known
      BY <1>6
    <2> QED BY <1>1, <1>4, <2>1
  <1>8. TypeOK
    <2>1. heads \subseteq Known /\ heads # {} /\ theirs \subseteq Op
      BY <1>1, <1>5, <1>6
    <2>2. head \in [ref : Ref \cup {Detached}, commit : Stored]
      BY <1>1, <1>2, ConflictFacts
    <2> QED BY <1>1, <1>2, <1>3, <1>7, <2>1, <2>2, NoApplyFacts DEF TypeOK
  <1>9. \A o \in Known : anc[o] = IF o \in {Root, 1, 2} THEN {Root, o} ELSE {}
    BY <1>1
  <1>10. WrittenOf(anc) = {Root, 1, 2}
    <2>1. \A o \in Known : anc[o] # {} <=> o \in {Root, 1, 2}
      BY <1>9
    <2>2. {Root, 1, 2} \subseteq Known
      BY <1>6
    <2> QED BY <2>1, <2>2 DEF WrittenOf
  <1>11. Ordered(anc)
    <2>1. \A o \in WrittenOf(anc) : Root \in anc[o] /\ o \in anc[o]
      BY <1>6, <1>9, <1>10
    <2>2. \A o \in Known : \A a \in anc[o] : a <= o /\ anc[a] # {}
      <3> SUFFICES ASSUME NEW o \in Known, NEW a \in anc[o] PROVE a <= o /\ anc[a] # {}
        OBVIOUS
      <3>1. o \in {Root, 1, 2} /\ a \in {Root, o}
        BY <1>9
      <3>2. a \in WrittenOf(anc)
        BY <1>10, <3>1
      <3>3. a <= o
        BY <3>1 DEF Root
      <3> QED BY <3>2, <3>3 DEF WrittenOf
    <2>3. ASSUME NEW o \in Known, NEW p \in Known, anc[o] # {}, anc[p] = {} PROVE o < p
      <3>1. o \in {0, 1, 2} /\ p \notin {0, 1, 2}
        BY <1>9, <2>3 DEF Root
      <3>2. p \in Nat
        BY KnownFacts
      <3> QED BY <3>1, <3>2
    <2> QED BY <1>7, <2>1, <2>2, <2>3 DEF Ordered
  <1>12. OpsSound
    BY <1>1, <1>10, <1>11, NoApplyFacts DEF OpsSound
  <1>13. ApplySound /\ ViewsSound
    BY <1>1, NoApplyFacts DEF ApplySound, ViewsSound, Publishing
  <1>14. LineSound
    <2>1. MergedRefs[heads] = git
      <3>1. PICK o \in {1, 2} : heads = {o} /\ o \in Known /\ view[o] = git
        <4>1. CASE scenario.fresh
          BY <1>1, <1>6, <4>1
        <4>2. CASE ~scenario.fresh
          BY <1>1, <1>6, <4>2
        <4> QED BY <4>1, <4>2
      <3>2. MergedRefs[{o}] = Folding(anc, view, MergedRefs, {o})
        BY <1>11, <3>1, MergedSolves, SolutionFacts
      <3>3. Last({o}) = o
        BY <3>1, LastFacts
      <3>4. MergedRefs[{o}] = view[o]
        BY <3>2, <3>3 DEF Folding
      <3> QED BY <3>1, <3>4
    <2> QED BY <1>1, <2>1, NoApplyFacts DEF LineSound, InLine, Mirrored, Publishing
  <1> QED BY <1>8, <1>12, <1>13, <1>14 DEF IInv

LEMMA StutterIInv ==
    ASSUME IInv, UNCHANGED vars
    PROVE  IInv'
  <1>1. UNCHANGED <<anc, view, heads, theirs, git, head, worktree, apply, touched, skipped,
                    raced, scenario>>
    BY DEF vars
  <1>2. TypeOK /\ OpsSound /\ ApplySound /\ ViewsSound /\ (Excused \/ LineSound)
    BY DEF IInv
  <1>3. TypeOK'
    BY <1>1, <1>2 DEF TypeOK
  <1> QED BY <1>1, <1>2, <1>3, AllKept DEF IInv

LEMMA NextIInv ==
    ASSUME IInv, [Next]_vars
    PROVE  IInv'
  <1>1. ASSUME NEW r \in Ref, NEW target \in Stored, PeerWrites(r, target) PROVE IInv'
    BY <1>1, PeerWritesIInv
  <1>2. ASSUME NEW imports \in BOOLEAN, NEW moves \in BOOLEAN, NEW r \in Ref,
               NEW target \in Stored, JjCommand(imports, moves, r, target)
        PROVE  IInv'
    BY <1>2, JjCommandIInv
  <1>3. ASSUME NEW r \in Ref, NEW target \in Stored, GitCommand(r, target) PROVE IInv'
    BY <1>3, GitCommandIInv
  <1>4. CASE WorktreeChanges
    BY <1>4, WorktreeChangesIInv
  <1>5. CASE Stage
    BY <1>5, StageIInv
  <1>6. CASE MirrorStep
    BY <1>6, MergeViewsIInv, StoredRefsIInv, SwapIInv, PublishHeadIInv, FinishIInv
       DEF MirrorStep
  <1>7. CASE PublishFails
    BY <1>7, PublishFailsIInv
  <1>8. CASE HealSkips
    BY <1>8, HealSkipsIInv
  <1>9. CASE Crash
    BY <1>9, CrashIInv
  <1>10. CASE UNCHANGED vars
    BY <1>10, StutterIInv
  <1> QED BY <1>1, <1>2, <1>3, <1>4, <1>5, <1>6, <1>7, <1>8, <1>9, <1>10 DEF Next

-----------------------------------------------------------------------------
\* The theorems.

\* The inductive invariant.
THEOREM Invariant == Spec => []IInv
  <1>1. Init => IInv
    BY InitIInv
  <1>2. IInv /\ [Next]_vars => IInv'
    BY NextIInv
  <1> QED BY <1>1, <1>2, PTL DEF Spec

\* The variables have their types; in particular no conflict is written to a
\* ref.
THEOREM TypeCorrect == Spec => []TypeOK
  <1>1. IInv => TypeOK
    BY DEF IInv
  <1> QED BY <1>1, Invariant, PTL

\* Between fetches jj's next import finds nothing to undo (mirror::run,
\* mirror::heal): every ref is where the merged view of the op heads has it,
\* or left to jj, be it one whose swap failed.
THEOREM GitInLine == Spec => []GitIsInLine
  <1>1. IInv => GitIsInLine
    <2> SUFFICES ASSUME IInv, apply.phase = "idle", ~raced
                 PROVE  \A r \in Mirrored : MergedRefs[heads][r] \in {git[r], Conflict}
      BY DEF GitIsInLine, Mirrored
    <2>1. LineSound /\ ~Publishing
      BY DEF IInv, ApplySound, Excused, Publishing
    <2> QED BY <2>1 DEF LineSound, InLine
  <1> QED BY <1>1, Invariant, PTL

\* A swap moves a ref the user moved only if jj has it there too: it expects
\* what the merged view of the op heads has.
THEOREM UserMovesStay == Spec => UserMovesSurvive
  <1>1. ASSUME IInv, MirrorStep, ~apply.raced, ~apply.owns, NEW r \in touched, git'[r] # git[r]
        PROVE  git[r] = MergedRefs[heads][r]
    <2>1. Swap
      BY <1>1 DEF MirrorStep, MergeViews, StoredRefs, PublishHead, Finish
    <2>2. PICK q : q = CHOOSE s \in apply.todo : \A p \in apply.todo : s <= p
      OBVIOUS
    <2>3. /\ apply.phase = "swap" /\ apply.todo # {}
          /\ (Matches(q) /\ git' = [git EXCEPT ![q] = apply.after[q]]) \/ git' = git
      BY <2>1, <2>2 DEF Swap
    <2>4. r = q /\ Matches(q)
      <3>1. r \in Ref /\ git \in [Ref -> Stored]
        BY <1>1 DEF IInv, TypeOK
      <3> QED BY <1>1, <2>3, <3>1
    <2>5. apply.before = MergedRefs[heads]
      BY <1>1, <2>3 DEF IInv, ViewsSound
    <2> QED BY <2>4, <2>5 DEF Matches
  <1>2. IInv /\ [Next]_vars
           => [MirrorStep /\ ~apply.raced /\ ~apply.owns
               => \A r \in touched : git'[r] # git[r] => git[r] = MergedRefs[heads][r]]_vars
    BY <1>1
  <1> QED BY <1>2, Invariant, PTL DEF Spec, UserMovesSurvive

\* What HEAD resolves to is not changed by the mirror (unpin_heads).
THEOREM HeadStays == Spec => HeadStaysPut
  <1>1. ASSUME IInv, MirrorStep
        PROVE  HeadCommit' = HeadCommit
    <2>1. CASE Swap
      <3>1. PICK q : q = CHOOSE s \in apply.todo : \A p \in apply.todo : s <= p
        OBVIOUS
      <3>2. /\ apply.todo # {}
            /\ \/ Matches(q) /\ git' = [git EXCEPT ![q] = apply.after[q]] /\ head' = Unpinned(q)
               \/ git' = git /\ head' = head
        BY <2>1, <3>1 DEF Swap
      <3>3. q \in Ref /\ q # Detached /\ git \in [Ref -> Stored]
        BY <1>1, <3>1, <3>2, FirstTodo, Types, MirrorAssumption DEF IInv
      <3>4. CASE git' = git /\ head' = head
        BY <3>4 DEF HeadCommit
      <3>5. CASE git' = [git EXCEPT ![q] = apply.after[q]] /\ head' = Unpinned(q) /\ head.ref = q
        <4>1. head' = [ref |-> Detached, commit |-> git[q]]
          BY <3>5 DEF Unpinned
        <4>2. HeadCommit' = git[q]
          BY <4>1 DEF HeadCommit
        <4> QED BY <3>3, <3>5, <4>2 DEF HeadCommit
      <3>6. CASE git' = [git EXCEPT ![q] = apply.after[q]] /\ head' = Unpinned(q) /\ head.ref # q
        <4>1. head' = head
          BY <3>6 DEF Unpinned
        <4>2. head.ref # Detached => git'[head.ref] = git[head.ref]
          BY <1>1, <3>3, <3>6, <4>1, Types DEF IInv
        <4> QED BY <4>1, <4>2 DEF HeadCommit
      <3> QED BY <3>2, <3>4, <3>5, <3>6
    <2>2. CASE ~Swap
      <3>1. UNCHANGED <<git, head>>
        BY <1>1, <2>2 DEF MirrorStep, MergeViews, StoredRefs, PublishHead, Finish
      <3> QED BY <3>1 DEF HeadCommit
    <2> QED BY <2>1, <2>2
  <1>2. IInv /\ [Next]_vars => [MirrorStep => HeadCommit' = HeadCommit]_vars
    BY <1>1
  <1> QED BY <1>2, Invariant, PTL DEF Spec, HeadStaysPut
=============================================================================
