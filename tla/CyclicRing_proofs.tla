-------------------------- MODULE CyclicRing_proofs --------------------------
(***************************************************************************)
(* Proofs about the scheduler, for any number of threads and chunks, any   *)
(* sizes and limits: types, memory_used stays within memory_max, and no    *)
(* chunk keeps its flag when it has left RAM.                              *)
(***************************************************************************)
EXTENDS CyclicRing, FiniteSetTheorems, SequenceTheorems, WellFoundedInduction, TLAPS

-----------------------------------------------------------------------------
(* The inductive invariant.                                                *)

Link == Chunk \cup {None}

\* The states of the scheduler.
SchedT == [next : [Chunk -> Link], prev : [Chunk -> Link],
           active : Link, counterActive : Link, preemptiveStart : Link,
           loaded : SUBSET Chunk, preemptiveBytes : Int, consecutive : Int, sinceLast : Int]

FrameT == [chunk : Link, border : Link, target : Int, cleaned : {"no", "now", "yes"}]

\* Where a thread has a use counted.
UsePcs == {"await", "plan", "evict", "room", "plain", "read", "readPlain", "using", "thrown", "lost"}
PcT == UsePcs \cup {"idle", "untouch", "mmalloc", "mfree"}

UsersOf(c) == {t \in Thread : pc[t] \in UsePcs /\ frame[t].chunk = c}

Types ==
    /\ sched \in SchedT
    /\ status \in [Chunk -> Present \cup Outside \cup {"ABSENT"}]
    /\ leaked \in Nat /\ lock \in Thread \cup {NoThread}
    /\ pc \in [Thread -> PcT] /\ frame \in [Thread -> FrameT]
    /\ useCnt \in [Chunk -> Nat]

\* What a thread relies on.  A chunk that is used or waited for is in the ring, and
\* one that comes or goes belongs to one thread.  What is read alone has its room.
ThreadOK(t) ==
    LET c == frame[t].chunk
    IN  /\ pc[t] \in {"idle", "untouch"} => c = None
        /\ pc[t] = "untouch" => lock = t /\ Ring # {}
        /\ pc[t] \in UsePcs => c \in Ring
        /\ pc[t] = "using" => status[c] \in {"ALLOCATED", "INUSE"}
        /\ pc[t] \in {"mmalloc", "mfree"} =>
              c \in Chunk /\ \A u \in Thread : u # t => frame[u].chunk # c
        /\ pc[t] = "mmalloc" => status[c] = "ABSENT"
        /\ pc[t] = "mfree" => status[c] # "ABSENT"
        /\ pc[t] \in {"plain", "readPlain"} => frame[t].target = Size[c]
        /\ pc[t] = "readPlain" =>
              lock = t /\ status[c] \notin Present /\ Size[c] + memory_used <= MemoryMax

\* Uses are counted.
Counted == \A c \in Chunk : useCnt[c] = Cardinality(UsersOf(c))

\* A flag is for a chunk in RAM that is not being deleted, a location kept for one in RAM.
Marked ==
    /\ sched.loaded \cap (With(Outside \cup {"ABSENT"}) \cup InDeletion) = {}
    /\ cached \subseteq With({"ALLOCATED", "INUSE"})

\* An empty ring has no border: who would swap out throws.
EmptyRing == Ring = {} => sched.counterActive = None

RingInv == /\ Types /\ Counted /\ Marked /\ EmptyRing /\ BudgetKept
           /\ \A t \in Thread : ThreadOK(t)


-----------------------------------------------------------------------------
(* Numbers and recursive functions.                                        *)

\* A set of numbers has a least element.
LEMMA Least ==
    ASSUME NEW S \in SUBSET Nat, S # {}
    PROVE  \E x \in S : \A y \in S : x <= y
<1>1. PICK R : R = OpToRel(<, Nat)
  OBVIOUS
<1>2. \A x, y \in Nat : <<x, y>> \in R <=> x < y
  BY <1>1 DEF OpToRel
<1>3. IsWellFoundedOn(R, Nat)
  BY <1>1, NatLessThanWellFounded
<1>4. \E x \in S : \A y \in S : ~ (<<y, x>> \in R)
  BY <1>3, WFMin
<1>5. PICK x \in S : \A y \in S : ~ (<<y, x>> \in R)
  BY <1>4
<1>6. ASSUME NEW y \in S PROVE x <= y
  <2>1. x \in Nat /\ y \in Nat /\ ~ (y < x)
    BY <1>2, <1>5
  <2> QED BY <2>1
<1> QED BY <1>6

\* What holds of the numbers up to n, if it is handed on: the first that is not in S.
LEMMA UpTo ==
    ASSUME NEW n \in Nat, NEW a \in Nat, NEW S, a \in S,
           \A i \in Nat : a <= i /\ i < n /\ i \in S => i + 1 \in S
    PROVE  \A i \in a..n : i \in S
<1> DEFINE B == {i \in a..n : i \notin S}
<1>1. SUFFICES ASSUME B # {} PROVE FALSE
  OBVIOUS
<1>2. B \in SUBSET Nat
  OBVIOUS
<1> HIDE DEF B
<1>3. PICK x \in B : \A y \in B : x <= y
  BY <1>1, <1>2, Least
<1>4. x \in Nat /\ a <= x /\ x <= n /\ x \notin S
  BY <1>3 DEF B
<1>5. a < x
  BY <1>4
<1>6. x - 1 \in Nat /\ a <= x - 1 /\ x - 1 < n /\ (x - 1) + 1 = x
  BY <1>4, <1>5
<1>7. x - 1 \notin B
  BY <1>3, <1>4, <1>6
<1>8. x - 1 \in S
  BY <1>6, <1>7 DEF B
<1> QED BY <1>4, <1>6, <1>8

\* A walk along P of n steps.
IsWalk(f, P, a, n) == f = [i \in 1..n |-> IF i = 1 THEN a ELSE P[f[i - 1]]]

LEMMA WalkExists ==
    ASSUME NEW P, NEW a, NEW n \in Nat
    PROVE  \E f : IsWalk(f, P, a, n)
<1> DEFINE S == {k \in Nat : \E f : IsWalk(f, P, a, k)}
<1>1. 0 \in S
  <2>1. [i \in 1..0 |-> a] = [i \in 1..0 |-> IF i = 1 THEN a ELSE P[[j \in 1..0 |-> a][i - 1]]]
    OBVIOUS
  <2> QED BY <2>1 DEF IsWalk
<1>2. ASSUME NEW k \in Nat, k \in S PROVE k + 1 \in S
  <2>1. PICK f : IsWalk(f, P, a, k)
    BY <1>2
  <2>2. PICK g : g = [i \in 1..(k + 1) |-> IF i = 1 THEN a ELSE P[f[i - 1]]]
    OBVIOUS
  <2>3. ASSUME NEW i \in 1..(k + 1), i # 1 PROVE g[i - 1] = f[i - 1]
    <3>1. i - 1 \in 1..k /\ i - 1 \in 1..(k + 1)
      BY <2>3
    <3>2. g[i - 1] = IF i - 1 = 1 THEN a ELSE P[f[(i - 1) - 1]]
      BY <2>2, <3>1
    <3>3. f[i - 1] = IF i - 1 = 1 THEN a ELSE P[f[(i - 1) - 1]]
      BY <2>1, <3>1 DEF IsWalk
    <3> QED BY <3>2, <3>3
  <2>4. g = [i \in 1..(k + 1) |-> IF i = 1 THEN a ELSE P[g[i - 1]]]
    BY <2>2, <2>3
  <2> QED BY <2>4 DEF IsWalk
<1> HIDE DEF S
<1>3. n \in S
  BY <1>1, <1>2, UpTo
<1> QED BY <1>3 DEF S

LEMMA WalkIs ==
    ASSUME NEW f, NEW P, NEW a, NEW n \in Nat, IsWalk(f, P, a, n)
    PROVE  /\ DOMAIN f = 1..n
           /\ n >= 1 => f[1] = a
           /\ \A i \in 1..n : i # 1 => f[i] = P[f[i - 1]]
<1>1. DOMAIN f = 1..n
  BY DEF IsWalk
<1>2. ASSUME NEW i \in 1..n PROVE f[i] = IF i = 1 THEN a ELSE P[f[i - 1]]
  BY DEF IsWalk
<1>3. n >= 1 => 1 \in 1..n
  OBVIOUS
<1> QED BY <1>1, <1>2, <1>3

\* It stays in a set that P does not leave.
LEMMA WalkStays ==
    ASSUME NEW f, NEW P, NEW a, NEW n \in Nat, IsWalk(f, P, a, n),
           NEW R, a \in R, \A x \in R : P[x] \in R
    PROVE  f \in [1..n -> R]
<1> DEFINE S == {i \in Nat : i \in 1..n => f[i] \in R}
<1>1. 1 \in S
  BY DEF IsWalk
<1>2. ASSUME NEW i \in Nat, 1 <= i, i < n, i \in S PROVE i + 1 \in S
  <2>1. i \in 1..n /\ i + 1 \in 1..n /\ i + 1 # 1 /\ (i + 1) - 1 = i
    BY <1>2
  <2>2. f[i + 1] = P[f[i]]
    BY <2>1, WalkIs
  <2> QED BY <1>2, <2>1, <2>2
<1> HIDE DEF S
<1>3. \A i \in 1..n : i \in S
  BY <1>1, <1>2, UpTo
<1>4. f = [i \in 1..n |-> f[i]]
  BY DEF IsWalk
<1> QED BY <1>3, <1>4 DEF S

\* A function defined step by step, with values in V.
AreSteps(f, G, v, n, V) == f \in [0..n -> V] /\ f[0] = v /\ \A i \in 1..n : f[i] = G[<<f[i - 1], i>>]

LEMMA StepsExist ==
    ASSUME NEW n \in Nat, NEW V, NEW v, v \in V, NEW G,
           \A x \in V : \A i \in 1..n : G[<<x, i>>] \in V
    PROVE  \E f : AreSteps(f, G, v, n, V)
<1> DEFINE S == {k \in Nat : \E f : AreSteps(f, G, v, k, V)}
<1>1. 0 \in S
  <2>1. AreSteps([i \in 0..0 |-> v], G, v, 0, V)
    BY DEF AreSteps
  <2> QED BY <2>1
<1>2. ASSUME NEW k \in Nat, k < n, k \in S PROVE k + 1 \in S
  <2>1. PICK f : AreSteps(f, G, v, k, V)
    BY <1>2
  <2>2. PICK g : g = [i \in 0..(k + 1) |-> IF i = k + 1 THEN G[<<f[k], k + 1>>] ELSE f[i]]
    OBVIOUS
  <2>3. k + 1 \in 1..n /\ k \in 0..k /\ f[k] \in V
    BY <1>2, <2>1 DEF AreSteps
  <2>4. G[<<f[k], k + 1>>] \in V
    BY <2>3
  <2>5. \A i \in 0..k : g[i] = f[i] /\ f[i] \in V
    BY <2>1, <2>2 DEF AreSteps
  <2>6. g[k + 1] = G[<<f[k], k + 1>>]
    BY <2>2
  <2>7. g \in [0..(k + 1) -> V] /\ g[0] = v
    BY <2>1, <2>2, <2>4, <2>5 DEF AreSteps
  <2>8. ASSUME NEW i \in 1..(k + 1) PROVE g[i] = G[<<g[i - 1], i>>]
    <3>1. CASE i = k + 1
      BY <2>5, <2>6, <3>1
    <3>2. CASE i # k + 1
      <4>1. i \in 1..k /\ i - 1 \in 0..k /\ i \in 0..k
        BY <3>2
      <4>2. g[i] = f[i] /\ g[i - 1] = f[i - 1]
        BY <2>5, <4>1
      <4> QED BY <2>1, <4>1, <4>2 DEF AreSteps
    <3> QED BY <3>1, <3>2
  <2>9. AreSteps(g, G, v, k + 1, V)
    BY <2>7, <2>8 DEF AreSteps
  <2> QED BY <2>9
<1> HIDE DEF S
<1>3. \A k \in Nat : 0 <= k /\ k < n /\ k \in S => k + 1 \in S
  BY <1>2
<1>4. \A k \in 0..n : k \in S
  BY <1>1, <1>3, UpTo
<1>5. n \in S
  BY <1>4
<1> QED BY <1>5 DEF S

-----------------------------------------------------------------------------
(* The bytes of sets of chunks.                                            *)

Cells(S) == UNION {{c} \X (1..Size[c]) : c \in S}

LEMMA CellsAre == \A S, p : p \in Cells(S) <=> \E c \in S : p \in {c} \X (1..Size[c])
BY DEF Cells

LEMMA Sizes == \A c \in Chunk : Size[c] \in Nat \ {0}
BY RingAssumption

LEMMA CellsFinite ==
    ASSUME NEW S \in SUBSET Chunk
    PROVE  IsFiniteSet(Cells(S)) /\ IsFiniteSet(S)
<1>1. IsFiniteSet(S)
  BY RingAssumption, FS_Subset
<1> DEFINE f == [c \in S |-> {c} \X (1..Size[c])]
           C == {{c} \X (1..Size[c]) : c \in S}
<1>2. IsFiniteSet(C)
  <2>1. f \in Surjection(S, C)
    BY DEF Surjection
  <2> QED BY <1>1, <2>1, FS_Surjection
<1>3. ASSUME NEW c \in S PROVE IsFiniteSet({c} \X (1..Size[c]))
  <2>1. PICK n \in Nat : n = Size[c]
    BY Sizes
  <2>2. IsFiniteSet(1..n) /\ IsFiniteSet({c})
    <3>1. 1 \in Int /\ n \in Int
      OBVIOUS
    <3> QED BY <3>1, FS_Interval, FS_Singleton
  <2> QED BY <2>1, <2>2, FS_Product
<1>4. \A T \in C : IsFiniteSet(T)
  BY <1>3
<1> HIDE DEF C
<1>5. IsFiniteSet(UNION C)
  BY <1>2, <1>4, FS_UNION
<1> QED BY <1>1, <1>5 DEF C, Cells

LEMMA BytesType == \A S \in SUBSET Chunk : Bytes(S) \in Nat
BY CellsFinite, FS_CardinalityType DEF Bytes, Cells

LEMMA BytesNone == Bytes({}) = 0
<1>1. Cells({}) = {}
  BY CellsAre
<1> QED BY <1>1, FS_EmptySet DEF Bytes, Cells

LEMMA BytesOne ==
    ASSUME NEW c \in Chunk
    PROVE  Bytes({c}) = Size[c]
<1>1. PICK n \in Nat : n = Size[c]
  BY Sizes
<1>2. IsFiniteSet(1..n) /\ Cardinality(1..n) = n
  BY FS_Interval
<1>3. IsFiniteSet({c}) /\ Cardinality({c}) = 1
  BY FS_Singleton
<1>4. Cardinality({c} \X (1..n)) = Cardinality({c}) * Cardinality(1..n)
  BY <1>2, <1>3, FS_Product
<1>5. 1 * n = n
  OBVIOUS
<1>6. Cells({c}) = {c} \X (1..n)
  BY <1>1 DEF Cells
<1> QED BY <1>1, <1>2, <1>3, <1>4, <1>5, <1>6 DEF Bytes, Cells

LEMMA BytesMono ==
    ASSUME NEW T \in SUBSET Chunk, NEW S \in SUBSET T
    PROVE  Bytes(S) <= Bytes(T)
<1>1. Cells(S) \subseteq Cells(T)
  BY CellsAre
<1> QED BY <1>1, CellsFinite, FS_Subset DEF Bytes, Cells

LEMMA BytesPlus ==
    ASSUME NEW S \in SUBSET Chunk, NEW T \in SUBSET Chunk
    PROVE  /\ Bytes(S \cup T) <= Bytes(S) + Bytes(T)
           /\ S \cap T = {} => Bytes(S \cup T) = Bytes(S) + Bytes(T)
<1>1. Cells(S \cup T) = Cells(S) \cup Cells(T)
  BY CellsAre
<1>2. IsFiniteSet(Cells(S)) /\ IsFiniteSet(Cells(T))
  BY CellsFinite
<1>3. Cardinality(Cells(S) \cup Cells(T)) =
         Cardinality(Cells(S)) + Cardinality(Cells(T)) - Cardinality(Cells(S) \cap Cells(T))
  BY <1>2, FS_Union
<1>4. IsFiniteSet(Cells(S) \cap Cells(T))
  BY <1>2, FS_Intersection
<1>5. PICK a \in Nat, b \in Nat, c \in Nat :
          a = Cardinality(Cells(S)) /\ b = Cardinality(Cells(T)) /\ c = Cardinality(Cells(S) \cap Cells(T))
  BY <1>2, <1>4, FS_CardinalityType
<1>6. Bytes(S \cup T) = a + b - c /\ Bytes(S) = a /\ Bytes(T) = b
  BY <1>1, <1>3, <1>5 DEF Bytes, Cells
<1>7. S \cap T = {} => c = 0
  <2>1. ASSUME S \cap T = {}, NEW p, p \in Cells(S), p \in Cells(T) PROVE FALSE
    <3>1. PICK x \in S : p \in {x} \X (1..Size[x])
      BY <2>1, CellsAre
    <3>2. PICK y \in T : p \in {y} \X (1..Size[y])
      BY <2>1, CellsAre
    <3>3. x = y
      BY <3>1, <3>2
    <3> QED BY <2>1, <3>3
  <2>2. S \cap T = {} => Cells(S) \cap Cells(T) = {}
    BY <2>1
  <2> QED BY <1>5, <2>2, FS_EmptySet
<1> QED BY <1>5, <1>6, <1>7

\* One chunk less.
LEMMA BytesLess ==
    ASSUME NEW S \in SUBSET Chunk, NEW c \in S
    PROVE  Bytes(S) = Bytes(S \ {c}) + Size[c]
<1>1. S = (S \ {c}) \cup {c} /\ (S \ {c}) \cap {c} = {} /\ S \ {c} \in SUBSET Chunk /\ {c} \in SUBSET Chunk
      /\ c \in Chunk
  OBVIOUS
<1>2. Bytes((S \ {c}) \cup {c}) = Bytes(S \ {c}) + Bytes({c})
  BY <1>1, BytesPlus
<1> QED BY <1>1, <1>2, BytesOne

LEMMA MinIs ==
    ASSUME NEW S \in SUBSET Nat, S # {}
    PROVE  Min(S) \in S /\ \A y \in S : Min(S) <= y
BY Least DEF Min

LEMMA MaxIs ==
    ASSUME NEW S \in SUBSET Nat, S # {}, NEW n \in Nat, \A x \in S : x <= n
    PROVE  Max(S) \in S /\ \A y \in S : y <= Max(S)
<1> DEFINE T == {n - x : x \in S}
<1>1. T \in SUBSET Nat /\ T # {}
  <2>1. \A x \in S : x \in Nat /\ x <= n /\ n - x \in Nat
    OBVIOUS
  <2> QED BY <2>1
<1> HIDE DEF T
<1>2. PICK z \in T : \A y \in T : z <= y
  BY <1>1, Least
<1>3. PICK x \in S : z = n - x
  BY DEF T
<1>4. ASSUME NEW y \in S PROVE y <= x
  <2>1. n - y \in T
    BY DEF T
  <2>2. n - x <= n - y
    BY <1>2, <1>3, <2>1
  <2> QED BY <2>2
<1> QED BY <1>4 DEF Max

-----------------------------------------------------------------------------
(* Walks around the ring.                                                  *)

LEMMA BackwardsIs ==
    ASSUME NEW s, NEW from, NEW n \in Nat
    PROVE  IsWalk(Backwards(s, from, n), s.prev, from, n)
<1>1. PICK f : IsWalk(f, s.prev, from, n)
  BY WalkExists
<1>2. PICK h : h = CHOOSE w : w = [i \in 1..n |-> IF i = 1 THEN from ELSE s.prev[w[i - 1]]]
  OBVIOUS
<1>3. h = [i \in 1..n |-> IF i = 1 THEN from ELSE s.prev[h[i - 1]]]
  BY <1>1, <1>2 DEF IsWalk
<1>4. Backwards(s, from, n) = [i \in 1..n |-> h[i]]
  BY <1>2 DEF Backwards
<1>5. h = [i \in 1..n |-> h[i]]
  BY <1>3
<1> QED BY <1>3, <1>4, <1>5 DEF IsWalk

\* What the guards of the steps rely on.
LEMMA RingIs ==
    ASSUME RingWhole, Ring # {}
    PROVE  /\ Ring \in SUBSET Chunk /\ Cardinality(Ring) \in Nat \ {0}
           /\ sched.active \in Ring /\ sched.counterActive \in Ring
           /\ sched.preemptiveStart \in Ring \cup {None}
           /\ \A c \in Ring : sched.next[c] \in Ring /\ sched.prev[c] \in Ring
<1>1. Ring \in SUBSET Chunk
  BY DEF Ring, MemChunks
<1>2. IsFiniteSet(Ring)
  BY <1>1, CellsFinite
<1>3. Cardinality(Ring) \in Nat \ {0}
  BY <1>2, FS_CardinalityType, FS_EmptySet
<1>4. PICK R, next, prev, n : R = Ring /\ next = sched.next /\ prev = sched.prev /\ n = Cardinality(Ring)
  OBVIOUS
<1>5. \A c \in R : next[c] \in R /\ prev[next[c]] = c
  BY <1>4 DEF RingWhole
<1>6. \A c \in R : prev[c] \in R
  <2> DEFINE f == [c \in R |-> next[c]]
  <2>1. f \in [R -> R]
    BY <1>5
  <2>2. ASSUME NEW a \in R, NEW b \in R, f[a] = f[b] PROVE a = b
    BY <1>5, <2>2
  <2>3. f \in Injection(R, R)
    BY <2>1, <2>2 DEF Injection, IsInjective
  <2>4. f \in Surjection(R, R)
    <3> HIDE DEF f
    <3> QED BY <1>2, <1>4, <2>3, FS_Injection
  <2>5. ASSUME NEW c \in R PROVE prev[c] \in R
    <3>1. PICK d \in R : f[d] = c
      BY <2>4 DEF Surjection
    <3> QED BY <1>5, <3>1
  <2> QED BY <2>5
<1>7. sched.active \in Ring
  <2>1. PICK w : w = Backwards(sched, sched.active, n)
    OBVIOUS
  <2>2. Range(w) = R
    BY <1>4, <2>1 DEF RingWhole
  <2>3. IsWalk(w, prev, sched.active, n)
    BY <1>3, <1>4, <2>1, BackwardsIs
  <2>4. DOMAIN w = 1..n /\ w[1] = sched.active /\ 1 \in DOMAIN w
    BY <1>3, <1>4, <2>3, WalkIs
  <2> QED BY <1>4, <2>2, <2>4 DEF Range
<1>8. sched.counterActive \in Ring /\ sched.preemptiveStart \in Ring \cup {None}
  BY DEF RingWhole
<1> QED BY <1>1, <1>3, <1>4, <1>5, <1>6, <1>7, <1>8

\* A set the ring does not lead out of.
Closed(s, R) == R \in SUBSET Chunk /\ \A c \in R : s.next[c] \in R /\ s.prev[c] \in R

LEMMA BackwardsIn ==
    ASSUME NEW s, NEW R, Closed(s, R), NEW from \in R, NEW n \in Nat
    PROVE  Backwards(s, from, n) \in [1..n -> R]
<1>1. PICK f : f = Backwards(s, from, n)
  OBVIOUS
<1>2. IsWalk(f, s.prev, from, n)
  BY <1>1, BackwardsIs
<1>3. \A x \in R : s.prev[x] \in R
  BY DEF Closed
<1>4. f \in [1..n -> R]
  BY <1>2, <1>3, WalkStays
<1> QED BY <1>1, <1>4

LEMMA StretchIn ==
    ASSUME NEW s, NEW R, Closed(s, R), NEW from \in R, NEW to
    PROVE  \E n \in Nat \ {0} : Stretch(s, from, to) \in [1..n -> R] /\ Stretch(s, from, to)[1] = from
<1>1. PICK n \in Nat : n = Cardinality(Chunk)
  BY RingAssumption, FS_CardinalityType
<1>2. PICK f : IsWalk(f, s.next, from, n)
  BY WalkExists
<1>3. PICK h : h = CHOOSE w : w = [i \in 1..n |-> IF i = 1 THEN from ELSE s.next[w[i - 1]]]
  OBVIOUS
<1>4. h = [i \in 1..n |-> IF i = 1 THEN from ELSE s.next[h[i - 1]]]
  BY <1>2, <1>3 DEF IsWalk
<1>5. h \in [1..n -> R]
  <2>1. \A x \in R : s.next[x] \in R
    BY DEF Closed
  <2>2. IsWalk(h, s.next, from, n)
    BY <1>4 DEF IsWalk
  <2> QED BY <2>1, <2>2, WalkStays
<1>6. PICK H : H = {i \in 1..n : h[i] = to}
  OBVIOUS
<1>7. Stretch(s, from, to) = [i \in 1..(IF H = {} THEN n ELSE Min(H)) |-> h[i]]
  BY <1>1, <1>3, <1>6 DEF Stretch
<1>8. n # 0
  <2>1. Chunk # {}
    BY DEF Closed
  <2> QED BY <1>1, <2>1, RingAssumption, FS_EmptySet
<1>9. PICK m : m = IF H = {} THEN n ELSE Min(H)
  OBVIOUS
<1>10. m \in 1..n
  <2>1. H \in SUBSET Nat
    BY <1>6
  <2>2. H # {} => Min(H) \in H
    BY <2>1, MinIs
  <2> QED BY <1>1, <1>6, <1>8, <1>9, <2>2
<1>11. [i \in 1..m |-> h[i]] \in [1..m -> R]
  BY <1>1, <1>5, <1>10
<1>12. h[1] = from
  BY <1>1, <1>4, <1>8
<1> QED BY <1>1, <1>7, <1>9, <1>10, <1>11, <1>12

-----------------------------------------------------------------------------
(* Sequences.                                                              *)

LEMMA AsSeq ==
    ASSUME NEW R, NEW n \in Nat, NEW f \in [1..n -> R]
    PROVE  f \in Seq(R) /\ Len(f) = n
<1>1. f \in Seq(R)
  OBVIOUS
<1>2. DOMAIN f = 1..n /\ DOMAIN f = 1..Len(f) /\ Len(f) \in Nat
  BY <1>1
<1> QED BY <1>1, <1>2

LEMMA Ends ==
    ASSUME NEW R, NEW q \in Seq(R), q # <<>>
    PROVE  /\ Len(q) \in Nat \ {0} /\ Head(q) \in R /\ Last(q) \in R
           /\ Head(q) = q[1]
BY DEF Last

LEMMA Prefix ==
    ASSUME NEW R, NEW q \in Seq(R), NEW n \in 0..Len(q)
    PROVE  /\ SubSeq(q, 1, n) \in Seq(R) /\ Len(SubSeq(q, 1, n)) = n
           /\ SubSeq(q, 1, n) = <<>> <=> n = 0
           /\ \A i \in 1..n : SubSeq(q, 1, n)[i] = q[i]
           /\ n # 0 => Head(SubSeq(q, 1, n)) = Head(q)
<1>1. Len(q) \in Nat /\ n \in Nat /\ \A i \in 1..n : q[i] \in R
  OBVIOUS
<1>2. SubSeq(q, 1, n) \in Seq(R) /\ Len(SubSeq(q, 1, n)) = n /\ \A i \in 1..n : SubSeq(q, 1, n)[i] = q[i]
  BY <1>1
<1>3. SubSeq(q, 1, n) = <<>> <=> n = 0
  BY <1>2, EmptySeq
<1>4. n # 0 => Head(SubSeq(q, 1, n)) = Head(q)
  BY <1>1, <1>2, <1>3, Ends, EmptySeq
<1> QED BY <1>2, <1>3, <1>4

LEMMA Reversed ==
    ASSUME NEW R, NEW q \in Seq(R)
    PROVE  Reverse(q) \in Seq(R) /\ (Reverse(q) = <<>> <=> q = <<>>)
<1>1. PICK n \in Nat : n = Len(q)
  OBVIOUS
<1>2. \A i \in 1..n : (n - i) + 1 \in 1..n /\ q[(n - i) + 1] \in R
  BY <1>1
<1>3. Reverse(q) = [i \in 1..n |-> q[(n - i) + 1]]
  BY <1>1 DEF Reverse
<1>4. Reverse(q) \in [1..n -> R]
  BY <1>2, <1>3
<1>5. Reverse(q) \in Seq(R) /\ Len(Reverse(q)) = n
  BY <1>4, AsSeq
<1> QED BY <1>1, <1>5, EmptySeq

\* What is picked out of a sequence.
LEMMA ThoseIs ==
    ASSUME NEW R, NEW q \in Seq(R), NEW S
    PROVE  /\ Those(q, S) \in Seq(R)
           /\ Those(q, S) = <<>> => \A i \in 1..Len(q) : q[i] \notin S
<1>1. PICK n \in Nat : n = Len(q)
  OBVIOUS
<1> DEFINE G == [p \in Seq(R) \X (1..n) |-> IF q[p[2]] \in S THEN Append(p[1], q[p[2]]) ELSE p[1]]
<1>2. \A x \in Seq(R) : \A i \in 1..n : G[<<x, i>>] \in Seq(R)
  <2>1. ASSUME NEW x \in Seq(R), NEW i \in 1..n PROVE G[<<x, i>>] \in Seq(R)
    <3>1. q[i] \in R /\ <<x, i>> \in Seq(R) \X (1..n)
      BY <1>1
    <3>2. G[<<x, i>>] = IF q[i] \in S THEN Append(x, q[i]) ELSE x
      BY <3>1
    <3> QED BY <3>1, <3>2
  <2> QED BY <2>1
<1>3. PICK f : AreSteps(f, G, <<>>, n, Seq(R))
  <2> HIDE DEF G
  <2>1. <<>> \in Seq(R)
    OBVIOUS
  <2> QED BY <1>1, <1>2, <2>1, StepsExist
<1>4. f = [i \in 0..n |-> IF i = 0 THEN <<>> ELSE IF q[i] \in S THEN Append(f[i - 1], q[i]) ELSE f[i - 1]]
  <2>1. ASSUME NEW i \in 1..n PROVE f[i] = IF q[i] \in S THEN Append(f[i - 1], q[i]) ELSE f[i - 1]
    <3>1. i - 1 \in 0..n
      BY <1>1
    <3>2. f[i - 1] \in Seq(R) /\ f[i] = G[<<f[i - 1], i>>]
      BY <1>3, <3>1 DEF AreSteps
    <3>3. <<f[i - 1], i>> \in Seq(R) \X (1..n)
      BY <3>2
    <3> QED BY <3>2, <3>3
  <2>2. DOMAIN f = 0..n /\ f = [i \in 0..n |-> f[i]] /\ f[0] = <<>>
    BY <1>3 DEF AreSteps
  <2>3. \A i \in 0..n : i # 0 => i \in 1..n
    OBVIOUS
  <2> HIDE DEF G
  <2> QED BY <2>1, <2>2, <2>3
<1>5. PICK g : g = CHOOSE u : u = [i \in 0..n |-> IF i = 0 THEN <<>> ELSE
                      IF q[i] \in S THEN Append(u[i - 1], q[i]) ELSE u[i - 1]]
  OBVIOUS
<1>6. g = [i \in 0..n |-> IF i = 0 THEN <<>> ELSE IF q[i] \in S THEN Append(g[i - 1], q[i]) ELSE g[i - 1]]
  BY <1>4, <1>5
<1>7. Those(q, S) = g[n]
  BY <1>1, <1>5 DEF Those
<1> HIDE DEF G
<1> DEFINE T == {i \in Nat : i \in 0..n => g[i] \in Seq(R) /\ (g[i] = <<>> => \A j \in 1..i : q[j] \notin S)}
<1>8. 0 \in T
  BY <1>6
<1>9. ASSUME NEW i \in Nat, 0 <= i, i < n, i \in T PROVE i + 1 \in T
  <2>1. i + 1 \in 0..n /\ (i + 1) - 1 = i /\ i + 1 # 0 /\ i + 1 \in 1..n /\ i \in 0..n
    BY <1>9
  <2>2. g[i + 1] = IF q[i + 1] \in S THEN Append(g[i], q[i + 1]) ELSE g[i]
    BY <1>6, <2>1
  <2>3. g[i] \in Seq(R) /\ (g[i] = <<>> => \A j \in 1..i : q[j] \notin S)
    BY <1>9, <2>1
  <2>4. q[i + 1] \in R
    BY <1>1, <2>1
  <2>5. Append(g[i], q[i + 1]) \in Seq(R) /\ Append(g[i], q[i + 1]) # <<>>
    <3>1. PICK h \in Seq(R), x \in R : h = g[i] /\ x = q[i + 1]
      BY <2>3, <2>4
    <3>2. Append(h, x) \in Seq(R)
      BY <3>1
    <3>3. Append(h, x) # <<>>
      <4>1. h \in Seq(R) /\ x \in R
        BY <3>1
      <4>2. Len(Append(h, x)) = Len(h) + 1 /\ Len(h) \in Nat
        BY <4>1
      <4>3. Len(<<>>) = 0
        BY EmptySeq
      <4>4. ASSUME Append(h, x) = <<>> PROVE FALSE
        BY <4>2, <4>3, <4>4
      <4> QED BY <4>4
    <3> QED BY <3>1, <3>2, <3>3
  <2>6. \A j \in 1..(i + 1) : j = i + 1 \/ j \in 1..i
    OBVIOUS
  <2>7. g[i + 1] \in Seq(R)
    BY <2>2, <2>3, <2>5
  <2>8. g[i + 1] = <<>> => \A j \in 1..(i + 1) : q[j] \notin S
    BY <2>2, <2>3, <2>5, <2>6
  <2> QED BY <2>7, <2>8
<1> HIDE DEF T
<1>10. \A i \in 0..n : i \in T
  <2>1. \A i \in Nat : 0 <= i /\ i < n /\ i \in T => i + 1 \in T
    BY <1>9
  <2> QED BY <1>1, <1>8, <2>1, UpTo
<1>11. n \in 0..n
  BY <1>1
<1> QED BY <1>1, <1>7, <1>10, <1>11 DEF T

LEMMA BackwardsSeq ==
    ASSUME NEW s, NEW R, Closed(s, R), NEW from \in R, NEW n \in Nat
    PROVE  Backwards(s, from, n) \in Seq(R) /\ Len(Backwards(s, from, n)) = n
BY BackwardsIn, AsSeq

LEMMA StretchSeq ==
    ASSUME NEW s, NEW R, Closed(s, R), NEW from \in R, NEW to
    PROVE  /\ Stretch(s, from, to) \in Seq(R) /\ Stretch(s, from, to) # <<>>
           /\ Head(Stretch(s, from, to)) = from
<1>1. PICK q : q = Stretch(s, from, to)
  OBVIOUS
<1>2. PICK n \in Nat \ {0} : q \in [1..n -> R] /\ q[1] = from
  BY <1>1, StretchIn
<1>3. q \in Seq(R) /\ Len(q) = n
  BY <1>2, AsSeq
<1>4. q # <<>> /\ Head(q) = from
  BY <1>2, <1>3, Ends, EmptySeq
<1> QED BY <1>1, <1>3, <1>4

-----------------------------------------------------------------------------
(* What the walks pick.                                                    *)

LEMMA RingClosed == RingWhole /\ Ring # {} => Closed(sched, Ring)
BY RingIs DEF Closed

LEMMA MemChunksCount == MemChunks \in SUBSET Chunk /\ Cardinality(MemChunks) \in Nat
<1>1. MemChunks \in SUBSET Chunk
  BY DEF MemChunks
<1> QED BY <1>1, CellsFinite, FS_CardinalityType

\* A chunk in RAM nobody uses.
Unused == {c \in Ring : status[c] = "ALLOCATED" /\ useCnt[c] = 0}

LEMMA SwapOutWalkIs ==
    ASSUME RingWhole, Ring # {}, NEW min
    PROVE  LET w == SwapOutWalk(min)
           IN  /\ w.picks \subseteq Unused
               /\ w.bytes # 0 => w.passed \in Seq(Ring) /\ w.passed # <<>>
<1>1. PICK walk : walk = Backwards(sched, sched.counterActive, Cardinality(MemChunks))
  OBVIOUS
<1>2. PICK n \in Nat : n = Cardinality(MemChunks)
  BY MemChunksCount
<1>3. walk \in Seq(Ring) /\ Len(walk) = n
  BY <1>1, <1>2, RingClosed, RingIs, BackwardsSeq
<1> DEFINE W == Backwards(sched, sched.counterActive, Cardinality(MemChunks))
           target == Larger(min, memory_used - SwapOutTarget)
           quota == IF target > SwapFree THEN min ELSE target
           Free(c, x) == /\ x < quota /\ x + Size[c] <= SwapFree
                         /\ status[c] = "ALLOCATED" /\ useCnt[c] = 0
           G == [p \in Nat \X (1..n) |-> IF Free(walk[p[2]], p[1]) THEN p[1] + Size[walk[p[2]]] ELSE p[1]]
           Steps(g) == g = [i \in 0..n |-> IF i = 0 THEN 0
                                           ELSE IF Free(walk[i], g[i - 1]) THEN g[i - 1] + Size[walk[i]]
                                           ELSE g[i - 1]]
<1>4. PICK sel : sel = CHOOSE g : g = [i \in 0..Len(W) |-> IF i = 0 THEN 0
                                           ELSE IF Free(W[i], g[i - 1]) THEN g[i - 1] + Size[W[i]]
                                           ELSE g[i - 1]]
  OBVIOUS
<1>5. PICK picked : picked = {i \in 1..Len(W) : sel[i] # sel[i - 1]}
  OBVIOUS
<1>6. /\ SwapOutWalk(min).picks = {W[i] : i \in picked}
      /\ SwapOutWalk(min).bytes = sel[Len(W)]
      /\ SwapOutWalk(min).passed = IF picked = {} THEN <<>> ELSE SubSeq(W, 1, Max(picked))
  BY <1>4, <1>5 DEF SwapOutWalk
<1> HIDE DEF Free
<1>7. \A x \in Nat : \A i \in 1..n : G[<<x, i>>] \in Nat
  <2>1. ASSUME NEW x \in Nat, NEW i \in 1..n PROVE G[<<x, i>>] \in Nat
    <3>1. walk[i] \in Ring /\ Ring \in SUBSET Chunk
      BY <1>3, RingIs
    <3>2. x + Size[walk[i]] \in Nat
      BY <3>1, Sizes
    <3>3. G[<<x, i>>] = IF Free(walk[i], x) THEN x + Size[walk[i]] ELSE x
      OBVIOUS
    <3> QED BY <3>2, <3>3
  <2> QED BY <2>1
<1>8. PICK f : AreSteps(f, G, 0, n, Nat)
  <2> HIDE DEF G
  <2> QED BY <1>2, <1>7, StepsExist
<1>9. Steps(f)
  <2>1. DOMAIN f = 0..n /\ f = [i \in 0..n |-> f[i]] /\ f[0] = 0
    BY <1>8 DEF AreSteps
  <2>2. ASSUME NEW i \in 1..n
        PROVE f[i] = IF Free(walk[i], f[i - 1]) THEN f[i - 1] + Size[walk[i]] ELSE f[i - 1]
    <3>1. i - 1 \in 0..n /\ <<f[i - 1], i>> \in Nat \X (1..n)
      BY <1>2, <1>8 DEF AreSteps
    <3>2. f[i] = G[<<f[i - 1], i>>]
      BY <1>8 DEF AreSteps
    <3> QED BY <3>1, <3>2
  <2>3. \A i \in 0..n : i # 0 => i \in 1..n
    BY <1>2
  <2> HIDE DEF G
  <2> QED BY <2>1, <2>2, <2>3
<1> HIDE DEF G
<1>10. Steps(sel)
  <2>1. W = walk /\ Len(W) = n
    BY <1>1, <1>3
  <2> HIDE DEF W
  <2>2. sel = CHOOSE g : Steps(g)
    BY <1>4, <2>1
  <2> HIDE DEF Steps
  <2> QED BY <1>9, <2>2
<1>11. /\ picked = {i \in 1..n : sel[i] # sel[i - 1]}
       /\ SwapOutWalk(min).picks = {walk[i] : i \in picked}
       /\ SwapOutWalk(min).bytes = sel[n]
       /\ SwapOutWalk(min).passed = IF picked = {} THEN <<>> ELSE SubSeq(walk, 1, Max(picked))
  <2>1. W = walk /\ Len(W) = n
    BY <1>1, <1>3
  <2> HIDE DEF W
  <2> QED BY <1>5, <1>6, <2>1
<1> HIDE DEF W
<1>12. ASSUME NEW i \in picked
       PROVE  i \in 1..n /\ walk[i] \in Ring /\ Free(walk[i], sel[i - 1])
  BY <1>2, <1>3, <1>11, <1>10
<1>13. SwapOutWalk(min).picks \subseteq Unused
  BY <1>11, <1>12 DEF Unused, Free
<1>14. ASSUME sel[n] # 0 PROVE picked # {}
  <2>1. SUFFICES ASSUME picked = {} PROVE FALSE
    OBVIOUS
  <2> DEFINE S == {i \in Nat : i \in 0..n => sel[i] = 0}
  <2>2. 0 \in S
    BY <1>10
  <2>3. ASSUME NEW i \in Nat, 0 <= i, i < n, i \in S PROVE i + 1 \in S
    <3>1. i \in 0..n /\ i + 1 \in 1..n /\ (i + 1) - 1 = i
      BY <1>2, <2>3
    <3>2. sel[i + 1] = sel[(i + 1) - 1]
      BY <1>3, <1>11, <2>1, <3>1
    <3> QED BY <2>3, <3>1, <3>2
  <2> HIDE DEF S
  <2>4. \A i \in Nat : 0 <= i /\ i < n /\ i \in S => i + 1 \in S
    BY <2>3
  <2>5. \A i \in 0..n : i \in S
    BY <1>2, <2>2, <2>4, UpTo
  <2>6. n \in S
    BY <1>2, <2>5
  <2> QED BY <1>2, <1>14, <2>6 DEF S
<1>15. ASSUME picked # {} PROVE SubSeq(walk, 1, Max(picked)) \in Seq(Ring) /\ SubSeq(walk, 1, Max(picked)) # <<>>
  <2>1. picked \in SUBSET Nat /\ \A x \in picked : x <= n
    BY <1>2, <1>12
  <2>2. Max(picked) \in picked
    BY <1>2, <1>15, <2>1, MaxIs
  <2>3. Max(picked) \in 0..Len(walk) /\ Max(picked) # 0
    BY <1>2, <1>3, <1>12, <2>2
  <2> QED BY <1>3, <2>3, Prefix
<1> QED BY <1>11, <1>13, <1>14, <1>15

LEMMA DecayWalkIs ==
    ASSUME RingWhole, Ring # {}, sched.preemptiveStart # None
    PROVE  LET w == DecayWalk
           IN  /\ w.picks \subseteq Unused
               /\ w.passed \in Seq(Ring) /\ w.cur \in Ring
               /\ w.passed = <<>> => w.picks = {}
<1> DEFINE W == Front(Stretch(sched, sched.preemptiveStart, sched.active))
           goal == Smaller(Smaller(sched.preemptiveBytes, SwapFree),
                           2 * (MaxPreemptive - sched.preemptiveBytes) + 1)
           limit == Smaller(sched.preemptiveBytes, SwapFree)
           Free(c, x) == /\ x < goal /\ x + Size[c] < limit
                         /\ status[c] = "ALLOCATED" /\ useCnt[c] = 0
<1>1. PICK section : section = W
  OBVIOUS
<1>2. section \in Seq(Ring)
  <2>1. PICK q : q = Stretch(sched, sched.preemptiveStart, sched.active)
    OBVIOUS
  <2>2. q \in Seq(Ring) /\ q # <<>>
    BY <2>1, RingIs, RingClosed, StretchSeq
  <2>3. Len(q) - 1 \in 0..Len(q)
    BY <2>2, Ends
  <2>4. SubSeq(q, 1, Len(q) - 1) \in Seq(Ring)
    BY <2>2, <2>3, Prefix
  <2> QED BY <1>1, <2>1, <2>4 DEF Front
<1>3. PICK n \in Nat : n = Len(section)
  BY <1>2
<1> DEFINE G == [p \in Nat \X (1..n) |-> IF Free(section[p[2]], p[1]) THEN p[1] + Size[section[p[2]]] ELSE p[1]]
           Steps(g) == g = [i \in 0..n |-> IF i = 0 THEN 0
                                           ELSE IF Free(section[i], g[i - 1]) THEN g[i - 1] + Size[section[i]]
                                           ELSE g[i - 1]]
<1>4. PICK sel : sel = CHOOSE g : g = [i \in 0..Len(W) |-> IF i = 0 THEN 0
                                           ELSE IF Free(W[i], g[i - 1]) THEN g[i - 1] + Size[W[i]]
                                           ELSE g[i - 1]]
  OBVIOUS
<1>5. PICK steps : steps = Min({i \in 0..Len(W) : sel[i] >= goal} \cup {Len(W)})
  OBVIOUS
<1>6. /\ DecayWalk.passed = SubSeq(W, 1, steps)
      /\ DecayWalk.picks = {W[i] : i \in {j \in 1..steps : sel[j] # sel[j - 1]}}
      /\ DecayWalk.cur = IF steps = Len(W) THEN sched.active ELSE W[steps + 1]
  BY <1>4, <1>5 DEF DecayWalk
<1> HIDE DEF Free
<1>7. \A x \in Nat : \A i \in 1..n : G[<<x, i>>] \in Nat
  <2>1. ASSUME NEW x \in Nat, NEW i \in 1..n PROVE G[<<x, i>>] \in Nat
    <3>1. section[i] \in Ring /\ Ring \in SUBSET Chunk
      BY <1>2, <1>3, RingIs
    <3>2. x + Size[section[i]] \in Nat
      BY <3>1, Sizes
    <3>3. G[<<x, i>>] = IF Free(section[i], x) THEN x + Size[section[i]] ELSE x
      OBVIOUS
    <3> QED BY <3>2, <3>3
  <2> QED BY <2>1
<1>8. PICK f : AreSteps(f, G, 0, n, Nat)
  <2> HIDE DEF G
  <2> QED BY <1>3, <1>7, StepsExist
<1>9. Steps(f)
  <2>1. DOMAIN f = 0..n /\ f = [i \in 0..n |-> f[i]] /\ f[0] = 0
    BY <1>8 DEF AreSteps
  <2>2. ASSUME NEW i \in 1..n
        PROVE f[i] = IF Free(section[i], f[i - 1]) THEN f[i - 1] + Size[section[i]] ELSE f[i - 1]
    <3>1. i - 1 \in 0..n /\ <<f[i - 1], i>> \in Nat \X (1..n)
      BY <1>3, <1>8 DEF AreSteps
    <3>2. f[i] = G[<<f[i - 1], i>>]
      BY <1>8 DEF AreSteps
    <3> QED BY <3>1, <3>2
  <2>3. \A i \in 0..n : i # 0 => i \in 1..n
    BY <1>3
  <2> HIDE DEF G
  <2> QED BY <2>1, <2>2, <2>3
<1> HIDE DEF G
<1>10. Steps(sel)
  <2>1. W = section /\ Len(W) = n
    BY <1>1, <1>3
  <2> HIDE DEF W
  <2>2. sel = CHOOSE g : Steps(g)
    BY <1>4, <2>1
  <2> HIDE DEF Steps
  <2> QED BY <1>9, <2>2
<1> HIDE DEF W
<1>11. steps \in 0..n
  <2>1. PICK S : S = {i \in 0..Len(W) : sel[i] >= goal} \cup {Len(W)}
    OBVIOUS
  <2>2. S \in SUBSET (0..n) /\ S # {}
    BY <1>1, <1>3, <2>1
  <2>3. Min(S) \in S
    BY <1>3, <2>2, MinIs
  <2> QED BY <1>5, <2>1, <2>2, <2>3
<1>12. /\ DecayWalk.passed = SubSeq(section, 1, steps)
       /\ DecayWalk.picks = {section[i] : i \in {j \in 1..steps : sel[j] # sel[j - 1]}}
       /\ DecayWalk.cur = IF steps = n THEN sched.active ELSE section[steps + 1]
  BY <1>1, <1>3, <1>6
<1>13. DecayWalk.picks \subseteq Unused
  <2>1. ASSUME NEW i \in 1..steps, sel[i] # sel[i - 1]
        PROVE  section[i] \in Ring /\ Free(section[i], sel[i - 1])
    <3>1. i \in 1..n /\ i \in 0..n /\ i # 0
      BY <1>3, <1>11
    <3>2. section[i] \in Ring
      BY <1>2, <1>3, <3>1
    <3> QED BY <1>10, <2>1, <3>1, <3>2
  <2> QED BY <1>12, <2>1 DEF Unused, Free
<1>14. SubSeq(section, 1, steps) \in Seq(Ring) /\ (SubSeq(section, 1, steps) = <<>> => steps = 0)
  BY <1>2, <1>3, <1>11, Prefix
<1>15. DecayWalk.cur \in Ring
  <2>1. steps # n => steps + 1 \in 1..n
    BY <1>3, <1>11
  <2> QED BY <1>2, <1>3, <1>12, <2>1, RingIs
<1>16. steps = 0 => DecayWalk.picks = {}
  BY <1>12
<1> QED BY <1>12, <1>13, <1>14, <1>15, <1>16

LEMMA UsedIs == Types => memory_used \in Nat /\ With(Present \cup {"SWAPOUT"}) \in SUBSET Chunk
BY BytesType DEF Types, memory_used, With

\* The chunk and the guesses swapIn finds: all are swapped, and there is room for them.
LEMMA WalkBackIs ==
    ASSUME Types, RingWhole, NEW t \in Thread, frame[t].chunk \in Ring, NEW room
    PROVE  LET w == WalkBack(t, room)
           IN  /\ w.passed \in Seq(Ring) /\ w.passed # <<>>
               /\ w.picks \subseteq {c \in Ring : status[c] = "SWAPPED"} /\ w.guesses \subseteq w.picks
               /\ Bytes(w.picks) = 0 \/ Bytes(w.picks) + memory_used <= MemoryMax
               /\ w.bytes \in Nat
<1> DEFINE c == frame[t].chunk
           W == Backwards(sched, c, Cardinality(Ring))
           K == {i \in 1..Len(W) : sched.prev[W[i]] = frame[t].border}
           L == IF K = {} THEN Len(W) ELSE Min(K)
           Enough(v) == v.all >= frame[t].target \/ (v.all > 0 /\ v.guessed = room)
           Takes(d, v) == /\ ~ Enough(v) /\ status[d] = "SWAPPED"
                          /\ v.all + Size[d] + memory_used <= MemoryMax
                          /\ (v.all = 0 \/ v.guessed + Size[d] <= room)
           More(d, v) == [all |-> v.all + Size[d],
                          guessed |-> IF v.all = 0 THEN 0 ELSE v.guessed + Size[d]]
           Zero == [all |-> 0, guessed |-> 0]
           V == [all : Nat, guessed : Nat]
<1>1. PICK walk : walk = W
  OBVIOUS
<1>2. PICK N \in Nat \ {0} : N = Cardinality(Ring)
  BY RingIs
<1>3. walk \in Seq(Ring) /\ Len(walk) = N
  BY <1>1, <1>2, RingClosed, BackwardsSeq
<1>4. PICK n : n = L
  OBVIOUS
<1>5. n \in 1..N
  <2>1. PICK S : S = K
    OBVIOUS
  <2>2. S \in SUBSET (1..N)
    BY <1>1, <1>3, <2>1
  <2>3. S # {} => Min(S) \in S
    BY <1>2, <2>2, MinIs
  <2>4. n = IF S = {} THEN N ELSE Min(S)
    BY <1>1, <1>3, <1>4, <2>1
  <2> QED BY <1>2, <2>2, <2>3, <2>4
<1> DEFINE Vol == CHOOSE g : g = [i \in 0..L |-> IF i = 0 THEN Zero
                                          ELSE IF Takes(W[i], g[i - 1]) THEN More(W[i], g[i - 1])
                                          ELSE g[i - 1]]
           Until == Min({i \in 1..L : Enough(Vol[i])} \cup {L})
           Taken == {i \in 1..Until : Vol[i] # Vol[i - 1]}
<1>29. WalkBack(t, room).passed = IF Until = 1 /\ c = frame[t].border THEN W ELSE SubSeq(W, 1, Until)
  BY DEF WalkBack
<1>30. WalkBack(t, room).picks = {W[i] : i \in Taken}
  BY DEF WalkBack
<1>31. WalkBack(t, room).guesses = {W[i] : i \in {j \in Taken : Vol[j - 1].all > 0}}
  BY DEF WalkBack
<1>32. WalkBack(t, room).bytes = Vol[Until].all
  BY DEF WalkBack
<1>6. PICK vol : vol = Vol
  OBVIOUS
<1>33. vol = CHOOSE g : g = [i \in 0..L |-> IF i = 0 THEN Zero
                                          ELSE IF Takes(W[i], g[i - 1]) THEN More(W[i], g[i - 1])
                                          ELSE g[i - 1]]
  BY <1>6
<1> HIDE DEF Vol
<1>7. PICK steps : steps = Until
  OBVIOUS
<1>34. steps = Min({i \in 1..L : Enough(vol[i])} \cup {L})
  BY <1>6, <1>7
<1> HIDE DEF Until
<1>8. PICK taken : taken = {i \in 1..steps : vol[i] # vol[i - 1]}
  OBVIOUS
<1>35. taken = Taken
  BY <1>6, <1>7, <1>8
<1> HIDE DEF W, L, K, Enough, Taken
<1>9. /\ WalkBack(t, room).passed = IF steps = 1 /\ c = frame[t].border THEN W ELSE SubSeq(W, 1, steps)
      /\ WalkBack(t, room).picks = {W[i] : i \in taken}
      /\ WalkBack(t, room).guesses = {W[i] : i \in {j \in taken : vol[j - 1].all > 0}}
      /\ WalkBack(t, room).bytes = vol[steps].all
  BY <1>6, <1>7, <1>29, <1>30, <1>31, <1>32, <1>35
<1>10. steps \in 1..n
  <2>1. PICK S : S = {i \in 1..L : Enough(vol[i])} \cup {L}
    OBVIOUS
  <2>2. S \in SUBSET (1..n) /\ S # {}
    BY <1>4, <1>5, <2>1
  <2>3. Min(S) \in S
    BY <1>5, <2>2, MinIs
  <2> QED BY <1>34, <2>1, <2>2, <2>3
<1> DEFINE G == [p \in V \X (1..n) |-> IF Takes(walk[p[2]], p[1]) THEN More(walk[p[2]], p[1]) ELSE p[1]]
           Steps(g) == g = [i \in 0..n |-> IF i = 0 THEN Zero
                                           ELSE IF Takes(walk[i], g[i - 1]) THEN More(walk[i], g[i - 1])
                                           ELSE g[i - 1]]
<1> HIDE DEF Takes
<1>11. \A i \in 1..n : walk[i] \in Ring /\ walk[i] \in Chunk /\ Size[walk[i]] \in Nat
  <2>1. \A i \in 1..n : i \in 1..Len(walk)
    BY <1>2, <1>3, <1>5
  <2>2. Ring \in SUBSET Chunk
    BY DEF Ring, MemChunks
  <2> QED BY <1>3, <2>1, <2>2, Sizes
<1>12. \A v \in V : \A i \in 1..n : More(walk[i], v) \in V
  BY <1>11
<1> HIDE DEF More
<1>13. \A x \in V : \A i \in 1..n : G[<<x, i>>] \in V
  <2>1. ASSUME NEW x \in V, NEW i \in 1..n PROVE G[<<x, i>>] \in V
    <3>1. G[<<x, i>>] = IF Takes(walk[i], x) THEN More(walk[i], x) ELSE x
      OBVIOUS
    <3> QED BY <1>12, <3>1
  <2> QED BY <2>1
<1>14. PICK f : AreSteps(f, G, Zero, n, V)
  <2>1. n \in Nat /\ Zero \in V
    BY <1>2, <1>5
  <2> HIDE DEF G, V, Zero
  <2> QED BY <1>13, <2>1, StepsExist
<1>15. Steps(f)
  <2>1. DOMAIN f = 0..n /\ f = [i \in 0..n |-> f[i]] /\ f[0] = Zero
    BY <1>14 DEF AreSteps
  <2>2. ASSUME NEW i \in 1..n
        PROVE f[i] = IF Takes(walk[i], f[i - 1]) THEN More(walk[i], f[i - 1]) ELSE f[i - 1]
    <3>1. i - 1 \in 0..n
      BY <1>2, <1>5
    <3>2. f[i - 1] \in V /\ f[i] = G[<<f[i - 1], i>>]
      BY <1>14, <3>1 DEF AreSteps
    <3>3. <<f[i - 1], i>> \in V \X (1..n)
      BY <3>2
    <3> HIDE DEF V
    <3> QED BY <3>2, <3>3
  <2>3. \A i \in 0..n : i # 0 => i \in 1..n
    BY <1>2, <1>5
  <2> HIDE DEF G, V, Zero
  <2> QED BY <2>1, <2>2, <2>3
<1> HIDE DEF G
<1>16. Steps(vol)
  <2>1. W = walk /\ L = n
    BY <1>1, <1>4
  <2> HIDE DEF V, Zero
  <2> QED BY <1>33, <1>15, <2>1
<1>17. /\ WalkBack(t, room).passed = IF steps = 1 /\ c = frame[t].border THEN walk ELSE SubSeq(walk, 1, steps)
       /\ WalkBack(t, room).picks = {walk[i] : i \in taken}
       /\ WalkBack(t, room).guesses = {walk[i] : i \in {j \in taken : vol[j - 1].all > 0}}
  BY <1>1, <1>9
<1>18. \A i \in 1..n : vol[i] = IF Takes(walk[i], vol[i - 1]) THEN More(walk[i], vol[i - 1]) ELSE vol[i - 1]
  <2>1. \A i \in 1..n : i \in 0..n /\ i # 0
    BY <1>2, <1>5
  <2> HIDE DEF V, Zero
  <2> QED BY <1>16, <2>1
<1>19. ASSUME NEW i \in taken PROVE i \in 1..n /\ Takes(walk[i], vol[i - 1]) /\ vol[i] = More(walk[i], vol[i - 1])
  <2>1. i \in 1..n /\ vol[i] # vol[i - 1]
    BY <1>2, <1>5, <1>8, <1>10
  <2> QED BY <1>18, <2>1
<1>20. WalkBack(t, room).picks \subseteq {d \in Ring : status[d] = "SWAPPED"}
  BY <1>11, <1>17, <1>19 DEF Takes
<1>21. WalkBack(t, room).passed \in Seq(Ring) /\ WalkBack(t, room).passed # <<>>
  <2>1. steps \in 0..Len(walk) /\ steps # 0
    BY <1>2, <1>3, <1>5, <1>10
  <2>2. SubSeq(walk, 1, steps) \in Seq(Ring) /\ SubSeq(walk, 1, steps) # <<>>
    BY <1>3, <2>1, Prefix
  <2>3. walk # <<>>
    BY <1>2, <1>3, EmptySeq
  <2> QED BY <1>3, <1>17, <2>2, <2>3
<1> DEFINE D(i) == {walk[j] : j \in {k \in taken : k <= i}}
           P(i) == /\ vol[i] \in V /\ Bytes(D(i)) <= vol[i].all
                   /\ vol[i].all = 0 \/ vol[i].all + memory_used <= MemoryMax
           S == {i \in Nat : P(i)}
<1>22. 0 \in S
  <2>1. 0 \in 0..n
    BY <1>2, <1>5
  <2>2. vol[0] = Zero
    BY <1>16, <2>1
  <2>3. D(0) = {}
    BY <1>19
  <2> HIDE DEF D
  <2> QED BY <2>2, <2>3, BytesNone
<1>23. ASSUME NEW i \in Nat, 0 <= i, i < steps, i \in S PROVE i + 1 \in S
  <2>1. i + 1 \in 1..n /\ i + 1 \in 1..steps /\ (i + 1) - 1 = i
    BY <1>2, <1>5, <1>10, <1>23
  <2>2. D(i) \in SUBSET Chunk /\ walk[i + 1] \in Chunk /\ Size[walk[i + 1]] \in Nat
    BY <1>11, <1>19, <2>1
  <2>3. vol[i] \in V /\ Bytes(D(i)) <= vol[i].all /\ (vol[i].all = 0 \/ vol[i].all + memory_used <= MemoryMax)
    BY <1>23
  <2>4. CASE i + 1 \notin taken
    <3>1. vol[i + 1] = vol[i]
      BY <1>8, <2>1, <2>4
    <3>2. D(i + 1) = D(i)
      <4>1. \A k \in taken : k <= i + 1 <=> k <= i
        BY <1>19, <2>4
      <4> QED BY <4>1
    <3> HIDE DEF D, V
    <3> QED BY <1>23, <3>1, <3>2
  <2>5. CASE i + 1 \in taken
    <3>1. Takes(walk[i + 1], vol[i]) /\ vol[i + 1] = More(walk[i + 1], vol[i])
      BY <1>19, <2>1, <2>5
    <3>2. D(i + 1) = D(i) \cup {walk[i + 1]}
      <4>1. \A k \in taken : k <= i + 1 <=> k <= i \/ k = i + 1
        BY <1>19
      <4> QED BY <2>5, <4>1
    <3>3. Bytes(D(i + 1)) <= Bytes(D(i)) + Size[walk[i + 1]] /\ Bytes(D(i)) \in Nat /\ Bytes(D(i + 1)) \in Nat
      <4>1. Bytes({walk[i + 1]}) = Size[walk[i + 1]]
        BY <2>2, BytesOne
      <4>2. PICK E : E = D(i)
        OBVIOUS
      <4>3. Bytes(E \cup {walk[i + 1]}) <= Bytes(E) + Bytes({walk[i + 1]})
        BY <2>2, <4>2, BytesPlus
      <4>4. Bytes(E) \in Nat /\ Bytes(E \cup {walk[i + 1]}) \in Nat
        BY <2>2, <4>2, BytesType
      <4> HIDE DEF D
      <4> QED BY <3>2, <4>1, <4>2, <4>3, <4>4
    <3>4. vol[i + 1] \in V
      BY <1>12, <2>1, <2>3, <3>1
    <3>5. vol[i + 1].all = vol[i].all + Size[walk[i + 1]]
      BY <3>1 DEF More
    <3>6. vol[i].all + Size[walk[i + 1]] + memory_used <= MemoryMax
      BY <3>1 DEF Takes
    <3> HIDE DEF D
    <3>7. vol[i].all \in Nat /\ memory_used \in Nat
      BY <2>3, UsedIs
    <3>8. Bytes(D(i + 1)) <= vol[i + 1].all
      BY <2>2, <2>3, <3>3, <3>5, <3>7
    <3>9. vol[i + 1].all + memory_used <= MemoryMax
      BY <2>2, <3>5, <3>6, <3>7
    <3> HIDE DEF V
    <3> QED BY <3>4, <3>8, <3>9
  <2> QED BY <2>4, <2>5
<1>24. P(steps)
  <2> HIDE DEF S
  <2>1. steps \in Nat
    BY <1>2, <1>5, <1>10
  <2>2. \A i \in Nat : 0 <= i /\ i < steps /\ i \in S => i + 1 \in S
    BY <1>23
  <2>3. \A i \in 0..steps : i \in S
    BY <1>22, <2>1, <2>2, UpTo
  <2>4. steps \in S
    BY <2>1, <2>3
  <2> HIDE DEF P
  <2> QED BY <2>4 DEF S
<1>25. D(steps) = WalkBack(t, room).picks
  <2>1. \A k \in taken : k <= steps
    BY <1>2, <1>5, <1>8, <1>10
  <2> QED BY <1>17, <2>1
<1>26. WalkBack(t, room).bytes \in Nat
  BY <1>9, <1>24
<1>27. Bytes(WalkBack(t, room).picks) = 0 \/ Bytes(WalkBack(t, room).picks) + memory_used <= MemoryMax
  <2>1. Bytes(D(steps)) \in Nat /\ vol[steps].all \in Nat /\ memory_used \in Nat /\ MemoryMax \in Nat
    <3>1. D(steps) \in SUBSET Chunk
      BY <1>11, <1>19
    <3> HIDE DEF D
    <3> QED BY <1>24, <3>1, BytesType, UsedIs, RingAssumption
  <2>2. Bytes(D(steps)) <= vol[steps].all /\ (vol[steps].all = 0 \/ vol[steps].all + memory_used <= MemoryMax)
    BY <1>24
  <2> HIDE DEF D, P, V
  <2> QED BY <1>25, <2>1, <2>2
<1>28. WalkBack(t, room).guesses \subseteq WalkBack(t, room).picks
  BY <1>17
<1> HIDE DEF P, D, V, S
<1> QED BY <1>20, <1>21, <1>26, <1>27, <1>28

-----------------------------------------------------------------------------
(* The operators on the scheduler's state: types, and what becomes of the   *)
(* flags.                                                                   *)

\* u is s with other links.
Relinked(s, u) ==
    /\ u \in SchedT
    /\ u.active = s.active /\ u.counterActive = s.counterActive
    /\ u.preemptiveStart = s.preemptiveStart /\ u.loaded = s.loaded
    /\ u.preemptiveBytes = s.preemptiveBytes
    /\ u.consecutive = s.consecutive /\ u.sinceLast = s.sinceLast

LEMMA Fields ==
    ASSUME NEW s \in SchedT
    PROVE  /\ s.next \in [Chunk -> Link] /\ s.prev \in [Chunk -> Link]
           /\ s.active \in Link /\ s.counterActive \in Link /\ s.preemptiveStart \in Link
           /\ s.loaded \in SUBSET Chunk /\ s.preemptiveBytes \in Int
           /\ s.consecutive \in Int /\ s.sinceLast \in Int
           /\ \A c \in Chunk : s.next[c] \in Link /\ s.prev[c] \in Link
           /\ Relinked(s, s)
BY DEF SchedT, Relinked

LEMMA LinkedIs ==
    ASSUME NEW s \in SchedT, NEW q \in Seq(Link)
    PROVE  Relinked(s, Linked(s, q))
<1>1. PICK pairs : pairs = {<<q[i], q[i + 1]>> : i \in 1..(Len(q) - 1)}
  OBVIOUS
<1>2. \A p \in pairs : p[1] \in Link /\ p[2] \in Link
  <2>1. \A i \in 1..(Len(q) - 1) : q[i] \in Link /\ q[i + 1] \in Link
    OBVIOUS
  <2> QED BY <1>1, <2>1
<1> DEFINE f == [c \in Chunk |-> IF \E p \in pairs : p[1] = c
                                 THEN (CHOOSE p \in pairs : p[1] = c)[2] ELSE s.next[c]]
           g == [c \in Chunk |-> IF \E p \in pairs : p[2] = c
                                 THEN (CHOOSE p \in pairs : p[2] = c)[1] ELSE s.prev[c]]
<1>3. f \in [Chunk -> Link] /\ g \in [Chunk -> Link]
  <2>1. ASSUME NEW c \in Chunk PROVE f[c] \in Link /\ g[c] \in Link
    <3>1. s.next[c] \in Link /\ s.prev[c] \in Link
      BY Fields
    <3>2. (\E p \in pairs : p[1] = c) => (CHOOSE p \in pairs : p[1] = c) \in pairs
      OBVIOUS
    <3>3. (\E p \in pairs : p[2] = c) => (CHOOSE p \in pairs : p[2] = c) \in pairs
      OBVIOUS
    <3>4. f[c] \in Link
      BY <1>2, <3>1, <3>2
    <3>5. g[c] \in Link
      BY <1>2, <3>1, <3>3
    <3> QED BY <3>4, <3>5
  <2> QED BY <2>1
<1>4. Linked(s, q) = [s EXCEPT !.next = f, !.prev = g]
  BY <1>1 DEF Linked
<1> HIDE DEF f, g
<1> QED BY <1>3, <1>4 DEF SchedT, Relinked

LEMMA RelinkedTwice == \A s, u, v : Relinked(s, u) /\ Relinked(u, v) => Relinked(s, v)
BY DEF Relinked

LEMMA InsertBeforeIs ==
    ASSUME NEW s \in SchedT, NEW pos \in Link, NEW chain \in Seq(Chunk)
    PROVE  Relinked(s, InsertBefore(s, pos, chain))
<1>1. CASE chain = <<>> \/ pos = None
  BY <1>1, Fields DEF InsertBefore
<1>2. CASE ~ (chain = <<>> \/ pos = None)
  <2>1. pos \in Chunk /\ s.prev[pos] \in Link
    BY <1>2, Fields DEF Link
  <2>2. Head(chain) \in Link /\ Last(chain) \in Link
    BY <1>2, Ends DEF Link
  <2>3. <<s.prev[pos], Head(chain)>> \in Seq(Link) /\ <<Last(chain), pos>> \in Seq(Link)
    BY <2>1, <2>2
  <2>4. PICK u : u = Linked(s, <<s.prev[pos], Head(chain)>>)
    OBVIOUS
  <2>5. Relinked(s, u) /\ u \in SchedT
    BY <2>3, <2>4, LinkedIs DEF Relinked
  <2>6. Relinked(u, Linked(u, <<Last(chain), pos>>))
    BY <2>3, <2>5, LinkedIs
  <2>7. InsertBefore(s, pos, chain) = Linked(u, <<Last(chain), pos>>)
    BY <1>2, <2>4 DEF InsertBefore
  <2> QED BY <2>5, <2>6, <2>7, RelinkedTwice
<1> QED BY <1>1, <1>2

LEMMA FilterChainIs ==
    ASSUME NEW s \in SchedT, NEW q \in Seq(Chunk), q # <<>>, NEW S
    PROVE  LET f == FilterChain(s, q, S)
           IN  /\ Relinked(s, f.sched)
               /\ f.kept \in Seq(Chunk) /\ f.out \in Seq(Chunk)
               /\ f.kept # <<>> \/ f.out # <<>>
<1>1. PICK kept, out : kept = Those(q, Chunk \ S) /\ out = Those(q, S)
  OBVIOUS
<1>2. kept \in Seq(Chunk) /\ out \in Seq(Chunk)
  BY <1>1, ThoseIs
<1>3. kept # <<>> \/ out # <<>>
  <2>1. q[1] \in Chunk /\ 1 \in 1..Len(q)
    BY Ends
  <2> QED BY <1>1, <2>1, ThoseIs
<1>4. Head(q) \in Chunk /\ Last(q) \in Chunk
  BY Ends
<1>5. s.prev[Head(q)] \in Link /\ s.next[Last(q)] \in Link
  BY <1>4, Fields
<1> DEFINE ring == IF s.next[Last(q)] # Head(q) THEN <<s.prev[Head(q)]>> \o kept \o <<s.next[Last(q)]>>
                   ELSE IF kept # <<>> THEN Append(kept, Head(kept)) ELSE <<>>
           cut == [s EXCEPT !.prev[Head(q)] = None, !.next[Last(q)] = None]
<1>6. ring \in Seq(Link)
  <2>1. kept \in Seq(Link) /\ (kept # <<>> => Head(kept) \in Link)
    BY <1>2, SeqMonotonic, Ends DEF Link
  <2>2. <<s.prev[Head(q)]>> \in Seq(Link) /\ <<s.next[Last(q)]>> \in Seq(Link)
    BY <1>5
  <2>3. <<s.prev[Head(q)]>> \o kept \o <<s.next[Last(q)]>> \in Seq(Link)
    BY <2>1, <2>2
  <2>4. kept # <<>> => Append(kept, Head(kept)) \in Seq(Link)
    BY <2>1
  <2>5. <<>> \in Seq(Link)
    OBVIOUS
  <2> QED BY <2>3, <2>4, <2>5
<1>7. Relinked(s, cut)
  <2>1. None \in Link
    BY DEF Link
  <2> QED BY <1>4, <2>1 DEF SchedT, Relinked
<1>8. FilterChain(s, q, S).sched = Linked(Linked(cut, out), ring)
      /\ FilterChain(s, q, S).kept = kept /\ FilterChain(s, q, S).out = out
  BY <1>1 DEF FilterChain
<1> HIDE DEF ring, cut
<1>9. PICK u : u = Linked(cut, out)
  OBVIOUS
<1>10. cut \in SchedT /\ out \in Seq(Link)
  BY <1>2, <1>7, SeqMonotonic DEF Relinked, Link
<1>11. Relinked(cut, u) /\ u \in SchedT
  BY <1>9, <1>10, LinkedIs DEF Relinked
<1>12. Relinked(u, Linked(u, ring))
  BY <1>6, <1>11, LinkedIs
<1> QED BY <1>2, <1>3, <1>7, <1>8, <1>9, <1>11, <1>12, RelinkedTwice

\* Updates of one field.
LEMMA Updates ==
    ASSUME NEW s \in SchedT
    PROVE  /\ \A v \in Link : [s EXCEPT !.active = v] \in SchedT
           /\ \A v \in Link : [s EXCEPT !.counterActive = v] \in SchedT
           /\ \A v \in Link : [s EXCEPT !.preemptiveStart = v] \in SchedT
           /\ \A v : [s EXCEPT !.active = v].loaded = s.loaded
           /\ \A v : [s EXCEPT !.counterActive = v].loaded = s.loaded
           /\ \A v : [s EXCEPT !.counterActive = v].active = s.active
           /\ \A v : [s EXCEPT !.counterActive = v].counterActive = v
           /\ \A v : [s EXCEPT !.preemptiveStart = v].loaded = s.loaded
BY DEF SchedT, Link

\* What the operators lead to: a state of the scheduler with given flags.
Leads(u, flags) == u \in SchedT /\ u.loaded = flags

LEMMA RegisterIs ==
    ASSUME NEW s \in SchedT, NEW c \in Chunk
    PROVE  Leads(SchedulerRegister(s, c), s.loaded)
<1>1. CASE s.active = None
  <2>1. PICK u : u = Linked(s, <<c, c>>)
    OBVIOUS
  <2>2. <<c, c>> \in Seq(Link) /\ c \in Link
    BY DEF Link
  <2>3. u \in SchedT /\ u.loaded = s.loaded
    BY <2>1, <2>2, LinkedIs DEF Relinked
  <2>4. SchedulerRegister(s, c) = [u EXCEPT !.counterActive = c, !.active = c]
    BY <1>1, <2>1 DEF SchedulerRegister
  <2> QED BY <2>2, <2>3, <2>4 DEF SchedT, Leads
<1>2. CASE s.active # None
  <2>1. PICK u : u = InsertBefore(s, s.active, <<c>>)
    OBVIOUS
  <2>2. <<c>> \in Seq(Chunk) /\ c \in Link /\ s.active \in Link
    BY Fields DEF Link
  <2>3. u \in SchedT /\ u.loaded = s.loaded
    BY <2>1, <2>2, InsertBeforeIs DEF Relinked
  <2>4. PICK b \in Link : SchedulerRegister(s, c) = [u EXCEPT !.counterActive = b, !.active = c]
    <3>1. u.counterActive \in Link
      BY <2>3, Fields
    <3> QED BY <1>2, <2>1, <2>2, <3>1 DEF SchedulerRegister
  <2> QED BY <2>2, <2>3, <2>4 DEF SchedT, Leads
<1> QED BY <1>1, <1>2

\* An element that is in no ring.
LEMMA LooseIs ==
    ASSUME NEW s \in SchedT, NEW c \in Chunk
    PROVE  LET r == [s EXCEPT !.next[c] = None, !.prev[c] = None]
           IN  r \in SchedT /\ r.loaded = s.loaded /\ r.counterActive = s.counterActive
<1>1. PICK f : f = [s.next EXCEPT ![c] = None]
  OBVIOUS
<1>2. PICK g : g = [s.prev EXCEPT ![c] = None]
  OBVIOUS
<1>3. f \in [Chunk -> Link] /\ g \in [Chunk -> Link]
  <2>1. None \in Link
    BY DEF Link
  <2> QED BY <1>1, <1>2, <2>1, Fields
<1>4. PICK r : r = [s EXCEPT !.next = f, !.prev = g]
  OBVIOUS
<1>5. [s EXCEPT !.next[c] = None, !.prev[c] = None] = r
  BY <1>1, <1>2, <1>4 DEF SchedT
<1>6. r \in SchedT /\ r.loaded = s.loaded /\ r.counterActive = s.counterActive
  BY <1>3, <1>4 DEF SchedT
<1> QED BY <1>5, <1>6

LEMMA RemovedIs ==
    ASSUME NEW s \in SchedT, NEW c \in Chunk, NEW border \in Link
    PROVE  /\ Leads(Removed(s, c, border),
                    IF status[c] \notin Outside /\ c \in s.loaded THEN s.loaded \ {c} ELSE s.loaded)
           /\ s.next[c] = c => Removed(s, c, border).counterActive = None
<1> DEFINE counted == status[c] \notin Outside /\ c \in s.loaded
           flags == IF counted THEN s.loaded \ {c} ELSE s.loaded
<1>1. PICK v : v = [s EXCEPT
            !.preemptiveBytes = IF counted THEN @ - Size[c] ELSE @,
            !.loaded = IF counted THEN @ \ {c} ELSE @,
            !.preemptiveStart = IF @ = c THEN PreemptiveAfter(s, c) ELSE @]
  OBVIOUS
<1>2. PICK n \in Link, p \in Link : n = s.next[c] /\ p = s.prev[c]
  BY Fields
<1>3. None \in Link
  BY DEF Link
<1>4. v \in SchedT /\ v.loaded = flags
  <2>1. Size[c] \in Int
    BY Sizes
  <2>2. PreemptiveAfter(s, c) \in Link
    BY <1>2, <1>3 DEF PreemptiveAfter
  <2>3. PICK x \in Int, z \in Link :
            /\ x = IF counted THEN s.preemptiveBytes - Size[c] ELSE s.preemptiveBytes
            /\ z = IF s.preemptiveStart = c THEN PreemptiveAfter(s, c) ELSE s.preemptiveStart
    BY <2>1, <2>2, Fields
  <2>4. PICK y \in SUBSET Chunk : y = flags
    BY Fields
  <2>5. v = [s EXCEPT !.preemptiveBytes = x, !.loaded = y, !.preemptiveStart = z]
    BY <1>1, <2>3, <2>4
  <2>6. v \in SchedT /\ v.loaded = y
    BY <2>3, <2>4, <2>5 DEF SchedT
  <2> QED BY <2>4, <2>6
<1>5. CASE s.next[c] = c
  <2>1. PICK u : u = [v EXCEPT !.active = None, !.counterActive = None]
    OBVIOUS
  <2>2. u \in SchedT /\ u.loaded = flags /\ u.counterActive = None
    BY <1>3, <1>4, <2>1 DEF SchedT
  <2>3. Removed(s, c, border) = [u EXCEPT !.next[c] = None, !.prev[c] = None]
    BY <1>1, <1>5, <2>1 DEF Removed
  <2>4. PICK r : r = [u EXCEPT !.next[c] = None, !.prev[c] = None]
    OBVIOUS
  <2>5. r \in SchedT /\ r.loaded = u.loaded /\ r.counterActive = u.counterActive
    BY <2>2, <2>4, LooseIs
  <2>6. Removed(s, c, border) = r
    BY <2>3, <2>4
  <2> QED BY <2>2, <2>5, <2>6 DEF Leads
<1>6. CASE s.next[c] # c
  <2>1. PICK w : w = Linked(v, <<s.prev[c], s.next[c]>>)
    OBVIOUS
  <2>2. <<s.prev[c], s.next[c]>> \in Seq(Link)
    BY <1>2
  <2>3. w \in SchedT /\ w.loaded = flags
    BY <1>4, <2>1, <2>2, LinkedIs DEF Relinked
  <2>4. PICK u : u = [w EXCEPT !.active = IF @ = c THEN s.next[c] ELSE @, !.counterActive = border]
    OBVIOUS
  <2>5. u \in SchedT /\ u.loaded = flags
    BY <1>2, <2>3, <2>4 DEF SchedT
  <2>6. Removed(s, c, border) = [u EXCEPT !.next[c] = None, !.prev[c] = None]
    BY <1>1, <1>6, <2>1, <2>4 DEF Removed
  <2>7. PICK r : r = [u EXCEPT !.next[c] = None, !.prev[c] = None]
    OBVIOUS
  <2>8. r \in SchedT /\ r.loaded = u.loaded
    BY <2>5, <2>7, LooseIs
  <2>9. Removed(s, c, border) = r
    BY <2>6, <2>7
  <2> QED BY <1>6, <2>5, <2>8, <2>9 DEF Leads
<1> QED BY <1>5, <1>6

LEMMA DeleteIs ==
    ASSUME NEW s \in SchedT, NEW c \in Chunk
    PROVE  /\ Leads(SchedulerDelete(s, c),
                    IF status[c] \notin Outside /\ c \in s.loaded THEN s.loaded \ {c} ELSE s.loaded)
           /\ s.next[c] = c => SchedulerDelete(s, c).counterActive = None
<1>1. PICK b : b = IF s.counterActive = c THEN s.prev[c] ELSE s.counterActive
  OBVIOUS
<1>2. b \in Link
  BY <1>1, Fields
<1> QED BY <1>1, <1>2, RemovedIs DEF SchedulerDelete

LEMMA TouchIs ==
    ASSUME NEW s \in SchedT, NEW c \in Chunk
    PROVE  Leads(Touch(s, c), s.loaded \ {c})
<1> DEFINE guessed == c \in s.loaded
<1>1. PICK v : v = [s EXCEPT
            !.consecutive = IF guessed THEN Smaller(@ + 1, 2) ELSE 0,
            !.preemptiveBytes = IF guessed THEN @ - Size[c] ELSE @,
            !.loaded = @ \ {c},
            !.preemptiveStart = IF @ = c THEN PreemptiveAfter(s, c) ELSE @]
  OBVIOUS
<1>2. PICK n \in Link, p \in Link : n = s.next[c] /\ p = s.prev[c]
  BY Fields
<1>3. None \in Link /\ c \in Link
  BY DEF Link
<1>4. v \in SchedT /\ v.loaded = s.loaded \ {c}
  <2>1. Size[c] \in Int
    BY Sizes
  <2>2. PreemptiveAfter(s, c) \in Link
    BY <1>2, <1>3 DEF PreemptiveAfter
  <2>3. \A x \in Int : Smaller(x + 1, 2) \in Int
    BY DEF Smaller
  <2>4. PICK x \in Int, z \in Link, n1 \in Int :
            /\ x = IF guessed THEN s.preemptiveBytes - Size[c] ELSE s.preemptiveBytes
            /\ z = IF s.preemptiveStart = c THEN PreemptiveAfter(s, c) ELSE s.preemptiveStart
            /\ n1 = IF guessed THEN Smaller(s.consecutive + 1, 2) ELSE 0
    BY <2>1, <2>2, <2>3, Fields
  <2>5. PICK y \in SUBSET Chunk : y = s.loaded \ {c}
    BY Fields
  <2>6. v = [s EXCEPT !.consecutive = n1, !.preemptiveBytes = x, !.loaded = y, !.preemptiveStart = z]
    BY <1>1, <2>4, <2>5
  <2>7. v \in SchedT /\ v.loaded = y
    BY <2>4, <2>5, <2>6 DEF SchedT
  <2> QED BY <2>5, <2>7
<1>5. CASE s.active = c
  BY <1>1, <1>4, <1>5 DEF Touch, Leads
<1>6. CASE s.active # c
  <2>1. PICK u : u = IF s.prev[s.active] = c THEN v
                     ELSE InsertBefore(Linked(v, <<s.prev[c], s.next[c]>>), s.active, <<c>>)
    OBVIOUS
  <2>2. u \in SchedT /\ u.loaded = s.loaded \ {c}
    <3>1. PICK w : w = Linked(v, <<s.prev[c], s.next[c]>>)
      OBVIOUS
    <3>2. <<s.prev[c], s.next[c]>> \in Seq(Link)
      BY <1>2
    <3>3. w \in SchedT /\ w.loaded = s.loaded \ {c}
      BY <1>4, <3>1, <3>2, LinkedIs DEF Relinked
    <3>4. <<c>> \in Seq(Chunk) /\ s.active \in Link
      BY Fields
    <3>5. Relinked(w, InsertBefore(w, s.active, <<c>>))
      BY <3>3, <3>4, InsertBeforeIs
    <3> QED BY <1>4, <2>1, <3>1, <3>3, <3>5 DEF Relinked
  <2>3. Touch(s, c) = [u EXCEPT !.counterActive = IF @ = c THEN s.prev[c] ELSE @, !.active = c]
    BY <1>1, <1>6, <2>1 DEF Touch
  <2> QED BY <1>2, <1>3, <2>2, <2>3 DEF SchedT, Leads
<1> QED BY <1>5, <1>6


-----------------------------------------------------------------------------
(* swapOut and decay: the ring afterwards, without the flags of what was   *)
(* picked.                                                                 *)

\* active steps back in the ring only.
LEMMA SteppedBackIs ==
    ASSUME NEW s \in SchedT, NEW R, Closed(s, R), s.active \in R, NEW w, w.passed \in Seq(R)
    PROVE  \E a \in R : SteppedBack(s, w) = [s EXCEPT !.active = a]
<1>1. PICK n \in Nat, q \in Seq(R) : q = w.passed /\ n = Len(q)
  OBVIOUS
<1> DEFINE G == [p \in R \X (1..n) |-> IF p[1] = q[p[2]] /\ q[p[2]] \in w.picks THEN s.prev[p[1]] ELSE p[1]]
<1>2. \A x \in R : \A i \in 1..n : G[<<x, i>>] \in R
  <2>1. ASSUME NEW x \in R, NEW i \in 1..n PROVE G[<<x, i>>] \in R
    <3>1. s.prev[x] \in R
      BY DEF Closed
    <3> QED BY <3>1
  <2> QED BY <2>1
<1>3. PICK f : AreSteps(f, G, s.active, n, R)
  <2> HIDE DEF G
  <2> QED BY <1>1, <1>2, StepsExist
<1>4. f = [i \in 0..n |-> IF i = 0 THEN s.active
                          ELSE IF f[i - 1] = q[i] /\ q[i] \in w.picks THEN s.prev[f[i - 1]] ELSE f[i - 1]]
  <2>1. ASSUME NEW i \in 1..n
        PROVE f[i] = IF f[i - 1] = q[i] /\ q[i] \in w.picks THEN s.prev[f[i - 1]] ELSE f[i - 1]
    <3>1. i - 1 \in 0..n
      BY <1>1
    <3>2. f[i - 1] \in R /\ f[i] = G[<<f[i - 1], i>>]
      BY <1>3, <3>1 DEF AreSteps
    <3> QED BY <3>2
  <2>2. DOMAIN f = 0..n /\ f = [i \in 0..n |-> f[i]] /\ f[0] = s.active
    BY <1>3 DEF AreSteps
  <2>3. \A i \in 0..n : i # 0 => i \in 1..n
    OBVIOUS
  <2> HIDE DEF G
  <2> QED BY <2>1, <2>2, <2>3
<1>5. PICK g : g = CHOOSE act : act = [i \in 0..n |-> IF i = 0 THEN s.active
                      ELSE IF act[i - 1] = q[i] /\ q[i] \in w.picks THEN s.prev[act[i - 1]] ELSE act[i - 1]]
  OBVIOUS
<1>6. g = [i \in 0..n |-> IF i = 0 THEN s.active
                          ELSE IF g[i - 1] = q[i] /\ q[i] \in w.picks THEN s.prev[g[i - 1]] ELSE g[i - 1]]
  BY <1>4, <1>5
<1>7. SteppedBack(s, w) = [s EXCEPT !.active = g[n]]
  BY <1>1, <1>5 DEF SteppedBack
<1> HIDE DEF G
<1> DEFINE T == {i \in Nat : i \in 0..n => g[i] \in R}
<1>8. 0 \in T
  BY <1>6
<1>9. ASSUME NEW i \in Nat, 0 <= i, i < n, i \in T PROVE i + 1 \in T
  <2>1. i + 1 \in 0..n /\ (i + 1) - 1 = i /\ i + 1 # 0 /\ i \in 0..n
    BY <1>9
  <2>2. g[i] \in R /\ s.prev[g[i]] \in R
    BY <1>9, <2>1 DEF Closed
  <2>3. g[i + 1] = s.prev[g[i]] \/ g[i + 1] = g[i]
    BY <1>6, <2>1
  <2> QED BY <2>2, <2>3
<1> HIDE DEF T
<1>10. \A i \in 0..n : i \in T
  <2>1. \A i \in Nat : 0 <= i /\ i < n /\ i \in T => i + 1 \in T
    BY <1>9
  <2> QED BY <1>1, <1>8, <2>1, UpTo
<1>11. n \in T /\ n \in 0..n
  BY <1>10
<1>12. g[n] \in R
  BY <1>11 DEF T
<1> QED BY <1>7, <1>12

LEMMA UnflaggedIs ==
    ASSUME NEW s \in SchedT, NEW R, Closed(s, R), s.active \in R, NEW w, w.passed \in Seq(R)
    PROVE  LET u == Unflagged(s, w)
           IN  /\ Leads(u, s.loaded \ w.picks)
               /\ u.next = s.next /\ u.prev = s.prev /\ u.active \in R
               /\ u.counterActive = s.counterActive
<1>1. PICK a \in R : SteppedBack(s, w) = [s EXCEPT !.active = a]
  BY SteppedBackIs
<1>2. a \in Link
  BY DEF Closed, Link
<1>3. PICK x \in Int : x = s.preemptiveBytes - Bytes(s.loaded \cap w.picks)
  <2>1. s.loaded \cap w.picks \in SUBSET Chunk /\ s.preemptiveBytes \in Int
    BY Fields
  <2>2. Bytes(s.loaded \cap w.picks) \in Int
    BY <2>1, BytesType
  <2> QED BY <2>1, <2>2
<1>4. PICK y \in SUBSET Chunk : y = s.loaded \ w.picks
  BY Fields
<1>5. PICK u : u = [s EXCEPT !.active = a, !.loaded = y, !.preemptiveBytes = x]
  OBVIOUS
<1>6. Unflagged(s, w) = u
  BY <1>1, <1>3, <1>4, <1>5 DEF Unflagged, SchedT
<1>7. u \in SchedT /\ u.loaded = y /\ u.next = s.next /\ u.prev = s.prev /\ u.active = a
      /\ u.counterActive = s.counterActive
  BY <1>2, <1>3, <1>4, <1>5 DEF SchedT
<1> QED BY <1>4, <1>6, <1>7 DEF Leads

LEMMA SortedIs ==
    ASSUME NEW s \in SchedT, NEW from \in Chunk, NEW after \in Link, NEW f,
           f.sched \in SchedT, f.kept \in Seq(Chunk), f.out \in Seq(Chunk), f.kept # <<>> \/ f.out # <<>>
    PROVE  Leads(Sorted(s, from, after, f), f.sched.loaded)
<1> DEFINE Sets(v, b) == [v EXCEPT !.counterActive = b]
<1>1. ASSUME NEW v, Relinked(f.sched, v), NEW b \in Link
      PROVE  Leads([v EXCEPT !.counterActive = b], f.sched.loaded)
  <2>1. v \in SchedT /\ v.loaded = f.sched.loaded
    BY <1>1 DEF Relinked
  <2> QED BY <1>1, <2>1 DEF SchedT, Leads
<1>2. ASSUME NEW pos \in Link PROVE Relinked(f.sched, InsertBefore(f.sched, pos, f.out))
  BY InsertBeforeIs
<1>3. CASE f.kept = <<>> /\ after = from
  <2>1. Last(f.out) \in Chunk /\ Head(f.out) \in Chunk
    BY <1>3, Ends
  <2>2. <<Last(f.out), Head(f.out)>> \in Seq(Link)
    BY <2>1 DEF Link
  <2>3. Relinked(f.sched, Linked(f.sched, <<Last(f.out), Head(f.out)>>))
    BY <2>2, LinkedIs
  <2>4. s.active \in Link
    BY Fields
  <2>5. Sorted(s, from, after, f) = [Linked(f.sched, <<Last(f.out), Head(f.out)>>) EXCEPT !.counterActive = s.active]
    BY <1>3 DEF Sorted
  <2> QED BY <1>1, <2>3, <2>4, <2>5
<1>4. CASE f.kept = <<>> /\ after # from
  <2>1. s.prev[from] \in Link
    BY Fields
  <2>2. Sorted(s, from, after, f) = [InsertBefore(f.sched, after, f.out) EXCEPT !.counterActive = s.prev[from]]
    BY <1>4 DEF Sorted
  <2> QED BY <1>1, <1>2, <2>1, <2>2
<1>5. CASE f.kept # <<>>
  <2>1. Last(f.kept) \in Chunk
    BY <1>5, Ends
  <2>2. f.sched.next[Last(f.kept)] \in Link
    BY <2>1, Fields
  <2>3. PICK pos \in Link : pos = IF after = from THEN f.sched.next[Last(f.kept)] ELSE after
    BY <2>2
  <2>4. Sorted(s, from, after, f) = [InsertBefore(f.sched, pos, f.out) EXCEPT !.counterActive = Last(f.kept)]
    BY <1>5, <2>3 DEF Sorted
  <2>5. Last(f.kept) \in Link
    BY <2>1 DEF Link
  <2> QED BY <1>1, <1>2, <2>4, <2>5
<1> QED BY <1>3, <1>4, <1>5

LEMMA ActiveMovedIs ==
    ASSUME NEW s \in SchedT, NEW picks
    PROVE  Leads(ActiveMoved(s, picks), s.loaded)
<1>1. PICK a : a = IF s.active \in s.loaded THEN s.next[s.active]
                   ELSE IF status[s.active] \in Outside \/ s.active \in picks THEN s.counterActive
                   ELSE s.active
  OBVIOUS
<1>2. a \in Link
  BY <1>1, Fields
<1>3. ActiveMoved(s, picks) = [s EXCEPT !.active = a]
  BY <1>1 DEF ActiveMoved
<1> QED BY <1>2, <1>3 DEF SchedT, Leads

LEMMA SectionResetIs ==
    ASSUME NEW s \in SchedT, Chunk # {}
    PROVE  Leads(SectionReset(s), s.loaded)
<1>1. PICK n \in Nat \ {0} : n = Cardinality(Chunk)
  BY RingAssumption, FS_CardinalityType, FS_EmptySet
<1>2. PICK q : q = Backwards(s, s.active, n)
  OBVIOUS
<1>3. IsWalk(q, s.prev, s.active, n)
  BY <1>2, BackwardsIs
<1>4. DOMAIN q = 1..n /\ q[1] = s.active /\ \A i \in 1..n : i # 1 => q[i] = s.prev[q[i - 1]]
  BY <1>1, <1>3, WalkIs
<1>5. Len(q) = n
  <2>1. \A i \in 1..n : q[i] \in {q[j] : j \in 1..n}
    OBVIOUS
  <2>2. q = [i \in 1..n |-> q[i]]
    BY <1>3 DEF IsWalk
  <2>3. q \in [1..n -> {q[j] : j \in 1..n}]
    BY <2>1, <2>2
  <2> QED BY <2>3, AsSeq
<1>6. PICK stops : stops = {i \in 1..n : s.prev[q[i]] \notin s.loaded}
  OBVIOUS
<1>7. PICK k : k = IF stops = {} THEN n ELSE Min(stops)
  OBVIOUS
<1>8. k \in 1..n /\ \A i \in 1..n : i < k => s.prev[q[i]] \in s.loaded
  <2>1. CASE stops = {}
    BY <1>6, <1>7, <2>1
  <2>2. CASE stops # {}
    <3>1. stops \in SUBSET Nat /\ stops \in SUBSET (1..n)
      BY <1>6
    <3>2. Min(stops) \in stops /\ \A y \in stops : Min(stops) <= y
      BY <2>2, <3>1, MinIs
    <3> QED BY <1>6, <1>7, <2>2, <3>1, <3>2
  <2> QED BY <2>1, <2>2
<1>9. q[k] \in Link
  <2>1. CASE k = 1
    BY <1>4, <2>1, Fields
  <2>2. CASE k # 1
    <3>1. k - 1 \in 1..n /\ k - 1 < k
      BY <1>8, <2>2
    <3>2. q[k] = s.prev[q[k - 1]] /\ s.prev[q[k - 1]] \in s.loaded
      BY <1>4, <1>8, <2>2, <3>1
    <3> QED BY <3>2, Fields DEF Link
  <2> QED BY <2>1, <2>2
<1>10. SectionStart(s) = IF q[k] = s.active THEN None ELSE q[k]
  BY <1>1, <1>2, <1>5, <1>6, <1>7 DEF SectionStart
<1>11. SectionStart(s) \in Link
  BY <1>9, <1>10 DEF Link
<1>12. PICK z \in Link : z = SectionStart(s)
  BY <1>11
<1>13. SectionReset(s) = [s EXCEPT !.preemptiveStart = z]
  BY <1>12 DEF SectionReset
<1> QED BY <1>12, <1>13 DEF SchedT, Leads

LEMMA SwapOutReorderedIs ==
    ASSUME sched \in SchedT, RingWhole, Ring # {}, NEW w, w.passed \in Seq(Ring), w.passed # <<>>
    PROVE  Leads(SwapOutReordered(w), sched.loaded \ w.picks)
<1>1. Closed(sched, Ring) /\ sched.active \in Ring /\ sched.counterActive \in Ring /\ Ring \in SUBSET Chunk
  BY RingIs, RingClosed
<1>2. PICK s : s = Unflagged(sched, w)
  OBVIOUS
<1>3. /\ s \in SchedT /\ s.loaded = sched.loaded \ w.picks
      /\ s.next = sched.next /\ s.prev = sched.prev /\ s.active \in Ring
      /\ s.counterActive = sched.counterActive
  BY <1>1, <1>2, UnflaggedIs DEF Leads
<1>4. PICK from \in Ring : from = Last(w.passed)
  BY Ends
<1>5. PICK q : q = Stretch(s, from, s.counterActive)
  OBVIOUS
<1>6. q \in Seq(Chunk) /\ q # <<>>
  <2>1. Closed(s, Ring)
    BY <1>1, <1>3 DEF Closed
  <2>2. q \in Seq(Ring) /\ q # <<>>
    BY <1>5, <2>1, StretchSeq
  <2> QED BY <1>1, <2>2, SeqMonotonic
<1>7. PICK S : S = With(Outside) \cup w.picks
  OBVIOUS
<1>8. PICK f : f = FilterChain(s, q, S)
  OBVIOUS
<1>9. /\ f.sched \in SchedT /\ f.sched.loaded = s.loaded
      /\ f.kept \in Seq(Chunk) /\ f.out \in Seq(Chunk) /\ (f.kept # <<>> \/ f.out # <<>>)
  <2>1. Relinked(s, f.sched) /\ f.kept \in Seq(Chunk) /\ f.out \in Seq(Chunk) /\ (f.kept # <<>> \/ f.out # <<>>)
    BY <1>3, <1>6, <1>8, FilterChainIs
  <2> QED BY <2>1 DEF Relinked
<1>10. PICK after \in Link : after = s.next[s.counterActive]
  BY <1>1, <1>3, Fields
<1>11. PICK o : o = Sorted(s, from, after, f)
  OBVIOUS
<1>12. o \in SchedT /\ o.loaded = s.loaded
  <2>1. from \in Chunk
    BY <1>1
  <2> QED BY <1>3, <1>9, <1>11, <2>1, SortedIs DEF Leads
<1>13. PICK m : m = ActiveMoved(o, w.picks)
  OBVIOUS
<1>14. m \in SchedT /\ m.loaded = s.loaded
  BY <1>12, <1>13, ActiveMovedIs DEF Leads
<1>15. Leads(SectionReset(m), m.loaded)
  BY <1>1, <1>14, SectionResetIs
<1>16. SwapOutReordered(w) = IF sched.preemptiveStart \in w.picks THEN SectionReset(m) ELSE m
  BY <1>2, <1>4, <1>5, <1>7, <1>8, <1>10, <1>11, <1>13 DEF SwapOutReordered
<1> QED BY <1>3, <1>14, <1>15, <1>16 DEF Leads

LEMMA ShrunkIs ==
    ASSUME NEW s \in SchedT, s.preemptiveStart \in Chunk,
           s.prev[s.preemptiveStart] \in Chunk,
           NEW w, w.passed \in Seq(Chunk), w.cur \in Chunk
    PROVE  Leads(Shrunk(w, s), s.loaded)
<1> DEFINE Start(c) == IF c = sched.active THEN None ELSE c
<1>1. \A c \in Link : Start(c) \in Link
  BY DEF Link
<1>2. CASE Range(w.passed) \subseteq w.picks
  <2>1. PICK z \in Link : z = Start(w.cur)
    BY <1>1 DEF Link
  <2>2. Shrunk(w, s) = [s EXCEPT !.preemptiveStart = z]
    BY <1>2, <2>1 DEF Shrunk
  <2> QED BY <2>1, <2>2 DEF SchedT, Leads
<1>3. CASE ~ (Range(w.passed) \subseteq w.picks)
  <2>1. PICK q \in Seq(Chunk) : q = Append(w.passed, w.cur)
    <3>1. PICK p \in Seq(Chunk), x \in Chunk : p = w.passed /\ x = w.cur
      OBVIOUS
    <3>2. Append(p, x) \in Seq(Chunk)
      BY <3>1
    <3> QED BY <3>1, <3>2
  <2>2. q # <<>>
    <3>1. Len(q) = Len(w.passed) + 1 /\ Len(w.passed) \in Nat
      BY <2>1
    <3>2. Len(<<>>) = 0
      BY EmptySeq
    <3>3. ASSUME q = <<>> PROVE FALSE
      BY <3>1, <3>2, <3>3
    <3> QED BY <3>3
  <2>3. PICK S : S = With(Outside) \cup w.picks
    OBVIOUS
  <2>4. PICK f : f = FilterChain(s, q, S)
    OBVIOUS
  <2>5. Relinked(s, f.sched) /\ f.out \in Seq(Chunk)
    BY <2>2, <2>4, FilterChainIs
  <2>6. PICK start \in Link : start = f.sched.next[s.prev[s.preemptiveStart]]
    <3>1. f.sched \in SchedT
      BY <2>5 DEF Relinked
    <3> QED BY <3>1, Fields
  <2>7. PICK u : u = InsertBefore(f.sched, start, f.out)
    OBVIOUS
  <2>8. u \in SchedT /\ u.loaded = s.loaded
    <3>1. f.sched \in SchedT /\ f.sched.loaded = s.loaded
      BY <2>5 DEF Relinked
    <3>2. Relinked(f.sched, u)
      BY <2>5, <2>7, <3>1, InsertBeforeIs
    <3> QED BY <3>1, <3>2 DEF Relinked
  <2>9. PICK z \in Link : z = Start(start)
    BY <1>1
  <2>10. Shrunk(w, s) = [u EXCEPT !.preemptiveStart = z]
    BY <1>3, <2>1, <2>3, <2>4, <2>6, <2>7, <2>9 DEF Shrunk
  <2> QED BY <2>8, <2>9, <2>10 DEF SchedT, Leads
<1> QED BY <1>2, <1>3

LEMMA DecayedIs ==
    ASSUME sched \in SchedT, RingWhole, Ring # {}, sched.preemptiveStart # None,
           NEW w, w.passed \in Seq(Ring), w.cur \in Ring, w.picks \subseteq Chunk
    PROVE  Leads(Decayed(w), sched.loaded \ w.picks)
<1>1. /\ Ring \in SUBSET Chunk /\ sched.preemptiveStart \in Ring
      /\ sched.prev[sched.preemptiveStart] \in Ring
  BY RingIs
<1>2. PICK x \in Int : x = sched.preemptiveBytes - Bytes(w.picks)
  BY Fields, BytesType
<1>3. PICK y \in SUBSET Chunk : y = sched.loaded \ w.picks
  BY Fields
<1>4. PICK s : s = [sched EXCEPT !.loaded = y, !.preemptiveBytes = x]
  OBVIOUS
<1>5. s \in SchedT /\ s.loaded = y /\ s.preemptiveStart = sched.preemptiveStart /\ s.prev = sched.prev
  BY <1>2, <1>3, <1>4 DEF SchedT
<1>6. Decayed(w) = Shrunk(w, s)
  BY <1>2, <1>3, <1>4 DEF Decayed
<1>7. w.passed \in Seq(Chunk) /\ w.cur \in Chunk
  BY <1>1, SeqMonotonic
<1>8. Leads(Shrunk(w, s), s.loaded)
  BY <1>1, <1>5, <1>7, ShrunkIs
<1> QED BY <1>3, <1>5, <1>6, <1>8

-----------------------------------------------------------------------------
(* swapIn: the flags afterwards are old ones and those of the guesses.     *)

LEMMA FlaggedIs ==
    ASSUME NEW s \in SchedT, NEW c \in Chunk, NEW w, w.guesses \subseteq Chunk,
           w.picks \subseteq Chunk, w.bytes \in Int
    PROVE  Leads(Flagged(s, c, w), (s.loaded \cup w.guesses) \ (w.picks \ w.guesses))
<1>1. PICK x \in Int : x = s.preemptiveBytes + w.bytes - Size[c]
  BY Fields, Sizes
<1>2. PICK y \in SUBSET Chunk : y = (s.loaded \cup w.guesses) \ (w.picks \ w.guesses)
  BY Fields
<1>3. PICK z \in Int : z = Smaller(Cardinality(w.picks) - 1, 2)
  <2>1. Cardinality(w.picks) \in Nat
    BY CellsFinite, FS_CardinalityType
  <2>2. \A n \in Nat : Smaller(n - 1, 2) \in Int
    BY DEF Smaller
  <2> QED BY <2>1, <2>2
<1>4. PICK a \in Link : a = IF s.active = c THEN s.next[s.active] ELSE s.active
  BY Fields
<1>5. Flagged(s, c, w) = [s EXCEPT !.loaded = y, !.preemptiveBytes = x, !.sinceLast = z, !.active = a]
  BY <1>1, <1>2, <1>3, <1>4 DEF Flagged
<1> QED BY <1>1, <1>2, <1>3, <1>4, <1>5 DEF SchedT, Leads

LEMMA InsertedIs ==
    ASSUME NEW s \in SchedT, NEW cyclic, NEW readEl \in Link, NEW first \in Link, NEW f,
           f.kept \in Seq(Chunk), f.out \in Seq(Chunk), f.kept # <<>> \/ f.out # <<>>
    PROVE  Leads(Inserted(s, cyclic, readEl, first, f), s.loaded)
<1>1. PICK z \in Link : z = IF s.preemptiveStart = None THEN first ELSE s.preemptiveStart
  BY Fields
<1>2. PICK u : u = [s EXCEPT !.preemptiveStart = z]
  OBVIOUS
<1>3. u \in SchedT /\ u.loaded = s.loaded /\ u.active = s.active
  BY <1>1, <1>2 DEF SchedT
<1>4. Inserted(s, cyclic, readEl, first, f) =
         IF ~ cyclic THEN InsertBefore(u, u.active, f.out)
         ELSE [IF f.kept # <<>> THEN InsertBefore(u, Head(f.kept), f.out)
               ELSE Linked(u, <<Last(f.out), Head(f.out)>>) EXCEPT !.counterActive = readEl]
  BY <1>1, <1>2, <1>3 DEF Inserted
<1>5. Relinked(u, InsertBefore(u, u.active, f.out))
  BY <1>3, Fields, InsertBeforeIs
<1>6. PICK v : v = IF f.kept # <<>> THEN InsertBefore(u, Head(f.kept), f.out)
                   ELSE Linked(u, <<Last(f.out), Head(f.out)>>)
  OBVIOUS
<1>7. Relinked(u, v)
  <2>1. CASE f.kept # <<>>
    <3>1. Head(f.kept) \in Link
      BY <2>1, Ends DEF Link
    <3> QED BY <1>3, <1>6, <2>1, <3>1, InsertBeforeIs
  <2>2. CASE f.kept = <<>>
    <3>1. Last(f.out) \in Chunk /\ Head(f.out) \in Chunk
      BY <2>2, Ends
    <3>2. <<Last(f.out), Head(f.out)>> \in Seq(Link)
      BY <3>1 DEF Link
    <3> QED BY <1>3, <1>6, <2>2, <3>2, LinkedIs
  <2> QED BY <2>1, <2>2
<1>8. v \in SchedT /\ v.loaded = s.loaded
  BY <1>3, <1>7 DEF Relinked
<1>9. Leads([v EXCEPT !.counterActive = readEl], s.loaded)
  BY <1>8 DEF SchedT, Leads
<1>10. Leads(InsertBefore(u, u.active, f.out), s.loaded)
  BY <1>3, <1>5 DEF Relinked, Leads
<1> QED BY <1>4, <1>6, <1>9, <1>10

LEMMA SwapInReorderedIs ==
    ASSUME sched \in SchedT, NEW c \in Chunk, NEW w, w.guesses \subseteq Chunk, w.picks \subseteq Chunk,
           w.bytes \in Int, w.passed \in Seq(Chunk), w.passed # <<>>
    PROVE  Leads(SwapInReordered(c, w), ((sched.loaded \cup w.guesses) \ (w.picks \ w.guesses)) \ {c})
<1>1. PICK s : s = Flagged(sched, c, w)
  OBVIOUS
<1>2. s \in SchedT /\ s.loaded = (sched.loaded \cup w.guesses) \ (w.picks \ w.guesses)
  BY <1>1, FlaggedIs DEF Leads
<1>3. PICK q : q = Reverse(w.passed)
  OBVIOUS
<1>4. q \in Seq(Chunk) /\ q # <<>>
  BY <1>3, Reversed
<1>5. PICK S : S = With(Present) \cup w.picks
  OBVIOUS
<1>6. PICK f : f = FilterChain(s, q, S)
  OBVIOUS
<1>7. /\ f.sched \in SchedT /\ f.sched.loaded = s.loaded
      /\ f.kept \in Seq(Chunk) /\ f.out \in Seq(Chunk) /\ (f.kept # <<>> \/ f.out # <<>>)
  <2>1. Relinked(s, f.sched) /\ f.kept \in Seq(Chunk) /\ f.out \in Seq(Chunk) /\ (f.kept # <<>> \/ f.out # <<>>)
    BY <1>2, <1>4, <1>6, FilterChainIs
  <2> QED BY <2>1 DEF Relinked
<1>8. PICK last \in Link : last = Last(w.passed)
  BY Ends DEF Link
<1>9. PICK first \in Link : first = IF f.out # <<>> /\ Head(f.out) \in s.loaded THEN Head(f.out) ELSE None
  <2>1. f.out # <<>> => Head(f.out) \in Chunk
    BY <1>7, Ends
  <2> QED BY <2>1 DEF Link
<1>10. PICK cyclic : cyclic = (s.next[c] = Last(w.passed))
  OBVIOUS
<1>11. PICK u : u = Inserted(f.sched, cyclic, last, first, f)
  OBVIOUS
<1>12. u \in SchedT /\ u.loaded = s.loaded
  BY <1>7, <1>11, InsertedIs DEF Leads
<1>13. SwapInReordered(c, w) = Touch(u, c)
  BY <1>1, <1>3, <1>5, <1>6, <1>8, <1>9, <1>10, <1>11 DEF SwapInReordered
<1> QED BY <1>2, <1>12, <1>13, TouchIs

LEMMA BorderFixedIs ==
    ASSUME NEW s \in SchedT, NEW picks
    PROVE  Leads(BorderFixed(s, picks), s.loaded)
BY Fields DEF BorderFixed, SchedT, Leads

-----------------------------------------------------------------------------
(* A step of one thread, and what the others rely on.                      *)

StatusT == [Chunk -> Present \cup Outside \cup {"ABSENT"}]

\* Thread t goes on to p with locals f; no other thread is in the middle of a piece.
Moves(t, p, f) ==
    /\ lock \in {NoThread, t} /\ lock' \in {NoThread, t}
    /\ pc' = [pc EXCEPT ![t] = p] /\ frame' = [frame EXCEPT ![t] = f]

\* What who uses a chunk, allocates it or frees it relies on.
Keeps(c) ==
    /\ c \in Ring => c \in Ring'
    /\ c \in Chunk => (status[c] = "ABSENT" <=> status'[c] = "ABSENT")
    /\ c \in Chunk /\ useCnt[c] # 0 /\ status[c] \in {"ALLOCATED", "INUSE"}
           => status'[c] \in {"ALLOCATED", "INUSE"}

LEMMA MovesIs ==
    ASSUME Types, NEW t \in Thread, NEW p \in PcT, NEW f \in FrameT, Moves(t, p, f)
    PROVE  /\ pc' \in [Thread -> PcT] /\ frame' \in [Thread -> FrameT]
           /\ lock' \in Thread \cup {NoThread}
           /\ pc'[t] = p /\ frame'[t] = f
           /\ \A u \in Thread \ {t} : pc'[u] = pc[u] /\ frame'[u] = frame[u] /\ lock # u
BY RingAssumption DEF Types, Moves

LEMMA FrameIs == ASSUME Types, NEW t \in Thread
                 PROVE  frame[t].chunk \in Link /\ frame[t] \in FrameT /\ pc[t] \in PcT
BY DEF Types, FrameT

\* Who has a use counted is counted.
LEMMA UsedCounts ==
    ASSUME Types, Counted, NEW u \in Thread, pc[u] \in UsePcs, frame[u].chunk \in Chunk
    PROVE  useCnt[frame[u].chunk] # 0
<1>1. PICK c \in Chunk : c = frame[u].chunk
  OBVIOUS
<1>2. u \in UsersOf(c) /\ UsersOf(c) \subseteq Thread
  BY <1>1 DEF UsersOf
<1>3. IsFiniteSet(UsersOf(c))
  BY <1>2, RingAssumption, FS_Subset
<1>4. Cardinality(UsersOf(c)) # 0
  BY <1>2, <1>3, FS_EmptySet
<1> QED BY <1>1, <1>4 DEF Counted

LEMMA ThreadKept ==
    ASSUME Types, Counted, NEW u \in Thread, ThreadOK(u), lock # u,
           pc'[u] = pc[u], frame'[u] = frame[u], Keeps(frame[u].chunk),
           pc[u] \in {"mmalloc", "mfree"} => \A v \in Thread : v # u => frame'[v].chunk # frame[u].chunk
    PROVE  ThreadOK(u)'
<1>1. PICK c : c = frame[u].chunk
  OBVIOUS
<1>2. c = frame'[u].chunk /\ frame'[u].target = frame[u].target
  BY <1>1
<1>3. pc[u] \notin {"untouch", "readPlain"}
  BY DEF ThreadOK
<1>4. pc[u] \in UsePcs => c \in Ring' /\ c \in Chunk
  <2>1. c \in Ring => c \in Chunk
    BY DEF Ring, MemChunks
  <2> QED BY <1>1, <2>1 DEF ThreadOK, Keeps
<1>5. pc[u] = "using" => status'[c] \in {"ALLOCATED", "INUSE"}
  <2>1. pc[u] = "using" => pc[u] \in UsePcs /\ status[c] \in {"ALLOCATED", "INUSE"}
    BY <1>1 DEF ThreadOK, UsePcs
  <2>2. pc[u] = "using" => useCnt[c] # 0
    BY <1>1, <1>4, <2>1, UsedCounts
  <2> QED BY <1>1, <1>4, <2>1, <2>2 DEF Keeps
<1>6. pc[u] \in {"mmalloc", "mfree"} => c \in Chunk
  BY <1>1 DEF ThreadOK
<1>7. /\ pc[u] = "mmalloc" => status'[c] = "ABSENT"
      /\ pc[u] = "mfree" => status'[c] # "ABSENT"
  BY <1>1, <1>6 DEF ThreadOK, Keeps
<1>8. /\ pc[u] \in {"idle", "untouch"} => c = None
      /\ pc[u] \in {"plain", "readPlain"} => frame[u].target = Size[c]
  BY <1>1 DEF ThreadOK
<1> QED BY <1>1, <1>2, <1>3, <1>4, <1>5, <1>6, <1>7, <1>8 DEF ThreadOK

\* f holds a chunk that nobody allocates or frees, except t.
Clear(t, f) == \A u \in Thread \ {t} : pc[u] \in {"mmalloc", "mfree"} => frame[u].chunk # f.chunk

LEMMA ClearIs ==
    ASSUME \A u \in Thread : ThreadOK(u), NEW t \in Thread, NEW f
    PROVE  f.chunk \in {None, frame[t].chunk} => Clear(t, f)
BY RingAssumption DEF ThreadOK, Clear

LEMMA OthersKept ==
    ASSUME Types, Counted, \A u \in Thread : ThreadOK(u),
           NEW t \in Thread, NEW p \in PcT, NEW f \in FrameT, Moves(t, p, f), Clear(t, f),
           \A u \in Thread \ {t} : Keeps(frame[u].chunk)
    PROVE  \A u \in Thread \ {t} : ThreadOK(u)'
<1>1. SUFFICES ASSUME NEW u \in Thread \ {t} PROVE ThreadOK(u)'
  OBVIOUS
<1>2. /\ pc'[u] = pc[u] /\ frame'[u] = frame[u] /\ lock # u
      /\ frame'[t] = f /\ \A v \in Thread \ {t} : frame'[v] = frame[v]
  BY MovesIs
<1>3. ASSUME pc[u] \in {"mmalloc", "mfree"}, NEW v \in Thread, v # u
      PROVE  frame'[v].chunk # frame[u].chunk
  <2>1. CASE v = t
    BY <1>2, <1>3, <2>1 DEF Clear
  <2>2. CASE v # t
    <3>1. frame[v].chunk # frame[u].chunk
      BY <1>3 DEF ThreadOK
    <3> QED BY <1>2, <2>2, <3>1
  <2> QED BY <2>1, <2>2
<1> QED BY <1>2, <1>3, ThreadKept

LEMMA DeletionKept ==
    ASSUME Types, NEW t \in Thread, NEW p \in PcT, NEW f \in FrameT, Moves(t, p, f),
           pc[t] # "mfree", p # "mfree"
    PROVE  InDeletion' = InDeletion
<1>1. \A u \in Thread : pc'[u] = "mfree" <=> pc[u] = "mfree"
  BY MovesIs
<1>2. \A u \in Thread : pc[u] = "mfree" => frame'[u] = frame[u]
  BY MovesIs
<1> QED BY <1>1, <1>2 DEF InDeletion

LEMMA UsersKept ==
    ASSUME Types, Counted, NEW t \in Thread, NEW p \in PcT, NEW f \in FrameT, Moves(t, p, f),
           p \in UsePcs <=> pc[t] \in UsePcs, pc[t] \in UsePcs => f.chunk = frame[t].chunk,
           useCnt' = useCnt
    PROVE  Counted'
<1>1. \A u \in Thread : pc'[u] \in UsePcs <=> pc[u] \in UsePcs
  BY MovesIs
<1>2. \A u \in Thread : pc[u] \in UsePcs => frame'[u].chunk = frame[u].chunk
  BY MovesIs
<1>3. \A c : UsersOf(c)' = UsersOf(c)
  BY <1>1, <1>2 DEF UsersOf
<1> QED BY <1>3 DEF Counted

\* A step that takes no chunk into the ring or out of it, and no use.
Ordinary(t, p, f) ==
    /\ Moves(t, p, f) /\ "mfree" \notin {p, pc[t]}
    /\ useCnt' = useCnt /\ leaked' = leaked
    /\ p \in UsePcs <=> pc[t] \in UsePcs
    /\ pc[t] \in UsePcs => f.chunk = frame[t].chunk
    /\ Clear(t, f)
    /\ sched' \in SchedT /\ status' \in StatusT
    /\ \A c \in Chunk : status[c] = "ABSENT" <=> status'[c] = "ABSENT"
    /\ \A c \in Chunk : useCnt[c] # 0 /\ status[c] \in {"ALLOCATED", "INUSE"}
                           => status'[c] \in {"ALLOCATED", "INUSE"}
    /\ Ring # {} \/ sched' = sched

LEMMA OrdinaryKeeps ==
    ASSUME RingInv, NEW t \in Thread, NEW p \in PcT, NEW f \in FrameT, Ordinary(t, p, f)
    PROVE  /\ Types' /\ Counted' /\ EmptyRing' /\ Ring' = Ring /\ InDeletion' = InDeletion
           /\ pc'[t] = p /\ frame'[t] = f
           /\ \A u \in Thread \ {t} : ThreadOK(u)'
<1>1. Types /\ Counted /\ EmptyRing /\ \A u \in Thread : ThreadOK(u)
  BY DEF RingInv
<1>2. Moves(t, p, f) /\ p # "mfree" /\ pc[t] # "mfree"
  BY DEF Ordinary
<1>3. InDeletion' = InDeletion
  BY <1>1, <1>2, DeletionKept
<1>4. MemChunks' = MemChunks
  BY DEF MemChunks, Ordinary
<1>5. Ring' = Ring
  BY <1>3, <1>4 DEF Ring
<1>6. \A u \in Thread \ {t} : Keeps(frame[u].chunk)
  BY <1>5 DEF Keeps, Ordinary
<1>7. \A u \in Thread \ {t} : ThreadOK(u)'
  BY <1>1, <1>2, <1>6, OthersKept DEF Ordinary
<1>8. Counted'
  BY <1>1, <1>2, UsersKept DEF Ordinary
<1>9. Types'
  BY <1>1, <1>2, MovesIs DEF Types, Ordinary, StatusT
<1>10. EmptyRing'
  BY <1>1, <1>5 DEF EmptyRing, Ordinary
<1> QED BY <1>1, <1>2, <1>3, <1>5, <1>7, <1>8, <1>9, <1>10, MovesIs

\* What is left to show of such a step.
LEMMA OrdinaryInv ==
    ASSUME RingInv, NEW t \in Thread, NEW p \in PcT, NEW f \in FrameT, Ordinary(t, p, f),
           Marked', BudgetKept', ThreadOK(t)'
    PROVE  RingInv'
BY OrdinaryKeeps DEF RingInv

-----------------------------------------------------------------------------
(* The memory in use, and the marks.                                       *)

Held == With(Present \cup {"SWAPOUT"})

LEMMA HeldIs == Held \in SUBSET Chunk /\ Held' \in SUBSET Chunk
BY DEF Held, With

LEMMA BudgetStays ==
    ASSUME Types, BudgetKept, leaked' = leaked, Held' \subseteq Held
    PROVE  BudgetKept'
<1>0. PICK S \in SUBSET Chunk : S = Held
  BY HeldIs
<1>1. PICK T \in SUBSET S : T = Held'
  BY <1>0
<1>2. Bytes(T) <= Bytes(S)
  BY BytesMono
<1>3. Bytes(T) \in Nat /\ Bytes(S) \in Nat
  BY BytesType
<1>4. memory_used = Bytes(S) + leaked /\ memory_used' = Bytes(T) + leaked
  BY <1>0, <1>1 DEF memory_used, Held
<1> QED BY <1>2, <1>3, <1>4, RingAssumption DEF Types, BudgetKept

LEMMA BudgetGrows ==
    ASSUME Types, BudgetKept, leaked' = leaked, NEW S \in SUBSET Chunk, Held' \subseteq Held \cup S,
           Bytes(S) = 0 \/ Bytes(S) + memory_used <= MemoryMax
    PROVE  BudgetKept'
<1>1. PICK H \in SUBSET Chunk : H = Held
  BY HeldIs
<1>2. PICK U \in SUBSET Chunk : U = H \cup S
  OBVIOUS
<1>3. PICK T \in SUBSET U : T = Held'
  BY <1>1, <1>2
<1>4. Bytes(T) <= Bytes(U) /\ Bytes(U) <= Bytes(H) + Bytes(S)
  BY <1>2, BytesMono, BytesPlus
<1>5. Bytes(T) \in Nat /\ Bytes(U) \in Nat /\ Bytes(H) \in Nat /\ Bytes(S) \in Nat
  BY BytesType
<1>6. memory_used = Bytes(H) + leaked /\ memory_used' = Bytes(T) + leaked
  BY <1>1, <1>3 DEF memory_used, Held
<1> QED BY <1>4, <1>5, <1>6, RingAssumption DEF Types, BudgetKept

\* Unused chunks are given up: swapOut or decay.
Evicts ==
    /\ sched' \in SchedT /\ status' \in StatusT
    /\ \A c \in Chunk : status'[c] = status[c] \/ (c \in Unused /\ status'[c] \in Outside)
    /\ sched'.loaded \subseteq sched.loaded /\ \A c \in sched'.loaded : status'[c] = status[c]
    /\ cached' \subseteq cached /\ \A c \in cached' : status'[c] = status[c]

LEMMA EvictsNothing == Types /\ UNCHANGED <<sched, status, cached>> => Evicts
BY DEF Types, Evicts, StatusT

LEMMA EvictsKeeps ==
    ASSUME RingInv, Evicts, leaked' = leaked, InDeletion' = InDeletion
    PROVE  Marked' /\ BudgetKept'
<1>1. Types /\ Marked /\ BudgetKept
  BY DEF RingInv
<1>2. Held' \subseteq Held
  <2>1. ASSUME NEW c \in Chunk, status'[c] \in Present \cup {"SWAPOUT"}
        PROVE  status[c] \in Present \cup {"SWAPOUT"}
    BY <2>1 DEF Evicts, Unused, Present, Outside
  <2> QED BY <2>1 DEF Held, With
<1>3. BudgetKept'
  BY <1>1, <1>2, BudgetStays
<1>4. ASSUME NEW c \in sched'.loaded
      PROVE  c \in Chunk /\ status'[c] \notin Outside \cup {"ABSENT"} /\ c \notin InDeletion'
  <2>1. c \in sched.loaded /\ status'[c] = status[c] /\ c \in Chunk
    BY <1>1, Fields DEF Evicts, Types
  <2> QED BY <1>1, <2>1 DEF Marked, With
<1>5. ASSUME NEW c \in cached'
      PROVE  c \in Chunk /\ status'[c] \in {"ALLOCATED", "INUSE"}
  BY <1>1 DEF Evicts, Marked, With
<1> QED BY <1>3, <1>4, <1>5 DEF Marked, With

LEMMA EvictsOrdinary ==
    ASSUME Types, Evicts
    PROVE  /\ \A c \in Chunk : status[c] = "ABSENT" <=> status'[c] = "ABSENT"
           /\ \A c \in Chunk : useCnt[c] # 0 /\ status[c] \in {"ALLOCATED", "INUSE"}
                                  => status'[c] \in {"ALLOCATED", "INUSE"}
BY DEF Evicts, Unused, Outside

LEMMA UnloadIs ==
    ASSUME RingInv, NEW picks \in SUBSET Unused, Unload(picks),
           sched' \in SchedT, sched'.loaded \subseteq sched.loaded \ picks
    PROVE  Evicts
<1>1. Types /\ cached \subseteq Chunk
  BY DEF RingInv, Marked, With
<1>2. ASSUME NEW c \in Chunk
      PROVE  /\ c \in picks => status'[c] \in Outside /\ c \in Unused
             /\ c \notin picks => status'[c] = status[c]
  BY DEF Unload, Outside
<1>3. status' \in StatusT
  <2>1. status' = [c \in Chunk |-> status'[c]]
    BY DEF Unload
  <2>2. \A c \in Chunk : status'[c] \in Present \cup Outside \cup {"ABSENT"}
    BY <1>1, <1>2 DEF Types
  <2> QED BY <2>1, <2>2 DEF StatusT
<1>4. \A c \in sched'.loaded : status'[c] = status[c]
  BY <1>2, Fields
<1>5. cached' \subseteq cached /\ \A c \in cached' : c \notin picks
  BY DEF Unload
<1>6. \A c \in cached' : status'[c] = status[c]
  BY <1>1, <1>2, <1>5
<1> QED BY <1>2, <1>3, <1>4, <1>5, <1>6 DEF Evicts

LEMMA SwapOutIs ==
    ASSUME RingInv, RingWhole, Ring # {}, NEW min, NEW ok, SwapOut(min, ok)
    PROVE  Evicts
<1> DEFINE w == SwapOutWalk(min)
<1>1. Types
  BY DEF RingInv
<1>2. CASE UNCHANGED <<sched, status, cached>>
  BY <1>1, <1>2, EvictsNothing
<1>3. CASE UNCHANGED <<sched, status>> /\ cached' \subseteq cached
  BY <1>1, <1>3 DEF Types, Evicts, StatusT
<1>4. CASE w.bytes # 0 /\ sched' = SwapOutReordered(w) /\ Unload(w.picks)
  <2>1. PICK v : v = w
    OBVIOUS
  <2>2. v.picks \subseteq Unused /\ v.passed \in Seq(Ring) /\ v.passed # <<>>
    BY <1>4, <2>1, SwapOutWalkIs
  <2>3. Leads(SwapOutReordered(v), sched.loaded \ v.picks)
    BY <1>1, <2>2, SwapOutReorderedIs DEF Types
  <2>4. sched' \in SchedT /\ sched'.loaded \subseteq sched.loaded \ v.picks
    BY <1>4, <2>1, <2>3 DEF Leads
  <2> QED BY <1>4, <2>1, <2>2, <2>4, UnloadIs
<1>5. \/ UNCHANGED <<sched, status, cached>>
      \/ UNCHANGED <<sched, status>> /\ cached' \subseteq cached
      \/ w.bytes # 0 /\ sched' = SwapOutReordered(w) /\ Unload(w.picks)
  BY DEF SwapOut
<1> QED BY <1>2, <1>3, <1>4, <1>5

\* A step that gives up unused chunks at most.
LEMMA EvictsInv ==
    ASSUME RingInv, NEW t \in Thread, NEW p \in PcT, NEW f \in FrameT,
           Moves(t, p, f), "mfree" \notin {p, pc[t]}, useCnt' = useCnt, leaked' = leaked,
           p \in UsePcs <=> pc[t] \in UsePcs, pc[t] \in UsePcs => f.chunk = frame[t].chunk,
           Clear(t, f), Evicts, Ring # {} \/ sched' = sched
    PROVE  /\ Ordinary(t, p, f) /\ Ring' = Ring /\ pc'[t] = p /\ frame'[t] = f
           /\ ThreadOK(t)' => RingInv'
<1>1. Types
  BY DEF RingInv
<1>2. Ordinary(t, p, f)
  BY <1>1, EvictsOrdinary DEF Ordinary, Evicts
<1>3. InDeletion' = InDeletion /\ Ring' = Ring /\ pc'[t] = p /\ frame'[t] = f
  BY <1>2, OrdinaryKeeps
<1>4. Marked' /\ BudgetKept'
  BY <1>3, EvictsKeeps
<1> QED BY <1>2, <1>3, <1>4, OrdinaryInv

-----------------------------------------------------------------------------
(* Each action keeps the invariant.  First those that change neither uses  *)
(* nor the ring's members.                                                 *)

LEMMA Locals ==
    ASSUME NEW f \in FrameT
    PROVE  /\ \A x \in Int : /\ [f EXCEPT !.target = x] \in FrameT
                             /\ [f EXCEPT !.target = x].chunk = f.chunk
                             /\ [f EXCEPT !.target = x].target = x
           /\ \A b \in Link : /\ [f EXCEPT !.border = b] \in FrameT
                              /\ [f EXCEPT !.border = b].chunk = f.chunk
           /\ \A v \in {"no", "now", "yes"} :
                 /\ [f EXCEPT !.cleaned = v] \in FrameT
                 /\ [f EXCEPT !.cleaned = v].chunk = f.chunk
                 /\ [f EXCEPT !.cleaned = v].target = f.target
           /\ Idle \in FrameT /\ Idle.chunk = None
           /\ f.chunk \in Link /\ f.target \in Int
BY DEF FrameT, Idle, Link

LEMMA FrameSame ==
    ASSUME Types, NEW t \in Thread
    PROVE  /\ frame' = frame => frame' = [frame EXCEPT ![t] = frame[t]]
           /\ pc' = pc => pc' = [pc EXCEPT ![t] = pc[t]]
BY DEF Types

LEMMA Amounts ==
    ASSUME Types
    PROVE  /\ memory_used \in Nat /\ memory_tobefreed \in Nat /\ SwapFree \in Int
           /\ sched.preemptiveBytes \in Int
           /\ \A c \in Chunk : Size[c] \in Nat
           /\ {MemoryMax, SwapOutTarget, MaxPreemptive, KeepFree} \subseteq Nat
<1>1. \A S : With(S) \in SUBSET Chunk
  BY DEF With
<1>2. memory_tobefreed \in Nat /\ Bytes(With(Outside \cup {"SWAPIN"})) \in Nat
  BY <1>1, BytesType DEF memory_tobefreed
<1>3. SwapFree \in Int
  BY <1>2, RingAssumption DEF SwapFree
<1> QED BY <1>2, <1>3, UsedIs, Fields, Sizes, RingAssumption DEF Types

LEMMA InUse ==
    ASSUME RingInv, NEW t \in Thread, pc[t] \in UsePcs
    PROVE  /\ frame[t].chunk \in Ring /\ frame[t].chunk \in Chunk /\ Ring # {}
           /\ status[frame[t].chunk] \in Present \cup Outside
           /\ frame[t] \in FrameT
<1>1. frame[t].chunk \in Ring
  BY DEF RingInv, ThreadOK
<1>2. frame[t].chunk \in Chunk /\ status[frame[t].chunk] # "ABSENT"
  BY <1>1 DEF Ring, MemChunks
<1> QED BY <1>1, <1>2, FrameIs DEF RingInv, Types

LEMMA SwapInPlanInv ==
    ASSUME RingInv, NEW t \in Thread, SwapInPlan(t)
    PROVE  RingInv'
<1> DEFINE c == frame[t].chunk
           target == Size[c] + MaxPreemptive - sched.preemptiveBytes
           preemptive == PreemptiveSwapIn /\ SwapFree * 100 > SwapSize
<1>1. Types /\ pc[t] = "plan" /\ pc[t] \in UsePcs
  BY DEF RingInv, SwapInPlan, At, UsePcs
<1>2. c \in Ring /\ c \in Chunk /\ Ring # {} /\ frame[t] \in FrameT
  BY <1>1, InUse
<1>3. PICK x \in Int : x = IF preemptive THEN target ELSE Size[c]
  BY <1>1, <1>2, Amounts
<1>4. PICK f : f = [frame[t] EXCEPT !.target = x]
  OBVIOUS
<1>5. f \in FrameT /\ f.chunk = c /\ f.target = x
  BY <1>2, <1>4, Locals
<1>6. PICK p : p = IF ~ preemptive THEN "plain"
                   ELSE IF target + memory_used > MemoryMax THEN "evict" ELSE "read"
  OBVIOUS
<1>7. p \in PcT /\ p \in UsePcs /\ p # "mfree" /\ p \notin {"idle", "untouch", "using", "mmalloc", "mfree", "readPlain"}
  BY <1>6 DEF PcT, UsePcs
<1>8. Moves(t, p, f) /\ UNCHANGED <<sched, status, useCnt, cached, leaked>>
  BY <1>3, <1>4, <1>6 DEF SwapInPlan, At, Goto, SetFrame, Moves
<1>9. Clear(t, f)
  BY <1>5, ClearIs DEF RingInv
<1>10. Evicts
  BY <1>1, <1>8, EvictsNothing
<1>11. Ring' = Ring /\ pc'[t] = p /\ frame'[t] = f /\ (ThreadOK(t)' => RingInv')
  BY <1>1, <1>2, <1>5, <1>7, <1>8, <1>9, <1>10, EvictsInv
<1>12. p = "plain" => x = Size[c]
  BY <1>3, <1>6
<1>13. ThreadOK(t)'
  BY <1>2, <1>5, <1>7, <1>11, <1>12 DEF ThreadOK
<1> QED BY <1>11, <1>13

LEMMA SwapInEvictInv ==
    ASSUME RingInv, NEW t \in Thread, SwapInEvict(t)
    PROVE  RingInv'
<1> DEFINE c == frame[t].chunk
           target == Size[c] + (MemoryMax - SwapOutTarget) - sched.preemptiveBytes
<1>1. Types /\ pc[t] = "evict" /\ pc[t] \in UsePcs /\ RingWhole
  BY DEF RingInv, SwapInEvict, At, UsePcs
<1>2. c \in Ring /\ c \in Chunk /\ Ring # {} /\ frame[t] \in FrameT
  BY <1>1, InUse
<1>3. PICK ok \in BOOLEAN : SwapOut(target, ok) /\ SetFrame(t, [frame[t] EXCEPT !.target = IF ok THEN target ELSE Size[c]])
  BY DEF SwapInEvict
<1>4. PICK x \in Int : x = IF ok THEN target ELSE Size[c]
  BY <1>1, <1>2, Amounts
<1>5. PICK f : f = [frame[t] EXCEPT !.target = x]
  OBVIOUS
<1>6. f \in FrameT /\ f.chunk = c
  BY <1>2, <1>4, <1>5, Locals
<1>7. "room" \in PcT /\ "room" \in UsePcs
  BY DEF PcT, UsePcs
<1>8. Moves(t, "room", f) /\ UNCHANGED <<useCnt, leaked>>
  BY <1>3, <1>4, <1>5 DEF SwapInEvict, At, Goto, SetFrame, Moves
<1>9. Clear(t, f)
  BY <1>6, ClearIs DEF RingInv
<1>10. Evicts
  <2>1. PICK y : y = target
    OBVIOUS
  <2> QED BY <1>1, <1>2, <1>3, <2>1, SwapOutIs
<1>11. Ring' = Ring /\ pc'[t] = "room" /\ frame'[t] = f /\ (ThreadOK(t)' => RingInv')
  BY <1>1, <1>2, <1>6, <1>7, <1>8, <1>9, <1>10, EvictsInv
<1>12. ThreadOK(t)'
  BY <1>2, <1>6, <1>11 DEF ThreadOK
<1> QED BY <1>11, <1>12

LEMMA SwapInBeginInv ==
    ASSUME RingInv, NEW t \in Thread, SwapInBegin(t)
    PROVE  RingInv'
<1> DEFINE decays == /\ sched.preemptiveStart # None
                     /\ sched.consecutive = 2 \/ sched.sinceLast <= 1
<1>1. Types /\ pc[t] = "await" /\ pc[t] \in UsePcs /\ RingWhole /\ sched \in SchedT
  BY DEF RingInv, SwapInBegin, At, UsePcs, Types
<1>2. frame[t].chunk \in Ring /\ Ring # {} /\ frame[t] \in FrameT /\ Ring \subseteq Chunk
  BY <1>1, InUse DEF Ring, MemChunks
<1>3. PICK w : w = DecayWalk
  OBVIOUS
<1>4. PICK s : s = IF decays /\ w.passed # <<>> THEN Decayed(w) ELSE sched
  OBVIOUS
<1>5. decays => /\ w.picks \subseteq Unused
                /\ s \in SchedT /\ s.loaded \subseteq sched.loaded \ w.picks
  <2>1. SUFFICES ASSUME decays PROVE w.picks \subseteq Unused /\ s \in SchedT /\ s.loaded \subseteq sched.loaded \ w.picks
    OBVIOUS
  <2>2. w.picks \subseteq Unused /\ w.passed \in Seq(Ring) /\ w.cur \in Ring /\ (w.passed = <<>> => w.picks = {})
    BY <1>1, <1>2, <1>3, <2>1, DecayWalkIs
  <2>3. w.picks \subseteq Chunk
    BY <1>2, <2>2 DEF Unused
  <2>4. Leads(Decayed(w), sched.loaded \ w.picks)
    BY <1>1, <1>2, <2>1, <2>2, <2>3, DecayedIs
  <2> QED BY <1>1, <1>4, <2>1, <2>2, <2>4 DEF Leads
<1>6. ~ decays => s = sched
  BY <1>4
<1>7. s \in SchedT
  BY <1>1, <1>5, <1>6
<1>8. /\ sched' = [s EXCEPT !.consecutive = 0]
      /\ IF decays THEN Unload(w.picks) ELSE UNCHANGED <<status, cached>>
      /\ SetFrame(t, [frame[t] EXCEPT !.border = s.counterActive])
      /\ Goto(t, "plan", t) /\ UNCHANGED <<useCnt, leaked>> /\ lock \in {NoThread, t}
  BY <1>3, <1>4 DEF SwapInBegin, At
<1>9. sched' \in SchedT /\ sched'.loaded = s.loaded
  BY <1>7, <1>8 DEF SchedT
<1>10. Evicts
  <2>1. CASE decays
    BY <1>1, <1>5, <1>8, <1>9, <2>1, UnloadIs
  <2>2. CASE ~ decays
    BY <1>1, <1>6, <1>8, <1>9, <2>2 DEF Types, Evicts, StatusT
  <2> QED BY <2>1, <2>2
<1> HIDE DEF decays
<1>11. PICK f : f = [frame[t] EXCEPT !.border = s.counterActive]
  OBVIOUS
<1>12. f \in FrameT /\ f.chunk = frame[t].chunk
  BY <1>2, <1>7, <1>11, Locals, Fields
<1>13. "plan" \in PcT /\ "plan" \in UsePcs
  BY DEF PcT, UsePcs
<1>14. Moves(t, "plan", f)
  BY <1>8, <1>11 DEF Goto, SetFrame, Moves
<1>15. Clear(t, f)
  BY <1>12, ClearIs DEF RingInv
<1>16. Ring' = Ring /\ pc'[t] = "plan" /\ frame'[t] = f /\ (ThreadOK(t)' => RingInv')
  BY <1>1, <1>2, <1>8, <1>10, <1>12, <1>13, <1>14, <1>15, EvictsInv
<1>17. ThreadOK(t)'
  BY <1>2, <1>12, <1>16 DEF ThreadOK
<1> QED BY <1>16, <1>17

LEMMA RoomFoundInv ==
    ASSUME RingInv, NEW t \in Thread, RoomFound(t)
    PROVE  RingInv'
<1> DEFINE c == frame[t].chunk
<1>1. Types /\ pc[t] \in {"room", "plain"} /\ pc[t] \in UsePcs
  BY DEF RingInv, RoomFound, UsePcs
<1>2. c \in Ring /\ c \in Chunk /\ Ring # {} /\ frame[t] \in FrameT
  BY <1>1, InUse
<1>3. UNCHANGED <<sched, status, useCnt, cached, leaked, frame>> /\ lock \in {NoThread, t}
  BY DEF RoomFound, At
<1>4. PICK p : /\ p = "await" /\ Goto(t, p, NoThread)
               \/ /\ p \in {"read", "readPlain"} /\ Goto(t, p, t)
                  /\ p = "readPlain" <=> pc[t] # "room"
                  /\ status[c] \notin Present /\ frame[t].target + memory_used <= MemoryMax
  <2>1. \/ Goto(t, "await", NoThread)
        \/ /\ status[c] \notin Present /\ frame[t].target + memory_used <= MemoryMax
           /\ Goto(t, IF pc[t] = "room" THEN "read" ELSE "readPlain", t)
    BY DEF RoomFound
  <2>2. ASSUME Goto(t, "await", NoThread) PROVE \E p : p = "await" /\ Goto(t, p, NoThread)
    BY <2>2
  <2>3. ASSUME Goto(t, IF pc[t] = "room" THEN "read" ELSE "readPlain", t)
        PROVE  \E p : /\ p \in {"read", "readPlain"} /\ Goto(t, p, t)
                      /\ p = "readPlain" <=> pc[t] # "room"
    BY <2>3
  <2> QED BY <2>1, <2>2, <2>3
<1>5. p \in PcT /\ p \in UsePcs /\ p \notin {"idle", "untouch", "using", "mmalloc", "mfree", "plain"}
  BY <1>4 DEF PcT, UsePcs
<1>6. Moves(t, p, frame[t])
  BY <1>1, <1>3, <1>4, FrameSame DEF Goto, Moves
<1>7. Clear(t, frame[t]) /\ Evicts
  BY <1>1, <1>3, ClearIs, EvictsNothing DEF RingInv
<1>8. Ring' = Ring /\ pc'[t] = p /\ frame'[t] = frame[t] /\ (ThreadOK(t)' => RingInv')
  BY <1>1, <1>2, <1>3, <1>5, <1>6, <1>7, EvictsInv
<1>9. p = "readPlain" => /\ frame[t].target = Size[c] /\ lock' = t
                         /\ status'[c] \notin Present /\ Size[c] + memory_used' <= MemoryMax
  <2>1. ASSUME p = "readPlain" PROVE pc[t] = "plain"
    BY <1>1, <1>4, <2>1
  <2>2. pc[t] = "plain" => frame[t].target = Size[c]
    BY DEF RingInv, ThreadOK
  <2>3. memory_used' = memory_used
    BY <1>3 DEF memory_used, With
  <2> QED BY <1>3, <1>4, <2>1, <2>2, <2>3 DEF Goto
<1>10. ThreadOK(t)'
  BY <1>2, <1>5, <1>8, <1>9 DEF ThreadOK
<1> QED BY <1>8, <1>10

\* What a thread in ensureEnoughSpace relies on, when it stays there or gives up.
LEMMA InRooms ==
    ASSUME RingInv, NEW t \in Thread, pc[t] \in Rooms
    PROVE  /\ pc[t] \in PcT /\ pc[t] # "mfree" /\ frame[t] \in FrameT
           /\ pc[t] \in UsePcs <=> pc[t] # "mmalloc"
           /\ pc[t] # "mmalloc" => frame[t].chunk \in Ring
           /\ pc[t] = "mmalloc" =>
                 /\ frame[t].chunk \in Chunk /\ status[frame[t].chunk] = "ABSENT"
                 /\ \A u \in Thread : u # t => frame[u].chunk # frame[t].chunk
           /\ pc[t] = "plain" => frame[t].target = Size[frame[t].chunk]
<1>1. Types /\ ThreadOK(t) /\ pc[t] \in {"room", "plain", "mmalloc"}
  BY DEF RingInv, Rooms
<1>2. pc[t] \in UsePcs <=> pc[t] # "mmalloc"
  BY <1>1 DEF UsePcs
<1> QED BY <1>1, <1>2, FrameIs DEF ThreadOK

\* It goes on with the same chunk and target, or throws.
LEMMA RoomsKept ==
    ASSUME RingInv, NEW t \in Thread, pc[t] \in Rooms, NEW f \in FrameT,
           Moves(t, pc[t], f), f.chunk = frame[t].chunk, f.target = frame[t].target,
           useCnt' = useCnt, leaked' = leaked, Evicts, Ring # {} \/ sched' = sched
    PROVE  RingInv'
<1>1. PICK p : p = pc[t]
  OBVIOUS
<1>2. Types /\ pc[t] \in {"room", "plain", "mmalloc"} /\ p \in PcT /\ p # "mfree" /\ Moves(t, p, f)
  BY <1>1, InRooms DEF RingInv, Rooms
<1>3. Clear(t, f)
  BY ClearIs DEF RingInv
<1>4. /\ Ordinary(t, p, f) /\ Ring' = Ring /\ pc'[t] = p /\ frame'[t] = f
      /\ ThreadOK(t)' => RingInv'
  BY <1>1, <1>2, <1>3, EvictsInv
<1>5. p = "mmalloc" =>
         /\ f.chunk \in Chunk /\ status'[f.chunk] = "ABSENT"
         /\ \A u \in Thread : u # t => frame'[u].chunk # f.chunk
  <2>1. ASSUME p = "mmalloc"
        PROVE  /\ f.chunk \in Chunk /\ status[f.chunk] = "ABSENT"
               /\ \A u \in Thread : u # t => frame[u].chunk # f.chunk
    BY <1>1, <2>1, InRooms
  <2>2. \A u \in Thread \ {t} : frame'[u] = frame[u]
    BY <1>2, MovesIs
  <2> QED BY <1>4, <2>1, <2>2 DEF Ordinary
<1>6. p # "mmalloc" => f.chunk \in Ring
  BY <1>1, InRooms
<1>7. p = "plain" => f.target = Size[f.chunk]
  BY <1>1, InRooms
<1>8. ThreadOK(t)'
  BY <1>1, <1>2, <1>4, <1>5, <1>6, <1>7 DEF ThreadOK, UsePcs
<1> QED BY <1>4, <1>8

LEMMA GivesUpInv ==
    ASSUME RingInv, NEW t \in Thread, pc[t] \in Rooms, lock \in {NoThread, t}, GivesUp(t),
           useCnt' = useCnt, leaked' = leaked, Evicts, Ring # {} \/ sched' = sched
    PROVE  RingInv'
<1>1. Types /\ pc[t] \in {"room", "plain", "mmalloc"} /\ pc[t] # "mfree" /\ frame[t] \in FrameT
  BY InRooms DEF RingInv, Rooms
<1>2. CASE pc[t] = "mmalloc"
  <2>1. Idle \in FrameT /\ Idle.chunk = None
    BY <1>1, Locals
  <2>2. Moves(t, "idle", Idle)
    BY <1>2 DEF GivesUp, SetFrame, Goto, Moves
  <2>3. "idle" \in PcT /\ "idle" \notin UsePcs /\ pc[t] \notin UsePcs
    BY <1>2 DEF PcT, UsePcs
  <2>4. Clear(t, Idle)
    BY <2>1, ClearIs DEF RingInv
  <2>5. pc'[t] = "idle" /\ frame'[t] = Idle /\ (ThreadOK(t)' => RingInv')
    BY <1>1, <2>1, <2>2, <2>3, <2>4, EvictsInv
  <2>6. ThreadOK(t)'
    BY <2>1, <2>3, <2>5 DEF ThreadOK
  <2> QED BY <2>5, <2>6
<1>3. CASE pc[t] # "mmalloc"
  <2>1. Moves(t, "thrown", frame[t])
    BY <1>1, <1>3, FrameSame DEF GivesUp, SetFrame, Goto, Moves
  <2>2. "thrown" \in PcT /\ "thrown" \in UsePcs /\ pc[t] \in UsePcs /\ frame[t].chunk \in Ring
    BY <1>3, InRooms DEF PcT, UsePcs
  <2>3. Clear(t, frame[t])
    BY ClearIs DEF RingInv
  <2>4. Ring' = Ring /\ pc'[t] = "thrown" /\ frame'[t] = frame[t] /\ (ThreadOK(t)' => RingInv')
    BY <1>1, <2>1, <2>2, <2>3, EvictsInv
  <2>5. ThreadOK(t)'
    BY <2>2, <2>4 DEF ThreadOK
  <2> QED BY <2>4, <2>5
<1> QED BY <1>2, <1>3

LEMMA RoomMadeInv ==
    ASSUME RingInv, NEW t \in Thread, RoomMade(t)
    PROVE  RingInv'
<1>1. Types /\ EmptyRing /\ pc[t] \in Rooms /\ frame[t] \in FrameT
  BY InRooms DEF RingInv, RoomMade
<1>2. lock \in {NoThread, t} /\ RingWhole /\ UNCHANGED <<useCnt, leaked>>
  BY DEF RoomMade, At
<1>3. CASE sched.counterActive = None
  <2>1. GivesUp(t) /\ UNCHANGED <<sched, status, cached>>
    BY <1>3 DEF RoomMade
  <2>2. Evicts
    BY <1>1, <2>1, EvictsNothing
  <2> QED BY <1>1, <1>2, <2>1, <2>2, GivesUpInv
<1>4. CASE sched.counterActive # None
  <2> DEFINE min == (frame[t].target + memory_used - MemoryMax) - memory_tobefreed
  <2>2. PICK ok \in BOOLEAN :
           /\ SwapOut(min, ok)
           /\ \/ UNCHANGED frame /\ \E l \in {NoThread, t} : Goto(t, pc[t], l)
              \/ SetFrame(t, [frame[t] EXCEPT !.cleaned = "now"]) /\ Goto(t, pc[t], t)
              \/ GivesUp(t)
    <3>1. PICK ok \in BOOLEAN :
           /\ SwapOut(min, ok)
           /\ IF ok \/ memory_tobefreed' # 0
              THEN /\ Goto(t, pc[t], IF frame[t].target + memory_used' > MemoryMax THEN NoThread ELSE t)
                   /\ UNCHANGED frame
              ELSE IF frame[t].cleaned = "no"
              THEN /\ SetFrame(t, [frame[t] EXCEPT !.cleaned = "now"])
                   /\ Goto(t, pc[t], t)
              ELSE GivesUp(t)
      BY <1>4 DEF RoomMade
    <3>2. PICK l \in {NoThread, t} : l = IF frame[t].target + memory_used' > MemoryMax THEN NoThread ELSE t
      OBVIOUS
    <3> QED BY <3>1, <3>2
  <2>3. Ring # {}
    BY <1>1, <1>4 DEF EmptyRing
  <2>1. PICK m : m = min
    OBVIOUS
  <2>4. Evicts
    BY <1>2, <2>1, <2>2, <2>3, SwapOutIs
  <2>5. CASE UNCHANGED frame /\ \E l \in {NoThread, t} : Goto(t, pc[t], l)
    <3>1. Moves(t, pc[t], frame[t])
      BY <1>1, <1>2, <2>5, FrameSame DEF Goto, Moves
    <3> QED BY <1>1, <1>2, <2>3, <2>4, <3>1, RoomsKept
  <2>6. CASE SetFrame(t, [frame[t] EXCEPT !.cleaned = "now"]) /\ Goto(t, pc[t], t)
    <3>1. PICK f : f = [frame[t] EXCEPT !.cleaned = "now"]
      OBVIOUS
    <3>2. f \in FrameT /\ f.chunk = frame[t].chunk /\ f.target = frame[t].target
      BY <1>1, <3>1, Locals
    <3>3. Moves(t, pc[t], f)
      BY <1>2, <2>6, <3>1 DEF Goto, SetFrame, Moves
    <3> QED BY <1>1, <1>2, <2>3, <2>4, <3>2, <3>3, RoomsKept
  <2>7. CASE GivesUp(t)
    BY <1>1, <1>2, <2>3, <2>4, <2>7, GivesUpInv
  <2> QED BY <2>2, <2>5, <2>6, <2>7
<1> QED BY <1>3, <1>4

LEMMA RoomAwaitedInv ==
    ASSUME RingInv, NEW t \in Thread, RoomAwaited(t)
    PROVE  RingInv'
<1>1. Types /\ pc[t] \in Rooms /\ frame[t] \in FrameT
  BY InRooms DEF RingInv, RoomAwaited
<1>2. lock \in {NoThread, t} /\ UNCHANGED <<sched, status, useCnt, cached, leaked, frame>>
  BY DEF RoomAwaited, At
<1>3. Moves(t, pc[t], frame[t])
  BY <1>1, <1>2, FrameSame DEF RoomAwaited, Goto, Moves
<1>4. Evicts
  BY <1>1, <1>2, EvictsNothing
<1> QED BY <1>1, <1>2, <1>3, <1>4, RoomsKept

LEMMA CacheCleanedInv ==
    ASSUME RingInv, NEW t \in Thread, CacheCleaned(t)
    PROVE  RingInv'
<1>1. Types /\ frame[t] \in FrameT
  BY FrameIs DEF RingInv
<1>2. PICK f : f = [frame[t] EXCEPT !.cleaned = "yes"]
  OBVIOUS
<1>3. f \in FrameT /\ f.chunk = frame[t].chunk /\ f.target = frame[t].target
  BY <1>1, <1>2, Locals
<1>4. /\ cached' = {} /\ UNCHANGED <<sched, status, useCnt, leaked, lock, pc>>
      /\ frame' = [frame EXCEPT ![t] = f]
  BY <1>2 DEF CacheCleaned, SetFrame
<1>5. \A u \in Thread : frame'[u].chunk = frame[u].chunk /\ frame'[u].target = frame[u].target
  BY <1>1, <1>3, <1>4 DEF Types
<1>6. Types'
  BY <1>1, <1>3, <1>4 DEF Types
<1>7. InDeletion' = InDeletion /\ MemChunks' = MemChunks
  BY <1>4, <1>5 DEF InDeletion, MemChunks
<1>8. Ring' = Ring
  BY <1>7 DEF Ring
<1>9. Counted'
  <2>1. \A c : UsersOf(c)' = UsersOf(c)
    BY <1>4, <1>5 DEF UsersOf
  <2> QED BY <1>4, <2>1 DEF RingInv, Counted
<1>10. Marked'
  BY <1>4, <1>7 DEF RingInv, Marked, With
<1>11. memory_used' = memory_used
  BY <1>4 DEF memory_used, With
<1>12. EmptyRing' /\ BudgetKept'
  BY <1>4, <1>8, <1>11 DEF RingInv, EmptyRing, BudgetKept
<1>13. ASSUME NEW u \in Thread PROVE ThreadOK(u)'
  <2>1. ThreadOK(u)
    BY DEF RingInv
  <2> QED BY <1>4, <1>5, <1>8, <1>11, <2>1 DEF ThreadOK
<1> QED BY <1>6, <1>9, <1>10, <1>12, <1>13 DEF RingInv

LEMMA SwapInLostInv ==
    ASSUME RingInv, NEW t \in Thread, SwapInLost(t)
    PROVE  RingInv'
<1>1. Types /\ pc[t] = "read" /\ pc[t] \in UsePcs
  BY DEF RingInv, SwapInLost, At, UsePcs
<1>2. frame[t].chunk \in Ring /\ Ring # {} /\ frame[t] \in FrameT
  BY <1>1, InUse
<1>3. UNCHANGED <<sched, status, useCnt, cached, leaked, frame>> /\ lock \in {NoThread, t}
  BY DEF SwapInLost, At
<1>4. Moves(t, "lost", frame[t])
  BY <1>1, <1>3, FrameSame DEF SwapInLost, Goto, Moves
<1>5. Clear(t, frame[t]) /\ Evicts
  BY <1>1, <1>3, ClearIs, EvictsNothing DEF RingInv
<1>6. "lost" \in PcT /\ "lost" \in UsePcs
  BY DEF PcT, UsePcs
<1>7. Ring' = Ring /\ pc'[t] = "lost" /\ frame'[t] = frame[t] /\ (ThreadOK(t)' => RingInv')
  BY <1>1, <1>2, <1>3, <1>4, <1>5, <1>6, EvictsInv
<1>8. ThreadOK(t)'
  BY <1>2, <1>7 DEF ThreadOK
<1> QED BY <1>7, <1>8

LEMMA UntouchInv ==
    ASSUME RingInv, NEW t \in Thread, Untouch(t)
    PROVE  RingInv'
<1>1. /\ Types /\ pc[t] = "untouch" /\ frame[t] \in FrameT /\ frame[t].chunk = None
      /\ Ring # {} /\ RingWhole
  BY FrameIs DEF RingInv, Untouch, At, ThreadOK
<1>2. UNCHANGED <<useCnt, leaked, frame>> /\ lock \in {NoThread, t}
  BY DEF Untouch, At
<1>3. Evicts
  <2>1. CASE UNCHANGED <<sched, status, cached>>
    BY <1>1, <2>1, EvictsNothing
  <2>2. CASE \E min : \E ok \in BOOLEAN : SwapOut(min, ok)
    BY <1>1, <2>2, SwapOutIs
  <2>3. UNCHANGED <<sched, status, cached>> \/ \E min : \E ok \in BOOLEAN : SwapOut(min, ok)
    BY DEF Untouch
  <2> QED BY <2>1, <2>2, <2>3
<1>4. Moves(t, "idle", frame[t])
  BY <1>1, <1>2, FrameSame DEF Untouch, Goto, Moves
<1>5. Clear(t, frame[t])
  BY ClearIs DEF RingInv
<1>6. "idle" \in PcT /\ "idle" \notin UsePcs /\ "untouch" \notin UsePcs
  BY DEF PcT, UsePcs
<1>7. pc'[t] = "idle" /\ frame'[t] = frame[t] /\ (ThreadOK(t)' => RingInv')
  BY <1>1, <1>2, <1>3, <1>4, <1>5, <1>6, EvictsInv
<1>8. ThreadOK(t)'
  BY <1>1, <1>6, <1>7 DEF ThreadOK
<1> QED BY <1>7, <1>8

LEMMA MmallocInv ==
    ASSUME RingInv, NEW t \in Thread, NEW c \in Chunk, Mmalloc(t, c)
    PROVE  RingInv'
<1>1. Types /\ pc[t] = "idle" /\ frame[t] \in FrameT /\ Idle \in FrameT
  BY FrameIs, Locals DEF RingInv, Mmalloc, At
<1>2. PICK f : f = [Idle EXCEPT !.chunk = c, !.target = Size[c]]
  OBVIOUS
<1>3. f \in FrameT /\ f.chunk = c
  <2>1. c \in Link /\ Size[c] \in Int
    BY Sizes DEF Link
  <2> QED BY <1>1, <1>2, <2>1 DEF FrameT
<1>4. UNCHANGED <<sched, status, useCnt, cached, leaked>> /\ lock \in {NoThread, t}
      /\ \A u \in Thread : frame[u].chunk # c
  BY DEF Mmalloc, At, Wanted
<1>5. Moves(t, "mmalloc", f)
  BY <1>2, <1>4 DEF Mmalloc, Goto, SetFrame, Moves
<1>6. Clear(t, f) /\ Evicts
  BY <1>1, <1>3, <1>4, EvictsNothing DEF Clear
<1>7. "mmalloc" \in PcT /\ "mmalloc" \notin UsePcs /\ "idle" \notin UsePcs
  BY DEF PcT, UsePcs
<1>8. pc'[t] = "mmalloc" /\ frame'[t] = f /\ (ThreadOK(t)' => RingInv')
  BY <1>1, <1>3, <1>4, <1>5, <1>6, <1>7, EvictsInv
<1>9. \A u \in Thread : u # t => frame'[u].chunk # c
  <2>1. \A u \in Thread \ {t} : frame'[u] = frame[u]
    BY <1>1, <1>3, <1>5, <1>7, MovesIs
  <2> QED BY <1>4, <2>1
<1>10. status'[c] = "ABSENT"
  BY <1>4 DEF Mmalloc
<1>11. ThreadOK(t)'
  BY <1>3, <1>7, <1>8, <1>9, <1>10 DEF ThreadOK
<1> QED BY <1>8, <1>11

LEMMA GrantInv ==
    ASSUME RingInv, NEW t \in Thread, Grant(t)
    PROVE  RingInv'
<1>1. /\ Types /\ pc[t] = "await" /\ pc[t] \in UsePcs /\ sched \in SchedT /\ Marked /\ BudgetKept
      /\ lock \in {NoThread, t}
  BY DEF RingInv, Grant, At, UsePcs, Types
<1>2. PICK c \in Chunk : c = frame[t].chunk /\ c \in Ring /\ Ring # {} /\ frame[t] \in FrameT
  BY <1>1, InUse
<1>3. /\ status[c] \in {"ALLOCATED", "INUSE"} /\ status' = [status EXCEPT ![c] = "INUSE"]
      /\ cached' \subseteq cached /\ sched' = Touch(sched, c)
      /\ Goto(t, "using", NoThread) /\ UNCHANGED <<useCnt, leaked, frame>>
  BY <1>2 DEF Grant
<1>4. sched' \in SchedT /\ sched'.loaded = sched.loaded \ {c}
  BY <1>1, <1>3, TouchIs DEF Leads
<1>5. status' \in StatusT /\ status'[c] = "INUSE" /\ \A d \in Chunk \ {c} : status'[d] = status[d]
  BY <1>1, <1>3 DEF Types, StatusT, Present
<1>6. Moves(t, "using", frame[t])
  BY <1>1, <1>2, <1>3, FrameSame DEF Goto, Moves
<1>7. "using" \in PcT /\ "using" \in UsePcs
  BY DEF PcT, UsePcs
<1>8. Clear(t, frame[t])
  BY ClearIs DEF RingInv
<1>9. Ordinary(t, "using", frame[t])
  BY <1>1, <1>2, <1>3, <1>4, <1>5, <1>6, <1>7, <1>8 DEF Ordinary
<1>10. Ring' = Ring /\ InDeletion' = InDeletion /\ pc'[t] = "using" /\ frame'[t] = frame[t]
  BY <1>2, <1>7, <1>9, OrdinaryKeeps
<1>11. Marked'
  <2>1. \A d \in Chunk : status'[d] = status[d] \/ (d = c /\ status'[d] = "INUSE")
    BY <1>5
  <2>2. sched'.loaded \subseteq Chunk /\ sched'.loaded \subseteq sched.loaded /\ c \notin sched'.loaded
    BY <1>1, <1>4, Fields
  <2> QED BY <1>1, <1>3, <1>10, <2>1, <2>2 DEF Marked, With
<1>12. BudgetKept'
  <2>1. Held' \subseteq Held
    BY <1>3, <1>5 DEF Held, With, Present
  <2> QED BY <1>1, <1>3, <2>1, BudgetStays
<1>13. ThreadOK(t)'
  BY <1>2, <1>5, <1>7, <1>10 DEF ThreadOK
<1> QED BY <1>2, <1>7, <1>9, <1>11, <1>12, <1>13, OrdinaryInv

LEMMA SwapInReadInv ==
    ASSUME RingInv, NEW t \in Thread, SwapInRead(t)
    PROVE  RingInv'
<1>1. /\ Types /\ pc[t] = "read" /\ pc[t] \in UsePcs /\ sched \in SchedT /\ Marked /\ BudgetKept
      /\ lock \in {NoThread, t} /\ RingWhole
  BY DEF RingInv, SwapInRead, At, UsePcs, Types
<1>2. PICK c \in Chunk : c = frame[t].chunk /\ c \in Ring /\ Ring # {} /\ frame[t] \in FrameT
  BY <1>1, InUse
<1>3. PICK w : w = SwapInWalk(t)
  OBVIOUS
<1>4. /\ w.passed \in Seq(Ring) /\ w.passed # <<>>
      /\ w.picks \subseteq {d \in Ring : status[d] = "SWAPPED"} /\ w.guesses \subseteq w.picks
      /\ Bytes(w.picks) = 0 \/ Bytes(w.picks) + memory_used <= MemoryMax
      /\ w.bytes \in Nat
  <2>1. PICK room : room = MaxPreemptive - sched.preemptiveBytes
    OBVIOUS
  <2>2. w = WalkBack(t, room)
    BY <1>3, <2>1 DEF SwapInWalk
  <2> QED BY <1>1, <1>2, <2>2, WalkBackIs
<1>5. Ring \in SUBSET Chunk /\ Ring \cap InDeletion = {}
  BY DEF Ring, MemChunks
<1>6. PICK picks \in SUBSET Chunk : picks = w.picks
  BY <1>4, <1>5
<1>7. /\ status' = [d \in Chunk |-> IF d \in picks THEN "SWAPIN" ELSE status[d]]
      /\ sched' = BorderFixed(SwapInReordered(c, w), picks)
      /\ Goto(t, "await", NoThread) /\ UNCHANGED <<useCnt, cached, leaked, frame>>
  BY <1>2, <1>3, <1>6 DEF SwapInRead
<1>8. PICK s : s = SwapInReordered(c, w)
  OBVIOUS
<1>9. s \in SchedT /\ s.loaded = ((sched.loaded \cup w.guesses) \ (w.picks \ w.guesses)) \ {c}
  <2>1. w.passed \in Seq(Chunk) /\ w.guesses \subseteq Chunk /\ w.picks \subseteq Chunk /\ w.bytes \in Int
    BY <1>4, <1>5, SeqMonotonic
  <2> QED BY <1>1, <1>4, <1>8, <2>1, SwapInReorderedIs DEF Leads
<1>10. sched' \in SchedT /\ sched'.loaded = s.loaded
  BY <1>7, <1>8, <1>9, BorderFixedIs DEF Leads
<1>11. ASSUME NEW d \in Chunk
       PROVE  /\ d \in picks => status'[d] = "SWAPIN" /\ status[d] = "SWAPPED" /\ d \notin InDeletion
              /\ d \notin picks => status'[d] = status[d]
  BY <1>4, <1>5, <1>6, <1>7
<1>12. status' \in StatusT
  <2>1. \A d \in Chunk : status'[d] \in Present \cup Outside \cup {"ABSENT"}
    BY <1>1, <1>11 DEF Types, Present
  <2> QED BY <1>7, <2>1 DEF StatusT
<1>13. Moves(t, "await", frame[t])
  BY <1>1, <1>2, <1>7, FrameSame DEF Goto, Moves
<1>14. "await" \in PcT /\ "await" \in UsePcs
  BY DEF PcT, UsePcs
<1>15. Clear(t, frame[t])
  BY ClearIs DEF RingInv
<1>16. \A d \in Chunk : status[d] = "ABSENT" <=> status'[d] = "ABSENT"
  BY <1>11
<1>17. \A d \in Chunk : status[d] \in {"ALLOCATED", "INUSE"} => status'[d] \in {"ALLOCATED", "INUSE"}
  BY <1>11
<1>18. Ordinary(t, "await", frame[t])
  BY <1>1, <1>2, <1>7, <1>10, <1>12, <1>13, <1>14, <1>15, <1>16, <1>17 DEF Ordinary
<1>19. Ring' = Ring /\ InDeletion' = InDeletion /\ pc'[t] = "await" /\ frame'[t] = frame[t]
  BY <1>2, <1>14, <1>18, OrdinaryKeeps
<1>20. Marked'
  <2>1. ASSUME NEW d \in sched'.loaded
        PROVE  d \in Chunk /\ status'[d] \notin Outside \cup {"ABSENT"} /\ d \notin InDeletion
    <3>1. d \in Chunk /\ (d \in picks \/ d \in sched.loaded)
      BY <1>4, <1>6, <1>9, <1>10, <1>1, Fields
    <3>2. CASE d \in picks
      BY <1>11, <3>1, <3>2 DEF Outside
    <3>3. CASE d \notin picks
      BY <1>1, <1>11, <3>1, <3>3 DEF Marked, With
    <3> QED BY <3>2, <3>3
  <2>2. ASSUME NEW d \in cached'
        PROVE  d \in Chunk /\ status'[d] \in {"ALLOCATED", "INUSE"}
    <3>1. d \in Chunk /\ status[d] \in {"ALLOCATED", "INUSE"}
      BY <1>1, <1>7 DEF Marked, With
    <3> QED BY <1>17, <3>1
  <2> QED BY <1>19, <2>1, <2>2 DEF Marked, With
<1>21. BudgetKept'
  <2>1. ASSUME NEW d \in Chunk, status'[d] \in Present \cup {"SWAPOUT"}
        PROVE  d \in picks \/ status[d] \in Present \cup {"SWAPOUT"}
    BY <1>11, <2>1
  <2>2. Held' \subseteq Held \cup picks
    BY <2>1 DEF Held, With
  <2> QED BY <1>1, <1>4, <1>6, <1>7, <2>2, BudgetGrows
<1>22. ThreadOK(t)'
  BY <1>2, <1>14, <1>19 DEF ThreadOK
<1> QED BY <1>2, <1>14, <1>18, <1>20, <1>21, <1>22, OrdinaryInv

LEMMA SwapInPlainInv ==
    ASSUME RingInv, NEW t \in Thread, SwapInPlain(t)
    PROVE  RingInv'
<1>1. /\ Types /\ pc[t] = "readPlain" /\ pc[t] \in UsePcs /\ sched \in SchedT /\ Marked /\ BudgetKept
      /\ lock \in {NoThread, t}
  BY DEF RingInv, SwapInPlain, At, UsePcs, Types
<1>2. PICK c \in Chunk : /\ c = frame[t].chunk /\ c \in Ring /\ Ring # {} /\ frame[t] \in FrameT
                         /\ status[c] \in Present \cup Outside
  BY <1>1, InUse
<1>3. status[c] \notin Present /\ Size[c] + memory_used <= MemoryMax
  BY <1>1, <1>2 DEF RingInv, ThreadOK
<1>4. /\ status' = [status EXCEPT ![c] = "SWAPIN"]
      /\ sched' = BorderFixed(Touch(sched, c), {c})
      /\ Goto(t, "await", NoThread) /\ UNCHANGED <<useCnt, cached, leaked, frame>>
  BY <1>2 DEF SwapInPlain
<1>5. PICK s : s = Touch(sched, c)
  OBVIOUS
<1>6. sched' \in SchedT /\ sched'.loaded = sched.loaded \ {c}
  <2>1. s \in SchedT /\ s.loaded = sched.loaded \ {c}
    BY <1>1, <1>5, TouchIs DEF Leads
  <2> QED BY <1>4, <1>5, <2>1, BorderFixedIs DEF Leads
<1>7. status' \in StatusT /\ status'[c] = "SWAPIN" /\ \A d \in Chunk \ {c} : status'[d] = status[d]
  BY <1>1, <1>4 DEF Types, StatusT, Present
<1>8. Moves(t, "await", frame[t])
  BY <1>1, <1>2, <1>4, FrameSame DEF Goto, Moves
<1>9. "await" \in PcT /\ "await" \in UsePcs
  BY DEF PcT, UsePcs
<1>10. Clear(t, frame[t])
  BY ClearIs DEF RingInv
<1>11. status[c] \in Outside /\ status[c] # "ABSENT" /\ status[c] \notin {"ALLOCATED", "INUSE"}
  BY <1>2, <1>3 DEF Present, Outside
<1>12. Ordinary(t, "await", frame[t])
  BY <1>1, <1>2, <1>4, <1>6, <1>7, <1>8, <1>9, <1>10, <1>11 DEF Ordinary
<1>13. Ring' = Ring /\ InDeletion' = InDeletion /\ pc'[t] = "await" /\ frame'[t] = frame[t]
  BY <1>2, <1>9, <1>12, OrdinaryKeeps
<1>14. Marked'
  <2>1. \A d \in Chunk : status'[d] = status[d] \/ d = c
    BY <1>7
  <2>2. sched'.loaded \subseteq Chunk /\ sched'.loaded \subseteq sched.loaded /\ c \notin sched'.loaded
    BY <1>1, <1>6, Fields
  <2>3. c \notin cached
    BY <1>1, <1>11 DEF Marked, With
  <2> QED BY <1>1, <1>4, <1>13, <2>1, <2>2, <2>3 DEF Marked, With
<1>15. BudgetKept'
  <2>1. Held' \subseteq Held \cup {c}
    BY <1>7 DEF Held, With
  <2>2. Bytes({c}) = Size[c] /\ {c} \in SUBSET Chunk
    BY BytesOne
  <2> QED BY <1>1, <1>3, <1>4, <2>1, <2>2, BudgetGrows
<1>16. ThreadOK(t)'
  BY <1>2, <1>9, <1>13 DEF ThreadOK
<1> QED BY <1>2, <1>9, <1>12, <1>14, <1>15, <1>16, OrdinaryInv

-----------------------------------------------------------------------------
(* Uses come and go.                                                       *)

LEMMA UsersFinite ==
    \A c : IsFiniteSet(UsersOf(c)) /\ UsersOf(c) \subseteq Thread /\ Cardinality(UsersOf(c)) \in Nat
<1>1. \A c : UsersOf(c) \in SUBSET Thread
  BY DEF UsersOf
<1> QED BY <1>1, RingAssumption, FS_Subset, FS_CardinalityType

LEMMA SetUseInv ==
    ASSUME RingInv, NEW t \in Thread, NEW c \in Chunk, SetUse(t, c)
    PROVE  RingInv'
<1>1. /\ Types /\ Counted /\ EmptyRing /\ Marked /\ BudgetKept /\ \A u \in Thread : ThreadOK(u)
      /\ pc[t] = "idle" /\ frame[t] \in FrameT /\ Idle \in FrameT
  BY FrameIs, Locals DEF RingInv, SetUse, At
<1>2. PICK f : f = [Idle EXCEPT !.chunk = c]
  OBVIOUS
<1>3. f \in FrameT /\ f.chunk = c
  <2>1. c \in Link
    BY DEF Link
  <2> QED BY <1>1, <1>2, <2>1 DEF FrameT
<1>4. /\ c \in Ring /\ lock \in {NoThread, t} /\ UNCHANGED <<sched, status, cached, leaked>>
      /\ useCnt' = [useCnt EXCEPT ![c] = @ + 1]
  BY DEF SetUse, At, Counts
<1>5. Moves(t, "await", f)
  BY <1>2, <1>4 DEF SetUse, Goto, SetFrame, Moves
<1>6. "await" \in PcT /\ "await" \in UsePcs /\ "idle" \notin UsePcs
  BY DEF PcT, UsePcs
<1>7. /\ pc' \in [Thread -> PcT] /\ frame' \in [Thread -> FrameT] /\ lock' \in Thread \cup {NoThread}
      /\ pc'[t] = "await" /\ frame'[t] = f
      /\ \A u \in Thread \ {t} : pc'[u] = pc[u] /\ frame'[u] = frame[u] /\ lock # u
  BY <1>1, <1>3, <1>5, <1>6, MovesIs
<1>8. InDeletion' = InDeletion /\ MemChunks' = MemChunks
  BY <1>1, <1>3, <1>4, <1>5, <1>6, DeletionKept DEF MemChunks
<1>9. Ring' = Ring
  BY <1>8 DEF Ring
<1>10. Clear(t, f)
  <2>1. ASSUME NEW u \in Thread \ {t}, pc[u] \in {"mmalloc", "mfree"}, frame[u].chunk = c PROVE FALSE
    <3>1. CASE pc[u] = "mmalloc"
      BY <1>1, <1>4, <2>1, <3>1 DEF ThreadOK, Ring, MemChunks
    <3>2. CASE pc[u] = "mfree"
      BY <1>4, <2>1, <3>2 DEF Ring, InDeletion
    <3> QED BY <2>1, <3>1, <3>2
  <2> QED BY <1>3, <2>1 DEF Clear
<1>11. \A u \in Thread \ {t} : Keeps(frame[u].chunk)
  BY <1>4, <1>9 DEF Keeps
<1>12. \A u \in Thread \ {t} : ThreadOK(u)'
  BY <1>1, <1>3, <1>5, <1>6, <1>10, <1>11, OthersKept
<1>13. ThreadOK(t)'
  BY <1>3, <1>4, <1>6, <1>7, <1>9 DEF ThreadOK
<1>14. Counted'
  <2>1. ASSUME NEW d \in Chunk PROVE useCnt'[d] = Cardinality(UsersOf(d)')
    <3>1. CASE d = c
      <4>1. UsersOf(d)' = UsersOf(d) \cup {t} /\ t \notin UsersOf(d)
        BY <1>1, <1>3, <1>6, <1>7, <3>1 DEF UsersOf
      <4>2. Cardinality(UsersOf(d) \cup {t}) = Cardinality(UsersOf(d)) + 1
        BY <4>1, UsersFinite, FS_AddElement
      <4>3. useCnt'[d] = useCnt[d] + 1 /\ useCnt[d] = Cardinality(UsersOf(d))
        BY <1>1, <1>4, <3>1 DEF Types, Counted
      <4> QED BY <4>1, <4>2, <4>3
    <3>2. CASE d # c
      <4>1. UsersOf(d)' = UsersOf(d)
        BY <1>1, <1>3, <1>6, <1>7, <3>2 DEF UsersOf
      <4> QED BY <1>1, <1>4, <3>2, <4>1 DEF Types, Counted
    <3> QED BY <3>1, <3>2
  <2> QED BY <2>1 DEF Counted
<1>15. Types'
  BY <1>1, <1>4, <1>7 DEF Types
<1>16. Marked' /\ EmptyRing' /\ BudgetKept'
  BY <1>1, <1>4, <1>8, <1>9 DEF Marked, With, EmptyRing, BudgetKept, memory_used
<1> QED BY <1>12, <1>13, <1>14, <1>15, <1>16 DEF RingInv

LEMMA UnsetUseInv ==
    ASSUME RingInv, NEW t \in Thread, UnsetUse(t)
    PROVE  RingInv'
<1>1. /\ Types /\ Counted /\ EmptyRing /\ Marked /\ BudgetKept /\ \A u \in Thread : ThreadOK(u)
      /\ pc[t] = "using" /\ pc[t] \in UsePcs /\ lock \in {NoThread, t}
  BY DEF RingInv, UnsetUse, At, UsePcs
<1>2. PICK c \in Chunk : c = frame[t].chunk /\ c \in Ring /\ Ring # {} /\ frame[t] \in FrameT
  BY <1>1, InUse
<1>3. status[c] \in {"ALLOCATED", "INUSE"} /\ Idle \in FrameT /\ Idle.chunk = None
  BY <1>1, <1>2, Locals DEF ThreadOK
<1>4. /\ useCnt' = [useCnt EXCEPT ![c] = @ - 1]
      /\ status' = [status EXCEPT ![c] = IF useCnt[c] = 1 THEN "ALLOCATED" ELSE @]
      /\ SetFrame(t, Idle) /\ UNCHANGED <<sched, cached, leaked>>
  <2>1. useCnt' = [useCnt EXCEPT ![c] = @ + (-1)]
    BY <1>2 DEF UnsetUse, Counts
  <2>2. useCnt[c] \in Nat
    BY <1>1 DEF Types
  <2>3. useCnt[c] + (-1) = useCnt[c] - 1
    BY <2>2
  <2> QED BY <1>2, <2>1, <2>3 DEF UnsetUse
<1>5. PICK p \in {"untouch", "idle"} : Goto(t, p, IF p = "untouch" THEN t ELSE NoThread)
  BY DEF UnsetUse
<1>6. Moves(t, p, Idle) /\ (p = "untouch" => lock' = t)
  BY <1>1, <1>4, <1>5 DEF Goto, SetFrame, Moves
<1>7. p \in PcT /\ p \notin UsePcs /\ p # "mfree"
  BY DEF PcT, UsePcs
<1>8. /\ pc' \in [Thread -> PcT] /\ frame' \in [Thread -> FrameT] /\ lock' \in Thread \cup {NoThread}
      /\ pc'[t] = p /\ frame'[t] = Idle
      /\ \A u \in Thread \ {t} : pc'[u] = pc[u] /\ frame'[u] = frame[u] /\ lock # u
  BY <1>1, <1>3, <1>6, <1>7, MovesIs
<1>9. /\ status' \in StatusT /\ status'[c] \in {"ALLOCATED", "INUSE"}
      /\ \A d \in Chunk \ {c} : status'[d] = status[d]
  BY <1>1, <1>3, <1>4 DEF Types, StatusT, Present
<1>10. InDeletion' = InDeletion /\ MemChunks' = MemChunks
  <2>1. \A d \in Chunk : status'[d] = "ABSENT" <=> status[d] = "ABSENT"
    BY <1>3, <1>9
  <2>2. InDeletion' = InDeletion
    BY <1>1, <1>3, <1>6, <1>7, DeletionKept
  <2> QED BY <2>1, <2>2 DEF MemChunks
<1>11. Ring' = Ring
  BY <1>10 DEF Ring
<1>12. Clear(t, Idle)
  BY <1>1, <1>3, ClearIs
<1>13. \A u \in Thread \ {t} : Keeps(frame[u].chunk)
  <2>1. \A d \in Chunk : \/ status'[d] = status[d]
                         \/ {status[d], status'[d]} \subseteq {"ALLOCATED", "INUSE"}
    BY <1>3, <1>9
  <2> QED BY <1>11, <2>1 DEF Keeps
<1>14. \A u \in Thread \ {t} : ThreadOK(u)'
  BY <1>1, <1>3, <1>6, <1>7, <1>12, <1>13, OthersKept
<1>15. ThreadOK(t)'
  BY <1>2, <1>3, <1>6, <1>7, <1>8, <1>11 DEF ThreadOK
<1>16. useCnt[c] \in Nat \ {0} /\ useCnt \in [Chunk -> Nat]
  BY <1>1, <1>2, UsedCounts DEF Types
<1>17. Counted'
  <2>1. ASSUME NEW d \in Chunk PROVE useCnt'[d] = Cardinality(UsersOf(d)')
    <3>1. CASE d = c
      <4>1. UsersOf(d)' = UsersOf(d) \ {t} /\ t \in UsersOf(d)
        BY <1>1, <1>2, <1>7, <1>8, <3>1 DEF UsersOf
      <4>2. Cardinality(UsersOf(d) \ {t}) = Cardinality(UsersOf(d)) - 1
        BY <4>1, UsersFinite, FS_RemoveElement
      <4>3. useCnt'[d] = useCnt[d] - 1 /\ useCnt[d] = Cardinality(UsersOf(d))
        BY <1>1, <1>4, <1>16, <3>1 DEF Counted
      <4> QED BY <4>1, <4>2, <4>3
    <3>2. CASE d # c
      <4>1. UsersOf(d)' = UsersOf(d)
        BY <1>1, <1>2, <1>7, <1>8, <3>2 DEF UsersOf
      <4> QED BY <1>1, <1>4, <1>16, <3>2, <4>1 DEF Counted
    <3> QED BY <3>1, <3>2
  <2> QED BY <2>1 DEF Counted
<1>18. Types'
  <2>1. useCnt[c] - 1 \in Nat
    BY <1>16
  <2>2. useCnt' \in [Chunk -> Nat]
    BY <1>4, <1>16, <2>1
  <2> QED BY <1>1, <1>4, <1>8, <1>9, <2>2 DEF Types, StatusT
<1>19. Marked'
  <2>1. \A d \in Chunk : status'[d] = status[d] \/ (d = c /\ status'[d] \in {"ALLOCATED", "INUSE"})
    BY <1>9
  <2>2. sched.loaded \subseteq Chunk
    BY <1>1, Fields DEF Types
  <2> QED BY <1>1, <1>4, <1>10, <2>1, <2>2 DEF Marked, With, Outside
<1>20. BudgetKept'
  <2>1. Held' \subseteq Held
    BY <1>3, <1>9 DEF Held, With, Present
  <2> QED BY <1>1, <1>4, <2>1, BudgetStays
<1>21. EmptyRing'
  BY <1>2, <1>11 DEF EmptyRing
<1> QED BY <1>14, <1>15, <1>17, <1>18, <1>19, <1>20, <1>21 DEF RingInv

-----------------------------------------------------------------------------
(* Chunks come and go, transfers end.                                      *)

LEMMA MmallocDoneInv ==
    ASSUME RingInv, NEW t \in Thread, MmallocDone(t)
    PROVE  RingInv'
<1>1. /\ Types /\ Counted /\ Marked /\ BudgetKept /\ \A u \in Thread : ThreadOK(u)
      /\ sched \in SchedT /\ pc[t] = "mmalloc" /\ lock \in {NoThread, t}
  BY DEF RingInv, MmallocDone, At, Types
<1>2. /\ Idle \in FrameT /\ Idle.chunk = None
      /\ \E d \in Chunk : d = frame[t].chunk /\ status[d] = "ABSENT"
  BY <1>1, FrameIs, Locals DEF ThreadOK
<1>3. PICK c \in Chunk : c = frame[t].chunk /\ status[c] = "ABSENT"
  BY <1>2
<1>4. \A u \in Thread : u # t => frame[u].chunk # c
  BY <1>1, <1>3 DEF ThreadOK
<1>5. /\ status' = [status EXCEPT ![c] = "ALLOCATED"]
      /\ sched' = Touch(SchedulerRegister(sched, c), c)
      /\ Goto(t, "idle", NoThread) /\ SetFrame(t, Idle)
      /\ UNCHANGED <<useCnt, cached, leaked>>
      /\ memory_used + Size[c] <= MemoryMax
  BY <1>3 DEF MmallocDone, Registers
<1>6. sched' \in SchedT /\ sched'.loaded = sched.loaded \ {c}
  <2>1. PICK s : s = SchedulerRegister(sched, c)
    OBVIOUS
  <2>2. s \in SchedT /\ s.loaded = sched.loaded
    BY <1>1, <2>1, RegisterIs DEF Leads
  <2> QED BY <1>5, <2>1, <2>2, TouchIs DEF Leads
<1>7. status' \in StatusT /\ status'[c] = "ALLOCATED" /\ \A d \in Chunk \ {c} : status'[d] = status[d]
  BY <1>1, <1>5 DEF Types, StatusT, Present
<1>8. Moves(t, "idle", Idle)
  BY <1>1, <1>5 DEF Goto, SetFrame, Moves
<1>9. "idle" \in PcT /\ "idle" \notin UsePcs /\ "mmalloc" \notin UsePcs
  BY DEF PcT, UsePcs
<1>10. /\ pc' \in [Thread -> PcT] /\ frame' \in [Thread -> FrameT] /\ lock' \in Thread \cup {NoThread}
       /\ pc'[t] = "idle" /\ frame'[t] = Idle
  BY <1>1, <1>2, <1>8, <1>9, MovesIs
<1>11. InDeletion' = InDeletion
  BY <1>1, <1>2, <1>8, <1>9, DeletionKept
<1>12. c \notin InDeletion
  BY <1>1, <1>4 DEF InDeletion
<1>13. MemChunks' = MemChunks \cup {c}
  BY <1>3, <1>7 DEF MemChunks
<1>14. Ring' = Ring \cup {c}
  BY <1>11, <1>12, <1>13 DEF Ring
<1>15. Clear(t, Idle)
  BY <1>1, <1>2, ClearIs
<1>16. \A u \in Thread \ {t} : Keeps(frame[u].chunk)
  BY <1>4, <1>7, <1>14 DEF Keeps
<1>17. \A u \in Thread \ {t} : ThreadOK(u)'
  BY <1>1, <1>2, <1>8, <1>9, <1>15, <1>16, OthersKept
<1>18. ThreadOK(t)'
  BY <1>2, <1>9, <1>10 DEF ThreadOK
<1>19. Counted'
  BY <1>1, <1>2, <1>5, <1>8, <1>9, UsersKept
<1>20. Types'
  BY <1>1, <1>5, <1>6, <1>7, <1>10 DEF Types, StatusT
<1>21. Marked'
  <2>1. \A d \in Chunk : status'[d] = status[d] \/ d = c
    BY <1>7
  <2>2. sched'.loaded \subseteq Chunk /\ sched'.loaded \subseteq sched.loaded /\ c \notin sched'.loaded
    BY <1>1, <1>6, Fields
  <2>3. c \notin cached
    BY <1>1, <1>3 DEF Marked, With
  <2> QED BY <1>1, <1>5, <1>11, <2>1, <2>2, <2>3 DEF Marked, With
<1>22. BudgetKept'
  <2>1. Held' \subseteq Held \cup {c}
    BY <1>7 DEF Held, With
  <2>2. Bytes({c}) = Size[c] /\ {c} \in SUBSET Chunk
    BY BytesOne
  <2>3. Bytes({c}) + memory_used <= MemoryMax
    BY <1>1, <1>5, <2>2, Amounts
  <2> QED BY <1>1, <1>5, <2>1, <2>2, <2>3, BudgetGrows
<1>23. EmptyRing'
  BY <1>14 DEF EmptyRing
<1> QED BY <1>17, <1>18, <1>19, <1>20, <1>21, <1>22, <1>23 DEF RingInv

LEMMA MfreeInv ==
    ASSUME RingInv, NEW t \in Thread, NEW c \in Chunk, Mfree(t, c)
    PROVE  RingInv'
<1>1. /\ Types /\ Counted /\ Marked /\ BudgetKept /\ \A u \in Thread : ThreadOK(u)
      /\ sched \in SchedT /\ pc[t] = "idle" /\ lock \in {NoThread, t} /\ RingWhole
  BY DEF RingInv, Mfree, At, Types
<1>2. /\ c \in Ring /\ useCnt[c] = 0 /\ \A u \in Thread : frame[u].chunk # c
      /\ sched' = SchedulerDelete(sched, c) /\ cached' = cached \ {c}
      /\ UNCHANGED <<useCnt, leaked>>
  BY DEF Mfree, Wanted
<1>3. status[c] # "ABSENT" /\ c \notin InDeletion
  BY <1>2 DEF Ring, MemChunks
<1>4. sched' \in SchedT /\ sched'.loaded = sched.loaded \ {c}
  <2>1. Leads(SchedulerDelete(sched, c),
              IF status[c] \notin Outside /\ c \in sched.loaded THEN sched.loaded \ {c} ELSE sched.loaded)
    BY <1>1, DeleteIs
  <2>2. c \in sched.loaded => status[c] \notin Outside
    BY <1>1 DEF Marked, With
  <2> QED BY <1>2, <2>1, <2>2 DEF Leads
<1>5. ASSUME Ring' = Ring \ {c} PROVE EmptyRing'
  <2>1. SUFFICES ASSUME Ring = {c} PROVE sched'.counterActive = None
    BY <1>2, <1>5 DEF EmptyRing
  <2>2. sched.next[c] = c
    <3>1. Ring # {} /\ c \in Ring
      BY <2>1
    <3>2. sched.next[c] \in Ring
      BY <1>1, <3>1, RingIs
    <3> QED BY <2>1, <3>2
  <2> QED BY <1>1, <1>2, <2>2, DeleteIs
<1>6. CASE /\ Goto(t, "mfree", NoThread) /\ SetFrame(t, [Idle EXCEPT !.chunk = c])
           /\ UNCHANGED status
  <2>1. PICK f : f = [Idle EXCEPT !.chunk = c]
    OBVIOUS
  <2>2. f \in FrameT /\ f.chunk = c
    <3>1. c \in Link /\ Idle \in FrameT
      BY <1>1, FrameIs, Locals DEF Link
    <3> QED BY <2>1, <3>1 DEF FrameT
  <2>3. Moves(t, "mfree", f)
    BY <1>1, <1>6, <2>1 DEF Goto, SetFrame, Moves
  <2>4. "mfree" \in PcT /\ "mfree" \notin UsePcs /\ "idle" \notin UsePcs
    BY DEF PcT, UsePcs
  <2>5. /\ pc' \in [Thread -> PcT] /\ frame' \in [Thread -> FrameT] /\ lock' \in Thread \cup {NoThread}
        /\ pc'[t] = "mfree" /\ frame'[t] = f
        /\ \A u \in Thread \ {t} : pc'[u] = pc[u] /\ frame'[u] = frame[u]
    BY <1>1, <2>2, <2>3, <2>4, MovesIs
  <2>6. InDeletion' = InDeletion \cup {c}
    <3>1. \A u \in Thread : pc'[u] = "mfree" <=> pc[u] = "mfree" \/ u = t
      BY <2>5
    <3>2. \A u \in Thread : pc[u] = "mfree" => u # t
      BY <1>1
    <3> QED BY <2>2, <2>5, <3>1, <3>2 DEF InDeletion
  <2>7. Ring' = Ring \ {c}
    BY <1>6, <2>6 DEF Ring, MemChunks
  <2>8. Clear(t, f)
    BY <1>2, <2>2 DEF Clear
  <2>9. \A u \in Thread \ {t} : Keeps(frame[u].chunk)
    BY <1>2, <1>6, <2>7 DEF Keeps
  <2>10. \A u \in Thread \ {t} : ThreadOK(u)'
    BY <1>1, <2>2, <2>3, <2>4, <2>8, <2>9, OthersKept
  <2>11. ThreadOK(t)'
    BY <1>2, <1>3, <1>6, <2>2, <2>4, <2>5 DEF ThreadOK
  <2>12. Counted'
    BY <1>1, <1>2, <2>2, <2>3, <2>4, UsersKept
  <2>13. Types'
    BY <1>1, <1>2, <1>4, <1>6, <2>5 DEF Types
  <2>14. Marked'
    BY <1>1, <1>2, <1>4, <1>6, <2>6 DEF Marked, With
  <2>15. BudgetKept'
    <3>1. Held' = Held
      BY <1>6 DEF Held, With
    <3> QED BY <1>1, <1>2, <3>1, BudgetStays
  <2> QED BY <1>5, <2>7, <2>10, <2>11, <2>12, <2>13, <2>14, <2>15 DEF RingInv
<1>7. CASE status' = [status EXCEPT ![c] = "ABSENT"] /\ UNCHANGED <<lock, pc, frame>>
  <2>1. status' \in StatusT /\ status'[c] = "ABSENT" /\ \A d \in Chunk \ {c} : status'[d] = status[d]
    BY <1>1, <1>7 DEF Types, StatusT
  <2>2. InDeletion' = InDeletion /\ MemChunks' = MemChunks \ {c}
    BY <1>7, <2>1 DEF InDeletion, MemChunks
  <2>3. Ring' = Ring \ {c}
    BY <2>2 DEF Ring
  <2>4. frame[t] \in FrameT /\ pc[t] \in PcT /\ pc[t] # "mfree"
    BY <1>1, FrameIs
  <2>5. Moves(t, pc[t], frame[t])
    BY <1>1, <1>7, FrameSame DEF Moves
  <2>6. \A u \in Thread \ {t} : Keeps(frame[u].chunk)
    BY <1>2, <2>1, <2>3 DEF Keeps
  <2>7. \A u \in Thread \ {t} : ThreadOK(u)'
    BY <1>1, <2>4, <2>5, <2>6, ClearIs, OthersKept
  <2>8. ThreadOK(t)'
    <3>1. "idle" \notin UsePcs
      BY DEF UsePcs
    <3> QED BY <1>1, <1>7, <3>1 DEF ThreadOK
  <2>9. Counted'
    BY <1>1, <1>2, <2>4, <2>5, UsersKept
  <2>10. Types'
    BY <1>1, <1>2, <1>4, <1>7, <2>1 DEF Types, StatusT
  <2>11. Marked'
    <3>1. sched'.loaded \subseteq Chunk /\ cached \subseteq Chunk
      BY <1>1, <1>4, Fields DEF Marked, With
    <3>2. \A d \in Chunk : d = c \/ status'[d] = status[d]
      BY <2>1
    <3> QED BY <1>1, <1>2, <1>4, <2>2, <3>1, <3>2 DEF Marked, With
  <2>12. BudgetKept'
    <3>1. Held' \subseteq Held
      BY <2>1 DEF Held, With, Present
    <3> QED BY <1>1, <1>2, <3>1, BudgetStays
  <2> QED BY <1>5, <2>3, <2>7, <2>8, <2>9, <2>10, <2>11, <2>12 DEF RingInv
<1>8. \/ /\ Goto(t, "mfree", NoThread) /\ SetFrame(t, [Idle EXCEPT !.chunk = c])
         /\ UNCHANGED status
      \/ status' = [status EXCEPT ![c] = "ABSENT"] /\ UNCHANGED <<lock, pc, frame>>
  BY DEF Mfree
<1> QED BY <1>6, <1>7, <1>8

LEMMA MfreeDoneInv ==
    ASSUME RingInv, NEW t \in Thread, MfreeDone(t)
    PROVE  RingInv'
<1>1. /\ Types /\ Counted /\ Marked /\ EmptyRing /\ BudgetKept /\ \A u \in Thread : ThreadOK(u)
      /\ pc[t] = "mfree" /\ lock \in {NoThread, t}
  BY DEF RingInv, MfreeDone, At
<1>2. /\ Idle \in FrameT /\ Idle.chunk = None
      /\ \E d \in Chunk : d = frame[t].chunk
  BY <1>1, FrameIs, Locals DEF ThreadOK
<1>3. PICK c \in Chunk : c = frame[t].chunk
  BY <1>2
<1>4. \A u \in Thread : u # t => frame[u].chunk # c
  BY <1>1, <1>3 DEF ThreadOK
<1>5. /\ status[c] \in {"ALLOCATED", "SWAPPED"} /\ status' = [status EXCEPT ![c] = "ABSENT"]
      /\ leaked' = IF status[c] = "ALLOCATED" THEN leaked + Size[c] ELSE leaked
      /\ Goto(t, "idle", NoThread) /\ SetFrame(t, Idle)
      /\ cached' = cached \ {c} /\ UNCHANGED <<sched, useCnt>>
  BY <1>3 DEF MfreeDone
<1>6. status' \in StatusT /\ status'[c] = "ABSENT" /\ \A d \in Chunk \ {c} : status'[d] = status[d]
  BY <1>1, <1>5 DEF Types, StatusT
<1>7. Moves(t, "idle", Idle)
  BY <1>1, <1>5 DEF Goto, SetFrame, Moves
<1>8. "idle" \in PcT /\ "idle" \notin UsePcs /\ "mfree" \notin UsePcs
  BY DEF PcT, UsePcs
<1>9. /\ pc' \in [Thread -> PcT] /\ frame' \in [Thread -> FrameT] /\ lock' \in Thread \cup {NoThread}
      /\ pc'[t] = "idle" /\ frame'[t] = Idle
      /\ \A u \in Thread \ {t} : pc'[u] = pc[u] /\ frame'[u] = frame[u]
  BY <1>1, <1>2, <1>7, <1>8, MovesIs
<1>10. c \in InDeletion
  BY <1>1, <1>3 DEF InDeletion
<1>11. InDeletion' = InDeletion \ {c}
  <2>1. \A u \in Thread : pc'[u] = "mfree" <=> pc[u] = "mfree" /\ u # t
    BY <1>9
  <2> QED BY <1>3, <1>4, <1>9, <2>1 DEF InDeletion
<1>12. MemChunks' = MemChunks \ {c}
  BY <1>6 DEF MemChunks
<1>13. Ring' = Ring
  BY <1>10, <1>11, <1>12 DEF Ring
<1>14. Clear(t, Idle)
  BY <1>1, <1>2, ClearIs
<1>15. \A u \in Thread \ {t} : Keeps(frame[u].chunk)
  BY <1>4, <1>6, <1>13 DEF Keeps
<1>16. \A u \in Thread \ {t} : ThreadOK(u)'
  BY <1>1, <1>2, <1>7, <1>8, <1>14, <1>15, OthersKept
<1>17. ThreadOK(t)'
  BY <1>2, <1>8, <1>9 DEF ThreadOK
<1>18. Counted'
  BY <1>1, <1>2, <1>5, <1>7, <1>8, UsersKept
<1>19. Types'
  <2>1. leaked' \in Nat
    BY <1>1, <1>5, Sizes DEF Types
  <2> QED BY <1>1, <1>5, <1>6, <1>9, <2>1 DEF Types, StatusT
<1>20. Marked'
  <2>1. c \notin sched.loaded /\ c \notin cached'
    BY <1>1, <1>5, <1>10 DEF Marked
  <2>2. \A d \in Chunk : status'[d] = status[d] \/ d = c
    BY <1>6
  <2>3. sched.loaded \subseteq Chunk /\ cached \subseteq Chunk
    BY <1>1, Fields DEF Types, Marked, With
  <2> QED BY <1>1, <1>5, <1>11, <2>1, <2>2, <2>3 DEF Marked, With
<1>21. BudgetKept'
  <2>1. PICK S \in SUBSET Chunk : S = Held
    BY HeldIs
  <2>2. CASE status[c] = "SWAPPED"
    <3>1. Held' \subseteq Held /\ leaked' = leaked
      BY <1>5, <1>6, <2>2 DEF Held, With, Present
    <3> QED BY <1>1, <3>1, BudgetStays
  <2>3. CASE status[c] = "ALLOCATED"
    <3>1. Held' = S \ {c} /\ c \in S
      BY <1>6, <2>1, <2>3 DEF Held, With, Present
    <3>2. Bytes(S) = Bytes(S \ {c}) + Size[c]
      BY <3>1, BytesLess
    <3>3. memory_used' = Bytes(S \ {c}) + leaked' /\ memory_used = Bytes(S) + leaked
      BY <2>1, <3>1 DEF memory_used, Held
    <3>4. Bytes(S) \in Nat /\ Bytes(S \ {c}) \in Nat /\ Size[c] \in Nat
      BY BytesType, Sizes
    <3> QED BY <1>1, <1>5, <2>3, <3>2, <3>3, <3>4 DEF BudgetKept, Types
  <2> QED BY <1>5, <2>2, <2>3
<1>22. EmptyRing'
  BY <1>1, <1>5, <1>13 DEF EmptyRing
<1> QED BY <1>16, <1>17, <1>18, <1>19, <1>20, <1>21, <1>22 DEF RingInv

LEMMA ArriveInv ==
    ASSUME RingInv, NEW c \in Chunk, Arrive(c)
    PROVE  RingInv'
<1>1. /\ Types /\ Counted /\ Marked /\ EmptyRing /\ BudgetKept /\ \A u \in Thread : ThreadOK(u)
      /\ lock = NoThread /\ status[c] \in {"SWAPIN", "SWAPOUT"}
      /\ UNCHANGED <<sched, useCnt, leaked, lock, pc, frame>>
  BY DEF RingInv, Arrive
<1>2. /\ status[c] = "SWAPOUT" => status'[c] = "SWAPPED"
      /\ status[c] = "SWAPIN" => status'[c] \in {"ALLOCATED", "INUSE"}
      /\ status'[c] \in {"SWAPPED", "ALLOCATED", "INUSE"}
      /\ status' \in StatusT /\ \A d \in Chunk \ {c} : status'[d] = status[d]
  BY <1>1 DEF Arrive, Types, StatusT, Present, Outside
<1>3. InDeletion' = InDeletion /\ MemChunks' = MemChunks
  <2>1. \A d \in Chunk : status'[d] = "ABSENT" <=> status[d] = "ABSENT"
    BY <1>1, <1>2
  <2> QED BY <1>1, <2>1 DEF InDeletion, MemChunks
<1>4. Ring' = Ring
  BY <1>3 DEF Ring
<1>5. ASSUME NEW u \in Thread PROVE ThreadOK(u)'
  <2>1. Keeps(frame[u].chunk)
    BY <1>1, <1>2, <1>4 DEF Keeps
  <2>2. lock # u
    BY <1>1, RingAssumption
  <2>3. pc[u] \in {"mmalloc", "mfree"} => \A v \in Thread : v # u => frame'[v].chunk # frame[u].chunk
    BY <1>1 DEF ThreadOK
  <2> QED BY <1>1, <2>1, <2>2, <2>3, ThreadKept
<1>6. Counted'
  BY <1>1 DEF Counted, UsersOf
<1>7. Types'
  BY <1>1, <1>2 DEF Types, StatusT
<1>8. Marked'
  <2>1. \A d \in Chunk : d = c \/ status'[d] = status[d]
    BY <1>2
  <2>2. sched.loaded \subseteq Chunk /\ cached \subseteq Chunk
    BY <1>1, Fields DEF Types, Marked, With
  <2>3. c \in sched.loaded => status'[c] \in {"ALLOCATED", "INUSE"}
    BY <1>1, <1>2 DEF Marked, With, Outside
  <2>4. sched'.loaded \cap (With(Outside \cup {"ABSENT"})' \cup InDeletion') = {}
    BY <1>1, <1>3, <2>1, <2>2, <2>3 DEF Marked, With, Outside
  <2>5. cached' = cached \/ (cached' = cached \cup {c} /\ status[c] = "SWAPIN")
    BY DEF Arrive
  <2>6. c \notin cached
    BY <1>1 DEF Marked, With
  <2>7. ASSUME NEW d \in cached'
        PROVE  d \in Chunk /\ status'[d] \in {"ALLOCATED", "INUSE"}
    <3>1. CASE d = c
      BY <1>2, <2>5, <2>6, <2>7, <3>1
    <3>2. CASE d # c
      BY <1>1, <2>1, <2>2, <2>5, <2>7, <3>2 DEF Marked, With
    <3> QED BY <3>1, <3>2
  <2>8. cached' \subseteq With({"ALLOCATED", "INUSE"})'
    BY <2>7 DEF With
  <2> QED BY <2>4, <2>8 DEF Marked
<1>9. BudgetKept'
  <2>1. Held' \subseteq Held
    <3>1. ASSUME NEW d \in Chunk, status'[d] \in Present \cup {"SWAPOUT"}
          PROVE  status[d] \in Present \cup {"SWAPOUT"}
      BY <1>1, <1>2, <3>1 DEF Present
    <3> QED BY <3>1 DEF Held, With
  <2> QED BY <1>1, <2>1, BudgetStays
<1>10. EmptyRing'
  BY <1>1, <1>4 DEF EmptyRing
<1> QED BY <1>5, <1>6, <1>7, <1>8, <1>9, <1>10 DEF RingInv

-----------------------------------------------------------------------------
(* The invariant, and what follows from it.                                *)

LEMMA InitInv == Init => RingInv
<1> SUFFICES ASSUME Init PROVE RingInv
  OBVIOUS
<1>1. MemChunks = {} /\ Ring = {} /\ InDeletion = {}
  BY DEF Init, MemChunks, Ring, InDeletion
<1>2. None \in Link /\ Idle \in FrameT /\ Idle.chunk = None
  BY DEF Link, FrameT, Idle
<1>3. sched \in SchedT /\ sched.loaded = {} /\ sched.counterActive = None
  BY <1>2 DEF Init, EmptySched, SchedT
<1>4. "idle" \in PcT /\ "idle" \notin UsePcs
  BY DEF PcT, UsePcs
<1>5. Types
  BY <1>2, <1>3, <1>4 DEF Init, Types
<1>6. Counted
  <2>1. \A c : UsersOf(c) = {}
    BY <1>4 DEF Init, UsersOf
  <2> QED BY <2>1, FS_EmptySet DEF Init, Counted
<1>7. Marked /\ EmptyRing
  BY <1>1, <1>3 DEF Init, Marked, EmptyRing
<1>8. BudgetKept
  <2>1. With(Present \cup {"SWAPOUT"}) = {}
    BY DEF Init, With, Present
  <2>2. memory_used = 0
    BY <2>1, BytesNone DEF Init, memory_used
  <2> QED BY <2>2, RingAssumption DEF BudgetKept
<1>9. ASSUME NEW t \in Thread PROVE ThreadOK(t)
  BY <1>2, <1>4 DEF Init, ThreadOK
<1> QED BY <1>5, <1>6, <1>7, <1>8, <1>9 DEF RingInv

LEMMA NextInv == RingInv /\ [Next]_vars => RingInv'
<1> SUFFICES ASSUME RingInv, [Next]_vars PROVE RingInv'
  OBVIOUS
<1>1. ASSUME NEW t \in Thread, NEW c \in Chunk, SetUse(t, c) \/ Mmalloc(t, c) \/ Mfree(t, c)
      PROVE  RingInv'
  BY <1>1, SetUseInv, MmallocInv, MfreeInv
<1>2. ASSUME NEW t \in Thread, Grant(t) \/ UnsetUse(t) \/ Untouch(t)
      PROVE  RingInv'
  BY <1>2, GrantInv, UnsetUseInv, UntouchInv
<1>3. ASSUME NEW t \in Thread, SwapInBegin(t) \/ SwapInPlan(t) \/ SwapInEvict(t)
      PROVE  RingInv'
  BY <1>3, SwapInBeginInv, SwapInPlanInv, SwapInEvictInv
<1>4. ASSUME NEW t \in Thread, RoomFound(t) \/ RoomMade(t) \/ RoomAwaited(t) \/ CacheCleaned(t)
      PROVE  RingInv'
  BY <1>4, RoomFoundInv, RoomMadeInv, RoomAwaitedInv, CacheCleanedInv
<1>5. ASSUME NEW t \in Thread, SwapInRead(t) \/ SwapInLost(t) \/ SwapInPlain(t)
      PROVE  RingInv'
  BY <1>5, SwapInReadInv, SwapInLostInv, SwapInPlainInv
<1>6. ASSUME NEW t \in Thread, MmallocDone(t) \/ MfreeDone(t)
      PROVE  RingInv'
  BY <1>6, MmallocDoneInv, MfreeDoneInv
<1>7. ASSUME NEW c \in Chunk, Arrive(c) PROVE RingInv'
  BY <1>7, ArriveInv
<1>8. CASE UNCHANGED vars
  BY <1>8 DEF vars, RingInv, Types, Counted, UsersOf, Marked, EmptyRing, BudgetKept, ThreadOK,
              Ring, MemChunks, InDeletion, With, memory_used
<1>9. CASE Next
  BY <1>1, <1>2, <1>3, <1>4, <1>5, <1>6, <1>7, <1>9 DEF Next
<1> QED BY <1>8, <1>9

LEMMA Facts == RingInv => TypeOK /\ GuessesInRam /\ BudgetKept
<1> SUFFICES ASSUME RingInv PROVE TypeOK /\ GuessesInRam /\ BudgetKept
  OBVIOUS
<1>1. Types /\ Counted /\ Marked /\ BudgetKept
  BY DEF RingInv
<1>2. useCnt \in [Chunk -> 0..Cardinality(Thread)]
  <2>1. ASSUME NEW c \in Chunk PROVE useCnt[c] \in 0..Cardinality(Thread)
    <3>1. UsersOf(c) \in SUBSET Thread
      BY DEF UsersOf
    <3>2. Cardinality(UsersOf(c)) <= Cardinality(Thread) /\ Cardinality(Thread) \in Nat
          /\ Cardinality(UsersOf(c)) \in Nat
      BY <3>1, RingAssumption, FS_Subset, FS_CardinalityType
    <3> QED BY <1>1, <3>2 DEF Counted
  <2> QED BY <1>1, <2>1 DEF Types
<1>3. cached \subseteq With({"ALLOCATED", "INUSE"})
  BY <1>1 DEF Marked
<1>4. TypeOK
  BY <1>1, <1>2, <1>3, Fields DEF TypeOK, Types, Link
<1>5. GuessesInRam
  BY <1>1 DEF GuessesInRam, Marked
<1> QED BY <1>1, <1>4, <1>5

\* The invariant holds in every state: whatever the threads do, a chunk that is used or
\* waited for stays in the ring, each counted use has its user, and a read that gave up
\* the mutex has its room when it goes on.
THEOREM RingInvariant == Spec => []RingInv
BY InitInv, NextInv, PTL DEF Spec

\* The links and pointers of the ring lead to elements or are null, a use count is the
\* number of its users, and swapOut, decay, cleanupCachedElements and mfree leave the
\* cached location only to chunks that are in RAM.
THEOREM RingTypes == Spec => []TypeOK
BY RingInvariant, Facts, PTL

\* memory_used stays within memory_max: every path that takes memory has looked for room
\* under the mutex since it last gave it up, and what a transfer or mfree takes out is
\* subtracted once at most.
THEOREM RingBudget == Spec => []BudgetKept
BY RingInvariant, Facts, PTL

\* No chunk keeps the flag preemptiveLoaded when it leaves RAM: swapOut, decay and mfree
\* clear it for all they take, and swapIn sets it only for what it reads.
THEOREM RingGuesses == Spec => []GuessesInRam
BY RingInvariant, Facts, PTL
=============================================================================
